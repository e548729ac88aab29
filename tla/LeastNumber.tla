---------------------------- MODULE LeastNumber -----------------------------
(***************************************************************************)
(* The argument by a least counterexample, which stands in for induction,  *)
(* and what recursive functions and folds are, which follows from it.      *)
(***************************************************************************)
EXTENDS Integers, FiniteSetsExt, WellFoundedInduction, TLAPS

\* A set of natural numbers has a least element.
LEMMA Least ==
    ASSUME NEW S \in SUBSET Nat, S # {}
    PROVE  \E i \in S : \A j \in S : i <= j
<1> DEFINE R == OpToRel(<, Nat)
<1>1. IsWellFoundedOn(R, Nat)
  BY NatLessThanWellFounded
<1>2. R = {pair \in Nat \X Nat : pair[1] < pair[2]}
  BY DEF OpToRel
<1> HIDE DEF R
<1>3. PICK i \in S : \A j \in S : <<j, i>> \notin R
  BY <1>1, WFMin
<1>4. ASSUME NEW j \in S
      PROVE  i <= j
  <2>1. ~(j < i)
    BY <1>2, <1>3
  <2> QED
    BY <2>1
<1> QED
  BY <1>4

\* f says what step makes of x in each number of steps.
Iterates(f, x, step, n) == f = [i \in 0..n |-> IF i = 0 THEN x ELSE step[f[i - 1]]]

\* There is such a function, and if the step stays within X, so does the function.
LEMMA Iterated ==
    ASSUME NEW X, NEW x \in X, NEW step, \A y \in X : step[y] \in X, NEW n \in Nat
    PROVE  /\ \E f : Iterates(f, x, step, n)
           /\ \A f : Iterates(f, x, step, n) =>
                 f \in [0..n -> X] /\ f[0] = x /\ \A i \in 1..n : f[i] = step[f[i - 1]]
<1> DEFINE Is(g, m) == g = [i \in 0..m |-> IF i = 0 THEN x ELSE step[g[i - 1]]]
           Without == {m \in Nat : ~ \E g \in [0..m -> X] : Is(g, m)}
<1>1. ASSUME NEW m \in Nat, NEW g \in [0..m -> X], Is(g, m)
      PROVE  \E h \in [0..m + 1 -> X] : Is(h, m + 1)
  <2> DEFINE h == [i \in 0..m + 1 |-> IF i = m + 1 THEN step[g[m]] ELSE g[i]]
  <2>1. h \in [0..m + 1 -> X]
    <3>1. g[m] \in X
      BY <1>1
    <3> QED
      BY <3>1
  <2>2. ASSUME NEW i \in 0..m + 1
        PROVE  h[i] = IF i = 0 THEN x ELSE step[h[i - 1]]
    <3>1. CASE i = m + 1
      BY <3>1
    <3>2. CASE i # m + 1
      <4>1. i \in 0..m /\ (i # 0 => i - 1 \in 0..m)
        BY <3>2
      <4>2. g[i] = IF i = 0 THEN x ELSE step[g[i - 1]]
        BY <1>1, <4>1
      <4> QED
        BY <4>1, <4>2
    <3> QED
      BY <3>1, <3>2
  <2>3. h = [i \in 0..m + 1 |-> h[i]]
    OBVIOUS
  <2> HIDE DEF h
  <2>4. Is(h, m + 1)
    BY <2>2, <2>3
  <2> QED
    BY <2>1, <2>4
<1>2. \E g \in [0..0 -> X] : Is(g, 0)
  <2> DEFINE g == [i \in 0..0 |-> x]
  <2>1. g \in [0..0 -> X] /\ Is(g, 0)
    OBVIOUS
  <2> QED
    BY <2>1
<1>3. Without = {}
  <2>1. SUFFICES ASSUME Without # {}
                 PROVE  FALSE
    OBVIOUS
  <2>2. PICK m \in Without : \A j \in Without : m <= j
    <3>1. Without \in SUBSET Nat
      OBVIOUS
    <3> HIDE DEF Without
    <3> QED
      BY <2>1, <3>1, Least
  <2>3. m \in Nat \ {0} /\ m - 1 \in Nat
    <3>1. m \in Nat /\ 0 \notin Without
      BY <1>2, <2>2
    <3>2. m # 0
      <4> HIDE DEF Without
      <4> QED
        BY <2>2, <3>1
    <3> QED
      BY <3>1, <3>2
  <2>4. m - 1 \notin Without
    <3> HIDE DEF Without
    <3> QED
      BY <2>2, <2>3
  <2>5. PICK g \in [0..m - 1 -> X] : Is(g, m - 1)
    BY <2>3, <2>4
  <2> HIDE DEF Is
  <2>6. \E h \in [0..m - 1 + 1 -> X] : Is(h, m - 1 + 1)
    BY <1>1, <2>3, <2>5
  <2>7. m - 1 + 1 = m
    BY <2>3
  <2> QED
    BY <2>2, <2>6, <2>7
<1>4. \E f : Is(f, n)
  <2> HIDE DEF Is
  <2> QED
    BY <1>3
<1>5. SUFFICES ASSUME NEW f, Is(f, n)
               PROVE  f \in [0..n -> X] /\ f[0] = x /\ \A i \in 1..n : f[i] = step[f[i - 1]]
  BY <1>4 DEF Iterates
<1>6. \A i \in 0..n : f[i] = IF i = 0 THEN x ELSE step[f[i - 1]]
  BY <1>5
<1>7. DOMAIN f = 0..n /\ f = [i \in 0..n |-> f[i]]
  BY <1>5
<1> HIDE DEF Is
<1> DEFINE Outside == {i \in 0..n : f[i] \notin X}
<1>8. Outside = {}
  <2>1. SUFFICES ASSUME Outside # {}
                 PROVE  FALSE
    OBVIOUS
  <2>2. PICK m \in Outside : \A j \in Outside : m <= j
    <3>1. Outside \in SUBSET Nat
      OBVIOUS
    <3> HIDE DEF Outside
    <3> QED
      BY <2>1, <3>1, Least
  <2>3. m \in 0..n /\ f[m] \notin X /\ m # 0
    BY <1>6, <2>2
  <2>4. m - 1 \in 0..n /\ m - 1 \notin Outside
    <3>1. m - 1 \in 0..n /\ ~(m <= m - 1)
      BY <2>3
    <3> HIDE DEF Outside
    <3> QED
      BY <2>2, <3>1
  <2>5. f[m - 1] \in X
    BY <2>4
  <2> QED
    BY <1>6, <2>3, <2>5
<1>9. f \in [0..n -> X]
  BY <1>7, <1>8
<1>10. f[0] = x /\ \A i \in 1..n : f[i] = step[f[i - 1]]
  <2>1. 0 \in 0..n /\ \A i \in 1..n : i \in 0..n /\ i # 0
    OBVIOUS
  <2> QED
    BY <1>6, <2>1
<1> QED
  BY <1>9, <1>10
-----------------------------------------------------------------------------
\* What holds of 0 and goes from each number to the next holds up to n.
LEMMA Reached ==
    ASSUME NEW n \in Nat, NEW S, 0 \in S, \A i \in 1..n : i - 1 \in S => i \in S
    PROVE  \A i \in 0..n : i \in S
<1> DEFINE Left == {i \in 0..n : i \notin S}
<1>1. SUFFICES ASSUME Left # {}
               PROVE  FALSE
  OBVIOUS
<1>2. Left \in SUBSET Nat
  OBVIOUS
<1>3. PICK i \in Left : \A j \in Left : i <= j
  <2> HIDE DEF Left
  <2> QED
    BY <1>1, <1>2, Least
<1>4. i \in 1..n /\ i - 1 \in 0..n /\ ~(i <= i - 1)
  BY <1>3
<1>5. i - 1 \notin Left
  <2> HIDE DEF Left
  <2> QED
    BY <1>3, <1>4
<1> QED
  BY <1>3, <1>4, <1>5

\* A bounded set of numbers has a greatest one.
LEMMA Greatest ==
    ASSUME NEW n \in Nat, NEW S \in SUBSET (0..n), S # {}
    PROVE  Max(S) \in S /\ \A j \in S : j <= Max(S)
<1> DEFINE D == {n - i : i \in S}
<1>1. D \in SUBSET Nat /\ D # {}
  <2>1. \A i \in S : i \in Nat /\ i <= n
    OBVIOUS
  <2>2. \A i \in S : n - i \in Nat
    BY <2>1
  <2> QED
    BY <2>2
<1>2. PICK d \in D : \A e \in D : d <= e
  BY <1>1, Least
<1>3. PICK i \in S : d = n - i
  BY <1>2
<1>4. ASSUME NEW j \in S
      PROVE  i >= j
  <2>1. d <= n - j
    BY <1>2
  <2> QED
    BY <1>3, <2>1
<1>5. Max(S) \in S /\ \A j \in S : Max(S) >= j
  BY <1>4 DEF Max
<1> HIDE DEF D
<1>6. \A j \in 0..n : j \in Nat
  OBVIOUS
<1>7. ASSUME NEW j \in S
      PROVE  j \in Nat
  <2>1. j \in 0..n
    OBVIOUS
  <2> QED
    BY <1>6, <2>1
<1> QED
  BY <1>5, <1>7

(***************************************************************************)
(* The folds of the library take the last position off a set of positions. *)
(***************************************************************************)
\* f has a value for every set of positions up to n.
Folds(f, x, step, n) ==
    f = [s \in SUBSET (1..n) |->
            IF s = {} THEN x ELSE step[<<f[s \ {Max(s)}], Max(s)>>]]

\* There is such a function, if the step stays within X.
LEMMA FoldExists ==
    ASSUME NEW X, NEW x \in X, NEW n \in Nat, NEW step, \A y \in X, i \in 1..n : step[<<y, i>>] \in X
    PROVE  \E f \in [SUBSET (1..n) -> X] : Folds(f, x, step, n)
<1> DEFINE Has(m) == \E f \in [SUBSET (1..m) -> X] : Folds(f, x, step, m)
           S == {m \in Nat : Has(m)}
<1>1. Has(0)
  <2> DEFINE f == [s \in SUBSET (1..0) |-> x]
  <2>1. f \in [SUBSET (1..0) -> X]
    OBVIOUS
  <2>2. \A s \in SUBSET (1..0) : s = {}
    OBVIOUS
  <2>3. Folds(f, x, step, 0)
    BY <2>2 DEF Folds
  <2> QED
    BY <2>1, <2>3
<1>2. ASSUME NEW m \in 1..n, Has(m - 1)
      PROVE  Has(m)
  <2>1. PICK f \in [SUBSET (1..m - 1) -> X] : Folds(f, x, step, m - 1)
    BY <1>2
  <2> DEFINE g == [s \in SUBSET (1..m) |->
                     IF m \in s THEN step[<<f[s \ {m}], m>>] ELSE f[s]]
  <2>2. \A s \in SUBSET (1..m) : s \ {m} \in SUBSET (1..m - 1) /\ (m \notin s => s = s \ {m})
    OBVIOUS
  <2>3. \A s \in SUBSET (1..m - 1) : s \in SUBSET (1..m) /\ m \notin s
    OBVIOUS
  <2>4. \A s \in SUBSET (1..m) : f[s \ {m}] \in X
    BY <2>2
  <2>5. g \in [SUBSET (1..m) -> X]
    <3>1. \A s \in SUBSET (1..m) : m \in s => step[<<f[s \ {m}], m>>] \in X
      BY <2>4
    <3>2. \A s \in SUBSET (1..m) : m \notin s => f[s] \in X
      BY <2>2, <2>4
    <3> QED
      BY <3>1, <3>2
  <2>6. \A s \in SUBSET (1..m - 1) : g[s] = f[s]
    BY <2>3
  <2>7. ASSUME NEW s \in SUBSET (1..m)
        PROVE  g[s] = IF s = {} THEN x ELSE step[<<g[s \ {Max(s)}], Max(s)>>]
    <3>1. CASE m \in s
      <4>1. Max(s) = m
        <5>1. s \in SUBSET (0..m) /\ s # {} /\ m \in Nat
          BY <3>1
        <5> HIDE DEF g
        <5>2. Max(s) \in s /\ m <= Max(s)
          BY <3>1, <5>1, Greatest
        <5>3. Max(s) \in 1..m
          BY <5>2
        <5> QED
          BY <5>2, <5>3
      <4>2. g[s \ {m}] = f[s \ {m}]
        BY <2>2, <2>6
      <4> QED
        BY <3>1, <4>1, <4>2
    <3>2. CASE m \notin s
      <4>1. s \in SUBSET (1..m - 1) /\ s \ {Max(s)} \in SUBSET (1..m - 1)
        BY <2>2, <3>2
      <4>2. f[s] = IF s = {} THEN x ELSE step[<<f[s \ {Max(s)}], Max(s)>>]
        BY <2>1, <4>1 DEF Folds
      <4> HIDE DEF g
      <4> QED
        BY <2>6, <4>1, <4>2
    <3> QED
      BY <3>1, <3>2
  <2> HIDE DEF g
  <2>8. Folds(g, x, step, m)
    <3>1. g = [s \in SUBSET (1..m) |-> g[s]]
      BY <2>5
    <3> QED
      BY <2>7, <3>1 DEF Folds
  <2> QED
    BY <2>5, <2>8
<1> HIDE DEF Has
<1>3. 0 \in S /\ \A m \in 1..n : m - 1 \in S => m \in S
  BY <1>1, <1>2
<1>4. n \in S
  <2> HIDE DEF S
  <2>1. \A m \in 0..n : m \in S
    BY <1>3, Reached
  <2> QED
    BY <2>1
<1> QED
  BY <1>4 DEF Has

\* What the set of the first i positions is to a fold.
LEMMA FirstPositions ==
    ASSUME NEW n \in Nat, NEW i \in 1..n
    PROVE  /\ 1..i \in SUBSET (1..n) /\ 1..i # {} /\ 1..i - 1 \in SUBSET (1..n)
           /\ Max(1..i) = i /\ (1..i) \ {i} = 1..i - 1
<1>1. 1..i \in SUBSET (0..n) /\ i \in 1..i /\ i \in Nat
  OBVIOUS
<1>2. Max(1..i) \in 1..i /\ i <= Max(1..i)
  BY <1>1, Greatest
<1> QED
  BY <1>1, <1>2
\* The step stays within X.
StaysIn(step, X, n) == \A y \in X, i \in 1..n : step[<<y, i>>] \in X

\* What a function says that folds with a step.
FoldsWith(f, x, step, n) ==
    /\ f[{}] = x
    /\ \A s \in SUBSET (1..n) :
          s # {} => /\ Max(s) \in 1..n /\ s \ {Max(s)} \in SUBSET (1..n)
                    /\ f[s] = step[<<f[s \ {Max(s)}], Max(s)>>]

\* The same, set by set.
LEMMA FoldWith ==
    ASSUME NEW X, NEW x \in X, NEW n \in Nat, NEW step, StaysIn(step, X, n)
    PROVE  \E f \in [SUBSET (1..n) -> X] : FoldsWith(f, x, step, n)
<1>1. PICK f \in [SUBSET (1..n) -> X] : Folds(f, x, step, n)
  BY FoldExists DEF StaysIn
<1>2. {} \in SUBSET (1..n)
  OBVIOUS
<1>3. f[{}] = x
  BY <1>1, <1>2 DEF Folds
<1>4. ASSUME NEW s \in SUBSET (1..n), s # {}
      PROVE  /\ Max(s) \in 1..n /\ s \ {Max(s)} \in SUBSET (1..n)
             /\ f[s] = step[<<f[s \ {Max(s)}], Max(s)>>]
  <2>1. s \in SUBSET (0..n)
    OBVIOUS
  <2>2. Max(s) \in s
    BY <1>4, <2>1, Greatest
  <2> QED
    BY <1>1, <1>4, <2>2 DEF Folds
<1>5. FoldsWith(f, x, step, n)
  BY <1>3, <1>4 DEF FoldsWith
<1> QED
  BY <1>5

\* g runs from x through X.
Course(g, X, x, step, n) ==
    /\ g \in [0..n -> X]
    /\ g[0] = x
    /\ \A i \in 1..n : g[i] = step[<<g[i - 1], i>>]

\* f folds with step as long as what it has so far is in X.
FoldsWithin(f, X, step, n) ==
    \A i \in 1..n : f[1..i - 1] \in X => f[1..i] = step[<<f[1..i - 1], i>>]

\* What it has after each position.
LEMMA FoldGoesOn ==
    ASSUME NEW X, NEW x \in X, NEW n \in Nat, NEW step, StaysIn(step, X, n),
           NEW f, f[{}] = x, FoldsWithin(f, X, step, n)
    PROVE  \E g : Course(g, X, x, step, n) /\ g[n] = f[1..n]
<1> DEFINE g == [i \in 0..n |-> f[1..i]]
           S == {i \in 0..n : g[i] \in X}
<1>1. g[0] = x /\ g[n] = f[1..n]
  <2>1. 1..0 = {} /\ 0 \in 0..n /\ n \in 0..n
    OBVIOUS
  <2> QED
    BY <2>1
<1>2. ASSUME NEW i \in 1..n, g[i - 1] \in X
      PROVE  g[i] = step[<<g[i - 1], i>>] /\ g[i] \in X
  <2>1. i - 1 \in 0..n /\ i \in 0..n
    OBVIOUS
  <2>2. g[i] = f[1..i] /\ g[i - 1] = f[1..i - 1]
    BY <2>1
  <2> HIDE DEF g
  <2>3. g[i] = step[<<g[i - 1], i>>]
    BY <1>2, <2>2 DEF FoldsWithin
  <2> QED
    BY <1>2, <2>3 DEF StaysIn
<1>3. DOMAIN g = 0..n /\ g = [i \in 0..n |-> g[i]]
  OBVIOUS
<1> HIDE DEF g
<1>4. 0 \in S
  BY <1>1
<1>5. ASSUME NEW i \in 1..n, i - 1 \in S
      PROVE  i \in S
  <2>1. g[i - 1] \in X /\ i \in 0..n
    BY <1>5
  <2> QED
    BY <1>2, <2>1
<1>6. \A i \in 0..n : g[i] \in X
  <2>1. \A i \in 0..n : i \in S
    <3> HIDE DEF S
    <3> QED
      BY <1>4, <1>5, Reached
  <2> QED
    BY <2>1
<1>7. g \in [0..n -> X]
  BY <1>3, <1>6
<1>8. \A i \in 1..n : g[i] = step[<<g[i - 1], i>>]
  <2>1. \A i \in 1..n : i - 1 \in 0..n
    OBVIOUS
  <2> QED
    BY <1>2, <1>6, <2>1
<1>9. Course(g, X, x, step, n)
  BY <1>1, <1>7, <1>8 DEF Course
<1> QED
  BY <1>1, <1>9

\* There is a course through X.
LEMMA CourseExists ==
    ASSUME NEW X, NEW x \in X, NEW n \in Nat, NEW step, StaysIn(step, X, n)
    PROVE  \E g : Course(g, X, x, step, n)
<1>1. PICK f \in [SUBSET (1..n) -> X] : FoldsWith(f, x, step, n)
  BY FoldWith
<1>2. f[{}] = x
  BY <1>1 DEF FoldsWith
<1>3. FoldsWithin(f, X, step, n)
  <2>1. ASSUME NEW i \in 1..n
        PROVE  f[1..i] = step[<<f[1..i - 1], i>>]
    <3>1. /\ 1..i \in SUBSET (1..n) /\ 1..i # {}
          /\ Max(1..i) = i /\ (1..i) \ {i} = 1..i - 1
      BY FirstPositions
    <3> QED
      BY <1>1, <3>1 DEF FoldsWith
  <2> QED
    BY <2>1 DEF FoldsWithin
<1> QED
  BY <1>2, <1>3, FoldGoesOn

\* There is one only.
LEMMA CourseUnique ==
    ASSUME NEW X, NEW x, NEW n \in Nat, NEW step,
           NEW g, Course(g, X, x, step, n), NEW h, Course(h, X, x, step, n)
    PROVE  g = h
<1> DEFINE S == {i \in 0..n : g[i] = h[i]}
<1>1. 0 \in S
  BY DEF Course
<1>2. ASSUME NEW i \in 1..n, i - 1 \in S
      PROVE  i \in S
  <2>1. g[i - 1] = h[i - 1] /\ i \in 0..n
    BY <1>2
  <2> QED
    BY <2>1 DEF Course
<1>3. \A i \in 0..n : g[i] = h[i]
  <2>1. \A i \in 0..n : i \in S
    <3> HIDE DEF S
    <3> QED
      BY <1>1, <1>2, Reached
  <2> QED
    BY <2>1
<1> QED
  BY <1>3 DEF Course
=============================================================================
