----------------------------- MODULE AofProofs ------------------------------
(***************************************************************************)
(* What the log keeps between memory and file, and what recovery restores, *)
(* for every number of clients, commands and crashes.                      *)
(***************************************************************************)
EXTENDS AofLogger, SequenceTheorems, TLAPS

\* What the operating system has or has been given.
Given == file \o batch

\* The frames that are whole come in the order of their mutations.
Ascending(s) ==
    \A i, j \in DOMAIN s : i < j /\ Torn \notin {s[i], s[j]} => s[i] < s[j]

\* All frames are below n.
AllBelow(s, n) == \A i \in DOMAIN s : s[i] < n

\* s is how t begins.
Begins(s, t) == Len(s) <= Len(t) /\ \A i \in 1..Len(s) : s[i] = t[i]

\* p is how s begins, but that its last frame may be torn.
PartOf(p, s) ==
    Len(p) <= Len(s) /\ \A i \in 1..Len(p) : p[i] = s[i] \/ (p[i] = Torn /\ i = Len(p))

\* IsPrefix says the same of sequences.
LEMMA PrefixBegins ==
    ASSUME NEW s \in Seq(Nat), NEW t \in Seq(Nat)
    PROVE  IsPrefix(s, t) <=> Begins(s, t)
<1>1. Len(s) \in Nat /\ Len(t) \in Nat
  BY LenProperties
<1>2. SubSeq(s, 1, Len(s)) = s
  BY SubSeqFull
<1>3. ASSUME Len(s) <= Len(t)
      PROVE  /\ SubSeq(t, 1, Len(s)) \in Seq(Nat) /\ Len(SubSeq(t, 1, Len(s))) = Len(s)
             /\ \A i \in 1..Len(s) : SubSeq(t, 1, Len(s))[i] = t[i]
  <2>1. \A i \in 1..Len(s) : t[i] \in Nat
    BY <1>1, <1>3, ElementOfSeq
  <2>2. /\ SubSeq(t, 1, Len(s)) \in Seq(Nat)
        /\ Len(SubSeq(t, 1, Len(s))) = IF 1 <= Len(s) THEN Len(s) - 1 + 1 ELSE 0
        /\ \A i \in 1..Len(s) - 1 + 1 : SubSeq(t, 1, Len(s))[i] = t[1 + i - 1]
    BY <1>1, <2>1, SubSeqProperties
  <2> QED
    BY <1>1, <2>2
<1>4. ASSUME IsPrefix(s, t)
      PROVE  Begins(s, t)
  BY <1>2, <1>3, <1>4 DEF IsPrefix, Begins
<1>5. ASSUME Begins(s, t)
      PROVE  IsPrefix(s, t)
  <2>1. SubSeq(t, 1, Len(s)) = s
    BY <1>3, <1>5, SeqEqual DEF Begins
  <2> QED
    BY <1>2, <1>5, <2>1 DEF IsPrefix, Begins
<1> QED
  BY <1>4, <1>5

\* A part of frames is how they begin, and perhaps a torn one.
LEMMA PartialShape ==
    ASSUME NEW s \in Seq(Nat), NEW p \in Partial(s)
    PROVE  p \in Seq(Nat) /\ PartOf(p, s)
<1>1. Len(s) \in Nat /\ \A i \in 1..Len(s) : s[i] \in Nat
  BY LenProperties, ElementOfSeq
<1>2. ASSUME NEW n \in 0..Len(s)
      PROVE  /\ SubSeq(s, 1, n) \in Seq(Nat) /\ Len(SubSeq(s, 1, n)) = n
             /\ \A i \in 1..n : SubSeq(s, 1, n)[i] = s[i]
  <2>1. /\ SubSeq(s, 1, n) \in Seq(Nat)
        /\ Len(SubSeq(s, 1, n)) = IF 1 <= n THEN n - 1 + 1 ELSE 0
        /\ \A i \in 1..n - 1 + 1 : SubSeq(s, 1, n)[i] = s[1 + i - 1]
    BY <1>1, SubSeqProperties
  <2> QED
    BY <1>1, <2>1
<1>3. CASE \E n \in 0..Len(s) : p = SubSeq(s, 1, n)
  BY <1>1, <1>2, <1>3 DEF PartOf
<1>4. CASE \E n \in 0..Len(s) - 1 : p = Append(SubSeq(s, 1, n), Torn)
  <2>1. PICK n \in 0..Len(s) - 1 : p = Append(SubSeq(s, 1, n), Torn)
    BY <1>4
  <2>2. n \in 0..Len(s) /\ n + 1 <= Len(s) /\ Torn \in Nat
    BY <1>1 DEF Torn
  <2>3. /\ SubSeq(s, 1, n) \in Seq(Nat) /\ Len(SubSeq(s, 1, n)) = n
        /\ \A i \in 1..n : SubSeq(s, 1, n)[i] = s[i]
    BY <1>2, <2>2
  <2>4. /\ p \in Seq(Nat) /\ Len(p) = n + 1 /\ p[n + 1] = Torn
        /\ \A i \in 1..n : p[i] = SubSeq(s, 1, n)[i]
    BY <2>1, <2>2, <2>3, AppendProperties
  <2> QED
    BY <2>2, <2>3, <2>4 DEF PartOf
<1> QED
  BY <1>3, <1>4 DEF Partial

\* What is put in front of both keeps the one a part of the other.
LEMMA JoinPart ==
    ASSUME NEW r \in Seq(Nat), NEW s \in Seq(Nat), NEW p \in Seq(Nat), PartOf(p, s)
    PROVE  PartOf(r \o p, r \o s)
<1>1. Len(r) \in Nat /\ Len(s) \in Nat /\ Len(p) \in Nat /\ Len(p) <= Len(s)
  BY LenProperties DEF PartOf
<1>2. /\ Len(r \o s) = Len(r) + Len(s)
      /\ \A i \in 1..Len(r) + Len(s) : (r \o s)[i] = IF i <= Len(r) THEN r[i] ELSE s[i - Len(r)]
  BY ConcatProperties
<1>3. /\ Len(r \o p) = Len(r) + Len(p)
      /\ \A i \in 1..Len(r) + Len(p) : (r \o p)[i] = IF i <= Len(r) THEN r[i] ELSE p[i - Len(r)]
  BY ConcatProperties
<1> DEFINE rs == r \o s
           rp == r \o p
<1> HIDE DEF rs, rp
<1>4. ASSUME NEW i \in 1..Len(rp)
      PROVE  rp[i] = rs[i] \/ (rp[i] = Torn /\ i = Len(rp))
  <2>1. i \in 1..Len(r) + Len(p) /\ i \in 1..Len(r) + Len(s)
    BY <1>1, <1>3 DEF rp
  <2>2. CASE i <= Len(r)
    BY <1>2, <1>3, <2>1, <2>2 DEF rs, rp
  <2>3. CASE ~(i <= Len(r))
    <3>1. i - Len(r) \in 1..Len(p)
      BY <1>1, <2>1, <2>3
    <3>2. rp[i] = p[i - Len(r)] /\ rs[i] = s[i - Len(r)]
      BY <1>2, <1>3, <2>1, <2>3 DEF rs, rp
    <3>3. p[i - Len(r)] = s[i - Len(r)] \/ (p[i - Len(r)] = Torn /\ i - Len(r) = Len(p))
      BY <3>1 DEF PartOf
    <3>4. i - Len(r) = Len(p) => i = Len(rp)
      BY <1>1, <1>3, <2>1 DEF rp
    <3> QED
      BY <3>2, <3>3, <3>4
  <2> QED
    BY <2>2, <2>3
<1>5. Len(rp) <= Len(rs)
  BY <1>1, <1>2, <1>3 DEF rs, rp
<1> QED
  BY <1>4, <1>5 DEF PartOf, rs, rp

\* What follows frames that are cut short stays behind them.
LEMMA CutAscends ==
    ASSUME NEW s \in Seq(Nat), NEW q \in Seq(Nat), NEW p \in Seq(Nat), PartOf(p, s), Ascending(s \o q)
    PROVE  Ascending(p \o q) /\ Ascending(p \o <<>>)
<1>1. /\ p \in Seq(Nat) /\ Len(p) \in Nat /\ Len(p) <= Len(s) /\ Len(s) \in Nat /\ Len(q) \in Nat
      /\ \A i \in 1..Len(p) : p[i] = s[i] \/ p[i] = Torn
  BY LenProperties DEF PartOf
<1>2. /\ DOMAIN (s \o q) = 1..Len(s) + Len(q)
      /\ \A i \in 1..Len(s) + Len(q) : (s \o q)[i] = IF i <= Len(s) THEN s[i] ELSE q[i - Len(s)]
  BY ConcatProperties, LenProperties
<1>3. /\ DOMAIN (p \o q) = 1..Len(p) + Len(q)
      /\ \A i \in 1..Len(p) + Len(q) : (p \o q)[i] = IF i <= Len(p) THEN p[i] ELSE q[i - Len(p)]
  BY <1>1, ConcatProperties, LenProperties
<1> DEFINE sq == s \o q
           pq == p \o q
<1> HIDE DEF sq, pq
<1>4. ASSUME NEW i \in DOMAIN pq, pq[i] # Torn
      PROVE  LET a == IF i <= Len(p) THEN i ELSE i - Len(p) + Len(s)
             IN  a \in DOMAIN sq /\ pq[i] = sq[a]
  <2>1. i \in 1..Len(p) + Len(q)
    BY <1>3 DEF pq
  <2>2. CASE i <= Len(p)
    <3>1. pq[i] = p[i] /\ i \in 1..Len(p)
      BY <1>1, <1>3, <2>1, <2>2 DEF pq
    <3>2. p[i] = s[i]
      BY <1>1, <1>4, <3>1
    <3>3. i \in DOMAIN sq /\ sq[i] = s[i]
      BY <1>1, <1>2, <2>2, <3>1 DEF sq
    <3> QED
      BY <2>2, <3>1, <3>2, <3>3
  <2>3. CASE ~(i <= Len(p))
    <3> DEFINE b == i - Len(p) + Len(s)
    <3>1. b \in 1..Len(s) + Len(q) /\ ~(b <= Len(s)) /\ b - Len(s) = i - Len(p)
      BY <1>1, <2>1, <2>3
    <3> HIDE DEF b
    <3>2. pq[i] = q[i - Len(p)]
      BY <1>3, <2>1, <2>3 DEF pq
    <3>3. b \in DOMAIN sq /\ sq[b] = q[i - Len(p)]
      BY <1>2, <3>1 DEF sq
    <3> QED
      BY <2>3, <3>2, <3>3 DEF b
  <2> QED
    BY <2>2, <2>3
<1>5. ASSUME NEW i \in DOMAIN pq, NEW j \in DOMAIN pq, i < j, Torn \notin {pq[i], pq[j]}
      PROVE  pq[i] < pq[j]
  <2> DEFINE a == IF i <= Len(p) THEN i ELSE i - Len(p) + Len(s)
             b == IF j <= Len(p) THEN j ELSE j - Len(p) + Len(s)
  <2>1. a \in DOMAIN sq /\ pq[i] = sq[a] /\ b \in DOMAIN sq /\ pq[j] = sq[b]
    BY <1>4, <1>5
  <2>2. a < b
    BY <1>1, <1>3, <1>5 DEF pq
  <2> QED
    BY <1>5, <2>1, <2>2 DEF Ascending, sq
<1>6. Ascending(pq)
  BY <1>5 DEF Ascending
<1>7. p \o <<>> = p
  BY <1>1, ConcatEmptySeq
<1>8. ASSUME NEW i \in DOMAIN p, NEW j \in DOMAIN p, i < j, Torn \notin {p[i], p[j]}
      PROVE  p[i] < p[j]
  <2>1. DOMAIN p = 1..Len(p)
    BY <1>1, LenProperties
  <2>2. /\ i \in 1..Len(p) + Len(q) /\ j \in 1..Len(p) + Len(q)
        /\ i <= Len(p) /\ j <= Len(p)
    BY <1>1, <2>1
  <2>3. i \in DOMAIN pq /\ j \in DOMAIN pq /\ pq[i] = p[i] /\ pq[j] = p[j]
    BY <1>3, <2>2 DEF pq
  <2> QED
    BY <1>5, <1>8, <2>3
<1>9. Ascending(p)
  BY <1>8 DEF Ascending
<1> QED
  BY <1>6, <1>7, <1>9 DEF pq

\* The next mutation goes behind the log.
LEMMA AppendAscends ==
    ASSUME NEW s \in Seq(Nat), NEW n \in Nat, Ascending(s), AllBelow(s, n)
    PROVE  Ascending(Append(s, n)) /\ AllBelow(Append(s, n), n + 1)
<1> DEFINE t == Append(s, n)
<1>1. /\ Len(s) \in Nat /\ DOMAIN s = 1..Len(s) /\ t \in Seq(Nat) /\ DOMAIN t = 1..Len(s) + 1
      /\ \A i \in 1..Len(s) : t[i] = s[i] /\ s[i] \in Nat
      /\ t[Len(s) + 1] = n
  BY AppendProperties, LenProperties, ElementOfSeq
<1> HIDE DEF t
<1>a. \A i \in 1..Len(s) : s[i] < n
  BY <1>1 DEF AllBelow
<1>2. ASSUME NEW i \in DOMAIN t
      PROVE  t[i] < n + 1
  BY <1>1, <1>a
<1>3. ASSUME NEW i \in DOMAIN t, NEW j \in DOMAIN t, i < j, Torn \notin {t[i], t[j]}
      PROVE  t[i] < t[j]
  <2>1. i \in DOMAIN s /\ t[i] = s[i]
    BY <1>1, <1>3
  <2>2. CASE j = Len(s) + 1
    BY <1>1, <1>a, <2>1, <2>2
  <2>3. CASE j # Len(s) + 1
    <3>1. j \in DOMAIN s /\ t[j] = s[j]
      BY <1>1, <2>3
    <3> QED
      BY <1>3, <2>1, <3>1 DEF Ascending
  <2> QED
    BY <2>2, <2>3
<1> QED
  BY <1>2, <1>3 DEF Ascending, AllBelow, t
-----------------------------------------------------------------------------
(***************************************************************************)
(* The states of the logger.                                               *)
(***************************************************************************)
Caller == Client \cup {"immediate", "closer"}
Flush(n) ==
    {Resting}
        \cup [pc : {"write"}, who : Caller, id : Nat]
        \cup [pc : {"sync"}, who : Caller, id : Nat, from : 0..n]
Syncs(n) == [{"timer", "closer"} -> {NoSync} \cup 0..n]
Closer == {"none", "flush", "sync", "closing", "closed", "done", "failed"}

\* Nothing of the logger is left when the process is not up.
Quiescent ==
    ~Up => /\ queue = <<>> /\ batch = <<>> /\ flush = Resting
           /\ ~immediate /\ syncFrom = NoSyncs /\ closer = "none"

\* What a writev was given is remembered while it runs.
BatchInWrite == flush.pc # "write" => batch = <<>>

LoggerInv == TypeOK /\ Quiescent /\ BatchInWrite /\ NoStranded

\* How the three parts of a flush can end.
Passes ==
    /\ \/ batch' = queue /\ queue' = <<>>
       \/ batch' = <<>> /\ queue' = queue
       \/ batch' = <<>> /\ queue' = <<>>
    /\ flush' \in Flush(Len(file'))
    /\ flush'.pc # "write" => batch' = <<>>
    /\ queue' # <<>> => flush'.pc # "idle" \/ immediate'
    /\ acked' \in SUBSET Nat /\ waited' \in SUBSET acked'
    /\ immediate' \in BOOLEAN
    /\ syncFrom' \in Syncs(Len(file'))
    /\ closer' \in Closer
    /\ closer' = "none" => closer = "none" /\ batch' \o queue' = queue

\* A flush that runs has a caller.
LEMMA CallerOf ==
    ASSUME TypeOK, flush.pc # "idle"
    PROVE  flush.who \in Caller /\ flush.id \in Nat
BY DEF TypeOK, Resting, Caller

\* What a sync has seen stays in the file while it grows.
LEMMA SyncsGrow ==
    ASSUME TypeOK, NEW n \in Nat, Len(file) <= n, Len(file) \in Nat
    PROVE  syncFrom \in Syncs(n)
BY DEF TypeOK, Syncs, NoSync

\* The loop is over, without or with an error.
LEMMA FlushEnds ==
    ASSUME TypeOK, flush.pc # "idle", file' \in Seq(Nat), Len(file) <= Len(file'),
           (queue = <<>> /\ Finish /\ UNCHANGED immediate) \/ Throw(queue) \/ (~StaysOpen("flush") /\ Throw(<<>>))
    PROVE  Passes
<1>1. /\ queue \in Seq(Nat) /\ acked \in SUBSET Nat /\ waited \in SUBSET acked
      /\ immediate \in BOOLEAN /\ closer \in Closer
  BY DEF TypeOK, Frame, Closer
<1>2. Len(file) \in Nat /\ Len(file') \in Nat
  BY LenProperties DEF TypeOK
<1>3. flush.id \in Nat
  BY CallerOf
<1>4. <<>> \o queue = queue /\ <<>> \o <<>> = <<>>
  BY <1>1, ConcatEmptySeq, EmptySeq
<1>5. syncFrom \in Syncs(Len(file')) /\ Len(file') \in 0..Len(file')
  BY <1>2, SyncsGrow
<1>6. Resting \in Flush(Len(file')) /\ Resting.pc = "idle"
  BY DEF Flush, Resting
<1>7. CallEnds("flush") => closer' \in Closer /\ (closer' = "none" => closer = "none")
  BY <1>1 DEF CallEnds, Closer
<1>8. CASE queue = <<>> /\ Finish /\ UNCHANGED immediate
  <2>1. batch' = <<>> /\ queue' = queue /\ flush' = Resting
    BY <1>8 DEF Finish
  <2>2. acked' \in SUBSET Nat /\ waited' \in SUBSET acked'
    BY <1>1, <1>3, <1>8 DEF Finish
  <2>3. syncFrom' \in Syncs(Len(file')) /\ closer' \in Closer /\ (closer' = "none" => closer = "none")
    BY <1>5, <1>7, <1>8 DEF Finish, Syncs, Closer
  <2> QED
    BY <1>1, <1>4, <1>6, <1>8, <2>1, <2>2, <2>3 DEF Passes
<1>9. CASE Throw(queue)
  <2>1. closer' \in Closer /\ (closer' = "none" => closer = "none")
    BY <1>7, <1>9 DEF Throw, Closer
  <2>2. batch' = <<>> /\ queue' = queue /\ flush' = Resting /\ (immediate' <=> immediate \/ queue # <<>>)
    BY <1>1, <1>9 DEF Throw, Rescheduled
  <2>3. UNCHANGED <<acked, waited, syncFrom>> /\ immediate' \in BOOLEAN
    BY <1>1, <1>9 DEF Throw, Rescheduled
  <2> QED
    BY <1>1, <1>4, <1>5, <1>6, <2>1, <2>2, <2>3 DEF Passes
<1>10. CASE ~StaysOpen("flush") /\ Throw(<<>>)
  <2>1. closer' \in Closer /\ closer' # "none"
    BY <1>1, <1>10 DEF Throw, Closer, CallEnds, StaysOpen, HandleOpen, LastCall
  <2>2. batch' = <<>> /\ queue' = <<>> /\ flush' = Resting
    BY <1>10 DEF Throw
  <2>3. UNCHANGED <<acked, waited, syncFrom>> /\ immediate' \in BOOLEAN
    BY <1>1, <1>10 DEF Throw, Rescheduled
  <2> QED
    BY <1>1, <1>5, <1>6, <2>1, <2>2, <2>3 DEF Passes
<1> QED
  BY <1>8, <1>9, <1>10

\* The loop goes on, with the next batch or with the sync of this one.
LEMMA FlushPasses ==
    ASSUME TypeOK, flush.pc # "idle", file' \in Seq(Nat), Len(file) <= Len(file'), Loop \/ AfterWrite \/ Throw(queue)
    PROVE  Passes
<1>1. /\ queue \in Seq(Nat) /\ acked \in SUBSET Nat /\ waited \in SUBSET acked
      /\ immediate \in BOOLEAN /\ closer \in Closer
  BY DEF TypeOK, Frame, Closer
<1>2. Len(file) \in Nat /\ Len(file') \in Nat
  BY LenProperties DEF TypeOK
<1>3. flush.who \in Caller /\ flush.id \in Nat
  BY CallerOf
<1>4. queue \o <<>> = queue /\ <<>> \o queue = queue
  BY <1>1, ConcatEmptySeq
<1>5. syncFrom \in Syncs(Len(file')) /\ Len(file') \in 0..Len(file')
  BY <1>2, SyncsGrow
<1>6. CASE TakeBatch(queue, flush.who, flush.id) /\ UNCHANGED <<acked, waited, closer, syncFrom, immediate>>
  <2>1. batch' = queue /\ queue' = <<>>
    BY <1>6 DEF TakeBatch
  <2>2. flush' \in Flush(Len(file')) /\ flush'.pc = "write"
    BY <1>3, <1>6 DEF TakeBatch, Flush
  <2> QED
    BY <1>1, <1>4, <1>5, <1>6, <2>1, <2>2 DEF Passes
<1>7. CASE /\ flush' = [pc |-> "sync", who |-> flush.who, id |-> flush.id, from |-> Len(file')]
           /\ batch' = <<>> /\ UNCHANGED <<queue, acked, waited, immediate, syncFrom, closer>>
  <2>1. flush' \in Flush(Len(file')) /\ flush'.pc = "sync"
    BY <1>3, <1>5, <1>7 DEF Flush
  <2> QED
    BY <1>1, <1>4, <1>5, <1>7, <2>1 DEF Passes
<1>8. ASSUME Loop
      PROVE  Passes
  BY <1>6, <1>8, FlushEnds DEF Loop
<1> QED
  BY <1>7, <1>8, FlushEnds DEF AfterWrite
-----------------------------------------------------------------------------
(***************************************************************************)
(* Types, and that no frame is left without a flush.                       *)
(***************************************************************************)
ServerType ==
    /\ fsyncPolicy \in Policies /\ faults \in Faults /\ powerCuts \in PowerCuts
    /\ status \in {"up", "down", "refused"}
    /\ engine \in Seq(Nat \ {0}) /\ nextId \in Nat \ {0}
    /\ acked \in SUBSET Nat /\ waited \in SUBSET acked /\ crashes \in Nat

LoggerType ==
    /\ queue \in Seq(Nat) /\ batch \in Seq(Nat) /\ flush \in Flush(Len(file))
    /\ immediate \in BOOLEAN /\ syncFrom \in Syncs(Len(file)) /\ closer \in Closer

DiskType == dirty \in Nat /\ file \in Seq(Nat) /\ durable \in 0..Len(file)

\* The three parts of the type invariant.
LEMMA TypeParts == TypeOK <=> ServerType /\ LoggerType /\ DiskType
BY DEF TypeOK, ServerType, LoggerType, DiskType, Flush, Syncs, Closer, Caller, Frame, Torn

\* The same after a step.
LEMMA TypePartsNext == TypeOK' <=> ServerType' /\ LoggerType' /\ DiskType'
BY DEF TypeOK, ServerType, LoggerType, DiskType, Flush, Syncs, Closer, Caller, Frame, Torn

\* A write only adds to the file, and what it adds is a part of what it was given.
LEMMA WriteAdds ==
    ASSUME TypeOK, NEW frames, frames = batch \/ frames \in Partial(batch), file' = file \o frames
    PROVE  /\ file' \in Seq(Nat) /\ Len(file) \in Nat /\ Len(file') \in Nat
           /\ Len(file) <= Len(file') /\ PartOf(file', Given)
<1>1. file \in Seq(Nat) /\ batch \in Seq(Nat)
  BY DEF TypeOK, Frame
<1>2. frames \in Seq(Nat) /\ PartOf(frames, batch)
  <2>1. CASE frames = batch
    BY <1>1, <2>1, LenProperties DEF PartOf
  <2>2. CASE frames \in Partial(batch)
    BY <1>1, <2>2, PartialShape
  <2> QED
    BY <2>1, <2>2
<1>3. file' \in Seq(Nat) /\ Len(file') = Len(file) + Len(frames)
  BY <1>1, <1>2, ConcatProperties
<1>4. Len(file) \in Nat /\ Len(frames) \in Nat
  BY <1>1, <1>2, LenProperties
<1>5. PartOf(file', Given)
  BY <1>1, <1>2, JoinPart DEF Given
<1> QED
  BY <1>3, <1>4, <1>5

\* The steps that end an await of the flush.
FlushStep == WriteOk \/ WriteShort \/ WriteFails \/ SyncOk \/ SyncFails

\* Each of them deals with the batch and keeps what it does not touch.
LEMMA FlushSteps ==
    ASSUME LoggerInv, FlushStep
    PROVE  /\ Passes /\ DiskType' /\ Up
           /\ PartOf(file', Given) /\ (~faults => file' = Given)
           /\ UNCHANGED <<fsyncPolicy, faults, powerCuts, status, engine, nextId, crashes>>
<1>0. TypeOK /\ DiskType /\ flush \in Flush(Len(file)) /\ BatchInWrite
  BY TypeParts DEF LoggerInv, LoggerType
<1>1. CASE WriteOk \/ WriteShort \/ WriteFails
  <2>1. PICK frames : /\ frames = batch \/ frames \in Partial(batch)
                      /\ ~faults => frames = batch
                      /\ Written(frames)
    BY <1>1 DEF WriteOk, WriteShort, WriteFails
  <2>2. flush.pc # "idle" /\ Up /\ (AfterWrite \/ Throw(queue))
    BY <1>1 DEF WriteOk, WriteShort, WriteFails
  <2>3. file' = file \o frames
    BY <2>1 DEF Written
  <2>4. /\ file' \in Seq(Nat) /\ Len(file) \in Nat /\ Len(file') \in Nat
        /\ Len(file) <= Len(file') /\ PartOf(file', Given)
    BY <1>0, <2>1, <2>3, WriteAdds
  <2>5. Passes
    BY <1>0, <2>2, <2>4, FlushPasses
  <2>6. UNCHANGED <<durable, dirty>>
    BY <2>1 DEF Written
  <2>7. DiskType'
    BY <1>0, <2>4, <2>6 DEF DiskType
  <2>8. ~faults => file' = Given
    BY <2>1, <2>3 DEF Given
  <2> QED
    BY <2>1, <2>2, <2>4, <2>5, <2>7, <2>8 DEF Written
<1>2. CASE SyncOk \/ SyncFails
  <2>1. flush.pc = "sync" /\ Up /\ (Loop \/ Throw(queue)) /\ UNCHANGED file
    BY <1>2 DEF SyncOk, SyncFails, disk
  <2>2. file \in Seq(Nat) /\ Len(file) \in Nat /\ batch = <<>>
    BY <1>0, <2>1, LenProperties DEF DiskType, BatchInWrite
  <2>3. Passes
    BY <1>0, <2>1, <2>2, FlushPasses
  <2>4. Given = file
    BY <2>2, ConcatEmptySeq DEF Given
  <2>5. PartOf(file', Given)
    BY <2>1, <2>2, <2>4 DEF PartOf
  <2>6. flush.from \in 0..Len(file)
    BY <1>0, <2>1 DEF Flush, Resting
  <2>7. DiskType'
    <3>1. CASE SyncOk
      <4>1. durable' \in Covered(flush.from) /\ dirty' = 0
        BY <3>1 DEF SyncOk
      <4>2. durable' \in 0..Len(file)
        BY <1>0, <2>2, <2>6, <4>1 DEF Covered, DiskType
      <4> QED
        BY <1>0, <2>1, <4>1, <4>2 DEF DiskType
    <3>2. CASE SyncFails
      BY <1>0, <3>2 DEF SyncFails, disk, DiskType
    <3> QED
      BY <1>2, <3>1, <3>2
  <2> QED
    BY <1>2, <2>1, <2>3, <2>4, <2>5, <2>7 DEF SyncOk, SyncFails
<1> QED
  BY <1>1, <1>2 DEF FlushStep

\* A step that the invariant allows, from its parts.
LEMMA LoggerNext ==
    ASSUME ServerType', LoggerType', DiskType', Quiescent', BatchInWrite', NoStranded'
    PROVE  LoggerInv'
BY TypePartsNext DEF LoggerInv

\* After the process has ended nothing of the logger is left.
LEMMA FreshIsQuiescent ==
    ASSUME FreshLogger, status' = "down"
    PROVE  /\ queue' = <<>> /\ batch' = <<>> /\ flush' = Resting /\ ~immediate'
           /\ syncFrom' = NoSyncs /\ closer' = "none" /\ dirty' = 0
           /\ Len(file') \in Nat => LoggerType'
           /\ Quiescent' /\ BatchInWrite' /\ NoStranded'
<1>1. /\ queue' = <<>> /\ batch' = <<>> /\ flush' = Resting /\ ~immediate' /\ immediate' \in BOOLEAN
      /\ syncFrom' = NoSyncs /\ closer' = "none" /\ dirty' = 0
  BY DEF FreshLogger
<1>2. ASSUME Len(file') \in Nat PROVE LoggerType'
  BY <1>1, <1>2, EmptySeq DEF LoggerType, Flush, Syncs, NoSyncs, Closer, NoSync
<1>3. Quiescent' /\ BatchInWrite' /\ NoStranded'
  BY <1>1 DEF Quiescent, BatchInWrite, NoStranded, Up
<1> QED
  BY <1>1, <1>2, <1>3

\* What was synced is in the file, and what a power cut leaves of the rest is a part of it.
LEMMA CutLeavesPart ==
    ASSUME TypeOK, PowerCut
    PROVE  file' \in Seq(Nat) /\ PartOf(file', Given)
<1> DEFINE g == Given
           d == durable
           r == SubSeq(g, d + 1, Len(g))
           synced == SubSeq(file, 1, d)
<1>1. file \in Seq(Nat) /\ batch \in Seq(Nat) /\ Len(file) \in Nat /\ Len(batch) \in Nat /\ d \in 0..Len(file)
  BY LenProperties DEF TypeOK, Frame
<1>2. /\ g \in Seq(Nat) /\ Len(g) = Len(file) + Len(batch)
      /\ \A i \in 1..Len(file) : g[i] = file[i]
  BY <1>1, ConcatProperties DEF Given
<1> HIDE DEF g, d
<1>3. synced \o r = g
  <2>1. /\ SubSeq(g, 1, d) \in Seq(Nat) /\ Len(SubSeq(g, 1, d)) = IF 1 <= d THEN d - 1 + 1 ELSE 0
        /\ \A i \in 1..d - 1 + 1 : SubSeq(g, 1, d)[i] = g[1 + i - 1]
    <3>1. \A i \in 1..d : g[i] \in Nat
      BY <1>1, <1>2, ElementOfSeq
    <3> QED
      BY <1>1, <3>1, SubSeqProperties
  <2>2. /\ synced \in Seq(Nat) /\ Len(synced) = IF 1 <= d THEN d - 1 + 1 ELSE 0
        /\ \A i \in 1..d - 1 + 1 : synced[i] = file[1 + i - 1]
    <3>1. \A i \in 1..d : file[i] \in Nat
      BY <1>1, ElementOfSeq
    <3> QED
      BY <1>1, <3>1, SubSeqProperties
  <2>3. Len(synced) = Len(SubSeq(g, 1, d)) /\ \A i \in 1..Len(synced) : synced[i] = SubSeq(g, 1, d)[i]
    BY <1>1, <1>2, <2>1, <2>2
  <2>4. synced = SubSeq(g, 1, d)
    BY <2>1, <2>2, <2>3, SeqEqual
  <2>5. 1 \in 1..Len(g) + 1 /\ d \in 1 - 1..Len(g) /\ Len(g) \in d..Len(g)
    BY <1>1, <1>2
  <2>6. SubSeq(g, 1, d) \o r = SubSeq(g, 1, Len(g))
    BY <1>2, <2>5, ConcatAdjacentSubSeq
  <2>7. SubSeq(g, 1, Len(g)) = g
    BY <1>2, SubSeqFull
  <2> QED
    BY <2>4, <2>6, <2>7
<1>4. synced \in Seq(Nat) /\ r \in Seq(Nat)
  <2>1. \A i \in 1..d : file[i] \in Nat
    BY <1>1, ElementOfSeq
  <2>2. \A i \in d + 1..Len(g) : g[i] \in Nat
    <3>1. \A i \in d + 1..Len(g) : i \in 1..Len(g)
      BY <1>1, <1>2
    <3> QED
      BY <1>2, <3>1, ElementOfSeq
  <2> QED
    BY <1>1, <1>2, <2>1, <2>2, SubSeqProperties
<1>5. PICK kept \in Partial(r) : file' = synced \o kept
  BY DEF PowerCut, g, d, Given
<1> HIDE DEF r, synced
<1>6. kept \in Seq(Nat) /\ PartOf(kept, r)
  BY <1>4, <1>5, PartialShape
<1>7. PartOf(synced \o kept, synced \o r)
  BY <1>4, <1>6, JoinPart
<1>8. synced \o kept \in Seq(Nat)
  BY <1>4, <1>6, ConcatProperties
<1> QED
  BY <1>3, <1>5, <1>7, <1>8 DEF g

\* Recovery keeps the whole frames: all, or all but the last.
LEMMA WholeShape ==
    ASSUME NEW s \in Seq(Nat)
    PROVE  /\ Whole(s) \in Seq(Nat) /\ Begins(Whole(s), s) /\ PartOf(Whole(s), s)
           /\ Len(s) \in Nat /\ Len(Whole(s)) \in Nat /\ Len(Whole(s)) >= Len(s) - 1
           /\ s # <<>> /\ s[Len(s)] = Torn => Len(Whole(s)) = Len(s) - 1
           /\ s # <<>> /\ s[Len(s)] # Torn => Whole(s) = s
<1>1. Len(s) \in Nat /\ (s = <<>> <=> Len(s) = 0)
  BY LenProperties, EmptySeq
<1>2. Last(s) = s[Len(s)]
  BY DEF Last
<1>3. CASE s # <<>> /\ Last(s) = Torn
  <2> DEFINE n == Len(s) - 1
             w == SubSeq(s, 1, n)
  <2>1. Whole(s) = w
    BY <1>3 DEF Whole, Front
  <2>2. n \in Nat /\ Len(s) = n + 1 /\ \A i \in 1..n : s[i] \in Nat
    BY <1>1, <1>3, ElementOfSeq
  <2> HIDE DEF n
  <2>3. w \in Seq(Nat) /\ Len(w) = (IF 1 <= n THEN n - 1 + 1 ELSE 0) /\ \A i \in 1..n - 1 + 1 : w[i] = s[1 + i - 1]
    BY <2>2, SubSeqProperties
  <2> HIDE DEF w
  <2>4. Len(w) = n /\ \A i \in 1..n : w[i] = s[i]
    BY <2>2, <2>3
  <2> QED
    BY <1>2, <1>3, <2>1, <2>2, <2>3, <2>4 DEF Begins, PartOf
<1>4. CASE ~(s # <<>> /\ Last(s) = Torn)
  <2>1. Whole(s) = s
    BY <1>4 DEF Whole
  <2> QED
    BY <1>1, <1>2, <1>4, <2>1 DEF Begins, PartOf
<1> QED
  BY <1>3, <1>4

\* When only the last frame may be torn, none is left.
LEMMA WholeIsWhole ==
    ASSUME NEW s \in Seq(Nat), \A i \in DOMAIN s : s[i] = Torn => i = Len(s)
    PROVE  Whole(s) \in Seq(Nat \ {0})
<1> DEFINE w == Whole(s)
<1>1. /\ w \in Seq(Nat) /\ Begins(w, s)
      /\ s # <<>> /\ s[Len(s)] = Torn => Len(w) = Len(s) - 1
  BY WholeShape
<1> HIDE DEF w
<1>2. /\ Len(s) \in Nat /\ Len(w) \in Nat /\ DOMAIN s = 1..Len(s) /\ w \in [1..Len(w) -> Nat]
      /\ (s = <<>> <=> Len(s) = 0)
  BY <1>1, LenProperties, EmptySeq
<1>3. ASSUME NEW i \in 1..Len(w)
      PROVE  w[i] \in Nat \ {0}
  <2>1. Len(w) <= Len(s) /\ w[i] = s[i] /\ w[i] \in Nat
    BY <1>1, <1>2 DEF Begins
  <2>2. i \in DOMAIN s /\ s # <<>>
    BY <1>2, <2>1
  <2>3. ASSUME s[i] = Torn
        PROVE  FALSE
    <3>1. i = Len(s)
      BY <2>2, <2>3
    <3>2. Len(w) = Len(s) - 1
      BY <1>1, <2>2, <2>3, <3>1
    <3> QED
      BY <1>2, <3>1, <3>2
  <2> QED
    BY <2>1, <2>3 DEF Torn
<1>4. w \in [1..Len(w) -> Nat \ {0}]
  BY <1>2, <1>3
<1> QED
  BY <1>2, <1>4 DEF w
-----------------------------------------------------------------------------
(***************************************************************************)
(* The order of the log, and what it has of the engine's history.          *)
(***************************************************************************)
Below == AllBelow(Logged, nextId)

\* The log is how the engine's history begins, all of it until close is called.  After
\* a crash at most the last frame of the file is torn, and the others are how it begins.
Exact ==
    ~faults =>
        /\ status # "refused"
        /\ Up => Begins(Logged, engine) /\ (closer = "none" => engine = Logged)
        /\ ~Up => TornAtEnd /\ Begins(Whole(file), engine)

AofInv == LoggerInv /\ Ascending(Logged) /\ Below /\ Exact

\* The three ways in which the log changes.
Kept == UNCHANGED <<file, batch, queue>> /\ nextId' \in Nat /\ nextId' >= nextId
Added == Logged' = Append(Logged, nextId) /\ nextId' = nextId + 1
Moved ==
    /\ file' \in Seq(Nat) /\ PartOf(file', Given)
    /\ batch' \in Seq(Nat) /\ queue' \in Seq(Nat) /\ batch' \o queue' \in {queue, <<>>}
    /\ nextId' = nextId

\* The sequences of the log.
LEMMA LogTypes ==
    ASSUME LoggerInv
    PROVE  /\ file \in Seq(Nat) /\ batch \in Seq(Nat) /\ queue \in Seq(Nat) /\ nextId \in Nat
           /\ Given \in Seq(Nat) /\ Logged \in Seq(Nat) /\ Logged = Given \o queue
           /\ engine \in Seq(Nat \ {0}) /\ engine \in Seq(Nat)
<1>1. /\ file \in Seq(Nat) /\ batch \in Seq(Nat) /\ queue \in Seq(Nat) /\ nextId \in Nat
      /\ engine \in Seq(Nat \ {0})
  BY DEF LoggerInv, TypeOK, Frame, Torn
<1>2. Given \in Seq(Nat)
  BY <1>1, ConcatProperties DEF Given
<1>3. Logged \in Seq(Nat) /\ Logged = Given \o queue
  BY <1>1, <1>2, ConcatProperties DEF Logged, Given
<1>4. engine \in Seq(Nat)
  BY <1>1, SeqMonotonic
<1> QED
  BY <1>1, <1>2, <1>3, <1>4

\* Concatenation is associative.
LEMMA Regroup ==
    ASSUME NEW r \in Seq(Nat), NEW s \in Seq(Nat), NEW t \in Seq(Nat)
    PROVE  (r \o s) \o t = r \o (s \o t)
BY ConcatAssociative

\* When the log moves, it is what was written and what is left of the queue.
LEMMA MovedLog ==
    ASSUME Moved
    PROVE  Logged' = file' \o (batch' \o queue')
<1>1. file' \in Seq(Nat) /\ batch' \in Seq(Nat) /\ queue' \in Seq(Nat)
  BY DEF Moved
<1>2. file' \o (batch' \o queue') = (file' \o batch') \o queue'
  BY <1>1, Regroup
<1>3. Logged' = (file' \o batch') \o queue'
  BY DEF Logged
<1> QED
  BY <1>2, <1>3

\* A cut log is still below the next number.
LEMMA CutBelow ==
    ASSUME NEW s \in Seq(Nat), NEW q \in Seq(Nat), NEW p \in Seq(Nat), PartOf(p, s), NEW n \in Nat \ {0},
           AllBelow(s \o q, n)
    PROVE  AllBelow(p \o q, n) /\ AllBelow(p \o <<>>, n)
<1>1. /\ Len(p) \in Nat /\ Len(p) <= Len(s) /\ Len(s) \in Nat /\ Len(q) \in Nat /\ DOMAIN p = 1..Len(p)
      /\ \A i \in 1..Len(p) : p[i] = s[i] \/ p[i] = Torn
  BY LenProperties DEF PartOf
<1> DEFINE sq == s \o q
           pq == p \o q
<1>2. /\ DOMAIN sq = 1..Len(s) + Len(q)
      /\ \A i \in 1..Len(s) + Len(q) : sq[i] = IF i <= Len(s) THEN s[i] ELSE q[i - Len(s)]
  BY ConcatProperties, LenProperties
<1>3. /\ DOMAIN pq = 1..Len(p) + Len(q)
      /\ \A i \in 1..Len(p) + Len(q) : pq[i] = IF i <= Len(p) THEN p[i] ELSE q[i - Len(p)]
  BY <1>1, ConcatProperties, LenProperties
<1>a. \A i \in DOMAIN sq : sq[i] < n
  BY DEF AllBelow
<1> HIDE DEF sq, pq
<1>4. \A i \in 1..Len(p) : p[i] < n
  <2>1. TAKE i \in 1..Len(p)
  <2>2. i \in DOMAIN sq /\ sq[i] = s[i]
    BY <1>1, <1>2
  <2>3. sq[i] < n
    BY <1>a, <2>2
  <2>4. p[i] = s[i] \/ p[i] = 0
    BY <1>1 DEF Torn
  <2> QED
    BY <2>2, <2>3, <2>4
<1>5. \A i \in 1..Len(q) : q[i] < n
  <2>1. TAKE i \in 1..Len(q)
  <2> DEFINE a == i + Len(s)
  <2>a. a \in 1..Len(s) + Len(q) /\ ~(a <= Len(s)) /\ a - Len(s) = i
    BY <1>1
  <2> HIDE DEF a
  <2>2. a \in DOMAIN sq /\ sq[a] = q[i]
    BY <1>2, <2>a
  <2> QED
    BY <1>a, <2>2
<1>6. \A i \in DOMAIN pq : pq[i] < n
  <2>1. TAKE i \in DOMAIN pq
  <2>2. CASE i <= Len(p)
    BY <1>1, <1>3, <1>4, <2>2
  <2>3. CASE ~(i <= Len(p))
    <3>1. i - Len(p) \in 1..Len(q) /\ pq[i] = q[i - Len(p)]
      BY <1>1, <1>3, <2>3
    <3> QED
      BY <1>5, <3>1
  <2> QED
    BY <2>2, <2>3
<1>7. p \o <<>> = p
  BY ConcatEmptySeq
<1>8. AllBelow(pq, n) /\ AllBelow(p, n)
  BY <1>1, <1>4, <1>6 DEF AllBelow
<1> QED
  BY <1>7, <1>8 DEF pq

\* Whatever the disk does, the order of the log is kept.
LEMMA OrderKept ==
    ASSUME LoggerInv, Ascending(Logged), Below, Kept \/ Added \/ Moved
    PROVE  Ascending(Logged)' /\ Below'
<1>1. /\ file \in Seq(Nat) /\ batch \in Seq(Nat) /\ queue \in Seq(Nat) /\ nextId \in Nat \ {0}
      /\ Given \in Seq(Nat) /\ Logged \in Seq(Nat) /\ Logged = Given \o queue
  BY LogTypes DEF LoggerInv, TypeOK
<1>2. CASE Kept
  <2>1. Logged' = Logged /\ nextId' \in Nat /\ nextId' >= nextId
    BY <1>2 DEF Kept, Logged
  <2>2. \A i \in DOMAIN Logged : Logged[i] \in Nat
    BY <1>1, LenProperties, ElementOfSeq
  <2>3. \A i \in DOMAIN Logged : Logged[i] < nextId'
    BY <1>1, <2>1, <2>2 DEF Below, AllBelow
  <2> QED
    BY <2>1, <2>3 DEF Below, AllBelow, Ascending
<1>3. CASE Added
  <2>1. Ascending(Append(Logged, nextId)) /\ AllBelow(Append(Logged, nextId), nextId + 1)
    BY <1>1, AppendAscends DEF Below
  <2> QED
    BY <1>3, <2>1 DEF Added, Below, AllBelow, Ascending
<1>4. CASE Moved
  <2>1. /\ file' \in Seq(Nat) /\ PartOf(file', Given) /\ nextId' = nextId
        /\ Logged' = file' \o queue \/ Logged' = file' \o <<>>
    BY <1>4, MovedLog DEF Moved
  <2>2. Ascending(file' \o queue) /\ Ascending(file' \o <<>>)
    BY <1>1, <2>1, CutAscends
  <2>3. AllBelow(Given \o queue, nextId)
    BY <1>1 DEF Below
  <2>4. AllBelow(file' \o queue, nextId) /\ AllBelow(file' \o <<>>, nextId)
    BY <1>1, <2>1, <2>3, CutBelow
  <2> QED
    BY <2>1, <2>2, <2>4 DEF Below, AllBelow, Ascending
<1> QED
  BY <1>2, <1>3, <1>4

\* What begins with frames and goes on is begun by the frames too.
LEMMA BeginsCut ==
    ASSUME NEW r \in Seq(Nat), NEW s \in Seq(Nat), NEW t \in Seq(Nat), Begins(r \o s, t)
    PROVE  Begins(r, t)
<1>1. /\ Len(r) \in Nat /\ Len(s) \in Nat /\ Len(t) \in Nat
      /\ Len(r \o s) = Len(r) + Len(s)
      /\ \A i \in 1..Len(r) + Len(s) : (r \o s)[i] = IF i <= Len(r) THEN r[i] ELSE s[i - Len(r)]
  BY LenProperties, ConcatProperties
<1> DEFINE rs == r \o s
<1>2. Len(rs) <= Len(t) /\ \A i \in 1..Len(rs) : rs[i] = t[i]
  BY DEF Begins
<1> HIDE DEF rs
<1>3. \A i \in 1..Len(r) : i \in 1..Len(rs) /\ rs[i] = r[i]
  BY <1>1 DEF rs
<1>4. Len(r) <= Len(t)
  BY <1>1, <1>2 DEF rs
<1> QED
  BY <1>2, <1>3, <1>4 DEF Begins

\* Of a history of whole frames a crash leaves a file that recovery accepts, and the
\* frames it keeps are how the history begins.
LEMMA CutRestores ==
    ASSUME NEW s \in Seq(Nat), NEW p \in Seq(Nat), NEW e \in Seq(Nat \ {0}),
           PartOf(p, s), Begins(s, e)
    PROVE  /\ \A i \in DOMAIN p : p[i] = Torn => i = Len(p)
           /\ Begins(Whole(p), e)
<1> DEFINE w == Whole(p)
<1>1. /\ Len(p) \in Nat /\ Len(s) \in Nat /\ Len(e) \in Nat /\ DOMAIN p = 1..Len(p)
      /\ (p = <<>> <=> Len(p) = 0)
  BY LenProperties, EmptySeq
<1>2. Len(p) <= Len(s) /\ Len(s) <= Len(e) /\ \A i \in 1..Len(s) : s[i] = e[i]
  BY DEF PartOf, Begins
<1>3. \A i \in 1..Len(e) : e[i] \in Nat \ {0}
  BY <1>1, ElementOfSeq
<1>4. Len(w) \in Nat /\ Len(w) <= Len(p) /\ \A i \in 1..Len(w) : w[i] = p[i]
  BY WholeShape DEF Begins
<1>a. p # <<>> /\ p[Len(p)] = Torn => Len(w) = Len(p) - 1
  BY WholeShape
<1> HIDE DEF w
<1>5. ASSUME NEW i \in 1..Len(p)
      PROVE  (p[i] = e[i] /\ p[i] # Torn) \/ (p[i] = Torn /\ i = Len(p))
  <2>1. i \in 1..Len(s) /\ i \in 1..Len(e)
    BY <1>1, <1>2
  <2>2. p[i] = s[i] \/ (p[i] = Torn /\ i = Len(p))
    BY DEF PartOf
  <2>3. s[i] = e[i] /\ e[i] # Torn
    BY <1>2, <1>3, <2>1 DEF Torn
  <2> QED
    BY <2>2, <2>3
<1>6. ASSUME NEW i \in 1..Len(w)
      PROVE  w[i] = e[i]
  <2>1. i \in 1..Len(p) /\ w[i] = p[i] /\ p # <<>>
    BY <1>1, <1>4
  <2>2. CASE p[i] = Torn /\ i = Len(p)
    <3>1. Len(w) = Len(p) - 1
      BY <1>a, <2>1, <2>2
    <3> QED
      BY <1>1, <2>2, <3>1
  <2> QED
    BY <1>5, <2>1, <2>2
<1>7. Len(w) <= Len(e)
  BY <1>1, <1>2, <1>4
<1> QED
  BY <1>1, <1>5, <1>6, <1>7 DEF Begins, w

\* An append to the last part of the log is an append to the log.
LEMMA AppendJoin ==
    ASSUME NEW r \in Seq(Nat), NEW s \in Seq(Nat), NEW n \in Nat
    PROVE  r \o Append(s, n) = Append(r \o s, n)
<1>1. <<n>> \in Seq(Nat) /\ r \o s \in Seq(Nat)
  BY ConcatProperties
<1>2. Append(s, n) = s \o <<n>> /\ Append(r \o s, n) = (r \o s) \o <<n>>
  BY <1>1, AppendIsConcat
<1> QED
  BY <1>1, <1>2, Regroup

\* The frames of the log keep their history while they move from the queue to the file.
LEMMA MovedExact ==
    ASSUME LoggerInv, Exact, Moved, Up, UNCHANGED <<faults, status, engine>>,
           ~faults => file' = Given,
           closer' = "none" => closer = "none" /\ batch' \o queue' = queue
    PROVE  Exact'
<1>1. /\ Given \in Seq(Nat) /\ queue \in Seq(Nat) /\ engine \in Seq(Nat) /\ Logged = Given \o queue
  BY LogTypes
<1>2. Given \o <<>> = Given
  BY <1>1, ConcatEmptySeq
<1>3. Logged' = file' \o (batch' \o queue') /\ batch' \o queue' \in {queue, <<>>}
  BY MovedLog DEF Moved
<1>4. SUFFICES ASSUME ~faults
               PROVE  Exact'
  BY DEF Exact
<1>5. Up' /\ status # "refused" /\ status' # "refused"
  BY <1>4 DEF Up, Exact
<1>6. file' = Given /\ Begins(Logged, engine) /\ (closer = "none" => engine = Logged)
  BY <1>4 DEF Exact
<1>7. Logged' = Logged \/ Logged' = Given
  BY <1>1, <1>2, <1>3, <1>6
<1>8. Begins(Given, engine)
  BY <1>1, <1>6, BeginsCut
<1>9. Begins(Logged', engine')
  BY <1>6, <1>7, <1>8
<1>10. closer' = "none" => engine' = Logged'
  BY <1>1, <1>3, <1>6
<1> QED
  BY <1>5, <1>9, <1>10 DEF Exact, Begins

\* A crash leaves a file that recovery accepts and that begins the history.
LEMMA DownExact ==
    ASSUME LoggerInv, Exact, Up, status' = "down", UNCHANGED <<faults, engine>>,
           file' \in Seq(Nat), PartOf(file', Given)
    PROVE  Exact'
<1>1. /\ Given \in Seq(Nat) /\ queue \in Seq(Nat) /\ engine \in Seq(Nat) /\ Logged = Given \o queue
      /\ engine \in Seq(Nat \ {0})
  BY LogTypes
<1>2. SUFFICES ASSUME ~faults
               PROVE  TornAtEnd' /\ Begins(Whole(file'), engine)
  BY DEF Exact, Up, Begins, Whole, Last, Front
<1>3. Begins(Logged, engine)
  BY <1>2 DEF Exact
<1>4. Begins(Given, engine)
  BY <1>1, <1>3, BeginsCut
<1>5. /\ \A i \in DOMAIN file' : file'[i] = Torn => i = Len(file')
      /\ Begins(Whole(file'), engine)
  BY <1>1, <1>4, CutRestores
<1> QED
  BY <1>5 DEF TornAtEnd

-----------------------------------------------------------------------------
(***************************************************************************)
(* The steps, grouped by what they do to the log.                          *)
(***************************************************************************)
\* The steps that end an await of the flush move the log towards the disk.
LEMMA FlushStepKeeps ==
    ASSUME LoggerInv, Exact, FlushStep
    PROVE  LoggerInv' /\ Moved /\ Exact'
<1>1. /\ file \in Seq(Nat) /\ queue \in Seq(Nat) /\ nextId \in Nat
      /\ ServerType /\ Quiescent
  BY LogTypes, TypeParts DEF LoggerInv
<1>2. /\ Passes /\ DiskType' /\ Up
      /\ PartOf(file', Given) /\ (~faults => file' = Given)
      /\ UNCHANGED <<fsyncPolicy, faults, powerCuts, status, engine, nextId, crashes>>
  BY FlushSteps
<1>3. <<>> \in Seq(Nat) /\ queue \o <<>> = queue /\ <<>> \o queue = queue /\ <<>> \o <<>> = <<>>
  BY <1>1, EmptySeq, ConcatEmptySeq
<1>4. batch' \in Seq(Nat) /\ queue' \in Seq(Nat) /\ batch' \o queue' \in {queue, <<>>}
  <2>1. CASE batch' = queue /\ queue' = <<>>
    BY <1>1, <1>3, <2>1
  <2>2. CASE batch' = <<>> /\ queue' = queue
    BY <1>1, <1>3, <2>2
  <2>3. CASE batch' = <<>> /\ queue' = <<>>
    BY <1>3, <2>3
  <2> QED
    BY <1>2, <2>1, <2>2, <2>3 DEF Passes
<1>5. Moved
  BY <1>2, <1>4 DEF Moved, DiskType
<1>6. ServerType'
  BY <1>1, <1>2 DEF ServerType, Passes
<1>7. LoggerType'
  BY <1>2, <1>4 DEF LoggerType, Passes
<1>8. Quiescent' /\ BatchInWrite' /\ NoStranded'
  BY <1>2 DEF Quiescent, BatchInWrite, NoStranded, Passes, Up, isFlushing
<1>9. LoggerInv'
  BY <1>2, <1>6, <1>7, <1>8, LoggerNext
<1>10. closer' = "none" => closer = "none" /\ batch' \o queue' = queue
  BY <1>2 DEF Passes
<1>11. Exact'
  BY <1>2, <1>5, <1>10, MovedExact
<1> QED
  BY <1>5, <1>9, <1>11

\* A command before close puts its frame behind the log.
LEMMA MutateKeeps ==
    ASSUME LoggerInv, Exact, NEW c \in Client, MutateAndFlush(c) \/ MutateBehindFlush(c)
    PROVE  LoggerInv' /\ Added /\ Exact'
<1>1. /\ file \in Seq(Nat) /\ batch \in Seq(Nat) /\ queue \in Seq(Nat) /\ nextId \in Nat
      /\ Given \in Seq(Nat) /\ Logged = Given \o queue /\ engine \in Seq(Nat \ {0})
  BY LogTypes
<1>2. /\ ServerType /\ LoggerType /\ DiskType /\ BatchInWrite /\ nextId \in Nat \ {0}
      /\ fsyncPolicy \in Policies /\ acked \in SUBSET Nat /\ waited \in SUBSET acked
  BY TypeParts DEF LoggerInv, ServerType
<1>3. /\ Up /\ closer = "none" /\ engine' = Append(engine, nextId) /\ nextId' = nextId + 1
      /\ dirty' = dirty + 1
      /\ UNCHANGED <<fsyncPolicy, faults, powerCuts, status, crashes, waited, file, durable,
                     immediate, syncFrom, closer>>
  BY DEF MutateAndFlush, MutateBehindFlush, Apply, Enqueue, disk
<1>4. Append(queue, nextId) \in Seq(Nat) /\ Given \o Append(queue, nextId) = Append(Logged, nextId)
  BY <1>1, AppendProperties, AppendJoin
<1>5. <<>> \in Seq(Nat)
  BY EmptySeq
<1> DEFINE Grown ==
             /\ Logged' = Append(Logged, nextId) /\ LoggerType' /\ BatchInWrite' /\ NoStranded'
             /\ acked' \in SUBSET Nat /\ waited' \in SUBSET acked'
<1>6. ASSUME MutateAndFlush(c)
      PROVE  Grown
  <2>1. /\ batch' = Append(queue, nextId) /\ queue' = <<>> /\ flush.pc = "idle"
        /\ flush' = [pc |-> "write", who |-> c, id |-> nextId] /\ acked' = acked
    BY <1>6 DEF MutateAndFlush, TakeBatch, isFlushing
  <2>2. batch = <<>>
    BY <1>2, <2>1 DEF BatchInWrite
  <2>3. Given = file
    BY <1>1, <2>2, ConcatEmptySeq DEF Given
  <2>4. file \o Append(queue, nextId) \in Seq(Nat)
    BY <1>1, <1>4, ConcatProperties
  <2>5. (file \o Append(queue, nextId)) \o <<>> = file \o Append(queue, nextId)
    BY <2>4, ConcatEmptySeq
  <2>6. Logged' = Append(Logged, nextId)
    BY <1>3, <1>4, <2>1, <2>3, <2>5 DEF Logged
  <2>7. flush' \in Flush(Len(file'))
    BY <1>1, <2>1 DEF Flush, Caller
  <2>8. LoggerType'
    BY <1>2, <1>3, <1>4, <1>5, <2>1, <2>7 DEF LoggerType
  <2>9. BatchInWrite' /\ NoStranded' /\ acked' \in SUBSET Nat /\ waited' \in SUBSET acked'
    BY <1>2, <1>3, <2>1 DEF BatchInWrite, NoStranded, isFlushing
  <2> QED
    BY <2>6, <2>8, <2>9
<1>7. ASSUME MutateBehindFlush(c)
      PROVE  Grown
  <2>1. /\ queue' = Append(queue, nextId) /\ acked' = acked \cup {nextId}
        /\ UNCHANGED <<batch, flush>> /\ flush.pc # "idle"
    BY <1>7 DEF MutateBehindFlush, isFlushing
  <2>2. Logged' = Append(Logged, nextId)
    BY <1>3, <1>4, <2>1 DEF Logged, Given
  <2>3. LoggerType'
    BY <1>2, <1>3, <1>4, <2>1 DEF LoggerType
  <2>4. BatchInWrite' /\ NoStranded' /\ acked' \in SUBSET Nat /\ waited' \in SUBSET acked'
    BY <1>1, <1>2, <1>3, <2>1 DEF BatchInWrite, NoStranded, isFlushing
  <2> QED
    BY <2>2, <2>3, <2>4
<1>8. Grown
  BY <1>6, <1>7
<1>9. Append(engine, nextId) \in Seq(Nat \ {0})
  BY <1>1, <1>2, AppendProperties
<1>10. ServerType'
  BY <1>2, <1>3, <1>8, <1>9 DEF ServerType
<1>11. DiskType'
  BY <1>2, <1>3 DEF DiskType
<1>12. Quiescent'
  BY <1>3 DEF Quiescent, Up
<1>13. Exact'
  <2>1. SUFFICES ASSUME ~faults
                 PROVE  Exact'
    BY <1>3 DEF Exact
  <2>2. engine = Logged /\ status # "refused" /\ status' = status /\ Up'
    BY <1>3, <2>1 DEF Exact, Up
  <2>3. engine' = Logged'
    BY <1>3, <1>8, <2>2
  <2>4. engine' \in Seq(Nat)
    BY <1>3, <1>9, SeqMonotonic
  <2>5. Begins(engine', engine')
    BY <2>4, LenProperties DEF Begins
  <2>6. Begins(Logged', engine')
    BY <2>3, <2>5
  <2> QED
    BY <2>2, <2>3, <2>6 DEF Exact, Begins
<1> QED
  BY <1>3, <1>8, <1>10, <1>11, <1>12, <1>13, LoggerNext DEF Added

\* Frames that stay where they are keep their history, which may go on after close.
LEMMA KeptExact ==
    ASSUME LoggerInv, Exact, UNCHANGED <<file, batch, queue, faults, status>>,
           closer' = "none" => closer = "none",
           engine' = engine \/ (closer' # "none" /\ engine' = Append(engine, nextId))
    PROVE  Exact'
<1>1. Logged \in Seq(Nat) /\ engine \in Seq(Nat) /\ nextId \in Nat
  BY LogTypes
<1>2. Logged' = Logged /\ (Up' <=> Up) /\ (TornAtEnd' <=> TornAtEnd) /\ Whole(file)' = Whole(file)
  BY DEF Logged, Up, TornAtEnd, Whole
<1>3. CASE engine' = engine
  BY <1>2, <1>3 DEF Exact, Begins
<1>4. CASE closer' # "none" /\ engine' = Append(engine, nextId)
  <2> DEFINE e == Append(engine, nextId)
  <2>1. /\ Len(engine) \in Nat /\ Len(e) = Len(engine) + 1
        /\ \A i \in 1..Len(engine) : e[i] = engine[i]
    BY <1>1, LenProperties, AppendProperties
  <2> HIDE DEF e
  <2>2. ASSUME NEW s \in Seq(Nat), Begins(s, engine)
        PROVE  Begins(s, e)
    <3>1. Len(s) \in Nat /\ Len(s) <= Len(engine) /\ \A i \in 1..Len(s) : s[i] = engine[i]
      BY <2>2, LenProperties DEF Begins
    <3>2. \A i \in 1..Len(s) : i \in 1..Len(engine)
      BY <2>1, <3>1
    <3>3. \A i \in 1..Len(s) : s[i] = e[i]
      BY <2>1, <3>1, <3>2
    <3>4. Len(s) <= Len(e)
      BY <2>1, <3>1
    <3> QED
      BY <3>3, <3>4 DEF Begins
  <2>3. Whole(file) \in Seq(Nat)
    <3>1. file \in Seq(Nat)
      BY LogTypes
    <3> QED
      BY <3>1, WholeShape
  <2>4. engine' = e
    BY <1>4 DEF e
  <2>5. SUFFICES ASSUME ~faults
                 PROVE  Exact'
    BY DEF Exact
  <2>6. /\ status # "refused"
        /\ Up => Begins(Logged, engine)
        /\ ~Up => TornAtEnd /\ Begins(Whole(file), engine)
    BY <2>5 DEF Exact
  <2>7. /\ Up => Begins(Logged, e)
        /\ ~Up => Begins(Whole(file), e)
    BY <1>1, <2>2, <2>3, <2>6
  <2>8. Up' => Begins(Logged', engine')
    BY <1>2, <2>4, <2>7
  <2>9. ~Up' => TornAtEnd' /\ Begins(Whole(file)', engine')
    BY <1>2, <2>4, <2>6, <2>7
  <2>10. status' # "refused" /\ closer' # "none"
    BY <1>4, <2>6
  <2> QED
    BY <2>8, <2>9, <2>10 DEF Exact, Begins, Whole
<1> QED
  BY <1>3, <1>4

\* The steps that leave every frame where it is.
QuietStep ==
    \/ \E c \in Client : MutateClosed(c)
    \/ ImmediateIdle \/ SyncTick \/ TimerSyncOk \/ TimerSyncFails
    \/ CloseSyncOk \/ CloseSyncFails \/ CloseDone

\* A datasync that returns has the file as it was or more of it on the disk.
LEMMA CoveredInFile ==
    ASSUME file \in Seq(Nat), durable \in 0..Len(file), NEW from \in {NoSync} \cup 0..Len(file),
           durable' \in Covered(from)
    PROVE  durable' \in 0..Len(file)
BY LenProperties DEF Covered, NoSync

\* A sync that ends is forgotten.
LEMMA SyncForgotten ==
    ASSUME LoggerType, NEW s \in {"timer", "closer"}, syncFrom' = [syncFrom EXCEPT ![s] = NoSync], file' = file
    PROVE  syncFrom' \in Syncs(Len(file'))
BY DEF LoggerType, Syncs

\* What the quiet steps of the logger itself change.
LEMMA QuietLogger ==
    ASSUME LoggerInv, QuietStep, ~\E c \in Client : MutateClosed(c)
    PROVE  /\ Up /\ UNCHANGED <<server, file, batch, queue, flush>>
           /\ closer' = "none" => closer = "none"
           /\ LoggerType' /\ DiskType' /\ NoStranded'
<1>1. /\ LoggerType /\ DiskType /\ NoStranded /\ file \in Seq(Nat) /\ Len(file) \in Nat
      /\ immediate \in BOOLEAN /\ syncFrom \in Syncs(Len(file)) /\ closer \in Closer
  BY LogTypes, LenProperties, TypeParts DEF LoggerInv, LoggerType
<1>2. Up /\ UNCHANGED <<server, file, batch, queue, flush>>
  BY DEF QuietStep, ImmediateIdle, SyncTick, TimerSyncOk, TimerSyncFails, CloseSyncOk, CloseSyncFails,
         CloseDone, disk
<1>3. syncFrom["timer"] \in {NoSync} \cup 0..Len(file) /\ syncFrom["closer"] \in {NoSync} \cup 0..Len(file)
  BY <1>1 DEF Syncs
<1>4. /\ closer' = "none" => closer = "none"
      /\ closer' \in Closer
      /\ HandleOpen' => HandleOpen
  BY <1>1 DEF QuietStep, ImmediateIdle, SyncTick, TimerSyncOk, TimerSyncFails, CloseSyncOk, CloseSyncFails,
              CloseDone, CallEnds, AfterCloseSync, LastCall, HandleOpen, Closer
<1>5. syncFrom' \in Syncs(Len(file'))
  <2>1. CASE ImmediateIdle \/ CloseDone
    BY <1>1, <1>2, <2>1 DEF ImmediateIdle, CloseDone
  <2>2. CASE SyncTick
    <3>1. syncFrom' = [syncFrom EXCEPT !["timer"] = Len(file)] /\ Len(file) \in 0..Len(file)
      BY <1>1, <2>2 DEF SyncTick
    <3> QED
      BY <1>1, <1>2, <3>1 DEF Syncs
  <2>3. CASE TimerSyncOk \/ TimerSyncFails
    BY <1>1, <1>2, <2>3, SyncForgotten DEF TimerSyncOk, TimerSyncFails
  <2>4. CASE CloseSyncOk \/ CloseSyncFails
    BY <1>1, <1>2, <2>4, SyncForgotten DEF CloseSyncOk, CloseSyncFails
  <2> QED
    BY <2>1, <2>2, <2>3, <2>4 DEF QuietStep
<1>6. durable' \in 0..Len(file') /\ dirty' \in Nat
  <2>1. CASE TimerSyncOk
    <3>1. durable' \in Covered(syncFrom["timer"]) /\ dirty' = 0
      BY <2>1 DEF TimerSyncOk
    <3> QED
      BY <1>1, <1>2, <1>3, <3>1, CoveredInFile DEF DiskType
  <2>2. CASE CloseSyncOk
    <3>1. durable' \in Covered(syncFrom["closer"]) /\ dirty' = dirty
      BY <2>2 DEF CloseSyncOk
    <3> QED
      BY <1>1, <1>2, <1>3, <3>1, CoveredInFile DEF DiskType
  <2>3. CASE ImmediateIdle \/ SyncTick \/ TimerSyncFails \/ CloseSyncFails \/ CloseDone
    BY <1>1, <1>2, <2>3 DEF ImmediateIdle, SyncTick, TimerSyncFails, CloseSyncFails, CloseDone, disk, DiskType
  <2> QED
    BY <2>1, <2>2, <2>3 DEF QuietStep
<1>7. immediate' \in BOOLEAN
  BY <1>1 DEF QuietStep, ImmediateIdle, SyncTick, TimerSyncOk, TimerSyncFails, CloseSyncOk, CloseSyncFails,
              CloseDone
<1>8. LoggerType'
  BY <1>1, <1>2, <1>4, <1>5, <1>7 DEF LoggerType
<1>9. DiskType'
  BY <1>1, <1>2, <1>6 DEF DiskType
<1>10. NoStranded'
  <2>1. CASE ImmediateIdle
    BY <1>2, <2>1 DEF ImmediateIdle, NoStranded, HandleOpen, isFlushing
  <2>2. CASE ~ImmediateIdle
    <3>1. UNCHANGED immediate
      BY <2>2 DEF QuietStep, SyncTick, TimerSyncOk, TimerSyncFails, CloseSyncOk, CloseSyncFails, CloseDone
    <3> QED
      BY <1>1, <1>2, <1>4, <3>1 DEF NoStranded, isFlushing, Up
  <2> QED
    BY <2>1, <2>2
<1> QED
  BY <1>2, <1>4, <1>8, <1>9, <1>10

\* A quiet step keeps the log; after close the engine runs ahead of it.
LEMMA QuietKeeps ==
    ASSUME LoggerInv, Exact, QuietStep
    PROVE  LoggerInv' /\ Kept /\ Exact'
<1>1. /\ ServerType /\ LoggerType /\ DiskType /\ Quiescent /\ BatchInWrite /\ NoStranded
      /\ nextId \in Nat \ {0} /\ engine \in Seq(Nat \ {0})
  BY LogTypes, TypeParts DEF LoggerInv, ServerType
<1>2. CASE \E c \in Client : MutateClosed(c)
  <2>1. PICK c \in Client : MutateClosed(c)
    BY <1>2
  <2>2. /\ Up /\ closer # "none" /\ engine' = Append(engine, nextId) /\ nextId' = nextId + 1
        /\ UNCHANGED <<fsyncPolicy, faults, powerCuts, status, crashes, acked, waited, file, durable>>
        /\ UNCHANGED <<immediate, syncFrom, closer, queue, batch, flush, dirty>>
    BY <2>1 DEF MutateClosed, Apply, disk
  <2>3. Append(engine, nextId) \in Seq(Nat \ {0})
    BY <1>1, AppendProperties
  <2>4. ServerType'
    BY <1>1, <2>2, <2>3 DEF ServerType
  <2>5. LoggerType' /\ DiskType'
    BY <1>1, <2>2 DEF LoggerType, DiskType
  <2>6. Quiescent' /\ BatchInWrite' /\ NoStranded'
    BY <1>1, <2>2 DEF Quiescent, BatchInWrite, NoStranded, HandleOpen, isFlushing, Up
  <2>7. Kept
    BY <1>1, <2>2 DEF Kept
  <2>8. Exact'
    BY <2>2, KeptExact
  <2> QED
    BY <2>4, <2>5, <2>6, <2>7, <2>8, LoggerNext
<1>3. CASE ~\E c \in Client : MutateClosed(c)
  <2>1. /\ Up /\ UNCHANGED <<server, file, batch, queue, flush>>
        /\ closer' = "none" => closer = "none"
        /\ LoggerType' /\ DiskType' /\ NoStranded'
    BY <1>3, QuietLogger
  <2>2. UNCHANGED <<fsyncPolicy, faults, powerCuts, status, engine, nextId, acked, waited, crashes>>
    BY <2>1 DEF server
  <2>3. ServerType' /\ Kept
    BY <1>1, <2>1, <2>2 DEF ServerType, Kept
  <2>4. Quiescent' /\ BatchInWrite'
    BY <1>1, <2>1, <2>2 DEF Quiescent, BatchInWrite, Up
  <2>5. Exact'
    BY <2>1, <2>2, KeptExact
  <2> QED
    BY <2>1, <2>3, <2>4, <2>5, LoggerNext
<1> QED
  BY <1>2, <1>3

\* The steps that take what is queued while no flush runs, or drop it for want of a handle.
LEMMA TakingKeeps ==
    ASSUME LoggerInv, Exact, ImmediateFlush \/ CloseStart
    PROVE  LoggerInv' /\ (Kept \/ Moved) /\ Exact'
<1>1. /\ ServerType /\ LoggerType /\ DiskType /\ Quiescent /\ BatchInWrite /\ NoStranded
      /\ nextId \in Nat \ {0} /\ closer \in Closer /\ syncFrom \in Syncs(Len(file))
  BY TypeParts DEF LoggerInv, ServerType, LoggerType
<1>2. /\ file \in Seq(Nat) /\ queue \in Seq(Nat) /\ nextId \in Nat /\ Len(file) \in Nat
      /\ <<>> \in Seq(Nat) /\ queue \o <<>> = queue /\ <<>> \o <<>> = <<>>
  BY LogTypes, LenProperties, EmptySeq, ConcatEmptySeq
<1>3. /\ Up /\ UNCHANGED <<fsyncPolicy, faults, powerCuts, status, engine, nextId, acked, waited, crashes>>
      /\ UNCHANGED <<file, durable, dirty>>
  BY DEF ImmediateFlush, CloseStart, server, disk
<1>4. ServerType' /\ DiskType' /\ Quiescent'
  BY <1>1, <1>3 DEF ServerType, DiskType, Quiescent, Up
<1> DEFINE Takes(who) == TakeBatch(queue, who, Torn)
<1>5. ASSUME flush.pc = "idle", NEW who \in Caller, Takes(who)
      PROVE  flush' \in Flush(Len(file')) /\ Moved /\ BatchInWrite' /\ queue' = <<>>
             /\ batch' \o queue' = queue /\ batch' \in Seq(Nat) /\ file' = Given
  <2>1. batch' = queue /\ queue' = <<>> /\ flush' = [pc |-> "write", who |-> who, id |-> Torn]
    BY <1>5 DEF TakeBatch
  <2>2. batch = <<>>
    BY <1>1, <1>5 DEF BatchInWrite
  <2>3. Given = file
    BY <1>2, <2>2, ConcatEmptySeq DEF Given
  <2>4. PartOf(file', Given)
    BY <1>2, <1>3, <2>3 DEF PartOf
  <2>5. flush' \in Flush(Len(file'))
    BY <1>5, <2>1 DEF Flush, Torn
  <2> QED
    BY <1>2, <1>3, <2>1, <2>3, <2>4, <2>5 DEF Moved, BatchInWrite
<1> HIDE DEF Takes
<1>6. CASE ImmediateFlush
  <2>1. flush.pc = "idle" /\ ~immediate' /\ immediate' \in BOOLEAN /\ UNCHANGED <<closer, syncFrom>>
    BY <1>6 DEF ImmediateFlush, isFlushing
  <2>2. CASE HandleOpen
    <3>1. Takes("immediate") /\ "immediate" \in Caller
      BY <1>6, <2>2 DEF ImmediateFlush, Takes, Caller
    <3>2. /\ flush' \in Flush(Len(file')) /\ Moved /\ BatchInWrite' /\ queue' = <<>>
          /\ batch' \o queue' = queue /\ batch' \in Seq(Nat) /\ file' = Given
      BY <1>5, <2>1, <3>1
    <3>3. LoggerType'
      BY <1>1, <1>2, <1>3, <2>1, <3>2 DEF LoggerType
    <3>4. NoStranded'
      BY <3>2 DEF NoStranded
    <3>5. Exact'
      BY <1>3, <2>1, <3>2, MovedExact
    <3> QED
      BY <1>4, <3>2, <3>3, <3>4, <3>5, LoggerNext
  <2>3. CASE ~HandleOpen
    <3>1. queue' = <<>> /\ UNCHANGED <<batch, flush>> /\ closer # "none"
      BY <1>6, <2>3 DEF ImmediateFlush, HandleOpen
    <3>2. batch = <<>>
      BY <1>1, <2>1 DEF BatchInWrite
    <3>3. Given = file
      BY <1>2, <3>2, ConcatEmptySeq DEF Given
    <3>4. PartOf(file', Given)
      BY <1>2, <1>3, <3>3 DEF PartOf
    <3>5. Moved
      BY <1>2, <1>3, <3>1, <3>2, <3>4 DEF Moved
    <3>6. LoggerType'
      BY <1>1, <1>2, <1>3, <2>1, <3>1 DEF LoggerType
    <3>7. BatchInWrite' /\ NoStranded'
      BY <1>1, <3>1 DEF BatchInWrite, NoStranded
    <3>8. closer' # "none"
      BY <2>1, <3>1
    <3>9. Exact'
      BY <1>3, <3>3, <3>5, <3>8, MovedExact
    <3> QED
      BY <1>4, <3>5, <3>6, <3>7, <3>9, LoggerNext
  <2> QED
    BY <2>2, <2>3
<1>7. CASE CloseStart
  <2>1. closer = "none" /\ closer' \in Closer /\ closer' # "none" /\ UNCHANGED immediate
    BY <1>7 DEF CloseStart, Closer
  <2>2. CASE ~isFlushing /\ queue # <<>>
    <3>1. Takes("closer") /\ "closer" \in Caller /\ flush.pc = "idle" /\ UNCHANGED syncFrom
      BY <1>7, <2>2 DEF CloseStart, Takes, Caller, isFlushing
    <3>2. /\ flush' \in Flush(Len(file')) /\ Moved /\ BatchInWrite' /\ queue' = <<>>
          /\ batch' \o queue' = queue /\ batch' \in Seq(Nat) /\ file' = Given
      BY <1>5, <3>1
    <3>3. LoggerType'
      BY <1>1, <1>2, <1>3, <2>1, <3>1, <3>2 DEF LoggerType
    <3>4. NoStranded'
      BY <3>2 DEF NoStranded
    <3>5. Exact'
      BY <1>3, <2>1, <3>2, MovedExact
    <3> QED
      BY <1>4, <3>2, <3>3, <3>4, <3>5, LoggerNext
  <2>3. CASE ~(~isFlushing /\ queue # <<>>)
    <3>1. /\ syncFrom' = [syncFrom EXCEPT !["closer"] = Len(file)]
          /\ UNCHANGED <<queue, batch, flush>>
      BY <1>7, <2>3 DEF CloseStart
    <3>2. syncFrom' \in Syncs(Len(file')) /\ Len(file) \in 0..Len(file)
      BY <1>1, <1>2, <1>3, <3>1 DEF Syncs
    <3>3. LoggerType'
      BY <1>1, <1>3, <2>1, <3>1, <3>2 DEF LoggerType
    <3>4. BatchInWrite' /\ NoStranded'
      BY <1>1, <2>3, <3>1 DEF BatchInWrite, NoStranded, isFlushing
    <3>5. Kept
      BY <1>2, <1>3, <3>1 DEF Kept
    <3>6. Exact'
      BY <1>3, <2>1, <3>1, KeptExact
    <3> QED
      BY <1>4, <3>3, <3>4, <3>5, <3>6, LoggerNext
  <2> QED
    BY <2>2, <2>3
<1> QED
  BY <1>6, <1>7

\* What a crash of the process leaves of the running writev is a part of it.
LEMMA CrashLeavesPart ==
    ASSUME TypeOK, BatchInWrite, Crash
    PROVE  file' \in Seq(Nat) /\ PartOf(file', Given) /\ Len(file) <= Len(file')
<1>1. PICK frames \in InFlight : file' = file \o frames
  BY DEF Crash
<1>2. frames = batch \/ frames \in Partial(batch)
  BY <1>1 DEF InFlight, BatchInWrite
<1> QED
  BY <1>1, <1>2, WriteAdds

\* The end of the process leaves nothing of the logger, and of the log a part.
LEMMA EndKeeps ==
    ASSUME LoggerInv, Exact, Exit \/ Crash \/ PowerCut
    PROVE  LoggerInv' /\ Moved /\ Exact'
<1>1. /\ TypeOK /\ ServerType /\ DiskType /\ BatchInWrite /\ nextId \in Nat
      /\ file \in Seq(Nat) /\ batch \in Seq(Nat) /\ Len(file) \in Nat /\ Len(batch) \in Nat
      /\ durable \in 0..Len(file) /\ crashes \in Nat
  BY LogTypes, LenProperties, TypeParts DEF LoggerInv, ServerType, DiskType
<1>2. /\ Up /\ status' = "down" /\ crashes' = crashes + 1 /\ FreshLogger
      /\ UNCHANGED <<fsyncPolicy, faults, powerCuts, engine, nextId, acked, waited>>
  BY DEF Exit, Crash, PowerCut
<1>3. file' \in Seq(Nat) /\ PartOf(file', Given) /\ durable' \in 0..Len(file')
  <2>1. CASE Exit
    <3>1. file' = file /\ durable' = durable
      BY <2>1 DEF Exit, disk
    <3>2. PartOf(file, Given)
      <4>1. /\ Len(Given) = Len(file) + Len(batch)
            /\ \A i \in 1..Len(file) + Len(batch) :
                   Given[i] = IF i <= Len(file) THEN file[i] ELSE batch[i - Len(file)]
        BY <1>1, ConcatProperties DEF Given
      <4>2. \A i \in 1..Len(file) : Given[i] = file[i]
        BY <1>1, <4>1
      <4> QED
        BY <1>1, <4>1, <4>2 DEF PartOf
    <3> QED
      BY <1>1, <3>1, <3>2
  <2>2. CASE Crash
    <3>1. file' \in Seq(Nat) /\ PartOf(file', Given) /\ Len(file) <= Len(file') /\ durable' = durable
      BY <1>1, <2>2, CrashLeavesPart DEF Crash
    <3>2. Len(file') \in Nat
      BY <3>1, LenProperties
    <3> QED
      BY <1>1, <3>1, <3>2
  <2>3. CASE PowerCut
    <3>1. file' \in Seq(Nat) /\ PartOf(file', Given) /\ durable' = Len(file')
      BY <1>1, <2>3, CutLeavesPart DEF PowerCut
    <3>2. Len(file') \in Nat
      BY <3>1, LenProperties
    <3> QED
      BY <3>1, <3>2
  <2> QED
    BY <2>1, <2>2, <2>3
<1>4. Len(file') \in Nat
  BY <1>3, LenProperties
<1>5. /\ queue' = <<>> /\ batch' = <<>> /\ dirty' = 0
      /\ LoggerType' /\ Quiescent' /\ BatchInWrite' /\ NoStranded'
  BY <1>2, <1>4, FreshIsQuiescent
<1>6. ServerType' /\ DiskType'
  BY <1>1, <1>2, <1>3, <1>5 DEF ServerType, DiskType
<1>7. <<>> \in Seq(Nat) /\ <<>> \o <<>> = <<>>
  BY EmptySeq, ConcatEmptySeq
<1>8. Moved
  BY <1>2, <1>3, <1>5, <1>7 DEF Moved
<1>9. Exact'
  BY <1>2, <1>3, DownExact
<1> QED
  BY <1>5, <1>6, <1>8, <1>9, LoggerNext

\* Recovery makes the engine's history and the file the same whole frames.
LEMMA RestoreKeeps ==
    ASSUME LoggerInv, Exact, restore
    PROVE  LoggerInv' /\ Moved /\ Exact'
<1>1. /\ TypeOK /\ ServerType /\ LoggerType /\ DiskType /\ Quiescent /\ nextId \in Nat
      /\ file \in Seq(Nat) /\ durable \in Nat /\ acked \in SUBSET Nat /\ waited \in SUBSET acked
  BY LogTypes, LenProperties, TypeParts DEF LoggerInv, ServerType, DiskType
<1>2. /\ status = "down" /\ TornAtEnd /\ status' = "up"
      /\ engine' = Whole(file) /\ file' = Whole(file)
      /\ durable' = SyncedAfter(Len(file'))
      /\ acked' = acked \cap ToSet(CompleteFrames) /\ waited' = waited \cap ToSet(CompleteFrames)
      /\ UNCHANGED <<fsyncPolicy, faults, powerCuts, nextId, crashes>>
      /\ UNCHANGED <<queue, batch, flush, dirty, immediate, syncFrom, closer>>
  BY DEF restore, logger, CompleteFrames
<1>3. /\ queue = <<>> /\ batch = <<>> /\ flush = Resting
      /\ ~immediate /\ syncFrom = NoSyncs /\ closer = "none"
  BY <1>1, <1>2 DEF Quiescent, Up
<1>4. Whole(file) \in Seq(Nat \ {0})
  BY <1>1, <1>2, WholeIsWhole DEF TornAtEnd
<1>5. Whole(file) \in Seq(Nat) /\ PartOf(Whole(file), file)
  BY <1>1, WholeShape
<1>6. ServerType'
  BY <1>1, <1>2, <1>4 DEF ServerType
<1>7. Len(file') \in Nat
  BY <1>2, <1>5, LenProperties
<1>8. DiskType'
  <2>1. durable' = IF durable < Len(file') THEN durable ELSE Len(file')
    BY <1>2 DEF SyncedAfter
  <2>2. durable' \in 0..Len(file')
    BY <1>1, <1>7, <2>1
  <2>3. dirty' \in Nat
    BY <1>1, <1>2 DEF DiskType
  <2> QED
    BY <1>2, <1>5, <2>2, <2>3 DEF DiskType
<1>9. <<>> \in Seq(Nat) /\ <<>> \o <<>> = <<>>
  BY EmptySeq, ConcatEmptySeq
<1>10. LoggerType'
  <2>1. syncFrom' \in Syncs(Len(file'))
    BY <1>2, <1>3 DEF Syncs, NoSyncs
  <2> QED
    BY <1>1, <1>2, <1>3, <1>9, <2>1 DEF LoggerType, Flush
<1>11. Quiescent' /\ BatchInWrite' /\ NoStranded'
  BY <1>2, <1>3 DEF Quiescent, BatchInWrite, NoStranded, Up
<1>12. Given = file
  BY <1>1, <1>3, ConcatEmptySeq DEF Given
<1>13. Moved
  BY <1>2, <1>3, <1>5, <1>9, <1>12 DEF Moved
<1>14. Exact'
  <2>1. Logged' = Whole(file) \o <<>>
    BY <1>2, <1>3, <1>9, <1>13, MovedLog
  <2>2. Logged' = Whole(file)
    BY <1>5, <2>1, ConcatEmptySeq
  <2>3. Begins(Whole(file), Whole(file))
    BY <1>5, LenProperties DEF Begins
  <2>4. engine' = Logged' /\ Begins(Logged', engine') /\ Up' /\ status' # "refused"
    BY <1>2, <2>2, <2>3 DEF Up
  <2> QED
    BY <2>4 DEF Exact, Begins
<1> QED
  BY <1>6, <1>8, <1>10, <1>11, <1>13, <1>14, LoggerNext

\* Recovery that refuses changes nothing, and refuses only a file that a write error has
\* touched.
LEMMA RefusalKeeps ==
    ASSUME LoggerInv, Exact, restoreThrows
    PROVE  LoggerInv' /\ Kept /\ Exact' /\ faults
<1>1. /\ ServerType /\ LoggerType /\ DiskType /\ Quiescent /\ BatchInWrite /\ NoStranded /\ nextId \in Nat
  BY LogTypes, TypeParts DEF LoggerInv
<1>2. /\ status = "down" /\ ~TornAtEnd /\ status' = "refused"
      /\ UNCHANGED <<fsyncPolicy, faults, powerCuts, engine, nextId, acked, waited, crashes>>
      /\ UNCHANGED <<queue, batch, flush, dirty, immediate, syncFrom, closer, file, durable>>
  BY DEF restoreThrows, logger, disk
<1>3. faults
  BY <1>2 DEF Exact, Up
<1>4. ServerType' /\ LoggerType' /\ DiskType'
  BY <1>1, <1>2 DEF ServerType, LoggerType, DiskType
<1>5. Quiescent' /\ BatchInWrite' /\ NoStranded'
  BY <1>1, <1>2 DEF Quiescent, BatchInWrite, NoStranded, Up, HandleOpen, isFlushing
<1>6. Kept
  BY <1>1, <1>2 DEF Kept
<1>7. Exact'
  BY <1>2, <1>3 DEF Exact
<1> QED
  BY <1>3, <1>4, <1>5, <1>6, <1>7, LoggerNext

\* A step of the system moves, adds to or keeps the log and its history.
LEMMA AofInductive ==
    ASSUME AofInv, [Next]_vars
    PROVE  AofInv'
<1>1. LoggerInv /\ Ascending(Logged) /\ Below /\ Exact
  BY DEF AofInv
<1> DEFINE Step == LoggerInv' /\ (Kept \/ Added \/ Moved) /\ Exact'
<1>2. ASSUME Step
      PROVE  AofInv'
  <2>1. Ascending(Logged)' /\ Below'
    BY <1>1, <1>2, OrderKept
  <2> QED
    BY <1>2, <2>1 DEF AofInv
<1>3. ASSUME Next
      PROVE  Step
  <2>1. \/ \E c \in Client : MutateAndFlush(c) \/ MutateBehindFlush(c)
        \/ QuietStep \/ FlushStep
        \/ ImmediateFlush \/ CloseStart
        \/ Exit \/ Crash \/ PowerCut \/ restore \/ restoreThrows
    BY <1>3 DEF Next, Flusher, Closing, Disturbance, QuietStep, FlushStep
  <2>2. ASSUME NEW c \in Client, MutateAndFlush(c) \/ MutateBehindFlush(c)
        PROVE  Step
    BY <1>1, <2>2, MutateKeeps
  <2>3. ASSUME QuietStep PROVE Step
    BY <1>1, <2>3, QuietKeeps
  <2>4. ASSUME FlushStep PROVE Step
    BY <1>1, <2>4, FlushStepKeeps
  <2>5. ASSUME ImmediateFlush \/ CloseStart PROVE Step
    BY <1>1, <2>5, TakingKeeps
  <2>6. ASSUME Exit \/ Crash \/ PowerCut PROVE Step
    BY <1>1, <2>6, EndKeeps
  <2>7. ASSUME restore PROVE Step
    BY <1>1, <2>7, RestoreKeeps
  <2>8. ASSUME restoreThrows PROVE Step
    BY <1>1, <2>8, RefusalKeeps
  <2> QED
    BY <2>1, <2>2, <2>3, <2>4, <2>5, <2>6, <2>7, <2>8
<1>4. ASSUME UNCHANGED vars
      PROVE  AofInv'
  <2>1. /\ UNCHANGED <<fsyncPolicy, faults, powerCuts, status, engine, nextId, acked, waited, crashes>>
        /\ UNCHANGED <<queue, batch, flush, dirty, immediate, syncFrom, closer, file, durable>>
    BY <1>4 DEF vars, server, logger, disk
  <2>2. nextId \in Nat /\ ServerType /\ LoggerType /\ DiskType /\ Quiescent /\ BatchInWrite /\ NoStranded
    BY <1>1, LogTypes, TypeParts DEF LoggerInv
  <2>3. ServerType' /\ LoggerType' /\ DiskType'
    BY <2>1, <2>2 DEF ServerType, LoggerType, DiskType
  <2>4. Quiescent' /\ BatchInWrite' /\ NoStranded'
    BY <2>1, <2>2 DEF Quiescent, BatchInWrite, NoStranded, Up, HandleOpen, isFlushing
  <2>5. Kept
    BY <2>1, <2>2 DEF Kept
  <2>6. Exact'
    BY <1>1, <2>1, KeptExact
  <2> QED
    BY <1>2, <2>3, <2>4, <2>5, <2>6, LoggerNext
<1> HIDE DEF Step
<1> QED
  BY <1>2, <1>3, <1>4

\* It holds of a server that has just started on an empty file.
LEMMA AofInitial ==
    ASSUME Init
    PROVE  AofInv
<1>1. /\ <<>> \in Seq(Nat) /\ <<>> \in Seq(Nat \ {0}) /\ Len(<<>>) = 0 /\ <<>> \o <<>> = <<>>
      /\ DOMAIN <<>> = {}
  BY EmptySeq, ConcatEmptySeq
<1>2. /\ fsyncPolicy \in Policies /\ faults \in Faults /\ powerCuts \in PowerCuts
      /\ status = "up" /\ engine = <<>> /\ nextId = 1 /\ crashes = 0
      /\ acked = {} /\ waited = {}
      /\ queue = <<>> /\ batch = <<>> /\ flush = Resting /\ dirty = 0
      /\ immediate = FALSE /\ syncFrom = NoSyncs /\ closer = "none"
      /\ file = <<>> /\ durable = 0
  BY DEF Init
<1>3. ServerType
  BY <1>1, <1>2 DEF ServerType
<1>4. LoggerType
  <2>1. syncFrom \in Syncs(Len(file))
    BY <1>2 DEF Syncs, NoSyncs
  <2> QED
    BY <1>1, <1>2, <2>1 DEF LoggerType, Flush, Closer
<1>5. DiskType
  BY <1>1, <1>2 DEF DiskType
<1>6. Quiescent /\ BatchInWrite /\ NoStranded
  BY <1>2 DEF Quiescent, BatchInWrite, NoStranded, Up
<1>7. Logged = <<>>
  BY <1>1, <1>2 DEF Logged
<1>8. Ascending(Logged) /\ Below
  BY <1>1, <1>7 DEF Ascending, Below, AllBelow
<1>9. Exact
  <2>1. Begins(Logged, engine) /\ engine = Logged /\ Up /\ status # "refused"
    BY <1>1, <1>2, <1>7 DEF Begins, Up
  <2> QED
    BY <2>1 DEF Exact
<1> QED
  BY <1>3, <1>4, <1>5, <1>6, <1>8, <1>9, TypeParts DEF AofInv, LoggerInv

\* Until close the engine's history is what the file, the running writev and the queue
\* have; the frames come in the order of the mutations; and none is left without a flush.
THEOREM LogAlwaysExact == Spec => []LogExact
<1>1. AofInv => LogExact
  BY DEF AofInv, LoggerInv, Exact, LogExact, NothingLost, LogInOrder, Ascending
<1> QED
  BY <1>1, AofInitial, AofInductive, PTL DEF Spec

-----------------------------------------------------------------------------
(***************************************************************************)
(* What recovery restores.                                                 *)
(***************************************************************************)
\* The whole frames of what was synced begin the whole frames of the file.
LEMMA SyncedBegins ==
    ASSUME NEW s \in Seq(Nat), NEW n \in 0..Len(s)
    PROVE  /\ Whole(SubSeq(s, 1, n)) \in Seq(Nat)
           /\ Begins(Whole(SubSeq(s, 1, n)), Whole(s))
<1> DEFINE r == SubSeq(s, 1, n)
           w == Whole(r)
           v == Whole(s)
<1>1. Len(s) \in Nat /\ \A i \in 1..n : s[i] \in Nat
  BY LenProperties, ElementOfSeq
<1>2. /\ r \in Seq(Nat) /\ Len(r) = IF 1 <= n THEN n - 1 + 1 ELSE 0
      /\ \A i \in 1..n - 1 + 1 : r[i] = s[1 + i - 1]
  BY <1>1, SubSeqProperties
<1>3. Len(r) = n /\ \A i \in 1..n : r[i] = s[i]
  BY <1>1, <1>2
<1> HIDE DEF r
<1>4. w \in Seq(Nat) /\ Len(w) \in Nat /\ Len(w) <= Len(r) /\ \A i \in 1..Len(w) : w[i] = r[i]
  BY <1>2, WholeShape DEF Begins
<1>5. /\ v \in Seq(Nat) /\ Len(v) \in Nat /\ Len(v) <= Len(s) /\ Len(v) >= Len(s) - 1
      /\ \A i \in 1..Len(v) : v[i] = s[i]
  BY WholeShape DEF Begins
<1>6. CASE n = Len(s)
  <2>1. r = s
    BY <1>6, SubSeqFull DEF r
  <2>2. w = v
    BY <2>1
  <2>3. v \in Seq(Nat) /\ Begins(v, v)
    BY <1>5 DEF Begins
  <2> QED
    BY <2>2, <2>3 DEF r
<1>7. CASE n # Len(s)
  <2> HIDE DEF w, v
  <2>1. Len(w) <= Len(v)
    BY <1>1, <1>3, <1>4, <1>5, <1>7
  <2>2. ASSUME NEW i \in 1..Len(w)
        PROVE  w[i] = v[i]
    <3>1. i \in 1..n /\ i \in 1..Len(v)
      BY <1>3, <1>4, <1>5, <2>1
    <3>2. w[i] = r[i] /\ r[i] = s[i] /\ v[i] = s[i]
      BY <1>3, <1>4, <1>5, <3>1
    <3> QED
      BY <3>2
  <2> QED
    BY <1>4, <2>1, <2>2 DEF Begins, w, v, r
<1> QED
  BY <1>6, <1>7

\* A file that no write error has touched is never refused, and what recovery restores is
\* how the history begins, with everything that was synced.
THEOREM RecoveryRestoresPrefix == Spec => RecoversPrefix
<1> DEFINE Restores ==
        status = "down" /\ status' # "down" /\ ~faults =>
            /\ status' = "up"
            /\ IsPrefix(engine', engine)
            /\ IsPrefix(Whole(SubSeq(file, 1, durable)), engine')
<1>1. ASSUME AofInv, [Next]_vars
      PROVE  [Restores]_vars
  <2>1. SUFFICES ASSUME status = "down", status' # "down", ~faults
                 PROVE  Restores
    OBVIOUS
  <2>2. LoggerInv /\ Exact /\ ~Up
    BY <1>1, <2>1 DEF AofInv, Up
  <2>3. restore
    <3>1. restore \/ restoreThrows
      <4>1. Next
        BY <1>1, <2>1 DEF vars, server
      <4> QED
        BY <2>2, <4>1 DEF Next, MutateAndFlush, MutateBehindFlush, MutateClosed, Apply, Flusher, WriteOk,
            SyncOk, ImmediateIdle, ImmediateFlush, SyncTick, TimerSyncOk, CloseStart, Closing, CloseSyncOk,
            CloseDone, Exit, Disturbance, WriteShort, WriteFails, SyncFails, TimerSyncFails,
            CloseSyncFails, Crash, PowerCut
    <3> QED
      BY <2>1, <2>2, <3>1, RefusalKeeps
  <2>4. status' = "up" /\ engine' = Whole(file)
    BY <2>3 DEF restore, CompleteFrames
  <2>5. file \in Seq(Nat) /\ engine \in Seq(Nat) /\ durable \in 0..Len(file)
    BY <2>2, LogTypes DEF LoggerInv, TypeOK
  <2>6. Whole(file) \in Seq(Nat) /\ Begins(Whole(file), engine)
    BY <2>1, <2>2, <2>5, WholeShape DEF Exact
  <2>7. IsPrefix(engine', engine)
    BY <2>4, <2>5, <2>6, PrefixBegins
  <2>8. /\ Whole(SubSeq(file, 1, durable)) \in Seq(Nat)
        /\ Begins(Whole(SubSeq(file, 1, durable)), Whole(file))
    BY <2>5, SyncedBegins
  <2>9. IsPrefix(Whole(SubSeq(file, 1, durable)), engine')
    BY <2>4, <2>6, <2>8, PrefixBegins
  <2> QED
    BY <2>4, <2>7, <2>9
<1> QED
  BY <1>1, AofInitial, AofInductive, PTL DEF Spec, RecoversPrefix

-----------------------------------------------------------------------------
(***************************************************************************)
(* What a client has waited for.                                           *)
(***************************************************************************)
\* How many frames survive the crashes that may come.
Safe == IF powerCuts THEN durable ELSE Len(file)

\* Frame id is among the first n of s.
Has(s, n, id) == \E i \in 1..n : s[i] = id

\* The disk does what it is asked, and power cuts come only under fsync always.
Sound == ~faults /\ (powerCuts => fsyncPolicy = "always")

\* Who has waited has a frame that survives; who waits has one in the running writev, or
\* one that the running datasync covers, unless it survives already.
Settled == \A id \in waited : id # Torn /\ Has(file, Safe, id)
InWrite ==
    flush.pc = "write" /\ flush.who \in Client =>
        flush.id # Torn /\ (Has(file, Safe, flush.id) \/ Has(batch, Len(batch), flush.id))
InSync ==
    flush.pc = "sync" /\ flush.who \in Client =>
        flush.id # Torn /\ (Has(file, Safe, flush.id) \/ Has(file, flush.from, flush.id))

WaitedInv == Sound => Settled /\ InWrite /\ InSync

\* A frame that has survived so far goes on to survive.
LEMMA SafeGrows ==
    ASSUME Settled, UNCHANGED <<faults, powerCuts, fsyncPolicy>>, waited' \subseteq waited,
           Safe \in Nat, Safe' \in Nat, Safe <= Safe', \A i \in 1..Safe : file'[i] = file[i]
    PROVE  Settled' /\ \A id : Has(file, Safe, id) => Has(file', Safe', id)
<1>1. ASSUME NEW id, Has(file, Safe, id)
      PROVE  Has(file', Safe', id)
  <2>1. PICK i \in 1..Safe : file[i] = id
    BY <1>1 DEF Has
  <2>2. i \in 1..Safe' /\ file'[i] = id
    BY <2>1
  <2> QED
    BY <2>2 DEF Has
<1>2. Settled'
  BY <1>1 DEF Settled
<1> QED
  BY <1>1, <1>2

\* What survives is in the file.
LEMMA SafeInFile ==
    ASSUME TypeOK
    PROVE  Safe \in Nat /\ Safe <= Len(file) /\ Len(file) \in Nat /\ durable \in Nat
BY LenProperties DEF TypeOK, Frame, Safe

\* The same after the step.
LEMMA SafeInFileNext ==
    ASSUME DiskType', UNCHANGED powerCuts
    PROVE  Safe' \in Nat /\ Safe' <= Len(file') /\ Len(file') \in Nat /\ durable' \in Nat
BY LenProperties DEF DiskType, Safe

\* Steps that leave the flush and the file alone, or end the flush.
LEMMA SteadyKeeps ==
    ASSUME WaitedInv, UNCHANGED <<faults, powerCuts, fsyncPolicy>>, waited' \subseteq waited,
           Safe \in Nat, Safe' \in Nat, Safe <= Safe', \A i \in 1..Safe : file'[i] = file[i],
           UNCHANGED <<file, batch, flush>> \/ flush' = Resting
    PROVE  WaitedInv'
<1>1. SUFFICES ASSUME Sound
               PROVE  WaitedInv'
  BY DEF WaitedInv, Sound
<1>2. Settled /\ InWrite /\ InSync
  BY <1>1 DEF WaitedInv
<1>3. Settled' /\ \A id : Has(file, Safe, id) => Has(file', Safe', id)
  BY <1>2, SafeGrows
<1>4. CASE UNCHANGED <<file, batch, flush>>
  <2>1. InWrite'
    BY <1>2, <1>3, <1>4 DEF InWrite, Has
  <2>2. InSync'
    BY <1>2, <1>3, <1>4 DEF InSync, Has
  <2> QED
    BY <1>3, <2>1, <2>2 DEF WaitedInv
<1>5. CASE flush' = Resting
  BY <1>3, <1>5 DEF WaitedInv, InWrite, InSync, Resting
<1> QED
  BY <1>4, <1>5

\* The loop goes on or ends with the frame of its caller safe.
LEMMA LoopSettles ==
    ASSUME Sound, Settled, Loop \/ Throw(queue), UNCHANGED <<faults, powerCuts, fsyncPolicy>>,
           Safe \in Nat, Safe' \in Nat, Safe <= Safe', \A i \in 1..Safe : file'[i] = file[i],
           flush.who \in Client => flush.id # Torn /\ Has(file', Safe', flush.id)
    PROVE  WaitedInv'
<1>1. \A id \in waited : id # Torn /\ Has(file', Safe', id)
  <2>1. ASSUME NEW id, Has(file, Safe, id)
        PROVE  Has(file', Safe', id)
    <3>1. PICK i \in 1..Safe : file[i] = id
      BY <2>1 DEF Has
    <3>2. i \in 1..Safe' /\ file'[i] = id
      BY <3>1
    <3> QED
      BY <3>2 DEF Has
  <2> QED
    BY <2>1 DEF Settled
<1>2. CASE Finish
  <2>1. flush' = Resting /\ waited' = waited \cup (IF flush.who \in Client THEN {flush.id} ELSE {})
    BY <1>2 DEF Finish
  <2>2. Settled'
    BY <1>1, <2>1 DEF Settled
  <2> QED
    BY <2>1, <2>2 DEF WaitedInv, InWrite, InSync, Resting
<1>3. CASE Throw(queue) \/ Throw(<<>>)
  <2>1. flush' = Resting /\ waited' = waited
    BY <1>3 DEF Throw
  <2>2. Settled'
    BY <1>1, <2>1 DEF Settled
  <2> QED
    BY <2>1, <2>2 DEF WaitedInv, InWrite, InSync, Resting
<1>4. CASE TakeBatch(queue, flush.who, flush.id) /\ waited' = waited
  <2>1. flush' = [pc |-> "write", who |-> flush.who, id |-> flush.id]
    BY <1>4 DEF TakeBatch
  <2>2. Settled'
    BY <1>1, <1>4 DEF Settled
  <2>3. InWrite'
    BY <2>1 DEF InWrite
  <2>4. InSync'
    BY <2>1 DEF InSync
  <2> QED
    BY <2>2, <2>3, <2>4 DEF WaitedInv
<1> QED
  BY <1>2, <1>3, <1>4 DEF Loop

\* What was written is in the file, and what was synced is on the disk.
LEMMA FlushSettles ==
    ASSUME LoggerInv, WaitedInv, FlushStep, DiskType'
    PROVE  WaitedInv'
<1>1. TypeOK /\ file \in Seq(Nat) /\ batch \in Seq(Nat) /\ Len(batch) \in Nat
  BY LogTypes, LenProperties DEF LoggerInv
<1>2. UNCHANGED <<faults, powerCuts, fsyncPolicy>>
  BY FlushSteps
<1>3. SUFFICES ASSUME Sound
               PROVE  WaitedInv'
  BY <1>2 DEF WaitedInv, Sound
<1>4. Settled /\ InWrite /\ InSync /\ ~faults
  BY <1>3 DEF WaitedInv, Sound
<1>5. /\ Safe \in Nat /\ Safe <= Len(file) /\ Len(file) \in Nat /\ durable \in Nat
      /\ Safe' \in Nat /\ Safe' <= Len(file') /\ Len(file') \in Nat /\ durable' \in Nat
  BY <1>1, <1>2, SafeInFile, SafeInFileNext
<1>6. CASE WriteOk
  <2>1. flush.pc = "write" /\ file' = file \o batch /\ durable' = durable /\ AfterWrite
    BY <1>6 DEF WriteOk, Written
  <2>2. /\ Len(file') = Len(file) + Len(batch)
        /\ \A i \in 1..Len(file) + Len(batch) :
               file'[i] = IF i <= Len(file) THEN file[i] ELSE batch[i - Len(file)]
    BY <1>1, <2>1, ConcatProperties
  <2>3. /\ Safe <= Safe'
        /\ \A i \in 1..Len(file) : file'[i] = file[i]
        /\ \A i \in 1..Safe : file'[i] = file[i]
    BY <1>1, <1>2, <1>5, <2>1, <2>2 DEF Safe
  <2>4. ASSUME flush.who \in Client
        PROVE  flush.id # Torn /\ Has(file', Len(file'), flush.id)
    <3>1. flush.id # Torn /\ (Has(file, Safe, flush.id) \/ Has(batch, Len(batch), flush.id))
      BY <1>4, <2>1, <2>4 DEF InWrite
    <3>2. CASE Has(file, Safe, flush.id)
      <4>1. PICK i \in 1..Safe : file[i] = flush.id
        BY <3>2 DEF Has
      <4>2. i \in 1..Len(file') /\ file'[i] = flush.id
        BY <1>5, <2>3, <4>1
      <4> QED
        BY <3>1, <4>2 DEF Has
    <3>3. CASE Has(batch, Len(batch), flush.id)
      <4>1. PICK i \in 1..Len(batch) : batch[i] = flush.id
        BY <3>3 DEF Has
      <4> DEFINE a == i + Len(file)
      <4>2. a \in 1..Len(file) + Len(batch) /\ ~(a <= Len(file)) /\ a - Len(file) = i
        BY <1>1, <1>5
      <4> HIDE DEF a
      <4>3. a \in 1..Len(file') /\ file'[a] = flush.id
        BY <2>2, <4>1, <4>2
      <4> QED
        BY <3>1, <4>3 DEF Has
    <3> QED
      BY <3>1, <3>2, <3>3
  <2>5. CASE fsyncPolicy # "always"
    <3>1. Safe' = Len(file') /\ Loop
      BY <1>2, <1>3, <2>1, <2>5 DEF Sound, Safe, AfterWrite
    <3>2. flush.who \in Client => flush.id # Torn /\ Has(file', Safe', flush.id)
      BY <2>4, <3>1
    <3> QED
      BY <1>2, <1>3, <1>4, <1>5, <2>3, <3>1, <3>2, LoopSettles
  <2>6. CASE fsyncPolicy = "always" /\ StaysOpen("flush")
    <3>1. /\ flush' = [pc |-> "sync", who |-> flush.who, id |-> flush.id, from |-> Len(file')]
          /\ waited' = waited
      BY <2>1, <2>6 DEF AfterWrite
    <3>2. Settled'
      BY <1>2, <1>4, <1>5, <2>3, <3>1, SafeGrows
    <3>3. InSync' /\ InWrite'
      BY <2>4, <3>1 DEF InSync, InWrite
    <3> QED
      BY <3>2, <3>3 DEF WaitedInv
  <2>7. CASE fsyncPolicy = "always" /\ ~StaysOpen("flush")
    <3>1. flush' = Resting /\ waited' = waited
      BY <2>1, <2>7 DEF AfterWrite, Throw
    <3> QED
      BY <1>2, <1>5, <2>3, <3>1, SteadyKeeps
  <2> QED
    BY <2>5, <2>6, <2>7
<1>7. CASE SyncOk
  <2>1. flush.pc = "sync" /\ file' = file /\ durable' \in Covered(flush.from) /\ Loop
    BY <1>7 DEF SyncOk
  <2>2. flush.from \in 0..Len(file)
    BY <1>1, <2>1 DEF TypeOK, Resting
  <2>3. durable' >= durable /\ durable' >= flush.from
    BY <1>1, <1>5, <2>1, <2>2 DEF Covered, TypeOK
  <2>4. Safe <= Safe' /\ flush.from <= Safe'
    BY <1>2, <1>5, <2>1, <2>2, <2>3 DEF Safe
  <2>5. ASSUME flush.who \in Client
        PROVE  flush.id # Torn /\ Has(file', Safe', flush.id)
    <3>1. flush.id # Torn /\ (Has(file, Safe, flush.id) \/ Has(file, flush.from, flush.id))
      BY <1>4, <2>1, <2>5 DEF InSync
    <3>2. PICK i \in 1..Safe' : file[i] = flush.id
      BY <1>5, <2>2, <2>4, <3>1 DEF Has
    <3> QED
      BY <2>1, <3>1, <3>2 DEF Has
  <2>6. \A i \in 1..Safe : file'[i] = file[i]
    BY <2>1
  <2> QED
    BY <1>2, <1>3, <1>4, <1>5, <2>1, <2>4, <2>5, <2>6, LoopSettles
<1> QED
  BY <1>4, <1>6, <1>7 DEF FlushStep, WriteShort, WriteFails, SyncFails

\* A flush that begins writes the frame of the client that runs it, if one does.
LEMMA TakeSettles ==
    ASSUME LoggerInv, WaitedInv, UNCHANGED <<faults, powerCuts, fsyncPolicy, waited, file, durable>>,
           flush'.pc = "write",
           flush'.who \in Client =>
               /\ flush'.id # Torn
               /\ \E i \in 1..Len(batch') : batch'[i] = flush'.id
    PROVE  WaitedInv'
<1>1. SUFFICES ASSUME Sound
               PROVE  WaitedInv'
  BY DEF WaitedInv, Sound
<1>2. Settled
  BY <1>1 DEF WaitedInv
<1>3. Settled'
  BY <1>2 DEF Settled, Has, Safe
<1>4. InWrite'
  BY DEF InWrite, Has
<1>5. InSync'
  BY DEF InSync
<1> QED
  BY <1>3, <1>4, <1>5 DEF WaitedInv

\* A command that runs the flush puts its own frame into it.
LEMMA MutateSettles ==
    ASSUME LoggerInv, WaitedInv, NEW c \in Client,
           MutateAndFlush(c) \/ MutateBehindFlush(c) \/ MutateClosed(c)
    PROVE  WaitedInv'
<1>1. /\ TypeOK /\ queue \in Seq(Nat) /\ nextId \in Nat \ {0} /\ Len(queue) \in Nat
  BY LogTypes, LenProperties DEF LoggerInv, TypeOK, Torn
<1>2. UNCHANGED <<faults, powerCuts, fsyncPolicy, waited, file, durable>>
  BY DEF MutateAndFlush, MutateBehindFlush, MutateClosed, Apply, disk
<1>3. CASE MutateAndFlush(c)
  <2>1. batch' = Append(queue, nextId) /\ flush' = [pc |-> "write", who |-> c, id |-> nextId]
    BY <1>3 DEF MutateAndFlush, TakeBatch
  <2>2. Len(batch') = Len(queue) + 1 /\ batch'[Len(queue) + 1] = nextId
    BY <1>1, <2>1, AppendProperties
  <2>3. Len(queue) + 1 \in 1..Len(batch')
    BY <1>1, <2>2
  <2>4. /\ flush'.pc = "write" /\ flush'.id = nextId /\ nextId # Torn
        /\ \E i \in 1..Len(batch') : batch'[i] = flush'.id
    BY <1>1, <2>1, <2>2, <2>3 DEF Torn
  <2> QED
    BY <1>2, <2>4, TakeSettles
<1>4. CASE MutateBehindFlush(c) \/ MutateClosed(c)
  <2>1. UNCHANGED <<batch, flush>>
    BY <1>4 DEF MutateBehindFlush, MutateClosed
  <2>2. Safe' = Safe /\ Safe \in Nat
    BY <1>1, <1>2, SafeInFile DEF Safe
  <2> QED
    BY <1>2, <2>1, <2>2, SteadyKeeps
<1> QED
  BY <1>3, <1>4

\* The flushes of close and of setImmediate have no client.
LEMMA TakingSettles ==
    ASSUME LoggerInv, WaitedInv, ImmediateFlush \/ CloseStart
    PROVE  WaitedInv'
<1>1. UNCHANGED <<faults, powerCuts, fsyncPolicy, waited, file, durable>>
  BY DEF ImmediateFlush, CloseStart, server, disk
<1>2. \/ flush' = [pc |-> "write", who |-> "immediate", id |-> Torn]
      \/ flush' = [pc |-> "write", who |-> "closer", id |-> Torn]
      \/ UNCHANGED <<batch, flush>>
  BY DEF ImmediateFlush, CloseStart, TakeBatch
<1>3. CASE UNCHANGED <<batch, flush>>
  <2>1. Safe' = Safe /\ Safe \in Nat
    BY <1>1, SafeInFile DEF Safe, LoggerInv
  <2> QED
    BY <1>1, <1>3, <2>1, SteadyKeeps
<1>4. CASE ~UNCHANGED <<batch, flush>>
  <2>1. flush'.pc = "write" /\ flush'.who \in {"immediate", "closer"}
    BY <1>2, <1>4
  <2>2. flush'.who \notin Client
    BY <2>1, ClientAssumption
  <2> QED
    BY <1>1, <2>1, <2>2, TakeSettles
<1> QED
  BY <1>3, <1>4

\* What was synced stays so.
LEMMA QuietSettles ==
    ASSUME LoggerInv, WaitedInv, QuietStep, DiskType'
    PROVE  WaitedInv'
<1>1. CASE \E c \in Client : MutateClosed(c)
  BY <1>1, MutateSettles
<1>2. CASE ~\E c \in Client : MutateClosed(c)
  <2>1. UNCHANGED <<server, file, batch, queue, flush>>
    BY <1>2, QuietLogger
  <2>2. TypeOK /\ UNCHANGED <<faults, powerCuts, fsyncPolicy, waited>>
    BY <2>1 DEF server, LoggerInv
  <2>3. /\ Safe \in Nat /\ Len(file) \in Nat /\ durable \in Nat
        /\ Safe' \in Nat /\ durable' \in Nat
    BY <2>2, SafeInFile, SafeInFileNext
  <2>4. durable' >= durable
    <3>1. \/ durable' = durable
          \/ \E from \in {syncFrom["timer"], syncFrom["closer"]} : durable' \in Covered(from)
      BY <1>2 DEF QuietStep, ImmediateIdle, SyncTick, TimerSyncOk, TimerSyncFails, CloseSyncOk,
                  CloseSyncFails, CloseDone, disk
    <3>2. ASSUME NEW from, durable' \in Covered(from)
          PROVE  durable' >= durable
      BY <2>3, <3>2 DEF Covered
    <3> QED
      BY <2>3, <3>1, <3>2
  <2>5. Safe <= Safe'
    BY <2>1, <2>2, <2>3, <2>4 DEF Safe
  <2> QED
    BY <2>1, <2>2, <2>3, <2>5, SteadyKeeps
<1> QED
  BY <1>1, <1>2

\* A crash takes nothing that survives crashes of its kind.
LEMMA EndSettles ==
    ASSUME LoggerInv, WaitedInv, Exit \/ Crash \/ PowerCut, DiskType'
    PROVE  WaitedInv'
<1>1. /\ TypeOK /\ file \in Seq(Nat) /\ BatchInWrite /\ Len(file) \in Nat /\ durable \in 0..Len(file)
  BY LogTypes, LenProperties DEF LoggerInv, TypeOK
<1>2. /\ UNCHANGED <<faults, powerCuts, fsyncPolicy, waited>> /\ flush' = Resting
  BY DEF Exit, Crash, PowerCut, FreshLogger
<1>3. /\ Safe \in Nat /\ Safe <= Len(file) /\ durable \in Nat
      /\ Safe' \in Nat /\ Safe' <= Len(file') /\ Len(file') \in Nat
  BY <1>1, <1>2, SafeInFile, SafeInFileNext
<1>4. Safe <= Safe' /\ \A i \in 1..Safe : file'[i] = file[i]
  <2>1. CASE Exit
    BY <1>2, <1>3, <2>1 DEF Exit, disk, Safe
  <2>2. CASE Crash
    <3>1. PICK frames \in InFlight : file' = file \o frames
      BY <2>2 DEF Crash
    <3>2. frames \in Seq(Nat)
      <4>1. frames = <<>> \/ frames \in Partial(batch)
        BY <3>1 DEF InFlight
      <4>2. batch \in Seq(Nat)
        BY LogTypes
      <4> QED
        BY <4>1, <4>2, PartialShape, EmptySeq
    <3>3. /\ Len(file') = Len(file) + Len(frames) /\ Len(frames) \in Nat
          /\ \A i \in 1..Len(file) + Len(frames) :
                 file'[i] = IF i <= Len(file) THEN file[i] ELSE frames[i - Len(file)]
      BY <1>1, <3>1, <3>2, ConcatProperties, LenProperties
    <3>4. durable' = durable
      BY <2>2 DEF Crash
    <3>5. Safe <= Safe'
      BY <1>1, <1>2, <1>3, <3>3, <3>4 DEF Safe
    <3>6. \A i \in 1..Safe : file'[i] = file[i]
      BY <1>1, <1>3, <3>3
    <3> QED
      BY <3>5, <3>6
  <2>3. CASE PowerCut
    <3> DEFINE synced == SubSeq(file, 1, durable)
               rest == SubSeq(file \o batch, durable + 1, Len(file \o batch))
    <3>1. PICK kept \in Partial(rest) : file' = synced \o kept
      BY <2>3 DEF PowerCut
    <3>2. powerCuts /\ durable' = Len(file') /\ Safe = durable /\ Safe' = Len(file')
      BY <1>2, <2>3 DEF PowerCut, Safe
    <3>3. \A i \in 1..durable : file[i] \in Nat
      BY <1>1, ElementOfSeq
    <3>4. /\ synced \in Seq(Nat) /\ Len(synced) = IF 1 <= durable THEN durable - 1 + 1 ELSE 0
          /\ \A i \in 1..durable - 1 + 1 : synced[i] = file[1 + i - 1]
      BY <1>3, <3>3, SubSeqProperties
    <3>5. rest \in Seq(Nat)
      <4> DEFINE g == file \o batch
      <4>1. g \in Seq(Nat) /\ Len(g) \in Nat
        BY <1>1, LogTypes, ConcatProperties, LenProperties
      <4> HIDE DEF g
      <4>2. \A i \in durable + 1..Len(g) : g[i] \in Nat
        <5>1. \A i \in durable + 1..Len(g) : i \in 1..Len(g)
          BY <1>3, <4>1
        <5> QED
          BY <4>1, <5>1, ElementOfSeq
      <4>3. durable + 1 \in Int /\ Len(g) \in Int
        BY <1>3, <4>1
      <4>4. SubSeq(g, durable + 1, Len(g)) \in Seq(Nat)
        BY <4>2, <4>3, SubSeqProperties
      <4> QED
        BY <4>4 DEF g
    <3>6. kept \in Seq(Nat)
      BY <3>1, <3>5, PartialShape
    <3> HIDE DEF synced
    <3>7. Len(synced) = durable /\ \A i \in 1..durable : synced[i] = file[i]
      BY <1>3, <3>4
    <3>8. /\ Len(file') = Len(synced) + Len(kept) /\ Len(kept) \in Nat
          /\ \A i \in 1..Len(synced) + Len(kept) :
                 file'[i] = IF i <= Len(synced) THEN synced[i] ELSE kept[i - Len(synced)]
      BY <3>1, <3>4, <3>6, ConcatProperties, LenProperties
    <3>9. \A i \in 1..durable : file'[i] = file[i]
      BY <1>3, <3>7, <3>8
    <3>10. durable <= Len(file')
      BY <1>3, <3>7, <3>8
    <3> QED
      BY <3>2, <3>9, <3>10
  <2> QED
    BY <2>1, <2>2, <2>3
<1> QED
  BY <1>2, <1>3, <1>4, SteadyKeeps

\* Recovery keeps every frame that survived, and the engine has it again.
LEMMA RestoreSettles ==
    ASSUME LoggerInv, WaitedInv, restore, DiskType'
    PROVE  WaitedInv' /\ (Sound => waited \subseteq ToSet(engine'))
<1> DEFINE w == Whole(file)
<1>1. /\ TypeOK /\ file \in Seq(Nat) /\ Quiescent
  BY LogTypes DEF LoggerInv
<1>2. /\ status = "down" /\ TornAtEnd /\ engine' = w /\ file' = w
      /\ durable' = SyncedAfter(Len(file'))
      /\ waited' \subseteq waited /\ flush' = flush
      /\ UNCHANGED <<faults, powerCuts, fsyncPolicy>>
  BY DEF restore, logger, CompleteFrames
<1>3. flush' = Resting
  BY <1>1, <1>2 DEF Quiescent, Up
<1>4. SUFFICES ASSUME Sound
               PROVE  WaitedInv' /\ waited \subseteq ToSet(engine')
  BY <1>2 DEF WaitedInv, Sound
<1>5. Settled
  BY <1>4 DEF WaitedInv
<1>6. /\ Safe \in Nat /\ Safe <= Len(file) /\ Len(file) \in Nat /\ durable \in Nat
      /\ Safe' \in Nat /\ Safe' <= Len(file') /\ Len(file') \in Nat
  BY <1>1, <1>2, SafeInFile, SafeInFileNext
<1>7. w \in Seq(Nat) /\ Len(w) \in Nat /\ Len(w) >= Len(file) - 1 /\ \A i \in 1..Len(w) : w[i] = file[i]
  BY <1>1, WholeShape DEF Begins
<1>8. file # <<>> /\ file[Len(file)] # Torn => w = file
  BY <1>1, WholeShape
<1>9. Safe' = IF Safe < Len(w) THEN Safe ELSE Len(w)
  <2>1. durable' = IF durable < Len(w) THEN durable ELSE Len(w)
    BY <1>2 DEF SyncedAfter
  <2>2. Len(w) <= Len(file)
    BY <1>1, WholeShape DEF Begins
  <2> HIDE DEF w
  <2> QED
    BY <1>2, <1>6, <1>7, <2>1, <2>2 DEF Safe
<1> HIDE DEF w
<1>10. ASSUME NEW id \in waited
       PROVE  id # Torn /\ \E i \in 1..Safe' : w[i] = id
  <2>1. id # Torn /\ \E i \in 1..Safe : file[i] = id
    BY <1>5 DEF Settled, Has
  <2>2. PICK i \in 1..Safe : file[i] = id
    BY <2>1
  <2>3. i <= Len(w)
    <3>1. CASE i = Len(file)
      <4>1. file # <<>>
        BY <1>1, <1>6, <2>2, <3>1, EmptySeq
      <4>2. w = file
        BY <1>8, <2>1, <2>2, <3>1, <4>1
      <4> QED
        BY <1>6, <3>1, <4>2
    <3>2. CASE i # Len(file)
      BY <1>6, <1>7, <2>2, <3>2
    <3> QED
      BY <3>1, <3>2
  <2>4. i \in 1..Safe' /\ i \in 1..Len(w)
    BY <1>6, <1>7, <1>9, <2>2, <2>3
  <2>5. w[i] = id
    BY <1>7, <2>2, <2>4
  <2> QED
    BY <2>1, <2>4, <2>5
<1>11. Settled'
  BY <1>2, <1>10 DEF Settled, Has
<1>12. WaitedInv'
  BY <1>3, <1>11 DEF WaitedInv, InWrite, InSync, Resting
<1>13. ASSUME NEW id \in waited
       PROVE  id \in ToSet(engine')
  <2>1. PICK i \in 1..Safe' : w[i] = id
    BY <1>10
  <2>2. i \in DOMAIN w
    <3>1. DOMAIN w = 1..Len(w) /\ Safe' <= Len(w)
      BY <1>2, <1>6, <1>7, LenProperties
    <3> QED
      BY <1>6, <1>7, <2>1, <3>1
  <2> QED
    BY <1>2, <2>1, <2>2 DEF ToSet
<1> QED
  BY <1>12, <1>13

\* Who waited for the flush has the frame where no crash of the assumed kind takes it.
LEMMA WaitedInductive ==
    ASSUME AofInv, WaitedInv, [Next]_vars
    PROVE  WaitedInv'
<1>1. LoggerInv /\ TypeOK /\ DiskType'
  BY AofInductive, TypePartsNext DEF AofInv, LoggerInv
<1>2. ASSUME Next
      PROVE  WaitedInv'
  <2>1. \/ \E c \in Client : MutateAndFlush(c) \/ MutateBehindFlush(c)
        \/ QuietStep \/ FlushStep
        \/ ImmediateFlush \/ CloseStart
        \/ Exit \/ Crash \/ PowerCut \/ restore \/ restoreThrows
    BY <1>2 DEF Next, Flusher, Closing, Disturbance, QuietStep, FlushStep
  <2>2. ASSUME restoreThrows
        PROVE  WaitedInv'
    <3>1. UNCHANGED <<faults, powerCuts, fsyncPolicy, waited, file, batch, flush, durable>>
      BY <2>2 DEF restoreThrows, logger, disk
    <3>2. Safe' = Safe /\ Safe \in Nat
      BY <1>1, <3>1, SafeInFile DEF Safe
    <3> QED
      BY <3>1, <3>2, SteadyKeeps
  <2> QED
    BY <1>1, <2>1, <2>2, MutateSettles, QuietSettles, FlushSettles, TakingSettles, EndSettles,
       RestoreSettles
<1>3. ASSUME UNCHANGED vars
      PROVE  WaitedInv'
  <2>1. UNCHANGED <<faults, powerCuts, fsyncPolicy, waited, file, batch, flush, durable>>
    BY <1>3 DEF vars, server, logger, disk
  <2>2. Safe' = Safe /\ Safe \in Nat
    BY <1>1, <2>1, SafeInFile DEF Safe
  <2> QED
    BY <2>1, <2>2, SteadyKeeps
<1> QED
  BY <1>2, <1>3

\* A mutation whose client waited for its own flush is there after every restart: under
\* always after a power cut as well, otherwise after the end of the process.
THEOREM WaitedAlwaysSurvives == Spec => WaitedSurvives
<1> DEFINE Survives ==
        status = "down" /\ status' = "up" /\ ~faults /\ (powerCuts => fsyncPolicy = "always")
            => waited \subseteq ToSet(engine')
<1>1. Init => WaitedInv
  BY DEF Init, WaitedInv, Settled, InWrite, InSync, Resting
<1>2. ASSUME AofInv, WaitedInv, [Next]_vars
      PROVE  [Survives]_vars
  <2>1. SUFFICES ASSUME status = "down", status' = "up", ~faults, powerCuts => fsyncPolicy = "always"
                 PROVE  waited \subseteq ToSet(engine')
    OBVIOUS
  <2>2. LoggerInv /\ DiskType' /\ ~Up /\ Sound
    BY <1>2, <2>1, AofInductive, TypePartsNext DEF AofInv, LoggerInv, Up, Sound
  <2>3. restore
    <3>1. Next
      BY <1>2, <2>1 DEF vars, server
    <3>2. ~restoreThrows
      BY <2>1 DEF restoreThrows
    <3> QED
      BY <2>2, <3>1, <3>2 DEF Next, MutateAndFlush, MutateBehindFlush, MutateClosed, Apply, Flusher,
          WriteOk, SyncOk, ImmediateIdle, ImmediateFlush, SyncTick, TimerSyncOk, CloseStart, Closing,
          CloseSyncOk, CloseDone, Exit, Disturbance, WriteShort, WriteFails, SyncFails,
          TimerSyncFails, CloseSyncFails, Crash, PowerCut
  <2> QED
    BY <1>2, <2>2, <2>3, RestoreSettles
<1>3. AofInv /\ WaitedInv /\ [Next]_vars => AofInv' /\ WaitedInv'
  BY AofInductive, WaitedInductive
<1>4. Init => AofInv
  BY AofInitial
<1>5. AofInv /\ WaitedInv /\ [Next]_vars => [Survives]_vars
  BY <1>2
<1> HIDE DEF Survives
<1>6. [][Survives]_vars => WaitedSurvives
  BY DEF Survives, WaitedSurvives
<1> QED
  BY <1>1, <1>3, <1>4, <1>5, <1>6, PTL DEF Spec
=============================================================================
