----------------------------- MODULE AtomicLock -----------------------------
(***************************************************************************)
(* src/src/cluster/atomic-lock.ts: locks in shared memory, taken by        *)
(* compare-and-swap, with Atomics.wait and Atomics.notify for those who    *)
(* must wait, and AtomicMultiLock, which takes several in ascending order. *)
(* Every access to the shared array is a step.                             *)
(***************************************************************************)
EXTENDS Integers, Sequences, SequencesExt

CONSTANTS
    Thread,
    Spinner,     \* threads that Atomics.wait refuses: they spin
    LockCount,
    Requests     \* lists of lock indices, in any order and with repetitions

ASSUME LockAssumption ==
    /\ LockCount \in Nat \ {0}
    /\ Spinner \subseteq Thread
    /\ Requests \subseteq Seq(0..LockCount - 1)

VARIABLES
    state,     \* lock index -> the Int32 in the shared buffer
    pc,        \* thread -> where it is
    want,      \* thread -> the indices it asked for, then those it has yet to release
    held,      \* thread -> those it has
    freed      \* thread -> the lock it released last, and notifies about

lockVars == <<state, pc, want, held, freed>>

UNLOCKED == 0
LOCKED == 1
Index == 0..LockCount - 1

LockInit ==
    /\ state = [i \in Index |-> UNLOCKED]
    /\ pc = [t \in Thread |-> "idle"]
    /\ want = [t \in Thread |-> {}]
    /\ held = [t \in Thread |-> {}]
    /\ freed = [t \in Thread |-> 0]

GoTo(t, place) == pc' = [pc EXCEPT ![t] = place]
-----------------------------------------------------------------------------
(***************************************************************************)
(* acquireAll: the indices without repetitions, in ascending order.        *)
(***************************************************************************)
acquireAll(t, list) ==
    /\ pc[t] = "idle"
    /\ want' = [want EXCEPT ![t] = ToSet(list)]
    /\ GoTo(t, IF ToSet(list) = {} THEN "inside" ELSE "acquire")
    /\ UNCHANGED <<state, held, freed>>

\* Mutant: the indices as the caller listed them.
IsNext_Unsorted(t, i) == i \in want[t] \ held[t]
IsNext(t, i) ==
    /\ i \in want[t] \ held[t]
    /\ \A j \in want[t] \ held[t] : i <= j

Free(i) == state[i] = UNLOCKED

\* compareExchange finds the lock free ...
Acquires(t, i) ==
    /\ pc[t] = "acquire" /\ IsNext(t, i) /\ Free(i)
    /\ state' = [state EXCEPT ![i] = LOCKED]
    /\ held' = [held EXCEPT ![t] = @ \cup {i}]
    /\ GoTo(t, IF want[t] = held[t] \cup {i} THEN "inside" ELSE "acquire")
    /\ UNCHANGED <<want, freed>>

\* ... or taken.
Contends(t, i) ==
    /\ pc[t] = "acquire" /\ IsNext(t, i) /\ ~Free(i)
    /\ GoTo(t, "wait")
    /\ UNCHANGED <<state, want, held, freed>>

\* Mutant: the thread sleeps whatever the value is by now.
StillLocked_Assumed(i) == TRUE
StillLocked(i) == state[i] = LOCKED

\* Atomics.wait compares once more before the thread sleeps.
Sleeps(t, i) ==
    /\ pc[t] = "wait" /\ t \notin Spinner /\ IsNext(t, i) /\ StillLocked(i)
    /\ GoTo(t, "asleep")
    /\ UNCHANGED <<state, want, held, freed>>

Retries(t, i) ==
    /\ pc[t] = "wait" /\ IsNext(t, i) /\ (t \in Spinner \/ ~StillLocked(i))
    /\ GoTo(t, "acquire")
    /\ UNCHANGED <<state, want, held, freed>>

\* The 50 milliseconds are over.
TimesOut(t) ==
    /\ pc[t] = "asleep"
    /\ GoTo(t, "acquire")
    /\ UNCHANGED <<state, want, held, freed>>

\* Mutant: the caller goes on, and releases, although it did not get the lock.
tryAcquire_Unheeded(t, i) ==
    /\ pc[t] = "idle" /\ ~Free(i)
    /\ want' = [want EXCEPT ![t] = {i}]
    /\ GoTo(t, "inside")
    /\ UNCHANGED <<state, held, freed>>

\* One compareExchange and no waiting; a failure changes nothing.
tryAcquire(t, i) ==
    /\ pc[t] = "idle" /\ Free(i)
    /\ state' = [state EXCEPT ![i] = LOCKED]
    /\ want' = [want EXCEPT ![t] = {i}]
    /\ held' = [held EXCEPT ![t] = {i}]
    /\ GoTo(t, "inside")
    /\ UNCHANGED freed
-----------------------------------------------------------------------------
(***************************************************************************)
(* The action ends, by returning or by throwing; releaseAll goes down the  *)
(* list from the highest index.  It is the list that tells what to         *)
(* release, not who has the lock: release stores, and asks nobody.         *)
(***************************************************************************)
Leaves(t) ==
    /\ pc[t] = "inside"
    /\ GoTo(t, IF want[t] = {} THEN "idle" ELSE "release")
    /\ UNCHANGED <<state, want, held, freed>>

IsLast(t, i) == i \in want[t] /\ \A j \in want[t] : j <= i

Stores(t, i) ==
    /\ pc[t] = "release" /\ IsLast(t, i)
    /\ state' = [state EXCEPT ![i] = UNLOCKED]
    /\ want' = [want EXCEPT ![t] = @ \ {i}]
    /\ held' = [held EXCEPT ![t] = @ \ {i}]
    /\ freed' = [freed EXCEPT ![t] = i]
    /\ GoTo(t, "notify")

Asleep(u, i) == pc[u] = "asleep" /\ IsNext(u, i)

AfterNotify(t) == IF want[t] = {} THEN "idle" ELSE "release"
Sleepers(i) == {u \in Thread : Asleep(u, i)}

Notifies(t) ==
    /\ pc[t] = "notify"
    /\ IF Sleepers(freed[t]) = {}
       THEN GoTo(t, AfterNotify(t))
       ELSE \E u \in Sleepers(freed[t]) :
               pc' = [pc EXCEPT ![u] = "acquire", ![t] = AfterNotify(t)]
    /\ UNCHANGED <<state, want, held, freed>>

Step(t) ==
    \/ \E i \in Index : Acquires(t, i) \/ Contends(t, i) \/ Sleeps(t, i) \/ Retries(t, i)
    \/ Leaves(t)
    \/ \E i \in Index : Stores(t, i)
    \/ Notifies(t)

LockNext == \E t \in Thread :
    \/ \E list \in Requests : acquireAll(t, list)
    \/ \E i \in Index : tryAcquire(t, i)
    \/ Step(t) \/ TimesOut(t)

LockSpec == LockInit /\ [][LockNext]_lockVars

(***************************************************************************)
(* Threads run and critical sections end.  The timeout is not counted on:  *)
(* the notifications must be enough.                                       *)
(***************************************************************************)
FairLockSpec == LockSpec /\ \A t \in Thread : WF_lockVars(Step(t))
-----------------------------------------------------------------------------
Trying(t) == pc[t] \in {"acquire", "wait", "asleep"}

LockTypes ==
    /\ state \in [Index -> {UNLOCKED, LOCKED}]
    /\ pc \in [Thread -> {"idle", "acquire", "wait", "asleep", "inside", "release", "notify"}]
    /\ want \in [Thread -> SUBSET Index]
    /\ held \in [Thread -> SUBSET Index]
    /\ freed \in [Thread -> Index]
    /\ \A t \in Thread :
          /\ held[t] \subseteq want[t]
          /\ pc[t] = "idle" => held[t] = {}
          /\ pc[t] \in {"inside", "release", "notify"} => held[t] = want[t]
          /\ Trying(t) => held[t] # want[t]

\* A lock is set exactly while one thread has it: two threads never enter the critical
\* section of a lock, a lock that nobody has is free, and no release, which goes by the
\* list it is given, frees a lock that somebody else has.
MutualExclusion ==
    /\ \A i \in Index : state[i] = LOCKED <=> \E t \in Thread : i \in held[t]
    /\ \A t, u \in Thread : t # u => held[t] \cap held[u] = {}

\* Whoever sleeps on a lock that is free is about to be woken, or somebody else is
\* about to take the lock and will wake them: no wakeup is lost between the compare,
\* the wait, the store and the notify.
NoLostWakeup ==
    \A u \in Thread, i \in Index :
        Asleep(u, i) /\ state[i] = UNLOCKED =>
            \E v \in Thread :
                \/ pc[v] = "notify" /\ freed[v] = i
                \/ pc[v] \in {"acquire", "wait"} /\ IsNext(v, i)

\* "Deadlock-free multi-lock coordinator" (atomic-lock.ts:88): while threads try, some
\* thread gets all its locks, without the help of the timeout.
SomebodyEnters == (\E t \in Thread : Trying(t)) ~> (\E t \in Thread : pc[t] = "inside")
=============================================================================
