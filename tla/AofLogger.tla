----------------------------- MODULE AofLogger ------------------------------
(***************************************************************************)
(* The append-only file: src/src/aof-logger.ts under the commands that     *)
(* write to it (command-handler.ts), the recovery that reads it back       *)
(* (aof-recovery.ts) and the shutdown that closes it (server.ts).          *)
(*                                                                         *)
(* A mutation is its number: the n-th one applied to the engine.  What the *)
(* engine holds is the sequence of mutations it has applied, and what the  *)
(* file holds is a sequence of frames.  JavaScript code between two awaits *)
(* is one step; the awaits are the writev and datasync calls.              *)
(***************************************************************************)
EXTENDS Integers, Sequences, SequencesExt

CONSTANTS
    Client,        \* connections; each executes one command at a time
    Policies,      \* the policies the server may be started with
    Faults,        \* whether writev and datasync may fail, or write less than asked
    PowerCuts,     \* whether a crash may lose what was not synced
    MaxId,         \* bound on the mutations
    MaxCrashes     \* bound on crashes and restarts

ASSUME PolicyAssumption == Policies \subseteq {"always", "everysec", "no"}
ASSUME FaultAssumption == Faults \subseteq BOOLEAN /\ PowerCuts \subseteq BOOLEAN
ASSUME BoundAssumption == MaxId \in Nat /\ MaxCrashes \in Nat
ASSUME ClientAssumption == {"immediate", "closer"} \cap Client = {}

VARIABLES
    fsyncPolicy,
    faults,      \* do calls to the disk fail in this behaviour?
    powerCuts,   \* do power cuts happen in it?
    status,      \* "up", "down", or "refused": recovery threw
    engine,      \* mutations in the engine's memory, in order
    nextId,
    acked,       \* mutations whose client got its OK
    waited,      \* those whose client waited for its own flush to end
    queue,       \* writeQueue
    batch,       \* what the running writev was given
    flush,       \* the running flushQueue; isFlushing unless idle
    dirty,       \* dirtyBytes, counted in frames
    immediate,   \* the cascaded flush is scheduled
    syncFrom,    \* frames written when the timer's, close's datasync began
    closer,      \* how far close has come
    file,        \* frames in the file, as the operating system sees it
    durable,     \* how many of them would survive a power cut
    crashes

logger == <<queue, batch, flush, dirty, immediate, syncFrom, closer>>
disk == <<file, durable>>
server == <<fsyncPolicy, faults, powerCuts, status, engine, nextId, acked, waited, crashes>>
vars == <<server, logger, disk>>

Torn == 0                         \* a frame that was cut short
NoSync == -1
Resting == [pc |-> "idle"]
NoSyncs == [s \in {"timer", "closer"} |-> NoSync]

FreshLogger ==
    /\ queue' = <<>> /\ batch' = <<>>
    /\ flush' = Resting
    /\ dirty' = 0
    /\ immediate' = FALSE
    /\ syncFrom' = NoSyncs
    /\ closer' = "none"

Init ==
    /\ fsyncPolicy \in Policies /\ faults \in Faults /\ powerCuts \in PowerCuts
    /\ status = "up" /\ engine = <<>> /\ nextId = 1 /\ crashes = 0
    /\ acked = {} /\ waited = {}
    /\ queue = <<>> /\ batch = <<>> /\ flush = Resting /\ dirty = 0
    /\ immediate = FALSE /\ syncFrom = NoSyncs /\ closer = "none"
    /\ file = <<>> /\ durable = 0

Up == status = "up"
\* Mutant: nothing keeps a second flush from starting.
isFlushing_Never == FALSE
isFlushing == flush.pc # "idle"
HandleOpen == closer \notin {"closed", "done"}
-----------------------------------------------------------------------------
(***************************************************************************)
(* flushQueue.  Taking the batch and calling writev is one step with       *)
(* whatever led to it.                                                     *)
(***************************************************************************)
TakeBatch(pending, who, id) ==
    /\ batch' = pending
    /\ queue' = <<>>
    /\ flush' = [pc |-> "write", who |-> who, id |-> id]

\* FileHandle.close waits for the calls in flight; the last one to end closes it.
LastCall(caller) ==
    /\ closer = "closing"
    /\ caller = "flush" \/ ~isFlushing
    /\ caller = "timer" \/ syncFrom["timer"] = NoSync
CallEnds(caller) ==
    closer' = IF LastCall(caller) THEN "closed" ELSE closer
StaysOpen(caller) == HandleOpen /\ ~LastCall(caller)

\* The loop ends normally: the caller that ran it goes on.
Finish ==
    /\ flush' = Resting
    /\ UNCHANGED queue
    /\ batch' = <<>>
    /\ LET mine == IF flush.who \in Client THEN {flush.id} ELSE {}
       IN  acked' = acked \cup mine /\ waited' = waited \cup mine
    /\ IF flush.who = "closer"
       THEN closer' = "sync" /\ syncFrom' = [syncFrom EXCEPT !["closer"] = Len(file')]
       ELSE CallEnds("flush") /\ UNCHANGED syncFrom

\* Mutant: nothing is scheduled after an error.
Rescheduled_Never(left) == immediate
Rescheduled(left) == immediate \/ left # <<>>

\* An await threw: the batch is dropped, the caller gets the error, and what was
\* queued meanwhile is left to a cascaded flush.
Throw(left) ==
    /\ flush' = Resting
    /\ batch' = <<>>
    /\ queue' = left
    /\ immediate' = Rescheduled(left)
    /\ IF flush.who = "closer" THEN closer' = "failed" ELSE CallEnds("flush")
    /\ UNCHANGED <<acked, waited, syncFrom>>

\* The while condition, after the batch before is dealt with.
Loop ==
    \/ queue = <<>> /\ Finish /\ UNCHANGED immediate
    \/ /\ queue # <<>> /\ StaysOpen("flush")
       /\ TakeBatch(queue, flush.who, flush.id)
       /\ UNCHANGED <<acked, waited, closer, syncFrom, immediate>>
    \/ queue # <<>> /\ ~StaysOpen("flush") /\ Throw(<<>>)

Written(frames) ==
    /\ file' = file \o frames
    /\ UNCHANGED <<durable, dirty, fsyncPolicy, faults, powerCuts, status, engine, nextId, crashes>>

\* Mutant: no datasync under "always".
AfterWrite_NoSync == Loop

AfterWrite ==
    IF fsyncPolicy # "always" THEN Loop
    ELSE IF StaysOpen("flush")
    THEN /\ flush' = [pc |-> "sync", who |-> flush.who, id |-> flush.id, from |-> Len(file')]
         /\ batch' = <<>>
         /\ UNCHANGED <<queue, acked, waited, immediate, syncFrom, closer>>
    ELSE Throw(queue)

WriteOk == Up /\ flush.pc = "write" /\ Written(batch) /\ AfterWrite

\* What a writev that is cut short leaves: some whole frames, perhaps a torn one.
Partial(frames) ==
    {SubSeq(frames, 1, n) : n \in 0..Len(frames)}
        \cup {Append(SubSeq(frames, 1, n), Torn) : n \in 0..Len(frames) - 1}

\* The code does not look at bytesWritten: a short write counts as a whole one.
WriteShort ==
    /\ faults /\ Up /\ flush.pc = "write"
    /\ \E frames \in Partial(batch) : Written(frames)
    /\ AfterWrite

WriteFails ==
    /\ faults /\ Up /\ flush.pc = "write"
    /\ \E frames \in Partial(batch) : Written(frames)
    /\ Throw(queue)

\* A datasync covers at least what was written when it was called.
Covered(from) == {n \in {from, Len(file)} : n >= durable} \cup
                 (IF from < durable THEN {durable} ELSE {})

SyncOk ==
    /\ Up /\ flush.pc = "sync"
    /\ durable' \in Covered(flush.from)
    /\ dirty' = 0
    /\ UNCHANGED <<file, fsyncPolicy, faults, powerCuts, status, engine, nextId, crashes>>
    /\ Loop

SyncFails ==
    /\ faults /\ Up /\ flush.pc = "sync"
    /\ Throw(queue)
    /\ UNCHANGED <<disk, dirty, fsyncPolicy, faults, powerCuts, status, engine, nextId, crashes>>
-----------------------------------------------------------------------------
(***************************************************************************)
(* A command: the engine is changed and the frame queued in one step; the  *)
(* reply is sent when enqueueWrite returns.                                *)
(***************************************************************************)
Free(c) == ~(isFlushing /\ flush.who = c)

Apply(c) ==
    /\ Up /\ Free(c) /\ nextId <= MaxId
    /\ engine' = Append(engine, nextId)
    /\ nextId' = nextId + 1
    /\ UNCHANGED <<fsyncPolicy, faults, powerCuts, status, crashes, waited, disk, immediate, syncFrom, closer>>

Enqueue == dirty' = dirty + 1

\* No flush runs: this call runs it and the client waits for its end.
MutateAndFlush(c) ==
    /\ closer = "none" /\ ~isFlushing
    /\ Apply(c)
    /\ Enqueue
    /\ TakeBatch(Append(queue, nextId), c, nextId)
    /\ UNCHANGED acked

\* A flush is running: the client is answered at once.
MutateBehindFlush(c) ==
    /\ closer = "none" /\ isFlushing
    /\ Apply(c)
    /\ Enqueue
    /\ queue' = Append(queue, nextId)
    /\ acked' = acked \cup {nextId}
    /\ UNCHANGED <<batch, flush>>

\* isClosed: enqueueWrite throws, after the engine was changed.
MutateClosed(c) ==
    /\ closer # "none"
    /\ Apply(c)
    /\ UNCHANGED <<acked, queue, batch, flush, dirty>>

\* setImmediate runs flushQueue, which finds a flush, an empty queue, no handle ...
ImmediateIdle ==
    /\ Up /\ immediate
    /\ isFlushing \/ queue = <<>> \/ closer = "done"
    /\ immediate' = FALSE
    /\ UNCHANGED <<server, disk, queue, batch, flush, dirty, syncFrom, closer>>

\* ... or something to write.
ImmediateFlush ==
    /\ Up /\ immediate
    /\ ~isFlushing /\ queue # <<>> /\ closer # "done"
    /\ immediate' = FALSE
    /\ IF HandleOpen THEN TakeBatch(queue, "immediate", Torn)
       ELSE queue' = <<>> /\ UNCHANGED <<batch, flush>>
    /\ UNCHANGED <<server, disk, dirty, syncFrom, closer>>
-----------------------------------------------------------------------------
(***************************************************************************)
(* syncEverySec.  The interval is taken to be longer than a datasync.      *)
(***************************************************************************)
SyncTick ==
    /\ Up /\ fsyncPolicy = "everysec"
    /\ dirty > 0 /\ closer = "none"
    /\ syncFrom["timer"] = NoSync
    /\ syncFrom' = [syncFrom EXCEPT !["timer"] = Len(file)]
    /\ UNCHANGED <<server, disk, queue, batch, flush, dirty, immediate, closer>>

TimerSyncOk ==
    /\ Up /\ syncFrom["timer"] # NoSync
    /\ durable' \in Covered(syncFrom["timer"])
    /\ dirty' = 0
    /\ syncFrom' = [syncFrom EXCEPT !["timer"] = NoSync]
    /\ CallEnds("timer")
    /\ UNCHANGED <<server, file, queue, batch, flush, immediate>>

TimerSyncFails ==
    /\ faults /\ Up /\ syncFrom["timer"] # NoSync
    /\ syncFrom' = [syncFrom EXCEPT !["timer"] = NoSync]
    /\ CallEnds("timer")
    /\ UNCHANGED <<server, disk, queue, batch, flush, dirty, immediate>>

(***************************************************************************)
(* close, called first by RespServer.stop; connections still run.          *)
(***************************************************************************)
CloseStart ==
    /\ Up /\ closer = "none"
    /\ IF ~isFlushing /\ queue # <<>>
       THEN /\ TakeBatch(queue, "closer", Torn)
            /\ closer' = "flush"
            /\ UNCHANGED syncFrom
       ELSE /\ closer' = "sync"
            /\ syncFrom' = [syncFrom EXCEPT !["closer"] = Len(file)]
            /\ UNCHANGED <<queue, batch, flush>>
    /\ UNCHANGED <<server, disk, dirty, immediate>>

\* Mutant: the handle waits for a call to end although none is in flight.
AfterCloseSync_Waits == "closing"
AfterCloseSync ==
    IF isFlushing \/ syncFrom["timer"] # NoSync THEN "closing" ELSE "closed"

CloseSyncOk ==
    /\ Up /\ closer = "sync"
    /\ durable' \in Covered(syncFrom["closer"])
    /\ syncFrom' = [syncFrom EXCEPT !["closer"] = NoSync]
    /\ closer' = AfterCloseSync
    /\ UNCHANGED <<server, file, queue, batch, flush, dirty, immediate>>

CloseSyncFails ==
    /\ faults /\ Up /\ closer = "sync"
    /\ syncFrom' = [syncFrom EXCEPT !["closer"] = NoSync]
    /\ closer' = "failed"
    /\ UNCHANGED <<server, disk, queue, batch, flush, dirty, immediate>>

CloseDone ==
    /\ Up /\ closer = "closed"
    /\ closer' = "done"
    /\ UNCHANGED <<server, disk, queue, batch, flush, dirty, immediate, syncFrom>>

\* The process ends after a clean stop.
Exit ==
    /\ Up /\ closer = "done" /\ crashes < MaxCrashes
    /\ status' = "down" /\ crashes' = crashes + 1
    /\ FreshLogger
    /\ UNCHANGED <<fsyncPolicy, faults, powerCuts, engine, nextId, acked, waited, disk>>
-----------------------------------------------------------------------------
(***************************************************************************)
(* A crash of the process keeps what the operating system has; a power cut *)
(* keeps what was synced and any part of the rest.  engine goes on showing *)
(* what memory held, until recovery replaces it.                           *)
(***************************************************************************)
InFlight == IF flush.pc = "write" THEN Partial(batch) ELSE {<<>>}

Crash ==
    /\ Up /\ crashes < MaxCrashes
    /\ status' = "down" /\ crashes' = crashes + 1
    /\ \E frames \in InFlight : file' = file \o frames
    /\ FreshLogger
    /\ UNCHANGED <<fsyncPolicy, faults, powerCuts, engine, nextId, acked, waited, durable>>

PowerCut ==
    /\ powerCuts /\ Up /\ crashes < MaxCrashes
    /\ status' = "down" /\ crashes' = crashes + 1
    /\ \E kept \in Partial(SubSeq(file \o batch, durable + 1, Len(file \o batch))) :
          file' = SubSeq(file, 1, durable) \o kept
    /\ durable' = Len(file')
    /\ FreshLogger
    /\ UNCHANGED <<fsyncPolicy, faults, powerCuts, engine, nextId, acked, waited>>

(***************************************************************************)
(* AofRecovery.restore replays the frames and cuts a torn one off the end. *)
(* A torn frame that was written over is a protocol error, and start       *)
(* rejects.                                                                *)
(***************************************************************************)
Whole(frames) == IF frames # <<>> /\ Last(frames) = Torn THEN Front(frames) ELSE frames
CompleteFrames == Whole(file)
TornAtEnd == \A i \in DOMAIN file : file[i] = Torn => i = Len(file)

SyncedAfter(n) == IF durable < n THEN durable ELSE n

restore ==
    /\ status = "down" /\ TornAtEnd
    /\ status' = "up"
    /\ engine' = CompleteFrames
    /\ file' = CompleteFrames
    /\ durable' = SyncedAfter(Len(file'))
    /\ acked' = acked \cap ToSet(CompleteFrames)
    /\ waited' = waited \cap ToSet(CompleteFrames)
    /\ UNCHANGED <<fsyncPolicy, faults, powerCuts, nextId, crashes, logger>>

restoreThrows ==
    /\ status = "down" /\ ~TornAtEnd
    /\ status' = "refused"
    /\ UNCHANGED <<fsyncPolicy, faults, powerCuts, engine, nextId, acked, waited, crashes, logger, disk>>

Flusher == WriteOk \/ SyncOk \/ ImmediateIdle \/ ImmediateFlush
Closing == CloseSyncOk \/ CloseDone
Disturbance == WriteShort \/ WriteFails \/ SyncFails \/ TimerSyncFails \/ CloseSyncFails

Next ==
    \/ \E c \in Client : MutateAndFlush(c) \/ MutateBehindFlush(c) \/ MutateClosed(c)
    \/ Flusher \/ SyncTick \/ TimerSyncOk
    \/ CloseStart \/ Closing \/ Exit
    \/ Disturbance
    \/ Crash \/ PowerCut \/ restore \/ restoreThrows

Spec == Init /\ [][Next]_vars
-----------------------------------------------------------------------------
Frame == Nat
TypeOK ==
    /\ fsyncPolicy \in Policies /\ faults \in Faults /\ powerCuts \in PowerCuts
    /\ status \in {"up", "down", "refused"}
    /\ engine \in Seq(Frame \ {Torn}) /\ nextId \in Nat \ {0} /\ acked \in SUBSET Nat /\ waited \in SUBSET acked
    /\ crashes \in Nat
    /\ queue \in Seq(Frame) /\ batch \in Seq(Frame)
    /\ flush \in {Resting}
            \cup [pc : {"write"}, who : Client \cup {"immediate", "closer"}, id : Nat]
            \cup [pc : {"sync"}, who : Client \cup {"immediate", "closer"}, id : Nat, from : 0..Len(file)]
    /\ dirty \in Nat /\ immediate \in BOOLEAN
    /\ syncFrom \in [{"timer", "closer"} -> {NoSync} \cup 0..Len(file)]
    /\ closer \in {"none", "flush", "sync", "closing", "closed", "done", "failed"}
    /\ file \in Seq(Frame) /\ durable \in 0..Len(file)

Logged == file \o batch \o queue

\* Until close is called the engine's history is, in order, what the file has, what
\* the running writev has and what is queued: no await between changing the engine
\* and queueing the frame, and no batch dropped or written twice between flushes.
NothingLost == ~faults /\ Up /\ closer = "none" => engine = Logged

\* Whatever fails, the frames reach the file in the order of the mutations.
LogInOrder ==
    \A i, j \in DOMAIN Logged :
        i < j /\ Torn \notin {Logged[i], Logged[j]} => Logged[i] < Logged[j]

\* A queued frame is always somebody's to flush: a flush runs or is scheduled, also
\* after the one that ran threw.
NoStranded == Up /\ HandleOpen /\ queue # <<>> => isFlushing \/ immediate

\* What the logger keeps: nothing is lost between memory and file, nothing changes its
\* place, and nothing is left behind.
LogExact == TypeOK /\ NothingLost /\ LogInOrder /\ NoStranded

\* Recovery never refuses a file that no write error has touched, and restores a prefix
\* of what memory held at the crash, and at least what was synced: no mutation is
\* replayed twice, skipped or invented.
RecoversPrefix ==
    [][status = "down" /\ status' # "down" /\ ~faults =>
          /\ status' = "up"
          /\ IsPrefix(engine', engine)
          /\ IsPrefix(Whole(SubSeq(file, 1, durable)), engine')]_vars

\* "Durability" (README.md:3) under fsync always: no acknowledged mutation is lost.
AckedSurvives == [][status = "down" /\ status' = "up" => acked \subseteq ToSet(engine')]_vars

\* A mutation whose client waited for its own flush survives crashes and stops: under
\* always a power cut as well, otherwise the end of the process.
WaitedSurvives ==
    [][(status = "down" /\ status' = "up" /\ ~faults /\ (powerCuts => fsyncPolicy = "always"))
          => waited \subseteq ToSet(engine')]_vars

Synced == {file[i] : i \in 1..durable}

\* Under fsync always an acknowledgement may run ahead of the disk, but the flush it
\* ran behind gets the frame there.
AckedGetsSynced ==
    \A id \in 1..MaxId : (fsyncPolicy = "always" /\ ~faults /\ id \in acked \cap ToSet(queue)) ~> (id \in Synced \/ ~Up \/ closer # "none")

\* The queue empties, also when every writev before failed.
QueueDrains == (Up /\ queue # <<>>) ~> (queue = <<>> \/ ~Up \/ closer # "none")

\* No queued frame waits for ever for a flush, and under always none for its sync.
FlushesFinish == QueueDrains /\ AckedGetsSynced

\* close returns or fails: it does not wait for a call that waits for it.
CloseEnds == (Up /\ closer # "none") ~> (~Up \/ closer \in {"done", "failed"})

\* Nothing that the logger has begun stays undone.
LoggerProgresses == FlushesFinish /\ CloseEnds

(***************************************************************************)
(* Calls to the operating system return, setImmediate callbacks run, the   *)
(* interval fires.  Nobody has to send commands, close or crash.           *)
(***************************************************************************)
Fairness ==
    /\ WF_vars(WriteOk) /\ WF_vars(SyncOk)
    /\ WF_vars(ImmediateIdle \/ ImmediateFlush)
    /\ WF_vars(SyncTick) /\ WF_vars(TimerSyncOk)
    /\ WF_vars(CloseSyncOk) /\ WF_vars(CloseDone)

FairSpec == Spec /\ Fairness
=============================================================================
