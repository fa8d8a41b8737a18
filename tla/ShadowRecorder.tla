--------------------------- MODULE ShadowRecorder ---------------------------
(***************************************************************************)
(* The shadow recorder (worker.py, _run_shadow, and shadow_recorder.py):   *)
(* a reader puts the events of the stream into a bounded queue, a writer   *)
(* commits them in batches with the notices of gaps, and a pulse keeps the *)
(* lease and the heartbeat row.  Loss is allowed; unrecorded loss is not.  *)
(*                                                                         *)
(* Events are numbered as they are received.  A gap is the set of events   *)
(* it stands for.  Left out: decisions on committed events, notices of     *)
(* the stream's status and their limit of 256, delivery of an event twice, *)
(* and a second recorder that takes a stale lease.                         *)
(***************************************************************************)
EXTENDS Integers, Sequences, SequencesExt

CONSTANTS
    MaxEvents,     \* bound on the events received
    Capacity,      \* queue_capacity
    BatchSize,     \* batch_size
    Attempts,      \* retry_attempts
    MaxLives,      \* bound on the starts of the process
    MaxFaults      \* bound on failed calls

VARIABLES
    worker,        \* the process: its state, how it will end, its number, its batches
    received,      \* the number of events received in all lives
    queue,         \* ShadowBatchRecorder.queue
    overflow,      \* the events of _overflow
    notices,       \* the events of the gaps in _notices
    writer,        \* run(): its batch and the attempts at it
    pulse,         \* pulse(): between refreshing the lease and writing the row
    store,         \* the database: events, gaps and audits of batches
    beat,          \* the heartbeat row of the service
    faults         \* faults so far

vars == <<worker, received, queue, overflow, notices, writer, pulse, store, beat, faults>>
memory == <<queue, overflow, notices>>

Id == 1..MaxEvents
Ended == {"stopped", "failed", "crashed"}

TypeOK ==
    /\ worker \in [state : {"new", "running", "draining"} \cup Ended,
                   ending : {"stopped", "failed"}, life : 0..MaxLives, batches : Nat]
    /\ received \in 0..MaxEvents
    /\ queue \in Seq(Id) /\ Len(queue) <= Capacity
    /\ overflow \subseteq Id /\ notices \subseteq Id
    /\ writer \in [state : {"idle", "writing", "over", "dead"}, events : SUBSET Id, gaps : SUBSET Id,
                   tries : 0..Attempts]
    /\ pulse \in {"idle", "beating"}
    /\ store.rows \subseteq Id /\ store.gaps \subseteq Id
    /\ \A a \in store.audits : a.batch \in Nat \X Nat /\ a.events \subseteq Id
    /\ beat \in {"none", "running", "stopped", "failed"}
    /\ faults \in 0..MaxFaults

NoBatch == [state |-> "idle", events |-> {}, gaps |-> {}, tries |-> 0]

Init ==
    /\ worker = [state |-> "new", ending |-> "stopped", life |-> 0, batches |-> 0]
    /\ received = 0
    /\ queue = <<>> /\ overflow = {} /\ notices = {}
    /\ writer = NoBatch
    /\ pulse = "idle"
    /\ store = [rows |-> {}, gaps |-> {}, audits |-> {}]
    /\ beat = "none"
    /\ faults = 0

Fault == faults < MaxFaults /\ faults' = faults + 1
NoFault == UNCHANGED faults
Active == worker.state \in {"running", "draining"}
Known == store.rows \cup store.gaps

-----------------------------------------------------------------------------
(* The life of the process *)

\* A life that finds a heartbeat notes a gap up to now, and writes the row
\* before it reads the stream.
Start ==
    /\ worker.state \in {"new"} \cup Ended
    /\ worker.life < MaxLives
    /\ queue' = <<>> /\ overflow' = {}
    /\ notices' = IF beat = "none" THEN {} ELSE (1..received) \ Known
    /\ writer' = NoBatch /\ pulse' = "idle"
    /\ \/ /\ NoFault
          /\ worker' = [worker EXCEPT !.state = "running", !.ending = "stopped", !.life = @ + 1]
          /\ beat' = "running"
       \/ /\ Fault
          /\ worker' = [worker EXCEPT !.state = "failed", !.life = @ + 1]
          /\ beat' = "failed"
    /\ UNCHANGED <<received, store>>

\* The stream ends or the process is told to stop; or the reader or the pulse
\* raises, for one because the lease is lost.
Stop ==
    /\ worker.state = "running"
    /\ \/ NoFault /\ worker' = [worker EXCEPT !.state = "draining", !.ending = "stopped"]
       \/ Fault /\ worker' = [worker EXCEPT !.state = "draining", !.ending = "failed"]
    /\ UNCHANGED <<received, memory, writer, pulse, store, beat>>

\* Variant: the terminal state is published beside a pulse still on its way.
SettledWriterOnly == writer.state \in {"over", "dead"}

\* The writer and the pulse are awaited.
Settled == writer.state \in {"over", "dead"} /\ pulse = "idle"

\* The terminal heartbeat, which may fail, and the release of the lease.
End ==
    /\ worker.state = "draining"
    /\ Settled
    /\ worker' = [worker EXCEPT !.state = worker.ending]
    /\ \/ beat' = worker.ending /\ NoFault
       \/ Fault /\ UNCHANGED beat
    /\ UNCHANGED <<received, memory, writer, pulse, store>>

Crash ==
    /\ Active
    /\ Fault
    /\ worker' = [worker EXCEPT !.state = "crashed"]
    /\ writer' = NoBatch /\ pulse' = "idle"
    /\ UNCHANGED <<received, memory, store, beat>>

-----------------------------------------------------------------------------
(* The reader and the pulse *)

\* Variant: one event more than the queue may hold.
FullWhenOver == Len(queue) > Capacity

Full == Len(queue) >= Capacity

\* offer()
Receive ==
    /\ worker.state = "running"
    /\ received < MaxEvents
    /\ received' = received + 1
    /\ IF Full
       THEN overflow' = overflow \cup {received'} /\ UNCHANGED queue
       ELSE queue' = Append(queue, received') /\ UNCHANGED overflow
    /\ UNCHANGED <<worker, notices, writer, pulse, store, beat, faults>>

Refresh ==
    /\ worker.state = "running"
    /\ pulse = "idle"
    /\ pulse' = "beating"
    /\ UNCHANGED <<worker, received, memory, writer, store, beat, faults>>

Beat ==
    /\ pulse = "beating"
    /\ pulse' = "idle"
    /\ beat' = "running"
    /\ UNCHANGED <<worker, received, memory, writer, store, faults>>

-----------------------------------------------------------------------------
(* The writer *)

\* Variant: the loop is left as soon as no event is queued.
MoreToWriteOfEvents == queue # <<>>

\* What keeps the loop of run() going once it is told to stop.
MoreToWrite == queue # <<>> \/ notices # {} \/ overflow # {}

\* Variant: without the timed flush, a batch is written when it is full.
DueWhenFull == Len(queue) >= BatchSize \/ worker.state = "draining"

\* A batch is due when it is full, when the process stops, and after a while.
Due == Len(queue) >= BatchSize \/ worker.state = "draining" \/ queue # <<>> \/ notices # {}

\* A batch takes every notice with it, the overflow as one more of them.
Gather ==
    /\ Active
    /\ writer.state = "idle"
    /\ MoreToWrite /\ Due
    /\ LET n == IF Len(queue) < BatchSize THEN Len(queue) ELSE BatchSize IN
       /\ writer' = [state |-> "writing", events |-> ToSet(SubSeq(queue, 1, n)),
                     gaps |-> notices \cup overflow, tries |-> 0]
       /\ queue' = SubSeq(queue, n + 1, Len(queue))
    /\ notices' = {} /\ overflow' = {}
    /\ worker' = [worker EXCEPT !.batches = @ + 1]
    /\ UNCHANGED <<received, pulse, store, beat, faults>>

\* batch_id is drawn before the attempts.
BatchId(n, attempt) == <<n, 0>>

\* persist_shadow_batch: one transaction, skipped if the batch is on record.
Persisted ==
    LET id == BatchId(worker.batches, writer.tries) IN
    IF writer.events # {} /\ \E a \in store.audits : a.batch = id THEN store
    ELSE [rows |-> store.rows \cup writer.events, gaps |-> store.gaps \cup writer.gaps,
          audits |-> IF writer.events = {} THEN store.audits
                     ELSE store.audits \cup {[batch |-> id, events |-> writer.events]}]

Persist ==
    /\ writer.state = "writing"
    /\ store' = Persisted
    /\ writer' = NoBatch
    /\ UNCHANGED <<worker, received, memory, pulse, beat, faults>>

\* The transaction fails, or its acknowledgement is lost.  The last attempt
\* ends the writer, and with it the process.
PersistFails ==
    /\ writer.state = "writing"
    /\ Fault
    /\ store' \in {store, Persisted}
    /\ IF writer.tries + 1 < Attempts
       THEN writer' = [writer EXCEPT !.tries = @ + 1] /\ UNCHANGED worker
       ELSE /\ writer' = [NoBatch EXCEPT !.state = "dead"]
            /\ worker' = [worker EXCEPT !.state = "draining", !.ending = "failed"]
    /\ UNCHANGED <<received, memory, pulse, beat>>

WriterEnds ==
    /\ worker.state = "draining"
    /\ writer.state = "idle"
    /\ ~ MoreToWrite
    /\ writer' = [NoBatch EXCEPT !.state = "over"]
    /\ UNCHANGED <<worker, received, memory, pulse, store, beat, faults>>

WriterStep == Gather \/ Persist \/ PersistFails \/ WriterEnds

Next ==
    \/ Start \/ Stop \/ End \/ Crash
    \/ Receive \/ Refresh \/ Beat
    \/ WriterStep

Spec == Init /\ [][Next]_vars

\* Every task goes on.
Fairness == WF_vars(WriterStep) /\ WF_vars(Beat) /\ WF_vars(End)

FairSpec == Spec /\ Fairness

-----------------------------------------------------------------------------
InMemory ==
    IF Active THEN ToSet(queue) \cup overflow \cup notices \cup writer.events \cup writer.gaps ELSE {}

\* An event that was received is stored, or in a gap on record, or still in
\* memory, or the process has failed, and the next life will note the gap; and
\* it is in the audit of one batch, however often it was written.
EventsAccounted ==
    /\ \/ \A e \in 1..received : e \in Known \cup InMemory
       \/ worker.state \in {"failed", "crashed"}
       \/ writer.state = "dead"
    /\ \A a, c \in store.audits : a # c => a.events \cap c.events = {}

\* After its terminal heartbeat, only a new life touches the row.
TerminalBeatStands == [][worker.state \in Ended /\ beat' # beat => worker'.life # worker.life]_vars

\* An event goes on record, or the process fails.
EventsSettle ==
    \A e \in Id : []<>(e <= received => e \in Known \/ worker.state \in {"failed", "crashed"})
=============================================================================
