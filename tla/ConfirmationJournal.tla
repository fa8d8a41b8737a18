------------------------- MODULE ConfirmationJournal -------------------------
(***************************************************************************)
(* The Kraken confirmation study (kraken_confirmation.py, class            *)
(* ConfirmationStore, and kraken_confirmation_runtime.py, _run_v3): one    *)
(* process may ever claim the study, it records evidence in an append-only *)
(* journal for as long as it holds its lease, and seals it at the end as   *)
(* completed or as failed.                                                 *)
(*                                                                         *)
(* Every append runs in a thread of its own, which outlives the task that  *)
(* started it when the task is cancelled.  The tasks that append metadata  *)
(* (safety, quality and hourly reports) are one, the watch.  Left out:     *)
(* hashes and sizes, what the evidence says, the order books, the report.  *)
(***************************************************************************)
EXTENDS Integers, Sequences, SequencesExt

CONSTANTS
    Process,       \* launches of the study
    MaxRows,       \* bound on the submissions of a run
    Slots,         \* QUEUE_CAPACITY
    MaxWatch,      \* bound on the appends of the watch
    MaxFaults,     \* bound on failures of all kinds
    NoProcess

VARIABLES
    launch,        \* run() of each process, up to its claim
    run,           \* _run_v3 of the process that has claimed the study
    queue,         \* the submissions DurableWriter has yet to take
    calls,         \* appends on their way to the database
    clock,         \* now_ns(), counted in appends
    lease,         \* the row of the study in worker_locks
    journal,       \* confirmation_evidence
    faults         \* faults so far

vars == <<launch, run, queue, calls, clock, lease, journal, faults>>

Kind == {"protocol", "chunk", "watch", "quality", "guard", "terminal"}
Rows == Seq(1..MaxRows)
Stage == {"none", "running", "stopping", "flushed", "finishing", "verifying", "closing",
          "guarding", "guarded", "terminating", "sealed", "unsealed", "crashed"}
Over == {"sealed", "unsealed", "crashed"}

TypeOK ==
    /\ launch \in [Process -> {"new", "checked", "holder", "refused", "claimed"}]
    /\ run \in [owner : Process \cup {NoProcess}, stage : Stage, failed : BOOLEAN, rows : 0..MaxRows,
                writer : {"idle", "appending", "dead"}, watch : {"on", "appending", "dead", "gone"},
                watched : 0..MaxWatch]
    /\ Len(queue) <= Slots /\ \A i \in DOMAIN queue : queue[i].n \in 1..MaxRows
    /\ \A c \in calls : /\ c.by \in {"writer", "watch", "main"} /\ c.kind \in Kind
                        /\ c.rows \in Rows /\ c.at \in 0..clock
    /\ clock \in Nat
    /\ lease \in [owner : Process \cup {NoProcess}, age : {"fresh", "aging", "expired"}]
    /\ \A i \in DOMAIN journal : journal[i].kind \in Kind /\ journal[i].rows \in Rows
    /\ faults \in 0..MaxFaults

Free == [owner |-> NoProcess, age |-> "fresh"]

Init ==
    /\ launch = [p \in Process |-> "new"]
    /\ run = [owner |-> NoProcess, stage |-> "none", failed |-> FALSE, rows |-> 0,
              writer |-> "idle", watch |-> "on", watched |-> 0]
    /\ queue = <<>> /\ calls = {} /\ clock = 0
    /\ lease = Free
    /\ journal = <<>>
    /\ faults = 0

Fault == faults < MaxFaults /\ faults' = faults + 1
NoFault == UNCHANGED faults

-----------------------------------------------------------------------------
(* The store *)

\* _lease: the row is this process's, and not 90 seconds old.
LeaseHeld(p) == lease.owner = p /\ lease.age # "expired"

\* Variant: an append looks at the lease and at the owner alone.
MayAppendUnsealed(p, kind, at) ==
    /\ LeaseHeld(p)
    /\ IF kind = "protocol" THEN journal = <<>> ELSE journal # <<>> /\ Last(journal).owner = p

\* append: the claim is the first record and the terminal one the last, all
\* by one owner, in the order of their times.
MayAppend(p, kind, at) ==
    /\ LeaseHeld(p)
    /\ IF kind = "protocol" THEN journal = <<>>
       ELSE /\ journal # <<>>
            /\ Last(journal).owner = p
            /\ Last(journal).kind # "terminal"
            /\ at >= Last(journal).at

Entry(p, kind, rows, at, completed) ==
    [owner |-> p, kind |-> kind, rows |-> rows, at |-> at, completed |-> completed]

Tick ==
    /\ lease.owner # NoProcess
    /\ \/ lease.age = "fresh" /\ lease' = [lease EXCEPT !.age = "aging"] /\ NoFault
       \/ lease.age = "aging" /\ lease' = [lease EXCEPT !.age = "expired"] /\ Fault
    /\ UNCHANGED <<launch, run, queue, calls, clock, journal>>

\* Variant: refresh_worker_lock, which asks only whose row it is.
RefreshableByOwner(p) == lease.owner = p

\* refresh: a lease that has expired stays so.
Refreshable(p) == LeaseHeld(p)

Refresh ==
    /\ run.stage \notin {"none"} \cup Over
    /\ lease.age # "fresh"
    /\ Refreshable(run.owner)
    /\ lease' = [lease EXCEPT !.age = "fresh"]
    /\ UNCHANGED <<launch, run, queue, calls, clock, journal, faults>>

-----------------------------------------------------------------------------
(* The claim *)

Check(p) ==
    /\ launch[p] = "new"
    /\ launch' = [launch EXCEPT ![p] = IF journal = <<>> THEN "checked" ELSE "refused"]
    /\ UNCHANGED <<run, queue, calls, clock, lease, journal, faults>>

\* acquire_worker_lock takes over a row that is stale.
Acquire(p) ==
    /\ launch[p] = "checked"
    /\ IF lease.owner = NoProcess \/ lease.age = "expired"
       THEN /\ lease' = [owner |-> p, age |-> "fresh"]
            /\ launch' = [launch EXCEPT ![p] = "holder"]
       ELSE launch' = [launch EXCEPT ![p] = "refused"] /\ UNCHANGED lease
    /\ UNCHANGED <<run, queue, calls, clock, journal, faults>>

\* A claim that is refused gives the lease back; one whose transaction
\* breaks off does not, and may have been committed.
Claim(p) ==
    /\ launch[p] = "holder"
    /\ LET record == Entry(p, "protocol", <<>>, clock, FALSE) IN
       \/ /\ MayAppend(p, "protocol", clock)
          /\ journal' = Append(journal, record)
          /\ launch' = [launch EXCEPT ![p] = "claimed"]
          /\ run' = [run EXCEPT !.owner = p, !.stage = "running"]
          /\ UNCHANGED lease /\ NoFault
       \/ /\ ~ MayAppend(p, "protocol", clock)
          /\ launch' = [launch EXCEPT ![p] = "refused"]
          /\ lease' = IF lease.owner = p THEN Free ELSE lease
          /\ UNCHANGED <<journal, run>> /\ NoFault
       \/ /\ Fault
          /\ journal' \in {journal} \cup
                 (IF MayAppend(p, "protocol", clock) THEN {Append(journal, record)} ELSE {})
          /\ launch' = [launch EXCEPT ![p] = "refused"]
          /\ UNCHANGED <<lease, run>>
    /\ UNCHANGED <<queue, calls, clock>>

-----------------------------------------------------------------------------
(* The appends of a run *)

Live == {c \in calls : c.live}

\* append_metadata takes the lock and reads the clock.
Call(by, kind, rows) ==
    /\ Live = {}
    /\ calls' = calls \cup {[by |-> by, kind |-> kind, rows |-> rows, at |-> clock + 1, live |-> TRUE,
                             completed |-> kind = "terminal" /\ ~ run.failed]}
    /\ clock' = clock + 1

\* What the task does with the answer; a cancelled task does nothing.
Answered(c, ok) ==
    CASE ~ c.live -> run
      [] c.live /\ c.by = "writer" -> [run EXCEPT !.writer = IF ok THEN "idle" ELSE "dead"]
      [] c.live /\ c.by = "watch" -> [run EXCEPT !.watch = IF ok THEN "on" ELSE "dead"]
      [] c.live /\ c.kind = "quality" -> [run EXCEPT !.stage = IF ok THEN "verifying" ELSE "unsealed"]
      [] c.live /\ c.kind = "guard" -> [run EXCEPT !.stage = "guarded", !.failed = @ \/ ~ ok]
      [] c.live /\ c.kind = "terminal" -> [run EXCEPT !.stage = IF ok THEN "sealed" ELSE "unsealed"]

Transact(c) ==
    /\ calls' = calls \ {c}
    /\ LET record == Entry(run.owner, c.kind, c.rows, c.at, c.completed)
           allowed == MayAppend(run.owner, c.kind, c.at)
       IN  \/ /\ journal' = IF allowed THEN Append(journal, record) ELSE journal
              /\ run' = Answered(c, allowed)
              /\ NoFault
           \/ /\ Fault
              /\ journal' \in {journal} \cup (IF allowed THEN {Append(journal, record)} ELSE {})
              /\ run' = Answered(c, FALSE)
    /\ UNCHANGED <<launch, queue, clock, lease>>

\* Cancelling a task leaves its thread behind.
Orphaned(by) == {IF c.by = by THEN [c EXCEPT !.live = FALSE] ELSE c : c \in calls}

-----------------------------------------------------------------------------
(* DurableWriter *)

\* A frame of the capture, or the evaluations of the loop and after it, if
\* there is a slot.
Submit(kind) ==
    /\ run.stage = "running" \/ (run.stage = "stopping" /\ ~ run.failed /\ kind = "evaluation")
    /\ run.writer # "dead"
    /\ run.rows < MaxRows
    /\ Len(queue) < Slots
    /\ run' = [run EXCEPT !.rows = @ + 1]
    /\ queue' = Append(queue, [n |-> run.rows + 1, kind |-> kind])
    /\ UNCHANGED <<launch, calls, clock, lease, journal, faults>>

\* work: a chunk packs submissions of one kind, as long as they follow each
\* other and arrive in time.
Pack ==
    {SubSeq(queue, 1, k) : k \in {j \in DOMAIN queue : \A i \in 1..j : queue[i].kind = queue[1].kind}}

Write ==
    /\ run.stage \in {"running", "stopping"}
    /\ run.writer = "idle"
    /\ queue # <<>>
    /\ \E pack \in Pack :
          /\ Call("writer", "chunk", [i \in DOMAIN pack |-> pack[i].n])
          /\ queue' = SubSeq(queue, Len(pack) + 1, Len(queue))
    /\ run' = [run EXCEPT !.writer = "appending"]
    /\ UNCHANGED <<launch, lease, journal, faults>>

-----------------------------------------------------------------------------
(* The run *)

\* The watch appends what it has found, after a flush.
Watch ==
    /\ run.stage \in {"running", "stopping", "flushed", "verifying"}
    /\ run.watch = "on"
    /\ run.watched < MaxWatch
    /\ queue = <<>> /\ run.writer = "idle"
    /\ Call("watch", "watch", <<>>)
    /\ run' = [run EXCEPT !.watch = "appending", !.watched = @ + 1]
    /\ UNCHANGED <<launch, queue, lease, journal, faults>>

\* The fixed end; or a task has failed: the writer, the watch, the heartbeat
\* because the lease is lost, or any other.
Finish ==
    /\ run.stage = "running"
    /\ \/ NoFault /\ run' = [run EXCEPT !.stage = "stopping",
                                !.failed = run.writer = "dead" \/ run.watch = "dead" \/ ~ LeaseHeld(run.owner)]
       \/ Fault /\ run' = [run EXCEPT !.stage = "stopping", !.failed = TRUE]
    /\ UNCHANGED <<launch, queue, calls, clock, lease, journal>>

\* After a failure the watch is cancelled.
CancelWatch ==
    /\ run.stage \in {"stopping", "flushed", "verifying"}
    /\ run.failed
    /\ run.watch # "gone"
    /\ run' = [run EXCEPT !.watch = "gone"]
    /\ calls' = Orphaned("watch")
    /\ UNCHANGED <<launch, queue, clock, lease, journal, faults>>

\* The tasks are awaited and the last evaluations submitted: if the heartbeat
\* or the writer raises here, the study is not sealed.
GiveUp ==
    /\ run.stage = "stopping"
    /\ \/ ~ LeaseHeld(run.owner)
       \/ ~ run.failed /\ run.writer = "dead"
    /\ run' = [run EXCEPT !.stage = "unsealed"]
    /\ calls' = {[c EXCEPT !.live = FALSE] : c \in calls}
    /\ UNCHANGED <<launch, queue, clock, lease, journal, faults>>

\* Variant: the flush waits for the queue and not for the chunk in hand.
FlushBesideWriter ==
    /\ run.stage = "stopping"
    /\ \/ /\ queue = <<>>
          /\ run' = [run EXCEPT !.stage = "flushed"]
          /\ UNCHANGED calls /\ NoFault
       \/ /\ \/ run.writer = "dead" /\ NoFault
             \/ run.writer # "dead" /\ Fault
          /\ run' = [run EXCEPT !.stage = "flushed", !.failed = TRUE, !.writer = "dead"]
          /\ calls' = Orphaned("writer")
    /\ UNCHANGED <<launch, queue, clock, lease, journal>>

\* Variant: the flush waits for the queue and not for the end of the writer.
FlushQueueOnly ==
    /\ run.stage = "stopping"
    /\ queue = <<>> /\ run.writer = "idle"
    /\ run' = [run EXCEPT !.stage = "flushed"]
    /\ UNCHANGED <<launch, queue, calls, clock, lease, journal, faults>>

\* The final flush; a writer that has failed or takes too long is cancelled.
Flush ==
    /\ run.stage = "stopping"
    /\ \/ /\ queue = <<>> /\ run.writer = "idle"
          /\ run' = [run EXCEPT !.stage = "flushed"]
          /\ UNCHANGED calls /\ NoFault
       \/ /\ \/ run.writer = "dead" /\ NoFault
             \/ run.writer # "dead" /\ Fault
          /\ run' = [run EXCEPT !.stage = "flushed", !.failed = TRUE, !.writer = "dead"]
          /\ calls' = Orphaned("writer")
    /\ UNCHANGED <<launch, queue, clock, lease, journal>>

\* The lease is refreshed and the last counters are recorded.
RecordQuality ==
    /\ run.stage = "flushed"
    /\ IF LeaseHeld(run.owner)
       THEN /\ Call("main", "quality", <<>>)
            /\ run' = [run EXCEPT !.stage = "finishing"]
       ELSE run' = [run EXCEPT !.stage = "unsealed"] /\ UNCHANGED <<calls, clock>>
    /\ UNCHANGED <<launch, queue, lease, journal, faults>>

\* The journal is read back under the eyes of the heartbeat and the watch,
\* and then the watch is stopped.
Verify ==
    /\ run.stage = "verifying"
    /\ \/ /\ NoFault
          /\ LET failed == run.failed \/ run.watch = "dead" \/ ~ LeaseHeld(run.owner) IN
             /\ failed \/ run.watch # "appending"
             /\ run' = [run EXCEPT !.stage = "closing", !.failed = failed, !.watch = "gone"]
       \/ Fault /\ run' = [run EXCEPT !.stage = "closing", !.failed = TRUE, !.watch = "gone"]
    /\ calls' = Orphaned("watch")
    /\ UNCHANGED <<launch, queue, clock, lease, journal>>

\* The safety of the account is proved once more.
GuardFinally ==
    /\ run.stage = "closing"
    /\ \/ ~ run.failed /\ Call("main", "guard", <<>>) /\ NoFault
          /\ run' = [run EXCEPT !.stage = "guarding"]
       \/ /\ \/ run.failed /\ NoFault
             \/ ~ run.failed /\ Fault
          /\ run' = [run EXCEPT !.stage = "guarded", !.failed = TRUE]
          /\ UNCHANGED <<calls, clock>>
    /\ UNCHANGED <<launch, queue, lease, journal>>

Seal ==
    /\ run.stage = "guarded"
    /\ Call("main", "terminal", <<>>)
    /\ run' = [run EXCEPT !.stage = "terminating"]
    /\ UNCHANGED <<launch, queue, lease, journal, faults>>

\* What a cancelled task has left behind may still be on its way.
Release ==
    /\ run.stage = "sealed"
    /\ lease.owner = run.owner
    /\ lease' = Free
    /\ UNCHANGED <<launch, run, queue, calls, clock, journal, faults>>

Crash ==
    /\ run.stage \notin {"none"} \cup Over
    /\ Fault
    /\ run' = [run EXCEPT !.stage = "crashed"]
    /\ calls' = {}
    /\ UNCHANGED <<launch, queue, clock, lease, journal>>

DatabaseStep == \E c \in calls : Transact(c)
RunStep == Finish \/ CancelWatch \/ GiveUp \/ Flush \/ RecordQuality \/ Verify \/ GuardFinally \/ Seal \/ Release

Next ==
    \/ Tick \/ Refresh
    \/ \E p \in Process : Check(p) \/ Acquire(p) \/ Claim(p)
    \/ DatabaseStep
    \/ \E kind \in {"capture", "evaluation"} : Submit(kind)
    \/ Write \/ Watch
    \/ RunStep \/ Crash

Spec == Init /\ [][Next]_vars

\* Every task and every thread goes on.
Fairness == WF_vars(DatabaseStep) /\ WF_vars(Write) /\ WF_vars(RunStep)

FairSpec == Spec /\ Fairness

-----------------------------------------------------------------------------
\* The journal is the record of one claim: the protocol first and once, one
\* owner, nothing after the terminal record.
JournalIsSound ==
    \A i \in DOMAIN journal :
        /\ journal[i].owner = journal[1].owner
        /\ (journal[i].kind = "protocol") <=> i = 1
        /\ journal[i].kind = "terminal" => i = Len(journal)

Recorded == FlattenSeq([i \in DOMAIN journal |-> journal[i].rows])

\* A journal sealed as completed holds every submission of the run in the
\* order in which they were made, and the last guard before the seal.
CompletedIsWhole ==
    journal # <<>> /\ Last(journal).completed =>
        /\ Recorded = [i \in 1..run.rows |-> i]
        /\ journal[Len(journal) - 1].kind = "guard"

Dead == journal # <<>> /\ ~ LeaseHeld(Head(journal).owner)

\* Once the lease of the claim is gone, the study is over: nothing is added
\* to its journal, and its owner does not get the lease back.
DeathIsFinal == [][Dead => Dead' /\ journal' = journal]_vars

\* A run comes to an end.
RunEnds == []<>(run.stage \in {"none"} \cup Over)
=============================================================================
