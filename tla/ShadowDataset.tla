---------------------------- MODULE ShadowDataset ----------------------------
(***************************************************************************)
(* The forward dataset of shadow_dataset.py and shadow_dataset_runtime.py: *)
(* quotes are received and kept on a tape, every few seconds an evaluation *)
(* is made of what is known, its labels are resolved later from the quote  *)
(* at each horizon, and at the end the dataset is sealed and analysed.     *)
(* The collector works in memory; a writer commits evaluations, labels and *)
(* pieces of tape from a queue, each with a check of the lease.            *)
(*                                                                         *)
(* Time passes in ticks, and a quote is processed when it is received.     *)
(* One symbol and one process are modelled, since the check of the lease   *)
(* refuses the writes of any other; a task that fails ends the process     *)
(* like a crash.  Left out: budgets, quality counts, daily reports, delayed *)
(* entries, the age limit of the history, sizes and prices of quotes.      *)
(***************************************************************************)
EXTENDS Integers, Sequences, FiniteSetsExt

CONSTANTS
    Every,       \* evaluation_seconds
    End,         \* end of the window, which starts at 0
    Horizons,    \* horizons
    Settle,      \* label_settle_seconds
    MaxAge,      \* maximum_quote_age_seconds
    BatchSize,   \* length of source_batch at which it is written
    MaxQuotes,   \* bound on the quotes received
    MaxBreaks,   \* bound on resets, gaps and new connections
    MaxFaults,   \* bound on crashes
    None         \* no quote, no row


VARIABLES
    now,
    market,        \* the number of quotes received, and before which of them continuity broke
    collector,     \* ShadowDatasetCollector
    loop,          \* clock(): where it is, and paused
    source_batch,  \* quotes not yet given to the writer
    writer_queue,
    dataset,       \* the tables
    stop,          \* the control shadow-dataset:...:stop
    faults

memory == <<collector, loop, source_batch, writer_queue>>
vars == <<now, market, memory, dataset, stop, faults>>

ProtocolEnd == End + Max(Horizons) + Settle
Slot == 0..(End \div Every)
Id == 1..MaxQuotes
Time == 0..ProtocolEnd

\* epoch is the process, numbered by the crashes before it, and its count of
\* continuity changes.
Quote == [id : Id, at : Time, epoch : (0..MaxFaults) \X Nat]
Evaluation == [at : Time, entry : Quote \cup {None}, fresh : BOOLEAN]
Label == [complete : BOOLEAN, exit : Quote \cup {None}]

NoRows == [s \in Slot |-> None]
Unlabelled == [h \in Horizons |-> None]

NewCollector == [epoch |-> 0, history |-> {}, last_slot |-> -1, pending |-> NoRows,
                 completed |-> [s \in Slot |-> {}]]

Init ==
    /\ now = 0
    /\ market = [quotes |-> 0, breaks |-> {}]
    /\ collector = NewCollector
    /\ loop = [pc |-> "down", paused |-> FALSE]
    /\ source_batch = {}
    /\ writer_queue = <<>>
    /\ dataset = [evaluations |-> NoRows, labels |-> [s \in Slot |-> Unlabelled], tape |-> {},
                  sealed |-> FALSE, analysis |-> "none"]
    /\ stop = FALSE
    /\ faults = 0

-----------------------------------------------------------------------------
(* Start and end of the process *)

Stored == {s \in Slot : dataset.evaluations[s] # None}
Labelled(s) == {h \in Horizons : dataset.labels[s][h] # None}

\* Variant: only evaluations without any label are taken up again.
UnlabelledOnly == {s \in Stored : Labelled(s) = {}}

\* recover_pending: evaluations with fewer labels than horizons.
Unfinished == {s \in Stored : Labelled(s) # Horizons}

\* Variant: the last slot is not read back.
NoSlot == -1

LastSlot == Max({-1} \cup Stored)

\* The lease, recover_pending, and whether the dataset is sealed already.
Start ==
    /\ loop.pc = "down"
    /\ collector' = [NewCollector EXCEPT
           !.last_slot = LastSlot,
           !.pending = [s \in Slot |-> IF s \in Unfinished THEN dataset.evaluations[s] ELSE None],
           !.completed = [s \in Slot |-> IF s \in Unfinished THEN Labelled(s) ELSE {}]]
    /\ loop' = [loop EXCEPT !.pc = IF dataset.sealed THEN "archive" ELSE "running"]
    /\ UNCHANGED <<now, market, source_batch, writer_queue, dataset, stop, faults>>

Crash ==
    /\ loop.pc # "down"
    /\ faults < MaxFaults
    /\ faults' = faults + 1
    /\ collector' = NewCollector
    /\ loop' = [pc |-> "down", paused |-> FALSE]
    /\ source_batch' = {} /\ writer_queue' = <<>>
    /\ UNCHANGED <<now, market, dataset, stop>>

\* A safety check stops the collection for good (signal_stop).
Stop ==
    /\ ~stop
    /\ stop' = TRUE
    /\ UNCHANGED <<now, market, memory, dataset, faults>>

TimePasses ==
    /\ now < ProtocolEnd
    /\ now' = now + 1
    /\ UNCHANGED <<market, memory, dataset, stop, faults>>

-----------------------------------------------------------------------------
(* receive() and on_market *)

Tape(ids) == [kind |-> "tape", ids |-> ids]

\* The first quote of a process and the first after a break start an epoch.
\* The feed runs until the clock stops it.
Receive ==
    /\ loop.pc = "running" /\ ~loop.paused
    /\ market.quotes < MaxQuotes
    /\ \E broken \in BOOLEAN :
          LET id == market.quotes + 1
              epoch == IF broken THEN collector.epoch + 1 ELSE collector.epoch
              batch == source_batch \cup {id}
          IN /\ collector.history = {} => broken
             /\ broken /\ collector.history # {} => Cardinality(market.breaks) < MaxBreaks
             /\ market' = [quotes |-> id,
                           breaks |-> IF broken THEN market.breaks \cup {id} ELSE market.breaks]
             /\ collector' = [collector EXCEPT
                    !.epoch = epoch,
                    !.history = @ \cup {[id |-> id, at |-> now, epoch |-> <<faults, epoch>>]}]
             /\ IF Cardinality(batch) >= BatchSize
                THEN source_batch' = {} /\ writer_queue' = Append(writer_queue, Tape(batch))
                ELSE source_batch' = batch /\ UNCHANGED writer_queue
    /\ UNCHANGED <<now, loop, dataset, stop, faults>>

-----------------------------------------------------------------------------
(* evaluate and resolve *)

\* _at: the latest quote received at or before a time.
QuoteAt(time) ==
    LET known == {q \in collector.history : q.at <= time}
    IN IF known = {} THEN None ELSE CHOOSE q \in known : \A r \in known : r.id <= q.id

Fresh(quote, time) == quote # None /\ time - quote.at <= MaxAge

\* The evaluation of a new slot within the window.
Evaluated ==
    IF loop.paused \/ now >= End THEN {} ELSE {now \div Every} \ {collector.last_slot}

NewEvaluation ==
    LET quote == QuoteAt(now) IN [at |-> now, entry |-> quote, fresh |-> Fresh(quote, now)]

\* Variant: epochs of two processes are not told apart.
SameCount(entry, exit) == entry.epoch[2] = exit.epoch[2]

SameEpoch(entry, exit) == entry.epoch = exit.epoch

NewLabel(evaluation, horizon) ==
    LET exit == QuoteAt(evaluation.at + horizon)
    IN [complete |-> /\ evaluation.fresh /\ Fresh(exit, evaluation.at + horizon)
                     /\ SameEpoch(evaluation.entry, exit),
        exit |-> exit]

\* pending, with the new evaluation.
Pending ==
    [s \in Slot |-> IF s \in Evaluated THEN NewEvaluation ELSE collector.pending[s]]

\* Labels whose horizon has settled and that were not made yet.
Resolved ==
    {l \in Slot \X Horizons :
        /\ Pending[l[1]] # None
        /\ l[2] \notin collector.completed[l[1]]
        /\ now >= Pending[l[1]].at + l[2] + Settle}

Completed(s) == collector.completed[s] \cup {h \in Horizons : <<s, h>> \in Resolved}

StillPending == {s \in Slot : Pending[s] # None /\ Completed(s) # Horizons}

Rows ==
    [kind |-> "rows",
     evaluations |-> [s \in Evaluated |-> NewEvaluation],
     labels |-> [l \in Resolved |-> NewLabel(Pending[l[1]], l[2])]]

-----------------------------------------------------------------------------
(* clock() *)

\* Variant: the last piece of the tape is forgotten.
NothingFlushed == <<>>

Flushed == IF source_batch = {} THEN <<>> ELSE <<Tape(source_batch)>>
Quality(sealed) == <<[kind |-> "quality", sealed |-> sealed]>>

\* The stop control ends the feed for good: the rest of the tape is queued, and
\* the reason, which makes the dataset paused_invalid and not sealed.
Pause ==
    /\ loop.pc \in {"running", "sealed"}
    /\ stop /\ ~loop.paused
    /\ loop' = [loop EXCEPT !.paused = TRUE]
    /\ writer_queue' = writer_queue \o Flushed \o Quality(FALSE)
    /\ source_batch' = {}
    /\ UNCHANGED <<now, market, collector, dataset, stop, faults>>

\* An iteration: evaluation and labels are queued as one item, the tape when
\* its time has come.  At the end the feed is stopped, and all of it is queued.
Work ==
    /\ loop.pc = "running"
    /\ stop => loop.paused
    /\ collector' = [collector EXCEPT
           !.pending = [s \in Slot |-> IF s \in StillPending THEN Pending[s] ELSE None],
           !.completed = [s \in Slot |-> IF s \in StillPending THEN Completed(s) ELSE {}],
           !.last_slot = Max({@} \cup Evaluated)]
    /\ LET queued == IF Evaluated = {} /\ Resolved = {} THEN writer_queue
                     ELSE Append(writer_queue, Rows)
       IN IF ~loop.paused /\ now >= ProtocolEnd /\ StillPending = {}
          THEN /\ writer_queue' = queued \o Flushed \o Quality(TRUE)
               /\ source_batch' = {}
               /\ loop' = [loop EXCEPT !.pc = "sealing"]
          ELSE /\ \/ writer_queue' = queued \o Flushed /\ source_batch' = {}
                  \/ writer_queue' = queued /\ UNCHANGED source_batch
               /\ UNCHANGED loop
    /\ UNCHANGED <<now, market, dataset, stop, faults>>

\* writer_queue.join, and then the signal for the analysis.
Sealed ==
    /\ loop.pc = "sealing"
    /\ writer_queue = <<>>
    /\ loop' = [loop EXCEPT !.pc = "sealed"]
    /\ UNCHANGED <<now, market, collector, source_batch, writer_queue, dataset, stop, faults>>

-----------------------------------------------------------------------------
(* writer() and terminal_analysis() *)

\* A row that is there already is not written again.
Once(old, new) == IF old = None THEN new ELSE old

Written(item) ==
    CASE item.kind = "rows" ->
            [dataset EXCEPT
                !.evaluations = [s \in Slot |-> IF s \in DOMAIN item.evaluations
                                                THEN Once(@[s], item.evaluations[s]) ELSE @[s]],
                !.labels = [s \in Slot |-> [h \in Horizons |->
                    IF <<s, h>> \in DOMAIN item.labels
                    THEN Once(@[s][h], item.labels[<<s, h>>]) ELSE @[s][h]]]]
      [] item.kind = "tape" -> [dataset EXCEPT !.tape = @ \cup item.ids]
      [] item.kind = "quality" -> [dataset EXCEPT !.sealed = item.sealed]

Write ==
    /\ loop.pc # "down"
    /\ writer_queue # <<>>
    /\ dataset' = Written(Head(writer_queue))
    /\ writer_queue' = Tail(writer_queue)
    /\ UNCHANGED <<now, market, collector, loop, source_batch, stop, faults>>

\* verify_source_manifest: the quotes that rows refer to.
Referenced ==
    LET entries == {dataset.evaluations[s].entry : s \in Stored}
        exits == UNION {{dataset.labels[s][h].exit : h \in Labelled(s)} : s \in Slot}
    IN (entries \cup exits) \ {None}

\* The analysis runs once, whatever it finds.
Analyse ==
    /\ loop.pc \in {"sealed", "archive"}
    /\ dataset.analysis = "none"
    /\ dataset' = [dataset EXCEPT !.analysis = IF ~dataset.sealed THEN "blocked"
                                               ELSE IF {q.id : q \in Referenced} \subseteq dataset.tape
                                               THEN "verified" ELSE "failed"]
    /\ UNCHANGED <<now, market, memory, stop, faults>>

-----------------------------------------------------------------------------
Next ==
    \/ Start \/ Crash \/ Stop \/ TimePasses \/ Receive
    \/ Pause \/ Work \/ Sealed \/ Write \/ Analyse

Spec == Init /\ [][Next]_vars

ClockStep == Pause \/ Work \/ Sealed

\* The process is started again, its tasks run and time goes on.
Fairness ==
    /\ WF_vars(Start) /\ WF_vars(ClockStep) /\ WF_vars(Write) /\ WF_vars(TimePasses)

FairSpec == Spec /\ Fairness

-----------------------------------------------------------------------------
(* Properties *)

TypeOK ==
    /\ now \in Time
    /\ market.quotes \in 0..MaxQuotes /\ market.breaks \subseteq Id
    /\ collector.epoch \in Nat
    /\ collector.history \subseteq Quote
    /\ collector.last_slot \in Slot \cup {-1}
    /\ \A s \in Slot : /\ collector.pending[s] \in Evaluation \cup {None}
                       /\ collector.completed[s] \subseteq Horizons
    /\ loop \in [pc : {"down", "running", "sealing", "sealed", "archive"}, paused : BOOLEAN]
    /\ source_batch \subseteq Id /\ dataset.tape \subseteq Id
    /\ \A s \in Slot : /\ dataset.evaluations[s] \in Evaluation \cup {None}
                       /\ \A h \in Horizons : dataset.labels[s][h] \in Label \cup {None}
    /\ dataset.sealed \in BOOLEAN /\ stop \in BOOLEAN
    /\ dataset.analysis \in {"none", "blocked", "verified", "failed"}
    /\ faults \in 0..MaxFaults

QueuedRows == {i \in 1..Len(writer_queue) : writer_queue[i].kind = "rows"}

\* No row is made twice: what is queued for the writer is neither stored nor
\* queued again, over restarts too, so ShadowDatasetStore.write never meets a
\* conflicting duplicate.
RowsAreMadeOnce ==
    \A i \in QueuedRows :
        LET made == writer_queue[i]
        IN /\ DOMAIN made.evaluations \cap Stored = {}
           /\ \A l \in DOMAIN made.labels : l[2] \notin Labelled(l[1])
           /\ \A j \in QueuedRows \ {i} :
                 /\ DOMAIN made.evaluations \cap DOMAIN writer_queue[j].evaluations = {}
                 /\ DOMAIN made.labels \cap DOMAIN writer_queue[j].labels = {}

\* A complete label spans no reset, gap, reconnection or restart: "reset-spanning
\* and restart-unavailable labels remain missing" (resolve).
LabelsAreContinuous ==
    \A s \in Slot, h \in Horizons :
        dataset.labels[s][h] # None /\ dataset.labels[s][h].complete =>
            \A b \in market.breaks :
                ~ (dataset.evaluations[s].entry.id < b /\ b <= dataset.labels[s][h].exit.id)

\* What is sealed is finished: a sealed dataset lacks no label of any evaluation
\* that was stored, no row is on its way, and of the quotes its rows refer to
\* only those of a process that crashed can be missing from the tape (clock,
\* update_quality, persist_tape).  Without the exception it does not hold: a
\* crash loses source_batch, and rows made from it are stored already.
DatasetInv ==
    /\ TypeOK
    /\ dataset.sealed =>
          /\ \A e \in Stored : Labelled(e) = Horizons
          /\ QueuedRows = {}
          /\ \A q \in Referenced : q.epoch[1] = faults => q.id \in dataset.tape

\* Every evaluation that was stored has all its labels, and the dataset is
\* sealed unless it was stopped.
Settled ==
    /\ \A s \in Stored : Labelled(s) = Horizons
    /\ stop \/ dataset.sealed

\* The dataset settles, whenever the process crashed or was stopped.
DatasetSettles == []<>Settled
=============================================================================
