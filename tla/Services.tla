------------------------------ MODULE Services ------------------------------
(***************************************************************************)
(* One small instance of each of six services of the deployment: the       *)
(* scalping order engine, the event worker, the books of the scalping      *)
(* feed, the shadow recorder, the Kraken study and the forward dataset.    *)
(* They are separate processes with tables of their own, so their steps    *)
(* commute: a behaviour shows the service that part names, and the others  *)
(* stand still.  Where a service has a module of proofs, the instance is    *)
(* of that module: it defines the same service, and its theorems can be    *)
(* cited for it.  The books and the shadow recorder, which only run here,  *)
(* keep their constants, and what is proved of them is in ServicesProofs.  *)
(***************************************************************************)
EXTENDS Integers, Sequences, TLC

CONSTANTS
    None,              \* no quote, no row
    Symbols,           \* the symbols of the books, a sequence
    BookCapacity,      \* queue_capacity of the feed
    BookBatchSize,     \* raw_batch_size
    MaxVersion,        \* bound on the book messages of a symbol in a connection
    MaxMarketFaults,   \* bound on broken connections and messages, overflows, failed writes
    MaxEvents,         \* bound on the events the shadow recorder receives
    ShadowCapacity,    \* queue_capacity of the recorder
    ShadowBatchSize,   \* batch_size
    Attempts,          \* retry_attempts
    MaxLives,          \* bound on the starts of the recorder
    MaxShadowFaults    \* bound on its failed calls

VARIABLES
    part,   \* the service a behaviour shows
    \* ScalpDispatch
    scalpLease, lock, row, scalpDue, eng, req, posts, brk, hist, scalpFaults,
    \* EventOrders
    eventLease, paused, budget, rows, wk, broker, eventDue, eventFaults,
    \* MarketBooks
    feed, feedQueue, batch, engine, asked, marketFaults,
    \* ShadowRecorder
    worker, received, queue, overflow, notices, writer, pulse, store, beat, shadowFaults,
    \* ConfirmationJournal
    launch, run, frames, calls, clock, journalLease, journal, journalFaults,
    \* ShadowDataset
    now, market, collector, loop, source_batch, writer_queue, dataset, stop, datasetFaults

scalp == <<scalpLease, lock, row, scalpDue, eng, req, posts, brk, hist, scalpFaults>>
paper == <<eventLease, paused, budget, rows, wk, broker, eventDue, eventFaults>>
books == <<feed, feedQueue, batch, engine, asked, marketFaults>>
shadow == <<worker, received, queue, overflow, notices, writer, pulse, store, beat, shadowFaults>>
study == <<launch, run, frames, calls, clock, journalLease, journal, journalFaults>>
forward == <<now, market, collector, loop, source_batch, writer_queue, dataset, stop, datasetFaults>>

\* One engine and the entries of two symbols, for the account-wide gate.
Scalp == INSTANCE ScalpDispatchProofs WITH
    Engine <- {"e1"}, Order <- {"b1", "b2"}, Entry <- {"b1", "b2"},
    SymbolOf <- ("b1" :> "X") @@ ("b2" :> "Y"), MaxQty <- 1, MaxFaults <- 0,
    AmbiguousRejections <- FALSE, NoEngine <- "none", NoOrder <- "none",
    lease <- scalpLease, due <- scalpDue, faults <- scalpFaults

\* One worker, and an exit that may have to be sold twice over.
Paper == INSTANCE EventOrdersProofs WITH
    Worker <- {"w1"}, Events <- 1, MaxExits <- 2, Qty <- 2, EntryLimit <- 1, MaxFaults <- 1,
    NoWorker <- "none", lease <- eventLease, due <- eventDue, faults <- eventFaults

Books == INSTANCE MarketBooks WITH
    Capacity <- BookCapacity, BatchSize <- BookBatchSize, MaxFaults <- MaxMarketFaults,
    queue <- feedQueue, faults <- marketFaults

Shadow == INSTANCE ShadowRecorder WITH
    Capacity <- ShadowCapacity, BatchSize <- ShadowBatchSize, MaxFaults <- MaxShadowFaults,
    faults <- shadowFaults

\* Two launches of the study.
Study == INSTANCE ConfirmationJournalProofs WITH
    Process <- {"p1", "p2"}, MaxRows <- 2, Slots <- 2, MaxWatch <- 1, MaxFaults <- 1,
    NoProcess <- "none", queue <- frames, lease <- journalLease, faults <- journalFaults

\* One evaluation with two labels, quotes before and after a break or a crash.
Forward == INSTANCE ShadowDatasetProofs WITH
    Every <- 1, End <- 1, Horizons <- {1, 2}, Settle <- 0, MaxAge <- 0, BatchSize <- 2,
    MaxQuotes <- 2, MaxBreaks <- 2, MaxFaults <- 1, faults <- datasetFaults

\* None is no row of the dataset.
ASSUME NoneAssumption ==
    None \notin Forward!Quote /\ None \notin Forward!Evaluation /\ None \notin Forward!Label

vars == <<part, scalp, paper, books, shadow, study, forward>>

Init ==
    /\ part \in {"scalp", "paper", "books", "shadow", "study", "forward"}
    /\ Scalp!Init /\ Paper!Init /\ Books!Init /\ Shadow!Init /\ Study!Init /\ Forward!Init

\* The service that part names takes a step, and the others stand still.
InScalp == part = "scalp" /\ UNCHANGED <<part, paper, books, shadow, study, forward>>
InPaper == part = "paper" /\ UNCHANGED <<part, scalp, books, shadow, study, forward>>
InBooks == part = "books" /\ UNCHANGED <<part, scalp, paper, shadow, study, forward>>
InShadow == part = "shadow" /\ UNCHANGED <<part, scalp, paper, books, study, forward>>
InStudy == part = "study" /\ UNCHANGED <<part, scalp, paper, books, shadow, forward>>
InForward == part = "forward" /\ UNCHANGED <<part, scalp, paper, books, shadow, study>>

Next ==
    \/ InScalp /\ Scalp!Next
    \/ InPaper /\ Paper!Next
    \/ InBooks /\ Books!Next
    \/ InShadow /\ Shadow!Next
    \/ InStudy /\ Study!Next
    \/ InForward /\ Forward!Next

Spec == Init /\ [][Next]_vars

-----------------------------------------------------------------------------
(* The fairness of each service, for the behaviours that show it. *)

PaperFair ==
    /\ WF_paper(part = "paper" /\ Paper!WorkerStep("w1"))
    /\ SF_paper(part = "paper" /\ Paper!Supervise("w1"))
    /\ WF_paper(part = "paper" /\ Paper!Start("w1"))
    /\ WF_paper(part = "paper" /\ Paper!Ages)
    /\ WF_paper(part = "paper" /\ \E o \in Paper!Order : Paper!Arrives(o))
    /\ WF_paper(part = "paper" /\ \E o \in Paper!Order : Paper!Fills(o) \/ Paper!EndsUnfilled(o))
    /\ WF_paper(part = "paper" /\ Paper!TimePasses)

BooksFair ==
    /\ WF_books(part = "books" /\ Books!FeedStep)
    /\ WF_books(part = "books" /\ Books!EngineStep)
    /\ WF_books(part = "books" /\ Books!Snapshot)

ShadowFair ==
    /\ WF_shadow(part = "shadow" /\ Shadow!WriterStep)
    /\ WF_shadow(part = "shadow" /\ Shadow!Beat)
    /\ WF_shadow(part = "shadow" /\ Shadow!End)

StudyFair ==
    /\ WF_study(part = "study" /\ Study!DatabaseStep)
    /\ WF_study(part = "study" /\ Study!Write)
    /\ WF_study(part = "study" /\ Study!RunStep)

ForwardFair ==
    /\ WF_forward(part = "forward" /\ Forward!Start)
    /\ WF_forward(part = "forward" /\ Forward!ClockStep)
    /\ WF_forward(part = "forward" /\ Forward!Write)
    /\ WF_forward(part = "forward" /\ Forward!TimePasses)

FairSpec == Spec /\ PaperFair /\ BooksFair /\ ShadowFair /\ StudyFair /\ ForwardFair

-----------------------------------------------------------------------------
\* Every variable of the three services without a run of their own has its
\* type (scalping_market, shadow_recorder, kraken_confirmation_runtime).
TypesOK == Books!TypeOK /\ Shadow!TypeOK /\ Study!TypeOK

\* No entry is POSTed while another submission of the account is unanswered
\* (step, _unresolved_orders).
NoEntryIntoUnknown == Scalp!NoEntryIntoUnknown

\* One worker that crashes, stops or loses an answer never sells more than it
\* bought (supervise, _dispatch); two workers may, see EventOrdersOversell.cfg.
NoOversell == Paper!NoOversell

\* The coins of an entry are sold in the end, unless an order was abandoned
\* (supervise).
ExitsComplete == Paper!ExitsComplete

\* A book of the engine that is valid was built without a gap (_consume,
\* on_event).
BooksAreWhole == Books!BooksAreWhole

\* The engine that has read everything has no book the feed does not have, and
\* asks for those it lacks (_receive, _apply_event).
DrainedAgrees == Books!DrainedAgrees

\* A book that needs a snapshot gets one (request_resnapshot, _run).
SnapshotsRecover == Books!SnapshotsRecover

\* What was received is queued, being written, on record once or known to be
\* lost (offer, run, persist_shadow_batch).
EventsAccounted == Shadow!EventsAccounted

\* Nothing overwrites a terminal heartbeat but a new life (_run_shadow).
TerminalBeatStands == Shadow!TerminalBeatStands

\* Events go on record while the process lives (run).
EventsSettle == Shadow!EventsSettle

\* One owner, one claim first and one terminal record last, in the order of
\* their times (ConfirmationStore.append).
JournalIsSound == Study!JournalIsSound

\* A journal sealed as completed lacks no submission (DurableWriter, _run_v3).
CompletedIsWhole == Study!CompletedIsWhole

\* A study whose lease is lost stays as it is (refresh, append).
DeathIsFinal == Study!DeathIsFinal

\* A run ends (_run_v3, flush).
RunEnds == Study!RunEnds

\* Every variable of the dataset has its type, and what is sealed is finished
\* (clock, update_quality, persist_tape).
DatasetInv == Forward!DatasetInv

\* No row of the dataset is made twice (evaluate, resolve, recover_pending).
RowsAreMadeOnce == Forward!RowsAreMadeOnce

\* A complete label spans no break and no restart (resolve).
LabelsAreContinuous == Forward!LabelsAreContinuous

\* Evaluations that are stored get their labels, and a dataset that is not
\* stopped is sealed (recover_pending, clock).
DatasetSettles == []<>(part = "forward" => Forward!Settled)
=============================================================================
