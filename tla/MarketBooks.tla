----------------------------- MODULE MarketBooks -----------------------------
(***************************************************************************)
(* The order books of the scalping service (scalping_market.py): the feed  *)
(* owns the connection and publishes numbered events to a bounded queue,   *)
(* the engine rebuilds the books from batches in another thread, and asks  *)
(* the feed for a fresh snapshot when a book is broken.                    *)
(*                                                                         *)
(* A book is the number of book messages of its connection it was built    *)
(* from, 0 if it is invalid.  Left out: prices and levels, the ages of     *)
(* books and of messages, quotes, trades and the feature history.          *)
(***************************************************************************)
EXTENDS Integers, Sequences, SequencesExt

CONSTANTS
    Symbols,       \* the symbols, a sequence
    Capacity,      \* queue_capacity
    BatchSize,     \* raw_batch_size
    MaxVersion,    \* bound on the book messages of a symbol in a connection
    MaxFaults      \* bound on broken connections and messages, overflows, failed writes

Symbol == ToSet(Symbols)

VARIABLES
    feed,      \* CryptoMarketFeed
    queue,     \* its events, with those the service has taken and not yet batched
    batch,     \* the events of process_market_batch
    engine,    \* BookFeatureEngine
    asked,     \* connections for which request_resnapshot is scheduled
    faults     \* faults so far

vars == <<feed, queue, batch, engine, asked, faults>>

Event == [conn : Nat, seq : Nat, symbol : Symbol,
          kind : {"reset", "snapshot", "update", "broken", "odd"}, book : 0..MaxVersion]
Over == {"failed", "stopped"}

TypeOK ==
    /\ feed \in [state : {"idle", "connecting", "awaiting_snapshots", "streaming",
                          "resnapshot_requested", "reconnecting"} \cup Over,
                 conn : Nat, seq : Nat, book : [Symbol -> 0..MaxVersion], coalesced : BOOLEAN]
    /\ queue \in Seq(Event) /\ Len(queue) <= Capacity
    /\ batch \in Seq(Event) /\ Len(batch) <= BatchSize
    /\ engine \in [conn : Nat, last : Nat, book : [Symbol -> 0..MaxVersion], whole : SUBSET Symbol,
                   required : SUBSET Symbol, asks : {{}}]
    /\ asked \subseteq Nat
    /\ faults \in 0..MaxFaults

NoBooks == [s \in Symbol |-> 0]

Init ==
    /\ feed = [state |-> "idle", conn |-> 0, seq |-> 0, book |-> NoBooks, coalesced |-> FALSE]
    /\ queue = <<>>
    /\ batch = <<>>
    /\ engine = [conn |-> 0, last |-> 0, book |-> NoBooks, whole |-> {}, required |-> {}, asks |-> {}]
    /\ asked = {}
    /\ faults = 0

Fault == faults < MaxFaults /\ faults' = faults + 1

-----------------------------------------------------------------------------
(* The feed *)

\* Variant: the resets are left out when the queue cannot take them.
ResetKeeping(f, q) ==
    LET events == [i \in DOMAIN Symbols |->
                      [conn |-> f.conn, seq |-> f.seq + i, symbol |-> Symbols[i], kind |-> "reset", book |-> 0]]
    IN  [feed |-> [f EXCEPT !.seq = @ + Len(Symbols), !.book = NoBooks],
         queue |-> IF Len(q) + Len(Symbols) > Capacity THEN q ELSE q \o events]

\* Every book is invalid, and the queue says so; if it cannot take that, it is
\* emptied first.
Reset(f, q) ==
    LET kept == IF Len(q) + Len(Symbols) > Capacity THEN <<>> ELSE q
        events == [i \in DOMAIN Symbols |->
                      [conn |-> f.conn, seq |-> f.seq + i, symbol |-> Symbols[i], kind |-> "reset", book |-> 0]]
    IN  [feed |-> [f EXCEPT !.seq = @ + Len(Symbols), !.book = NoBooks], queue |-> kept \o events]

ResetIn(f, q) ==
    /\ feed' = Reset(f, q).feed
    /\ queue' = Reset(f, q).queue

Connect ==
    /\ feed.state \in {"idle", "reconnecting"}
    /\ ResetIn([state |-> "connecting", conn |-> feed.conn + 1, seq |-> 0, book |-> NoBooks,
                coalesced |-> FALSE], queue)
    /\ UNCHANGED <<batch, engine, asked, faults>>

Subscribed ==
    /\ feed.state = "connecting"
    /\ feed' = [feed EXCEPT !.state = "awaiting_snapshots"]
    /\ UNCHANGED <<queue, batch, engine, asked, faults>>

Connected == feed.state \in {"awaiting_snapshots", "streaming"}

\* _consume publishes a message before it looks at it.  A broken message ends
\* the connection; an odd one is refused by the engine alone.
Message(s, kind) ==
    [conn |-> feed.conn, seq |-> feed.seq + 1, symbol |-> s, kind |-> kind, book |-> feed.book[s] + 1]

Applied(s) ==
    LET book == [feed.book EXCEPT ![s] = @ + 1] IN
    [feed EXCEPT !.seq = @ + 1, !.book = book,
                 !.state = IF \A t \in Symbol : book[t] > 0 THEN "streaming" ELSE @]

Receive(s) ==
    /\ Connected
    /\ Len(queue) < Capacity
    /\ feed.book[s] < MaxVersion
    /\ \/ /\ queue' = Append(queue, Message(s, IF feed.book[s] = 0 THEN "snapshot" ELSE "update"))
          /\ UNCHANGED faults
       \/ /\ Fault
          /\ queue' = Append(queue, Message(s, "odd"))
    /\ feed' = Applied(s)
    /\ UNCHANGED <<batch, engine, asked>>

ReceiveBroken(s) ==
    /\ Connected
    /\ Fault
    /\ Len(queue) < Capacity
    /\ feed.book[s] < MaxVersion
    /\ ResetIn([feed EXCEPT !.state = "reconnecting", !.seq = @ + 1], Append(queue, Message(s, "broken")))
    /\ UNCHANGED <<batch, engine, asked>>

\* The queue is full: the message is lost, and the books are reset twice.
Overflow ==
    /\ Connected
    /\ Len(queue) = Capacity
    /\ Fault
    /\ LET first == Reset([feed EXCEPT !.state = "reconnecting", !.seq = @ + 1], queue) IN
       ResetIn(first.feed, first.queue)
    /\ UNCHANGED <<batch, engine, asked>>

Disconnect ==
    /\ Connected \/ feed.state = "connecting"
    /\ Fault
    /\ \E state \in {"reconnecting", "failed"} : ResetIn([feed EXCEPT !.state = state], queue)
    /\ UNCHANGED <<batch, engine, asked>>

\* _request_resnapshot, scheduled on the loop of the feed: only a streaming
\* connection is replaced.
Request(c) ==
    /\ c \in asked
    /\ asked' = asked \ {c}
    /\ IF c = feed.conn /\ feed.state = "streaming"
       THEN ResetIn([feed EXCEPT !.state = "resnapshot_requested"], queue)
       ELSE /\ feed' = [feed EXCEPT !.coalesced = @ \/ (c = feed.conn /\ feed.state = "awaiting_snapshots")]
            /\ UNCHANGED queue
    /\ UNCHANGED <<batch, engine, faults>>

Resnapshot ==
    /\ feed.state = "resnapshot_requested"
    /\ feed' = [feed EXCEPT !.state = "reconnecting"]
    /\ UNCHANGED <<queue, batch, engine, asked, faults>>

Stop ==
    /\ feed.state \notin Over
    /\ ResetIn([feed EXCEPT !.state = "stopped"], queue)
    /\ UNCHANGED <<batch, engine, asked, faults>>

-----------------------------------------------------------------------------
(* The engine *)

\* The first request of a symbol is passed on.
Invalidate(e, S, request) ==
    [e EXCEPT !.book = [s \in Symbol |-> IF s \in S THEN 0 ELSE @[s]],
              !.required = IF request THEN @ \cup S ELSE @ \ S,
              !.asks = IF request /\ ~ S \subseteq e.required THEN @ \cup {e.conn} ELSE @]

\* Variant: a snapshot leaves its request standing.
AcceptRequired(e, m) ==
    LET s == m.symbol IN
    CASE m.kind = "reset" -> Invalidate(e, {s}, FALSE)
      [] m.kind = "snapshot" -> [e EXCEPT !.book[s] = m.book, !.whole = @ \cup {s}]
      [] m.kind = "update" /\ e.book[s] > 0 ->
             [e EXCEPT !.book[s] = m.book, !.whole = IF m.book = e.book[s] + 1 THEN @ ELSE @ \ {s}]
      [] OTHER -> Invalidate(e, {s}, TRUE)

\* A snapshot is a new book and the end of its request; an update needs a
\* valid book.
Accept(e, m) ==
    LET s == m.symbol IN
    CASE m.kind = "reset" -> Invalidate(e, {s}, FALSE)
      [] m.kind = "snapshot" ->
             [e EXCEPT !.book[s] = m.book, !.whole = @ \cup {s}, !.required = @ \ {s}]
      [] m.kind = "update" /\ e.book[s] > 0 ->
             [e EXCEPT !.book[s] = m.book, !.whole = IF m.book = e.book[s] + 1 THEN @ ELSE @ \ {s}]
      [] OTHER -> Invalidate(e, {s}, TRUE)

\* Variant: the engine takes events as they come.
OnEventUnordered(e, m) ==
    IF m.conn < e.conn THEN Invalidate(e, Symbol, TRUE)
    ELSE LET f == IF m.conn = e.conn THEN e ELSE [Invalidate(e, Symbol, FALSE) EXCEPT !.conn = m.conn]
         IN  Accept([f EXCEPT !.last = m.seq], m)

\* Connections follow each other, so a lower number is a retired one.
OnEvent(e, m) ==
    IF m.conn < e.conn THEN Invalidate(e, Symbol, TRUE)
    ELSE LET f == IF m.conn = e.conn THEN e
                  ELSE [Invalidate(e, Symbol, FALSE) EXCEPT !.conn = m.conn, !.last = 0]
             gap == f.last > 0 /\ m.seq # f.last + 1
             g == [(IF gap THEN Invalidate(f, Symbol, TRUE) ELSE f) EXCEPT !.last = m.seq]
         IN  CASE m.seq = f.last -> f
               [] m.seq < f.last -> Invalidate(f, Symbol, TRUE)
               [] OTHER -> Accept(g, m)

Take ==
    /\ batch = <<>>
    /\ \E n \in 1..BatchSize :
          /\ n <= Len(queue)
          /\ batch' = SubSeq(queue, 1, n)
          /\ queue' = SubSeq(queue, n + 1, Len(queue))
    /\ UNCHANGED <<feed, engine, asked, faults>>

\* The books are rebuilt; then the outcomes of the shadow are written, and if
\* that fails the whole batch is processed again.
Process ==
    /\ batch # <<>>
    /\ LET e == FoldLeft(OnEvent, engine, batch) IN
       /\ engine' = [e EXCEPT !.asks = {}]
       /\ asked' = asked \cup e.asks
    /\ \/ batch' = <<>> /\ UNCHANGED faults
       \/ Fault /\ UNCHANGED batch
    /\ UNCHANGED <<feed, queue>>

FeedStep == Connect \/ Subscribed \/ Resnapshot \/ \E c \in asked : Request(c)
EngineStep == Take \/ Process

Next ==
    \/ FeedStep \/ EngineStep
    \/ Overflow \/ Disconnect \/ Stop
    \/ \E s \in Symbol : Receive(s) \/ ReceiveBroken(s)

Spec == Init /\ [][Next]_vars

\* Both threads go on, and a connection sends the snapshots.
Snapshot == \E s \in Symbol : feed.book[s] = 0 /\ Receive(s)

Fairness == WF_vars(FeedStep) /\ WF_vars(EngineStep) /\ WF_vars(Snapshot)

FairSpec == Spec /\ Fairness

-----------------------------------------------------------------------------
\* A valid book of the engine was built from a snapshot and every message
\* after it, whatever the queue dropped and the service processed twice.
BooksAreWhole == \A s \in Symbol : engine.book[s] > 0 => s \in engine.whole

\* With everything published processed, no book is valid that the feed does
\* not have, and no book is missing without a request for it.
DrainedAgrees ==
    queue = <<>> /\ batch = <<>> =>
        \A s \in Symbol : \/ engine.book[s] = feed.book[s]
                          \/ engine.book[s] = 0 /\ s \in engine.required

\* A book that needs a snapshot gets one, unless the feed is over.  The
\* exception is a request that came before every symbol had its snapshot: the
\* feed counts it as coalesced with a reconnection that nobody has asked for.
SnapshotsRecover ==
    \A s \in Symbol :
        []<>(s \notin engine.required \/ feed.state \in Over \/ feed.coalesced)
=============================================================================
