----------------------------- MODULE EventOrders -----------------------------
(***************************************************************************)
(* The order manager of the event strategy (event_orders.py) under the     *)
(* worker that drives it (event_runtime.py) and the stream of order        *)
(* updates it takes as hints (event_order_stream.py), for one cohort and   *)
(* one symbol.  A worker ticks while it holds the lease                    *)
(* "tradeagent-event-worker": it reconciles every order with the broker,   *)
(* cancels, sells what is owned and due, and may enter an event once.  No  *)
(* thread renews the lease, so a slow tick loses it, and a second worker   *)
(* may start while the first is still between two calls.  Every read of    *)
(* the broker, every transaction and every POST is a step of its own.      *)
(*                                                                         *)
(* Left out: prices, sizes in money and the certificates of an entry (they *)
(* only refuse it), the managers of earlier cohorts, audits and emails.    *)
(***************************************************************************)
EXTENDS Integers, FiniteSets, FiniteSetsExt

CONSTANTS
    Worker,       \* instances of the event worker
    Events,       \* number of events the strategy may enter
    MaxExits,     \* bound on the exit orders of the symbol
    Qty,          \* quantity of an entry
    EntryLimit,   \* max_entries_per_session
    MaxFaults,    \* bound on crashes, failed requests and lapses of the lease
    NoWorker      \* "no owner"

ASSUME EventsAssumption == Events \in Nat
ASSUME MaxExitsAssumption == MaxExits \in Nat
ASSUME QtyAssumption == Qty \in Nat \ {0}
ASSUME EntryLimitAssumption == EntryLimit \in Nat
ASSUME MaxFaultsAssumption == MaxFaults \in Nat
ASSUME NoWorkerAssumption == NoWorker \notin Worker

\* The client order id: the event of the entry, and for an exit its sequence
\* number, counted from 1.
Entry == (1..Events) \X {0}
Exit == (1..Events) \X (1..MaxExits)
Order == Entry \cup Exit

VARIABLES
    lease,     \* the worker_locks row: its owner, and whether it is stale
    paused,    \* the control "<cohort>:pause"
    budget,    \* total_entries_reserved of the session
    rows,      \* orders and event_order_links
    wk,        \* local state of each worker
    broker,    \* orders at the broker (external)
    due,       \* expiry, holding time and flatten time have passed
    faults     \* faults so far

vars == <<lease, paused, budget, rows, wk, broker, due, faults>>

-----------------------------------------------------------------------------
FINAL == {"filled", "canceled", "rejected", "expired"}
Status == FINAL \cup {"absent", "approved", "reconciliation_required", "working", "cancel_pending"}

\* What the broker says of an order; updated_at orders these answers.
Report == [state : {"open", "closed"}, filled : 0..Qty]
NoReport == [state |-> "none", filled |-> 0]
Older(r, s) == r.filled < s.filled \/ (r.filled = s.filled /\ r.state = "open" /\ s.state = "closed")

\* known: broker_order_id is set; seen: link["broker"].
Row == [status : Status, qty : 0..Qty, filled : 0..Qty, known : BOOLEAN,
        seen : Report \cup {NoReport}, attempted : BOOLEAN, released : BOOLEAN]
NoRow == [status |-> "absent", qty |-> 0, filled |-> 0, known |-> FALSE,
          seen |-> NoReport, attempted |-> FALSE, released |-> FALSE]

BrokerOrder == [state : {"none", "coming", "open", "closed"}, filled : 0..Qty, cancel : BOOLEAN]
NotThere == [state |-> "none", filled |-> 0, cancel |-> FALSE]

Pc == {"off", "idle", "reconcile", "observe", "cancel", "expire", "delete", "mark", "plan", "check",
       "reserve_exit", "assess", "reserve", "dispatch", "claim", "fence", "post", "record", "resolve"}
NoOrder == <<0, 0>>
Local == [pc : Pc, goal : {"none", "cancel", "plan", "assess"}, todo : SUBSET Order,
          sent : SUBSET Order, bad : BOOLEAN, order : Order \cup {NoOrder},
          report : Report \cup {NoReport}, qty : 0..Qty, answer : {"none", "ok", "rejected", "unknown"}]
Off == [pc |-> "off", goal |-> "none", todo |-> {}, sent |-> {}, bad |-> FALSE, order |-> NoOrder,
        report |-> NoReport, qty |-> 0, answer |-> "none"]
Idle == [Off EXCEPT !.pc = "idle"]

TypeOK ==
    /\ lease \in [owner : Worker \cup {NoWorker}, stale : BOOLEAN]
    /\ paused \in BOOLEAN
    /\ budget \in 0..EntryLimit
    /\ rows \in [Order -> Row]
    /\ wk \in [Worker -> Local]
    /\ broker \in [Order -> BrokerOrder]
    /\ due \in BOOLEAN
    /\ faults \in 0..MaxFaults

Init ==
    /\ lease = [owner |-> NoWorker, stale |-> FALSE]
    /\ paused = FALSE
    /\ budget = 0
    /\ rows = [o \in Order |-> NoRow]
    /\ wk = [w \in Worker |-> Off]
    /\ broker = [o \in Order |-> NotThere]
    /\ due = FALSE
    /\ faults = 0

-----------------------------------------------------------------------------
\* Variant: an order whose submission has no answer yet is not counted.
UnresolvedIfAnswered == {o \in Order : rows[o].status \notin FINAL \cup {"absent", "reconciliation_required"}}
Unresolved == {o \in Order : rows[o].status \notin FINAL \cup {"absent"}}
Sells == {o \in Exit : rows[o].status # "absent"}
Sum(f(_), S) == MapThenSumSet(f, S)

Filled(o) == rows[o].filled
Inventory == Sum(Filled, Entry) - Sum(Filled, Exit)
AtBroker(o) == broker[o].filled
Position == Sum(AtBroker, Entry) - Sum(AtBroker, Exit)

\* The entry whose coins are held: buys[-1] of the current position.
Held == CHOOSE e \in Entry : rows[e].filled > 0 /\ \A f \in Entry :
    rows[f].filled > 0 => rows[f].filled - Sum(Filled, {x \in Exit : x[1] = f[1]})
                          <= rows[e].filled - Sum(Filled, {x \in Exit : x[1] = e[1]})

Visible(o) == broker[o].state \in {"open", "closed"}
ReportOf(o) == [state |-> broker[o].state, filled |-> broker[o].filled]
OpenAtBroker == {o \in Order : broker[o].state = "open"}

\* Bound: of the exits, the last EntryLimit are neither refused nor ended
\* before they fill, so that every position can be sold.
MayFail(o) == o[2] <= MaxExits - EntryLimit

LeaseHeld(w) == lease.owner = w
Refresh == lease' = [lease EXCEPT !.stale = FALSE]
At(w, pc) == wk[w].pc = pc
Goto(w, pc) == wk' = [wk EXCEPT ![w].pc = pc]
Rest(w) == wk' = [wk EXCEPT ![w] = Idle]

\* The process ends; finally releases the lease if it is still its own.
Ends(w) ==
    /\ wk' = [wk EXCEPT ![w] = Off]
    /\ lease' = IF LeaseHeld(w) THEN [owner |-> NoWorker, stale |-> FALSE] ELSE lease

\* assert_owner raises EventLeaseLostError, which ends the process.
LeaseLost(w) ==
    /\ ~ LeaseHeld(w)
    /\ Ends(w)
    /\ UNCHANGED <<paused, budget, rows, broker, due, faults>>

Fault ==
    /\ faults < MaxFaults
    /\ faults' = faults + 1

-----------------------------------------------------------------------------
(* The process and its lease *)

Start(w) ==
    /\ At(w, "off")
    /\ lease.owner = NoWorker \/ lease.stale
    /\ lease' = [owner |-> w, stale |-> FALSE]
    /\ Rest(w)
    /\ UNCHANGED <<paused, budget, rows, broker, due, faults>>

Crash(w) ==
    /\ ~ At(w, "off")
    /\ Fault
    /\ wk' = [wk EXCEPT ![w] = Off]
    /\ UNCHANGED <<lease, paused, budget, rows, broker, due>>

\* The lease lapses: its owner is dead, or slow in a tick.
Ages ==
    /\ lease.owner # NoWorker
    /\ ~ lease.stale
    /\ IF At(lease.owner, "off") THEN UNCHANGED faults ELSE Fault
    /\ lease' = [lease EXCEPT !.stale = TRUE]
    /\ UNCHANGED <<paused, budget, rows, wk, broker, due>>

\* A request to the broker fails: the tick ends and the cohort is paused.
RequestFails(w) ==
    /\ wk[w].pc \in {"reconcile", "delete", "plan", "check", "assess", "dispatch", "fence"}
    /\ Fault
    /\ paused' = TRUE
    /\ Rest(w)
    /\ UNCHANGED <<lease, budget, rows, broker, due>>

-----------------------------------------------------------------------------
(* Reconciliation *)

\* Variant: orders that wait for their cancellation are not looked up.
ReconcileUncancelled(w, goal) ==
    wk' = [wk EXCEPT ![w] =
        [Idle EXCEPT !.pc = "reconcile", !.goal = goal,
                     !.todo = {o \in Unresolved : rows[o].status # "cancel_pending"},
                     !.sent = {o \in Unresolved : rows[o].status # "approved"}]]

\* The rows are read once; sent is what may not be missing at the broker.  A
\* final row of the day is looked up as well: it was recorded from the report
\* of a closed order, which does not change any more.
Reconcile(w, goal) ==
    wk' = [wk EXCEPT ![w] =
        [Idle EXCEPT !.pc = "reconcile", !.goal = goal,
                     !.todo = Unresolved,
                     !.sent = {o \in Unresolved : rows[o].status # "approved"}]]

Tick(w, goal) ==
    /\ At(w, "idle")
    /\ LeaseHeld(w)
    /\ Refresh
    /\ Reconcile(w, goal)
    /\ UNCHANGED <<paused, budget, rows, broker, due, faults>>

Supervise(w) == Tick(w, "cancel")
SubmitEntry(w) == Tick(w, "assess")
StreamUpdate(w) == Tick(w, "none")

TickLosesLease(w) ==
    /\ At(w, "idle")
    /\ LeaseLost(w)

First(S) == CHOOSE o \in S : \A p \in S : o[1] < p[1] \/ (o[1] = p[1] /\ o[2] <= p[2])

LookUp(w) ==
    /\ At(w, "reconcile")
    /\ wk[w].todo # {}
    /\ LET o == First(wk[w].todo) IN
       wk' = [wk EXCEPT ![w] =
           IF Visible(o) THEN [@ EXCEPT !.pc = "observe", !.order = o, !.report = ReportOf(o)]
                         ELSE [@ EXCEPT !.todo = wk[w].todo \ {o}, !.bad = wk[w].bad \/ o \in wk[w].sent]]
    /\ UNCHANGED <<lease, paused, budget, rows, broker, due, faults>>

FinishReconcile(w) ==
    /\ At(w, "reconcile")
    /\ wk[w].todo = {}
    /\ LET mismatch == wk[w].bad \/ Inventory # Position IN
       /\ paused' = (paused \/ mismatch)
       /\ wk' = [wk EXCEPT ![w] =
              IF wk[w].goal = "none" \/ (mismatch /\ wk[w].goal = "assess") THEN Idle
              ELSE [Idle EXCEPT !.pc = wk[w].goal]]
    /\ UNCHANGED <<lease, budget, rows, broker, due, faults>>

\* Variant: only the fills are compared.
StaleByFillsOnly(row, r) == r.filled < row.filled

\* _observe: a report that is out of order is ignored; one that takes back
\* fills raises.
Stale(row, r) ==
    \/ row.seen # NoReport /\ Older(r, row.seen)
    \/ row.status \in FINAL /\ r.state = "open" /\ r.filled <= row.filled
Incoming(row, r) ==
    IF r.state = "open" THEN "working" ELSE IF r.filled = row.qty THEN "filled" ELSE "canceled"
Observed(row, r) ==
    IF Stale(row, r) THEN row
    ELSE [row EXCEPT !.known = TRUE, !.filled = r.filled, !.seen = r, !.status = Incoming(row, r)]
TakesBack(row, r) == ~ Stale(row, r) /\ r.filled < row.filled

Observe(w) ==
    /\ At(w, "observe")
    /\ LET o == wk[w].order
           r == wk[w].report
           again == wk[w].goal IN
       IF TakesBack(rows[o], r)
       THEN /\ paused' = TRUE
            /\ Rest(w)
            /\ UNCHANGED rows
       ELSE /\ rows' = [rows EXCEPT ![o] = Observed(@, r)]
            /\ wk' = [wk EXCEPT ![w] =
                   IF o \in wk[w].todo
                   THEN [@ EXCEPT !.pc = "reconcile", !.todo = wk[w].todo \ {o},
                                  !.order = NoOrder, !.report = NoReport]
                   ELSE IF again = "plan" THEN [Idle EXCEPT !.pc = "cancel"] ELSE Idle]
            /\ UNCHANGED paused
    /\ UNCHANGED <<lease, budget, broker, due, faults>>

-----------------------------------------------------------------------------
(* supervise: cancellation *)

\* Variant: the status is not compared before the release.
ExpireUnsentAnyStatus(o, expected) ==
    IF ~ rows[o].known /\ ~ rows[o].attempted /\ ~ rows[o].released
    THEN /\ budget' = budget - 1
         /\ rows' = [rows EXCEPT ![o].status = "expired", ![o].released = TRUE]
    ELSE UNCHANGED <<budget, rows>>

\* Variant: neither the status nor an earlier release is compared.
ExpireUnsentAgain(o, expected) ==
    IF ~ rows[o].known /\ ~ rows[o].attempted
    THEN /\ budget' = budget - 1
         /\ rows' = [rows EXCEPT ![o].status = "expired", ![o].released = TRUE]
    ELSE UNCHANGED <<budget, rows>>

\* Released only when nothing of it can have been sent.
ExpireUnsent(o, expected) ==
    IF rows[o].status = expected /\ ~ rows[o].known /\ ~ rows[o].attempted /\ ~ rows[o].released
    THEN /\ budget' = budget - 1
         /\ rows' = [rows EXCEPT ![o].status = "expired", ![o].released = TRUE]
    ELSE UNCHANGED <<budget, rows>>

Cancellable == {o \in Unresolved : rows[o].known /\ rows[o].status # "cancel_pending"}
Unsent == {o \in Unresolved \cap Entry : ~ rows[o].known /\ rows[o].status = "approved"}

\* Buys must go when they are due or the cohort is paused, and may go when
\* the feed is unhealthy or protection triggers; sells may after 30 seconds.
MustCancel == IF due \/ paused THEN (Cancellable \cap Entry) \cup Unsent ELSE {}

ChooseCancel(w) ==
    /\ At(w, "cancel")
    /\ \E o \in Cancellable :
           wk' = [wk EXCEPT ![w].pc = "delete", ![w].order = o, ![w].report = rows[o].seen]
    /\ UNCHANGED <<lease, paused, budget, rows, broker, due, faults>>

ChooseUnsent(w) ==
    /\ At(w, "cancel")
    /\ \E o \in Unsent : wk' = [wk EXCEPT ![w].pc = "expire", ![w].order = o]
    /\ UNCHANGED <<lease, paused, budget, rows, broker, due, faults>>

ExpireBuy(w) ==
    /\ At(w, "expire")
    /\ ExpireUnsent(wk[w].order, "approved")
    /\ wk' = [wk EXCEPT ![w] = [Idle EXCEPT !.pc = "cancel"]]
    /\ UNCHANGED <<lease, paused, broker, due, faults>>

EndCancel(w) ==
    /\ At(w, "cancel")
    /\ MustCancel = {}
    /\ Reconcile(w, "plan")
    /\ UNCHANGED <<lease, paused, budget, rows, broker, due, faults>>

\* DELETE; a closed order is answered 404 or 422 and looked up.
Delete(w) ==
    /\ At(w, "delete")
    /\ LeaseHeld(w)
    /\ Refresh
    /\ LET o == wk[w].order IN
       IF broker[o].state = "open"
       THEN /\ broker' = [broker EXCEPT ![o].cancel = TRUE]
            /\ Goto(w, "mark")
       ELSE /\ wk' = [wk EXCEPT ![w].pc = "observe", ![w].goal = "plan", ![w].report = ReportOf(o)]
            /\ UNCHANGED broker
    /\ UNCHANGED <<paused, budget, rows, due, faults>>

DeleteLosesLease(w) ==
    /\ At(w, "delete")
    /\ LeaseLost(w)

\* The link is written back as it was read before the DELETE, and the status
\* whatever the row says by now.
MarkCancelPending(w) ==
    /\ At(w, "mark")
    /\ rows' = [rows EXCEPT ![wk[w].order].status = "cancel_pending", ![wk[w].order].seen = wk[w].report]
    /\ wk' = [wk EXCEPT ![w] = [Idle EXCEPT !.pc = "cancel"]]
    /\ UNCHANGED <<lease, paused, budget, broker, due, faults>>

-----------------------------------------------------------------------------
(* supervise: exits *)

\* rows and positions are read here, and used in the steps after.
Plan(w) ==
    /\ At(w, "plan")
    /\ IF Inventory = 0 THEN Rest(w) /\ UNCHANGED paused
       ELSE \/ ~ due /\ ~ paused /\ Rest(w) /\ UNCHANGED paused
            \/ /\ Inventory < 0 \/ Position # Inventory
               /\ paused' = TRUE
               /\ Rest(w)
            \/ Cardinality(Sells) = MaxExits /\ Rest(w) /\ UNCHANGED paused   \* the bound
            \/ /\ Inventory > 0 /\ Position = Inventory
               /\ Cardinality(Sells) < MaxExits
               /\ wk' = [wk EXCEPT ![w].pc = "check", ![w].qty = Inventory,
                                   ![w].order = <<Held[1], Cardinality(Sells) + 1>>]
               /\ UNCHANGED paused
    /\ UNCHANGED <<lease, budget, rows, broker, due, faults>>

Check(w) ==
    /\ At(w, "check")
    /\ IF Unresolved # {} \/ OpenAtBroker # {} THEN Rest(w) ELSE Goto(w, "reserve_exit")
    /\ UNCHANGED <<lease, paused, budget, rows, broker, due, faults>>

\* The session is closed: the exit waits for the next open.
MarketClosed(w) ==
    /\ At(w, "check")
    /\ Fault
    /\ paused' = TRUE
    /\ Rest(w)
    /\ UNCHANGED <<lease, budget, rows, broker, due>>

Approved(qty) == [NoRow EXCEPT !.status = "approved", !.qty = qty]

ReserveExit(w) ==
    /\ At(w, "reserve_exit")
    /\ LET o == wk[w].order IN
       \/ /\ Unresolved # {}
          /\ Rest(w)
          /\ UNCHANGED <<rows, lease>>
       \/ /\ Unresolved = {} /\ rows[o].status = "absent"
          /\ rows' = [rows EXCEPT ![o] = Approved(wk[w].qty)]
          /\ Goto(w, "dispatch")
          /\ UNCHANGED lease
       \/ /\ Unresolved = {} /\ rows[o].status # "absent"   \* unique client_order_id
          /\ Ends(w)
          /\ UNCHANGED rows
    /\ UNCHANGED <<paused, budget, broker, due, faults>>

-----------------------------------------------------------------------------
(* submit_entry *)

\* Events are interchangeable: they are numbered as they are first reserved.
InTurn(e) == e[1] = 1 \/ rows[<<e[1] - 1, 0>>].status # "absent"

Assess(w) ==
    /\ At(w, "assess")
    /\ \/ /\ ~ paused /\ ~ due
          /\ \E e \in {f \in Entry : InTurn(f)} : wk' = [wk EXCEPT ![w].pc = "reserve", ![w].order = e]
       \/ Rest(w)
    /\ UNCHANGED <<lease, paused, budget, rows, broker, due, faults>>

\* Variant: the budget of the session is not consulted.
MayEnterBeyondLimit(e) ==
    /\ rows[e].status = "absent"
    /\ Unresolved = {} /\ Inventory = 0
    /\ Position = 0 /\ OpenAtBroker = {}

\* One transaction, serialized by the row of the cohort.
MayEnter(e) ==
    /\ rows[e].status = "absent"
    /\ Unresolved = {} /\ Inventory = 0
    /\ Position = 0 /\ OpenAtBroker = {}
    /\ budget < EntryLimit

ReserveEntry(w) ==
    /\ At(w, "reserve")
    /\ LET e == wk[w].order IN
       IF MayEnter(e)
       THEN /\ rows' = [rows EXCEPT ![e] = Approved(Qty)]
            /\ budget' = budget + 1
            /\ Goto(w, "dispatch")
       ELSE /\ Rest(w)
            /\ UNCHANGED <<rows, budget>>
    /\ UNCHANGED <<lease, paused, broker, due, faults>>

-----------------------------------------------------------------------------
(* _dispatch *)

Dispatch(w) ==
    /\ At(w, "dispatch")
    /\ LeaseHeld(w)
    /\ Refresh
    /\ LET o == wk[w].order IN
       wk' = [wk EXCEPT ![w] =
           IF Visible(o) THEN [@ EXCEPT !.pc = "observe", !.report = ReportOf(o)]
                         ELSE [@ EXCEPT !.pc = "claim"]]
    /\ UNCHANGED <<paused, budget, rows, broker, due, faults>>

DispatchLosesLease(w) ==
    /\ wk[w].pc \in {"dispatch", "fence"}
    /\ LeaseLost(w)

Claim(w) ==
    /\ At(w, "claim")
    /\ LET o == wk[w].order IN
       IF rows[o].status = "approved"
       THEN /\ rows' = [rows EXCEPT ![o].status = "reconciliation_required"]
            /\ Goto(w, "fence")
       ELSE /\ Rest(w)
            /\ UNCHANGED rows
    /\ UNCHANGED <<lease, paused, budget, broker, due, faults>>

\* assert_owner and the last look at clock, quote and pause.
Fence(w) ==
    /\ At(w, "fence")
    /\ LeaseHeld(w)
    /\ Refresh
    /\ wk[w].order \in Entry => ~ paused
    /\ Goto(w, "post")
    /\ UNCHANGED <<paused, budget, rows, broker, due, faults>>

FenceRefusesEntry(w) ==
    /\ At(w, "fence")
    /\ LeaseHeld(w)
    /\ Refresh
    /\ wk[w].order \in Entry
    /\ ExpireUnsent(wk[w].order, "reconciliation_required")
    /\ Rest(w)
    /\ UNCHANGED <<paused, broker, due, faults>>

FenceRefusesExit(w) ==
    /\ At(w, "fence")
    /\ LeaseHeld(w)
    /\ Refresh
    /\ wk[w].order \in Exit
    /\ MayFail(wk[w].order)
    /\ Fault
    /\ rows' = [rows EXCEPT ![wk[w].order].status = IF @ = "reconciliation_required" THEN "expired" ELSE @]
    /\ Rest(w)
    /\ UNCHANGED <<paused, budget, broker, due>>

PostAccepted(w) ==
    /\ At(w, "post")
    /\ broker' = [broker EXCEPT ![wk[w].order].state = "open"]
    /\ wk' = [wk EXCEPT ![w].pc = "record", ![w].answer = "ok",
                        ![w].report = [state |-> "open", filled |-> 0]]
    /\ UNCHANGED <<lease, paused, budget, rows, due, faults>>

\* A 4xx answer: the order is not taken, and a lookup does not find it.
PostRejected(w) ==
    /\ At(w, "post")
    /\ wk[w].order \in Entry \/ MayFail(wk[w].order)
    /\ Fault
    /\ wk' = [wk EXCEPT ![w].pc = "record", ![w].answer = "rejected"]
    /\ UNCHANGED <<lease, paused, budget, rows, broker, due>>

\* No answer, or a 5xx: the order was accepted, is on its way or is lost.
PostUnanswered(w) ==
    /\ At(w, "post")
    /\ Fault
    /\ \E s \in {"none", "coming", "open"} : broker' = [broker EXCEPT ![wk[w].order].state = s]
    /\ wk' = [wk EXCEPT ![w].pc = "record", ![w].answer = "unknown"]
    /\ UNCHANGED <<lease, paused, budget, rows, due>>

RecordAttempt(w) ==
    /\ At(w, "record")
    /\ rows' = [rows EXCEPT ![wk[w].order].attempted = TRUE]
    /\ wk' = [wk EXCEPT ![w].pc = IF wk[w].answer = "ok" THEN "observe" ELSE "resolve",
                        ![w].answer = IF @ = "ok" THEN "none" ELSE @]
    /\ UNCHANGED <<lease, paused, budget, broker, due, faults>>

Resolve(w) ==
    /\ At(w, "resolve")
    /\ IF wk[w].answer = "rejected"
       THEN /\ rows' = [rows EXCEPT ![wk[w].order].status = "rejected"]
            /\ UNCHANGED paused
       ELSE /\ paused' = TRUE
            /\ UNCHANGED rows
    /\ Rest(w)
    /\ UNCHANGED <<lease, budget, broker, due, faults>>

-----------------------------------------------------------------------------
(* The broker and the clock *)

Arrives(o) ==
    /\ broker[o].state = "coming"
    /\ broker' = [broker EXCEPT ![o].state = "open"]
    /\ UNCHANGED <<lease, paused, budget, rows, wk, due, faults>>

Fills(o) ==
    /\ broker[o].state = "open"
    /\ broker' = [broker EXCEPT ![o].filled = @ + 1,
                                ![o].state = IF broker[o].filled + 1 = rows[o].qty THEN "closed" ELSE "open"]
    /\ UNCHANGED <<lease, paused, budget, rows, wk, due, faults>>

\* Canceled, or ended by the broker on its own.
EndsUnfilled(o) ==
    /\ broker[o].state = "open"
    /\ o \in Entry \/ MayFail(o)
    /\ broker' = [broker EXCEPT ![o].state = "closed"]
    /\ UNCHANGED <<lease, paused, budget, rows, wk, due, faults>>

TimePasses ==
    /\ ~ due
    /\ due' = TRUE
    /\ UNCHANGED <<lease, paused, budget, rows, wk, broker, faults>>

WorkerStep(w) ==
    \/ LookUp(w) \/ FinishReconcile(w) \/ Observe(w)
    \/ ChooseCancel(w) \/ ChooseUnsent(w) \/ ExpireBuy(w) \/ EndCancel(w) \/ Delete(w) \/ MarkCancelPending(w)
    \/ Plan(w) \/ Check(w) \/ ReserveExit(w) \/ Assess(w) \/ ReserveEntry(w)
    \/ Dispatch(w) \/ Claim(w) \/ Fence(w) \/ FenceRefusesEntry(w)
    \/ PostAccepted(w) \/ RecordAttempt(w) \/ Resolve(w)
    \/ TickLosesLease(w) \/ DeleteLosesLease(w) \/ DispatchLosesLease(w)

Next ==
    \/ \E w \in Worker : Start(w) \/ Crash(w) \/ RequestFails(w)
    \/ Ages
    \/ \E w \in Worker : Supervise(w) \/ SubmitEntry(w) \/ StreamUpdate(w)
    \/ \E w \in Worker : WorkerStep(w) \/ MarketClosed(w) \/ FenceRefusesExit(w) \/ PostRejected(w) \/ PostUnanswered(w)
    \/ \E o \in Order : Arrives(o) \/ Fills(o) \/ EndsUnfilled(o)
    \/ TimePasses

Spec == Init /\ [][Next]_vars

\* A worker goes on with its tick, ticks again and is started again; a stale
\* lease becomes free; requests arrive, orders end, time passes.
FairSpec ==
    /\ Spec
    /\ \A w \in Worker : WF_vars(WorkerStep(w)) /\ SF_vars(Supervise(w)) /\ WF_vars(Start(w))
    /\ WF_vars(Ages)
    /\ \A o \in Order : WF_vars(Arrives(o)) /\ WF_vars(Fills(o) \/ EndsUnfilled(o))
    /\ WF_vars(TimePasses)

-----------------------------------------------------------------------------
MayReachBroker(o) == broker[o].state # "none" \/ \E w \in Worker : At(w, "post") /\ wk[w].order = o

\* An entry that was released as unsent never reaches the broker, neither from
\* the worker that released it nor from one that lost the lease (_expire_unsent,
\* _dispatch).
ReleasedStaysUnsent == \A o \in Order : rows[o].status = "expired" => ~ MayReachBroker(o)

\* However often reservations are released, no more entries than the session
\* allows reach the broker (locked_session_budget, _expire_unsent).
EntriesWithinLimit ==
    /\ Cardinality({e \in Entry : MayReachBroker(e)}) <= EntryLimit
    /\ budget = Cardinality({e \in Entry : rows[e].status # "absent" /\ ~ rows[e].released})

\* The sells that filled or may still fill never exceed what was bought.
NoOversell ==
    LET CanFill(o) == IF broker[o].state \in {"coming", "open"} THEN rows[o].qty ELSE broker[o].filled
    IN  Sum(CanFill, Exit) <= Sum(AtBroker, Entry)

\* No report, however late, takes back a recorded fill, and a final row is
\* reopened by a cancellation in flight only (_observe, _cancel).
FillsStand == [][\A o \in Order :
    /\ rows'[o].filled >= rows[o].filled
    /\ rows[o].status \in FINAL => rows'[o].status \in {rows[o].status, "cancel_pending"}]_rows

\* Coins that are held are sold in the end, unless an order was abandoned
\* between its reservation and its POST: it is never sent or expired again.
Abandoned == \E o \in Order : broker[o].state = "none" /\ o \in Unresolved
ExitsComplete == []<>(due => Position = 0 \/ Abandoned)
=============================================================================
