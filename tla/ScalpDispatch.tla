---------------------------- MODULE ScalpDispatch ----------------------------
(***************************************************************************)
(* The order path of ScalpOrderEngine (scalping_execution.py): workers     *)
(* that hand one durable lease to each other reserve an order, mark it     *)
(* "dispatching" in a transaction of its own, POST it to the broker inside *)
(* a second transaction that holds the lease row, and learn its fate from  *)
(* the response, from lookups by the ORIGINAL client order id and from the *)
(* broker's order stream.  Workers crash at any step, requests and         *)
(* responses get lost, and snapshots of an order arrive late, repeated and *)
(* out of order.                                                           *)
(*                                                                         *)
(* An order is named by its client order id: scalping_execution derives it *)
(* from the decision (BUY) or from the cycle and a sequence number (SELL). *)
(* Prices, fees and the ownership ledger are left out: where the code      *)
(* decides on them (quotes, cash, economics, owned quantity) the model     *)
(* lets the fence refuse the order or not.                                 *)
(***************************************************************************)
EXTENDS Integers, FiniteSets, FiniteSetsExt

CONSTANTS
    Engine,               \* worker processes that compete for the lease
    Order,                \* client order ids
    Entry,                \* those of them that are BUY orders
    SymbolOf,             \* the symbol of each order
    MaxQty,               \* quantity of an entry, in steps of the asset
    MaxFaults,            \* bound on crashes, stops and delayed heartbeats
    AmbiguousRejections,  \* may a 4xx answer an order the broker accepted?
    NoEngine,             \* "no worker"
    NoOrder               \* "no order in hand"

ASSUME OrderAssumption == IsFiniteSet(Order)
ASSUME EntryAssumption == Entry \subseteq Order
ASSUME QtyAssumption == MaxQty \in Nat \ {0}
ASSUME FaultsAssumption == MaxFaults \in Nat
ASSUME AmbiguityAssumption == AmbiguousRejections \in BOOLEAN
ASSUME NoEngineAssumption == NoEngine \notin Engine
ASSUME NoOrderAssumption == NoOrder \notin Order

VARIABLES
    lease,   \* the "tradeagent-event-worker" row of worker_locks
    lock,    \* worker whose open transaction holds that row FOR UPDATE
    row,     \* rows of orders and scalping_order_links
    due,     \* entries whose TTL has passed, or whose exit was requested
    eng,     \* local state of each worker
    req,     \* fate of the POST of each order (external)
    posts,   \* how many times an order was POSTed (history)
    brk,     \* the broker's record of each order (external)
    hist,    \* every version of that record so far (external)
    faults   \* faults so far

durable == <<lease, lock, row, due>>
external == <<req, posts, brk, hist>>
vars == <<lease, lock, row, due, eng, req, posts, brk, hist, faults>>

-----------------------------------------------------------------------------
(* Statuses, rows and snapshots *)

\* Statuses after which neither side changes the order any more.
FINAL == {"filled", "canceled", "expired", "rejected"}

\* Statuses in which the broker may still fill the order.
Working == {"new", "partially_filled", "pending_cancel"}

Status == FINAL \cup Working \cup {"absent", "approved", "reconciliation_required"}

DispatchState == {"absent", "intent", "dispatching", "unknown", "acknowledged",
                  "expired_unsent", "broker_rejected"}

\* A version of the broker's record; ver stands for its updated_at.
NoSnap == [st |-> "none", filled |-> 0, ver |-> 0]
Snapshot == [st : FINAL \cup Working \cup {"none"}, filled : Nat, ver : Nat]

Row == [status : Status, dispatch : DispatchState, qty : Nat, filled : Nat,
        ver : Nat, known : BOOLEAN, cancel : BOOLEAN, definitive : BOOLEAN]

NoRow == [status |-> "absent", dispatch |-> "absent", qty |-> 0, filled |-> 0,
          ver |-> 0, known |-> FALSE, cancel |-> FALSE, definitive |-> FALSE]

\* The order of the passes of step(); 0 is "between two steps".
Between == 0
Reconciling == 1
Canceling == 2
Exiting == 3
Rechecking == 4
Entering == 5

Pc == {"down", "waiting", "loop", "reserved", "fence", "armed", "posting", "failing",
       "recording", "looking", "applying", "expiring", "canceling"}

Worker == [pc : Pc, phase : 0..5, o : Order \cup {NoOrder}, snap : Snapshot, definitive : BOOLEAN]

IsOpen(o) == row[o].status \notin FINAL \cup {"absent"}

BrokerLive(o) == brk[o].st \in Working

\* Variant: an order counts as unresolved only once its failure is recorded.
UnresolvedOnceRecorded ==
    {o \in Order : IsOpen(o) /\ (row[o].dispatch = "unknown" \/ row[o].cancel)}

\* Orders counted by _unresolved_orders: their fate is not known.
Unresolved ==
    {o \in Order :
        /\ IsOpen(o)
        /\ \/ row[o].dispatch \in {"unknown", "dispatching"}
           \/ row[o].cancel
           \/ row[o].status \in {"reconciliation_required", "pending_cancel"}}

\* _lease: the row names this worker, is fresh, and no one else holds it.
LeaseHeld(e) == lease.owner = e /\ lease.age = "fresh"
LeaseOk(e) == lock = NoEngine /\ LeaseHeld(e)
LeaseRefuses(e) == lock = NoEngine /\ ~LeaseHeld(e)

At(e, pc) == eng[e].pc = pc
InPhase(e, phases) == At(e, "loop") /\ eng[e].phase \in phases

Idle(pc, phase) ==
    [pc |-> pc, phase |-> phase, o |-> NoOrder, snap |-> NoSnap, definitive |-> FALSE]

\* Control moves on: with the order in hand, to the next order of the same
\* pass, or out of the step (an exception ends it).
Goto(e, pc) == eng' = [eng EXCEPT ![e].pc = pc]
TakeUp(e, pc, o) == eng' = [eng EXCEPT ![e].pc = pc, ![e].o = o]
Continue(e) == eng' = [eng EXCEPT ![e] = Idle("loop", eng[e].phase)]
AbortStep(e) == eng' = [eng EXCEPT ![e] = Idle("loop", Between)]

-----------------------------------------------------------------------------
(* Inventory at the broker *)

OrdersOf(sym) == {o \in Order : SymbolOf[o] = sym}
BoughtAtBroker(sym) == MapThenSumSet(LAMBDA o : brk[o].filled, OrdersOf(sym) \cap Entry)
SoldAtBroker(sym) == MapThenSumSet(LAMBDA o : brk[o].filled, OrdersOf(sym) \ Entry)

\* What working sell orders still hold back.
HeldAtBroker(sym) ==
    MapThenSumSet(LAMBDA o : IF BrokerLive(o) THEN row[o].qty - brk[o].filled ELSE 0,
                  OrdersOf(sym) \ Entry)

\* available_quantity of the position, without foreign inventory.
Available(sym) == BoughtAtBroker(sym) - SoldAtBroker(sym) - HeldAtBroker(sym)

-----------------------------------------------------------------------------
(* Writes to an order's rows *)

\* _expire_unsent: unconditional, by client order id.
ExpireUnsent(o) ==
    row' = [row EXCEPT ![o].status = "expired", ![o].dispatch = "expired_unsent"]

\* Variant: snapshots are ordered by what they say was filled, and by no more.
RegressiveByFillsOnly(o, s) == s.filled < row[o].filled

\* _update_order drops a snapshot that would take the order back.
Regressive(o, s) ==
    \/ s.ver < row[o].ver /\ s.filled <= row[o].filled
    \/ s.filled < row[o].filled
    \/ row[o].status \in FINAL /\ s.st \notin FINAL

UpdateOrder(o, s) ==
    row' = IF Regressive(o, s) THEN row
           ELSE [row EXCEPT ![o].status = s.st, ![o].dispatch = "acknowledged",
                            ![o].filled = s.filled, ![o].ver = s.ver, ![o].known = TRUE]

BrokerRejected(o) ==
    row' = [row EXCEPT ![o].status = "rejected", ![o].dispatch = "broker_rejected"]

-----------------------------------------------------------------------------
Init ==
    /\ lease = [owner |-> NoEngine, age |-> "stale"]
    /\ lock = NoEngine
    /\ row = [o \in Order |-> NoRow]
    /\ due = {}
    /\ eng = [e \in Engine |-> Idle("down", Between)]
    /\ req = [o \in Order |-> "none"]
    /\ posts = [o \in Order |-> 0]
    /\ brk = [o \in Order |-> NoSnap]
    /\ hist = [o \in Order |-> {}]
    /\ faults = 0

-----------------------------------------------------------------------------
(* The lease and the life of a worker *)

\* run_scalping_service is started, or restarted after a crash.
Start(e) ==
    /\ At(e, "down")
    /\ Goto(e, "waiting")
    /\ UNCHANGED <<durable, external, faults>>

\* acquire_worker_lock: no row, or one older than stale_after_seconds.
Acquire(e) ==
    /\ At(e, "waiting")
    /\ lock = NoEngine
    /\ lease.owner = NoEngine \/ lease.age = "stale"
    /\ lease' = [owner |-> e, age |-> "fresh"]
    /\ eng' = [eng EXCEPT ![e] = Idle("loop", Between)]
    /\ UNCHANGED <<lock, row, due, external, faults>>

\* refresh_worker_lock, from the heartbeat task.
Heartbeat(e) ==
    /\ eng[e].pc \notin {"down", "waiting"}
    /\ lock = NoEngine
    /\ lease.owner = e
    /\ lease.age # "fresh"
    /\ lease' = [lease EXCEPT !.age = "fresh"]
    /\ UNCHANGED <<lock, row, due, eng, external, faults>>

\* Time passes for the row: fresh up to 30 seconds, idle up to 180, stale then.
Ages ==
    /\ lease.age # "stale"
    /\ lease' = [lease EXCEPT !.age = IF lease.age = "fresh" THEN "idle" ELSE "stale"]
    /\ UNCHANGED <<lock, row, due, eng, external>>

\* The row of a dead worker ages on; the heartbeat of a running one is late
\* only finitely often.
DeadOwnerAges ==
    /\ lease.owner # NoEngine
    /\ eng[lease.owner].pc \in {"down", "waiting"}
    /\ Ages
    /\ UNCHANGED faults

HeartbeatIsLate ==
    /\ lease.owner # NoEngine
    /\ eng[lease.owner].pc \notin {"down", "waiting"}
    /\ faults < MaxFaults
    /\ faults' = faults + 1
    /\ Ages

\* The service stops between two steps and deletes the row, if still its own.
StopOwner(e) ==
    /\ InPhase(e, {Between})
    /\ lock = NoEngine
    /\ lease.owner = e
    /\ faults < MaxFaults
    /\ faults' = faults + 1
    /\ lease' = [owner |-> NoEngine, age |-> "stale"]
    /\ eng' = [eng EXCEPT ![e] = Idle("down", Between)]
    /\ UNCHANGED <<lock, row, due, external>>

\* The heartbeat finds the lease gone: the service stops once the step in
\* progress, which cannot be interrupted, has come to its end.
StopAfterLoss(e) ==
    /\ InPhase(e, {Between})
    /\ lease.owner # e
    /\ eng' = [eng EXCEPT ![e] = Idle("down", Between)]
    /\ UNCHANGED <<durable, external, faults>>

\* The process dies: an open transaction rolls back and frees the row.
Crash(e) ==
    /\ eng[e].pc # "down"
    /\ faults < MaxFaults
    /\ faults' = faults + 1
    /\ lock' = IF lock = e THEN NoEngine ELSE lock
    /\ eng' = [eng EXCEPT ![e] = Idle("down", Between)]
    /\ UNCHANGED <<lease, row, due, external>>

\* step() begins by checking the lease.
BeginStep(e) ==
    /\ InPhase(e, {Between})
    /\ LeaseOk(e)
    /\ eng' = [eng EXCEPT ![e].phase = Reconciling]
    /\ UNCHANGED <<durable, external, faults>>

\* The next pass.  Entries are considered only when no submission is unknown.
NextPhase(e) ==
    /\ InPhase(e, 1..5)
    /\ LET next == IF eng[e].phase < Rechecking \/ (eng[e].phase = Rechecking /\ Unresolved = {})
                   THEN eng[e].phase + 1 ELSE Between
       IN eng' = [eng EXCEPT ![e].phase = next]
    /\ UNCHANGED <<durable, external, faults>>

\* An entry's TTL runs out, its exit is requested or the operator stops entries.
TtlElapses(o) ==
    /\ o \in Entry \ due
    /\ row[o].status # "absent"
    /\ due' = due \cup {o}
    /\ UNCHANGED <<lease, lock, row, eng, external, faults>>

-----------------------------------------------------------------------------
(* Reservation and dispatch *)

\* Variant: only orders of unknown fate keep a symbol from being reserved.
ReserveUnlessUnresolved(e, o, quantity) ==
    /\ row[o].status = "absent"
    /\ LeaseOk(e)
    /\ OrdersOf(SymbolOf[o]) \cap Unresolved = {}
    /\ row' = [row EXCEPT ![o] = [NoRow EXCEPT !.status = "approved", !.dispatch = "intent",
                                               !.qty = quantity]]
    /\ TakeUp(e, "reserved", o)
    /\ UNCHANGED <<lease, lock, due, external, faults>>

\* _reserve_order, its own transaction: no order of the symbol may be open.
Reserve(e, o, quantity) ==
    /\ row[o].status = "absent"
    /\ LeaseOk(e)
    /\ \A p \in OrdersOf(SymbolOf[o]) : ~IsOpen(p)
    /\ row' = [row EXCEPT ![o] = [NoRow EXCEPT !.status = "approved", !.dispatch = "intent",
                                               !.qty = quantity]]
    /\ TakeUp(e, "reserved", o)
    /\ UNCHANGED <<lease, lock, due, external, faults>>

\* _new_cycle, for a signal of this step.
ReserveEntry(e, o) ==
    /\ InPhase(e, {Entering})
    /\ o \in Entry
    /\ Reserve(e, o, MaxQty)

\* submit_paper_experiment, after the step: no cycle of the account is active,
\* hence no order of any symbol is open.
ReserveExperiment(e, o) ==
    /\ InPhase(e, {Between})
    /\ o \in Entry
    /\ \A p \in Order : ~IsOpen(p)
    /\ Reserve(e, o, MaxQty)

\* _exit_owned: the ledger may be behind, so any quantity may be asked for.
ReserveExit(e, o) ==
    /\ InPhase(e, {Exiting})
    /\ o \in Order \ Entry
    /\ \E q \in 1..MaxQty : Reserve(e, o, q)

\* The durable transition that precedes the external call.
StartDispatch(e) ==
    LET o == eng[e].o IN
    /\ At(e, "reserved")
    /\ LeaseOk(e)
    /\ IF row[o].dispatch = "intent"
       THEN /\ row' = [row EXCEPT ![o].dispatch = "dispatching",
                                  ![o].status = "reconciliation_required"]
            /\ Goto(e, "fence")
       ELSE UNCHANGED row /\ Continue(e)
    /\ UNCHANGED <<lease, lock, due, external, faults>>

\* Variant: a sell goes out without a look at the position.
FenceWithoutPosition(e) ==
    /\ At(e, "fence")
    /\ LeaseOk(e)
    /\ eng[e].o \notin due
    /\ lock' = e
    /\ Goto(e, "armed")
    /\ UNCHANGED <<lease, row, due, external, faults>>

\* The second transaction takes the lease row and checks the entry's TTL, or
\* that a sell does not exceed what the broker says is available.
Fence(e) ==
    LET o == eng[e].o IN
    /\ At(e, "fence")
    /\ LeaseOk(e)
    /\ o \notin due
    /\ o \notin Entry => row[o].qty <= Available(SymbolOf[o])
    /\ lock' = e
    /\ Goto(e, "armed")
    /\ UNCHANGED <<lease, row, due, external, faults>>

\* A fence refuses: TTL, quote, manual stop, cash, economics, quantity.
FenceRejects(e) ==
    /\ \/ At(e, "fence") /\ LeaseOk(e)
       \/ At(e, "armed") /\ lock = e
    /\ ExpireUnsent(eng[e].o)
    /\ lock' = NoEngine
    /\ Continue(e)
    /\ UNCHANGED <<lease, due, external, faults>>

\* A read fails or the lease is refused before the POST: the transaction is
\* rolled back and the order is expired in another one.
FenceRaises(e) ==
    /\ At(e, "fence") \/ At(e, "armed")
    /\ lock' = IF lock = e THEN NoEngine ELSE lock
    /\ Goto(e, "failing")
    /\ UNCHANGED <<lease, row, due, external, faults>>

ExpireAfterFailure(e) ==
    /\ At(e, "failing")
    /\ ExpireUnsent(eng[e].o)
    /\ AbortStep(e)
    /\ UNCHANGED <<lease, lock, due, external, faults>>

\* The POST leaves while the transaction holds the lease row.
Post(e) ==
    LET o == eng[e].o IN
    /\ At(e, "armed")
    /\ lock = e /\ LeaseHeld(e)
    /\ o \notin due
    /\ posts' = [posts EXCEPT ![o] = @ + 1]
    /\ req' = [req EXCEPT ![o] = "flying"]
    /\ Goto(e, "posting")
    /\ UNCHANGED <<durable, brk, hist, faults>>

\* The broker's answer carries some version of the order.
PostAcknowledged(e) ==
    /\ At(e, "posting")
    /\ \E s \in hist[eng[e].o] :
          eng' = [eng EXCEPT ![e].pc = "applying", ![e].snap = s]
    /\ lock' = NoEngine
    /\ UNCHANGED <<lease, row, due, external, faults>>

\* Variant: a POST that timed out is handled like one that was never sent.
PostFailsUnsent(e) ==
    /\ At(e, "posting")
    /\ lock' = NoEngine
    /\ Goto(e, "failing")
    /\ UNCHANGED <<lease, row, due, external, faults>>

\* Variant: every failure of the POST counts as a definitive rejection.
PostFailsDefinitively(e) ==
    /\ At(e, "posting")
    /\ eng' = [eng EXCEPT ![e].pc = "recording", ![e].definitive = TRUE]
    /\ lock' = NoEngine
    /\ UNCHANGED <<lease, row, due, external, faults>>

\* A 4xx other than 409 is taken as a definitive rejection; a timeout, a 409
\* or a 5xx says nothing about the order.
PostFails(e) ==
    LET o == eng[e].o IN
    /\ At(e, "posting")
    /\ \E definitive \in BOOLEAN :
          /\ definitive => \/ req[o] = "rejected"
                           \/ AmbiguousRejections /\ req[o] = "accepted"
          /\ eng' = [eng EXCEPT ![e].pc = "recording", ![e].definitive = definitive]
    /\ lock' = NoEngine
    /\ UNCHANGED <<lease, row, due, external, faults>>

\* The failure is recorded, then the order is looked up; after a rate limit
\* the lookup is left to a later reconciliation.
RecordFailure(e) ==
    LET o == eng[e].o IN
    /\ At(e, "recording")
    /\ row' = [row EXCEPT ![o].dispatch = "unknown", ![o].definitive = eng[e].definitive]
    /\ \/ eng' = [eng EXCEPT ![e].pc = "looking", ![e].phase = Between]
       \/ AbortStep(e)
    /\ UNCHANGED <<lease, lock, due, external, faults>>

-----------------------------------------------------------------------------
(* Lookups, reconciliation, cancellation, stream *)

\* find_order_by_client_id answers with the present record, or a 404.
LookUp(e) ==
    /\ At(e, "looking")
    /\ eng' = [eng EXCEPT ![e].pc = "applying", ![e].snap = brk[eng[e].o]]
    /\ UNCHANGED <<durable, external, faults>>

\* The lookup itself fails; after a failed POST that is suppressed and counts
\* as "not found".
LookUpFails(e) ==
    /\ At(e, "looking")
    /\ eng' = [eng EXCEPT ![e].pc = "applying", ![e].snap = NoSnap, ![e].phase = Between]
    /\ UNCHANGED <<durable, external, faults>>

\* What a response or a lookup says is written without a lease check.
Apply(e) ==
    LET o == eng[e].o
        s == eng[e].snap
    IN
    /\ At(e, "applying")
    /\ IF s # NoSnap THEN UpdateOrder(o, s)
       ELSE IF eng[e].definitive THEN BrokerRejected(o)
       ELSE UNCHANGED row
    /\ Continue(e)
    /\ UNCHANGED <<lease, lock, due, external, faults>>

\* Variant: an unknown submission is sent again under its own client id.
ResubmitOrder(e, o) ==
    /\ InPhase(e, {Reconciling, Rechecking})
    /\ row[o].dispatch = "unknown"
    /\ TakeUp(e, "fence", o)
    /\ UNCHANGED <<durable, external, faults>>

\* Variant: only orders the broker has acknowledged are looked up.
ReconcileAcknowledged(e, o) ==
    /\ InPhase(e, {Reconciling, Rechecking})
    /\ row[o].dispatch = "acknowledged"
    /\ row[o].status \notin FINAL \/ eng[e].phase = Rechecking
    /\ eng' = [eng EXCEPT ![e].pc = "applying", ![e].o = o, ![e].snap = brk[o]]
    /\ UNCHANGED <<durable, external, faults>>

\* _reconcile_orders looks up an order that is not an intent; the periodic
\* full pass takes final orders too.
ReconcileOrder(e, o) ==
    /\ InPhase(e, {Reconciling, Rechecking})
    /\ row[o].dispatch \notin {"absent", "intent"}
    /\ row[o].status \notin FINAL \/ eng[e].phase = Rechecking
    /\ eng' = [eng EXCEPT ![e].pc = "applying", ![e].o = o, ![e].snap = brk[o],
                          ![e].definitive = row[o].definitive]
    /\ UNCHANGED <<durable, external, faults>>

\* An intent that survived a restart, or an entry's whose TTL has passed.
FindIntent(e, o) ==
    /\ \/ InPhase(e, {Reconciling, Rechecking})
       \/ InPhase(e, {Canceling}) /\ o \in due
    /\ row[o].dispatch = "intent"
    /\ TakeUp(e, "expiring", o)
    /\ UNCHANGED <<durable, external, faults>>

ExpireIntent(e) ==
    /\ At(e, "expiring")
    /\ LeaseOk(e)
    /\ ExpireUnsent(eng[e].o)
    /\ Continue(e)
    /\ UNCHANGED <<lease, lock, due, external, faults>>

\* _cancel_entries: the request is durable before the broker is called.
RequestCancel(e, o) ==
    /\ InPhase(e, {Canceling})
    /\ o \in due
    /\ IsOpen(o)
    /\ row[o].known
    /\ LeaseOk(e)
    /\ row' = [row EXCEPT ![o].cancel = TRUE]
    /\ TakeUp(e, "canceling", o)
    /\ UNCHANGED <<lease, lock, due, external, faults>>

\* The broker moves an order on to a new version of its record (external).
SetBroker(o, st, filled) ==
    LET s == [st |-> st, filled |-> filled, ver |-> brk[o].ver + 1] IN
    /\ brk' = [brk EXCEPT ![o] = s]
    /\ hist' = [hist EXCEPT ![o] = @ \cup {s}]

SendCancel(e) ==
    LET o == eng[e].o IN
    /\ At(e, "canceling")
    /\ LeaseOk(e)
    /\ IF brk[o].st \in {"new", "partially_filled"}
       THEN SetBroker(o, "pending_cancel", brk[o].filled)
       ELSE UNCHANGED <<brk, hist>>
    /\ \/ Goto(e, "looking")
       \/ AbortStep(e)
    /\ UNCHANGED <<durable, req, posts, faults>>

\* A lease check raises and ends the step.
LeaseRefused(e) ==
    /\ eng[e].pc \in {"reserved", "expiring", "canceling"}
    /\ LeaseRefuses(e)
    /\ AbortStep(e)
    /\ UNCHANGED <<durable, external, faults>>

\* Any other exception ends the step and rolls an open transaction back: a
\* failing read before the dispatch, an answer to the POST that does not
\* parse, an unreachable database.
StepRaises(e) ==
    /\ eng[e].pc \notin {"down", "waiting", "loop"}
    /\ lock' = IF lock = e THEN NoEngine ELSE lock
    /\ AbortStep(e)
    /\ UNCHANGED <<lease, row, due, external, faults>>

\* consume_order_update, before a step: any version, late or repeated.
ConsumeUpdate(e, o) ==
    /\ InPhase(e, {Between})
    /\ LeaseOk(e)
    /\ row[o].status # "absent"
    /\ \E s \in hist[o] : UpdateOrder(o, s)
    /\ UNCHANGED <<lease, lock, due, eng, external, faults>>

-----------------------------------------------------------------------------
(* The broker and the network (external) *)

BrokerAccepts(o) ==
    /\ req[o] = "flying"
    /\ req' = [req EXCEPT ![o] = "accepted"]
    /\ SetBroker(o, "new", brk[o].filled)
    /\ UNCHANGED <<durable, eng, posts, faults>>

RequestFails(o) ==
    /\ req[o] = "flying"
    /\ \E fate \in {"rejected", "lost"} : req' = [req EXCEPT ![o] = fate]
    /\ UNCHANGED <<durable, eng, posts, brk, hist, faults>>

BrokerFills(o) ==
    /\ BrokerLive(o)
    /\ \E q \in (brk[o].filled + 1)..row[o].qty :
          SetBroker(o, IF q = row[o].qty THEN "filled"
                       ELSE IF brk[o].st = "pending_cancel" THEN "pending_cancel"
                       ELSE "partially_filled", q)
    /\ UNCHANGED <<durable, eng, req, posts, faults>>

BrokerCancels(o) ==
    /\ brk[o].st = "pending_cancel"
    /\ SetBroker(o, "canceled", brk[o].filled)
    /\ UNCHANGED <<durable, eng, req, posts, faults>>

BrokerEnds(o) ==
    /\ brk[o].st \in {"new", "partially_filled"}
    /\ \E st \in {"expired", "rejected"} : SetBroker(o, st, brk[o].filled)
    /\ UNCHANGED <<durable, eng, req, posts, faults>>

-----------------------------------------------------------------------------
EngineStep(e) ==
    \/ Start(e) \/ Acquire(e) \/ Heartbeat(e) \/ StopOwner(e) \/ StopAfterLoss(e) \/ Crash(e)
    \/ BeginStep(e) \/ NextPhase(e)
    \/ StartDispatch(e)
    \/ Fence(e) \/ FenceRejects(e) \/ FenceRaises(e) \/ ExpireAfterFailure(e)
    \/ Post(e) \/ PostAcknowledged(e) \/ PostFails(e)
    \/ RecordFailure(e) \/ LookUp(e) \/ LookUpFails(e) \/ Apply(e)
    \/ ExpireIntent(e) \/ SendCancel(e) \/ LeaseRefused(e) \/ StepRaises(e)

OrderStep(e, o) ==
    \/ ReserveEntry(e, o) \/ ReserveExperiment(e, o) \/ ReserveExit(e, o)
    \/ ReconcileOrder(e, o) \/ FindIntent(e, o) \/ RequestCancel(e, o)
    \/ ConsumeUpdate(e, o)

Environment ==
    \/ DeadOwnerAges \/ HeartbeatIsLate
    \/ \E o \in Order :
          \/ TtlElapses(o) \/ BrokerAccepts(o) \/ RequestFails(o)
          \/ BrokerFills(o) \/ BrokerCancels(o) \/ BrokerEnds(o)

Next ==
    \/ \E e \in Engine : EngineStep(e) \/ \E o \in Order : OrderStep(e, o)
    \/ Environment

Spec == Init /\ [][Next]_vars

-----------------------------------------------------------------------------
(* Safety *)

TypeOK ==
    /\ lease \in [owner : Engine \cup {NoEngine}, age : {"fresh", "idle", "stale"}]
    /\ lock \in Engine \cup {NoEngine}
    /\ row \in [Order -> Row]
    /\ due \subseteq Entry
    /\ eng \in [Engine -> Worker]
    /\ \A e \in Engine : eng[e].pc \in {"down", "waiting", "loop"} <=> eng[e].o = NoOrder
    /\ req \in [Order -> {"none", "flying", "accepted", "rejected", "lost"}]
    /\ posts \in [Order -> Nat]
    /\ brk \in [Order -> Snapshot]
    /\ hist \in [Order -> SUBSET Snapshot]
    /\ faults \in 0..MaxFaults

\* The broker works the order, or may yet come to work it.
AtBroker(o) == req[o] = "flying" \/ BrokerLive(o)

\* A client order id is POSTed at most once, over crashes, restarts and
\* hand-overs of the lease: an intent or an unknown submission is never replayed.
SubmittedOnce == \A o \in Order : posts[o] <= 1

\* An order recorded as expired without having been sent never reached the
\* broker, whichever worker wrote that record and whenever.
UnsentNeverReachedBroker ==
    \A o \in Order : row[o].dispatch = "expired_unsent" => posts[o] = 0

\* An order the database holds for final is final at the broker as well: no
\* order lives on behind a closed row.
FinalMeansFinal == \A o \in Order : row[o].status \in FINAL => ~AtBroker(o)

\* At most one order of a symbol is at the broker, so an exit is never sent
\* while an entry, or another exit, may still be filled.
OneOrderAtBroker ==
    \A o, p \in Order :
        o # p /\ SymbolOf[o] = SymbolOf[p] => ~(AtBroker(o) /\ AtBroker(p))

\* Exits never sell more than the entries bought.
NoOversell == \A o \in Order : SoldAtBroker(SymbolOf[o]) <= BoughtAtBroker(SymbolOf[o])

\* Recorded fills never shrink and a final order stays final, however late,
\* repeated or reordered the broker's snapshots are.
OutcomesStand ==
    [][\A o \in Order :
          /\ row'[o].filled >= row[o].filled
          /\ row[o].status \in FINAL => row'[o].status \in FINAL]_vars

\* No entry is POSTed, for any symbol, while the fate of another POST is open.
NoEntryIntoUnknown ==
    [][\A o \in Entry :
          posts'[o] # posts[o] => \A p \in Order \ {o} : req[p] # "flying"]_vars

\* An order recorded as rejected does not exist at the broker: "Even an
\* explicit rejection is looked up under the ORIGINAL client ID first."
RejectedIsAbsent ==
    \A o \in Order : row[o].dispatch = "broker_rejected" => ~BrokerLive(o)

-----------------------------------------------------------------------------
(* The inductive invariant behind the safety properties *)

PreSend == {"fence", "armed", "failing"}
Sending == PreSend \cup {"posting"}

\* A definitive rejection was answered to this order's POST.
Answered(o) ==
    /\ posts[o] = 1
    /\ req[o] = "rejected" \/ (AmbiguousRejections /\ req[o] = "accepted")

\* Each order has one dispatcher, and it has not sent anything before the POST.
OneDispatcher ==
    \A e, f \in Engine :
        e # f /\ eng[e].pc \in Sending /\ eng[f].pc \in Sending => eng[e].o # eng[f].o

DispatcherInv ==
    \A e \in Engine :
        LET o == eng[e].o IN
        /\ eng[e].pc \in PreSend =>
              /\ posts[o] = 0
              /\ row[o].dispatch = "dispatching"
              /\ row[o].status = "reconciliation_required"
        /\ eng[e].pc \in {"posting", "recording"} => posts[o] = 1
        /\ eng[e].definitive => o # NoOrder /\ Answered(o)
        /\ eng[e].pc = "expiring" /\ lease.owner = e => row[o].dispatch = "intent"
        /\ eng[e].pc = "applying" /\ eng[e].snap # NoSnap => eng[e].snap \in hist[o]

\* What the broker has, and what was ever said about it.
BrokerInv ==
    \A o \in Order :
        /\ posts[o] <= 1
        /\ posts[o] = 0 <=> req[o] = "none"
        /\ req[o] # "accepted" => hist[o] = {}
        /\ brk[o] = NoSnap <=> hist[o] = {}
        /\ brk[o] # NoSnap => brk[o] \in hist[o]
        /\ \A s \in hist[o] :
              /\ s.st \in FINAL \cup Working
              /\ s.filled <= brk[o].filled
              /\ s.st \in FINAL => brk[o].st \in FINAL

\* What each row says of the POST and of the broker's record.
RowInv ==
    \A o \in Order :
        /\ row[o].status = "absent" => row[o] = NoRow
        /\ row[o].status = "absent" <=> row[o].dispatch = "absent"
        /\ row[o].dispatch = "absent" => posts[o] = 0
        /\ row[o].dispatch = "intent" => posts[o] = 0 /\ row[o].status = "approved"
        /\ row[o].dispatch = "expired_unsent" => posts[o] = 0 /\ row[o].status = "expired"
        /\ row[o].definitive => Answered(o)
        /\ req[o] = "flying" =>
              /\ row[o].dispatch \in {"dispatching", "unknown"}
              /\ row[o].status = "reconciliation_required"
        /\ row[o].status \in FINAL =>
              AmbiguousRejections \/ brk[o].st \notin Working
        /\ row[o].status \in FINAL /\ posts[o] = 0 => row[o].dispatch = "expired_unsent"
        /\ row[o].filled <= brk[o].filled

\* At most one open row for a symbol.
OneOpenRow ==
    \A o, p \in Order : o # p /\ SymbolOf[o] = SymbolOf[p] => ~(IsOpen(o) /\ IsOpen(p))

\* While the owner of the lease considers or prepares entries, no POST other
\* than its own is open.
EntryInv ==
    \A e \in Engine :
        /\ lease.owner = e
        /\ \/ eng[e].phase = Entering
           \/ eng[e].pc \in {"reserved", "fence", "armed"} /\ eng[e].o \in Entry
        => \A p \in Order :
              req[p] = "flying" => eng[e].pc \in {"posting", "recording"} /\ p = eng[e].o

DispatchInv ==
    /\ TypeOK
    /\ OneDispatcher
    /\ DispatcherInv
    /\ BrokerInv
    /\ RowInv
    /\ OneOpenRow
    /\ EntryInv

-----------------------------------------------------------------------------
(* Liveness *)

\* The service is restarted, the tick and heartbeat tasks keep running, every
\* pass of step() is finite and visits each of its orders.  The broker fills a market order
\* and answers a cancel request.
Progress(e) ==
    \/ BeginStep(e) \/ NextPhase(e) \/ StartDispatch(e) \/ Fence(e) \/ FenceRejects(e)
    \/ FenceRaises(e) \/ ExpireAfterFailure(e) \/ Post(e) \/ PostAcknowledged(e) \/ PostFails(e)
    \/ RecordFailure(e) \/ LookUp(e) \/ Apply(e) \/ ExpireIntent(e) \/ SendCancel(e)
    \/ LeaseRefused(e)

Fairness ==
    /\ WF_vars(DeadOwnerAges)
    /\ \A e \in Engine :
          /\ WF_vars(Start(e)) /\ SF_vars(Acquire(e)) /\ SF_vars(Heartbeat(e))
          /\ WF_vars(StopAfterLoss(e))
          /\ WF_vars(Progress(e)) /\ SF_vars(NextPhase(e))
          /\ SF_vars(Apply(e)) /\ SF_vars(SendCancel(e))
          /\ \A o \in Order : SF_vars(ReconcileOrder(e, o)) /\ SF_vars(RequestCancel(e, o))
    /\ \A o \in Order :
          /\ WF_vars(TtlElapses(o)) /\ WF_vars(BrokerCancels(o))
          /\ o \notin Entry => WF_vars(BrokerFills(o))

\* From some time on no step is cut short by an unexpected exception: an
\* outage of the database or the broker ends.
OutagesEnd == <>[][\A e \in Engine : ~StepRaises(e) /\ ~LookUpFails(e)]_vars

FairSpec == Spec /\ Fairness /\ OutagesEnd

\* An order the broker accepted is eventually recorded as final, also when the
\* response to its POST was lost or its worker died: the entry's TTL leads to
\* a cancel request, and reconciliation finds the order by its client id.
AcceptedOrdersResolve ==
    \A o \in Order : req[o] = "accepted" ~> row[o].status \in FINAL
=============================================================================
