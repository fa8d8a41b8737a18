------------------------- MODULE ScalpDispatchProofs -------------------------
(***************************************************************************)
(* Proofs about ScalpDispatch for any number of workers, orders, symbols   *)
(* and faults.  The first part says what each kind of assignment to eng    *)
(* and row leaves behind, field by field; the second part shows that       *)
(* DispatchInv is inductive, action by action; the third part derives the  *)
(* safety properties from it.                                              *)
(***************************************************************************)
EXTENDS ScalpDispatch, Sums

-----------------------------------------------------------------------------
(* What an assignment to a worker's local state leaves behind *)

\* Worker e ends up with these fields, and no other worker moves.
Moves(e, pc, o, phase, snap, definitive) ==
    /\ eng' \in [Engine -> Worker]
    /\ eng'[e].pc = pc
    /\ eng'[e].o = o
    /\ eng'[e].phase = phase
    /\ eng'[e].snap = snap
    /\ eng'[e].definitive = definitive
    /\ \A f \in Engine \ {e} : eng'[f] = eng[f]

\* A worker without an order in hand holds no snapshot and no rejection.
Rests(e, pc, phase) == Moves(e, pc, NoOrder, phase, NoSnap, FALSE)

\* A worker that moves on with its order keeps everything else.
LEMMA GotoEffect ==
  ASSUME eng \in [Engine -> Worker], NEW e \in Engine, NEW pc \in Pc, Goto(e, pc)
  PROVE  Moves(e, pc, eng[e].o, eng[e].phase, eng[e].snap, eng[e].definitive)
  BY DEF Goto, Worker, Moves

\* A worker that takes up an order keeps the phase it is in.
LEMMA TakeUpEffect ==
  ASSUME eng \in [Engine -> Worker], NEW e \in Engine, NEW pc \in Pc, NEW o \in Order,
         TakeUp(e, pc, o)
  PROVE  Moves(e, pc, o, eng[e].phase, eng[e].snap, eng[e].definitive)
  BY DEF TakeUp, Worker, Moves

\* Idle drops the order, the snapshot and the rejection.
LEMMA IdleEffect ==
  ASSUME eng \in [Engine -> Worker], NEW e \in Engine, NEW pc \in Pc, NEW phase \in 0..5,
         eng' = [eng EXCEPT ![e] = Idle(pc, phase)]
  PROVE  Rests(e, pc, phase)
  BY DEF Worker, Idle, Snapshot, NoSnap, Moves, Rests

\* Continue stays in the phase of the step.
LEMMA ContinueEffect ==
  ASSUME eng \in [Engine -> Worker], NEW e \in Engine, Continue(e)
  PROVE  Rests(e, "loop", eng[e].phase)
<1>1. "loop" \in Pc /\ eng[e].phase \in 0..5
  BY DEF Worker, Pc
<1>q. QED
  BY <1>1, IdleEffect DEF Continue

\* A process that starts a step anew, stops or dies is between two steps.
LEMMA RestEffect ==
  ASSUME eng \in [Engine -> Worker], NEW e \in Engine, NEW pc \in {"down", "waiting", "loop"},
         eng' = [eng EXCEPT ![e] = Idle(pc, Between)]
  PROVE  Rests(e, pc, Between)
<1>1. pc \in Pc /\ Between \in 0..5
  BY DEF Pc, Between
<1>q. QED
  BY <1>1, IdleEffect

\* A response or a lookup is held until it is applied.
LEMMA AnswerEffect ==
  ASSUME eng \in [Engine -> Worker], NEW e \in Engine, NEW s \in Snapshot,
         eng' = [eng EXCEPT ![e].pc = "applying", ![e].snap = s]
  PROVE  Moves(e, "applying", eng[e].o, eng[e].phase, s, eng[e].definitive)
  BY DEF Worker, Pc, Moves

\* A failed lookup ends the step once "not found" is applied.
LEMMA NoAnswerEffect ==
  ASSUME eng \in [Engine -> Worker], NEW e \in Engine, NEW s \in Snapshot, NEW phase \in 0..5,
         eng' = [eng EXCEPT ![e].pc = "applying", ![e].snap = s, ![e].phase = phase]
  PROVE  Moves(e, "applying", eng[e].o, phase, s, eng[e].definitive)
  BY DEF Worker, Pc, Moves

\* A failed POST is classified.
LEMMA FailureEffect ==
  ASSUME eng \in [Engine -> Worker], NEW e \in Engine, NEW definitive \in BOOLEAN,
         eng' = [eng EXCEPT ![e].pc = "recording", ![e].definitive = definitive]
  PROVE  Moves(e, "recording", eng[e].o, eng[e].phase, eng[e].snap, definitive)
  BY DEF Worker, Pc, Moves

\* A recorded failure is looked up outside the step.
LEMMA RecordedEffect ==
  ASSUME eng \in [Engine -> Worker], NEW e \in Engine, NEW phase \in 0..5,
         eng' = [eng EXCEPT ![e].pc = "looking", ![e].phase = phase]
  PROVE  Moves(e, "looking", eng[e].o, phase, eng[e].snap, eng[e].definitive)
  BY DEF Worker, Pc, Moves

\* Reconciliation takes up an order together with the broker's record of it.
LEMMA ReconcileEffect ==
  ASSUME eng \in [Engine -> Worker], NEW e \in Engine, NEW o \in Order, NEW s \in Snapshot,
         NEW definitive \in BOOLEAN,
         eng' = [eng EXCEPT ![e].pc = "applying", ![e].o = o, ![e].snap = s,
                            ![e].definitive = definitive]
  PROVE  Moves(e, "applying", o, eng[e].phase, s, definitive)
  BY DEF Worker, Pc, Moves

-----------------------------------------------------------------------------
(* What a write to an order's rows leaves behind *)

\* The row of o ends up with these fields, and no other row changes.
Writes(o, status, dispatch, filled, definitive) ==
    /\ row' \in [Order -> Row]
    /\ row'[o].status = status
    /\ row'[o].dispatch = dispatch
    /\ row'[o].filled = filled
    /\ row'[o].definitive = definitive
    /\ \A p \in Order \ {o} : row'[p] = row[p]

\* _expire_unsent touches the status and the dispatch state of one order.
LEMMA ExpireUnsentEffect ==
  ASSUME row \in [Order -> Row], NEW o \in Order, ExpireUnsent(o)
  PROVE  Writes(o, "expired", "expired_unsent", row[o].filled, row[o].definitive)
  BY DEF ExpireUnsent, Row, Status, DispatchState, FINAL, Writes

\* A definitive rejection touches the same two fields.
LEMMA BrokerRejectedEffect ==
  ASSUME row \in [Order -> Row], NEW o \in Order, BrokerRejected(o)
  PROVE  Writes(o, "rejected", "broker_rejected", row[o].filled, row[o].definitive)
  BY DEF BrokerRejected, Row, Status, DispatchState, FINAL, Writes

\* _update_order either drops the snapshot or takes all of it over.
LEMMA UpdateOrderEffect ==
  ASSUME row \in [Order -> Row], NEW o \in Order, NEW s \in Snapshot,
         s.st \in FINAL \cup Working, UpdateOrder(o, s)
  PROVE  \/ row' = row
         \/ /\ ~Regressive(o, s)
            /\ Writes(o, s.st, "acknowledged", s.filled, row[o].definitive)
<1>1. CASE Regressive(o, s)
  BY <1>1 DEF UpdateOrder
<1>2. CASE ~Regressive(o, s)
  <2> DEFINE r == [row[o] EXCEPT !.status = s.st, !.dispatch = "acknowledged",
                                 !.filled = s.filled, !.ver = s.ver, !.known = TRUE]
  <2>1. s.st \in Status /\ "acknowledged" \in DispatchState /\ s.filled \in Nat /\ s.ver \in Nat
    BY DEF Status, DispatchState, Snapshot
  <2>2. row' = [row EXCEPT ![o] = r]
    BY <1>2 DEF UpdateOrder
  <2>3. /\ r \in Row
        /\ r.status = s.st
        /\ r.dispatch = "acknowledged"
        /\ r.filled = s.filled
        /\ r.definitive = row[o].definitive
    BY <2>1 DEF Row
  <2>q. QED
    BY <1>2, <2>2, <2>3 DEF Writes
<1>q. QED
  BY <1>1, <1>2

-----------------------------------------------------------------------------
(* Facts and frames used by many actions *)

\* A version of the broker's record exists only for an order that was POSTed
\* once and accepted.
LEMMA SeenVersion ==
  ASSUME TypeOK, BrokerInv, NEW o \in Order, NEW s \in hist[o]
  PROVE  /\ s \in Snapshot
         /\ s.st \in FINAL \cup Working
         /\ s # NoSnap
         /\ s.filled <= brk[o].filled
         /\ s.st \in FINAL => brk[o].st \in FINAL
         /\ req[o] = "accepted"
         /\ posts[o] = 1
<1>1. s \in Snapshot /\ posts[o] \in Nat
  BY DEF TypeOK
<1>2. s.st # "none"
  BY DEF BrokerInv, FINAL, Working
<1>3. hist[o] # {} /\ req[o] = "accepted" /\ posts[o] # 0 /\ posts[o] <= 1
  BY DEF BrokerInv
<1>q. QED
  BY <1>1, <1>2, <1>3 DEF BrokerInv, NoSnap

\* What the database and the broker say does not depend on the workers.
LEMMA RecordsFrame ==
  ASSUME DispatchInv, UNCHANGED <<row, external>>
  PROVE  BrokerInv' /\ RowInv' /\ OneOpenRow'
  BY DEF DispatchInv, external, BrokerInv, RowInv, OneOpenRow, IsOpen, Answered

\* A worker that drops its order, in a step that neither POSTs nor changes
\* what other dispatchers rely on.
LEMMA RestFrame ==
  ASSUME DispatchInv, TypeOK', NEW e \in Engine,
         NEW pc \in {"down", "waiting", "loop"}, NEW phase \in 0..5, Rests(e, pc, phase),
         \/ phase = Between
         \/ /\ phase = eng[e].phase
            /\ eng[e].pc \notin {"posting", "recording"}
            /\ lease' = lease,
         UNCHANGED external,
         lease'.owner \in {lease.owner, e, NoEngine},
         \A f \in Engine \ {e} :
             eng[f].pc \in PreSend \/ (eng[f].pc = "expiring" /\ lease.owner = f)
                => row'[eng[f].o] = row[eng[f].o]
  PROVE  OneDispatcher' /\ DispatcherInv' /\ EntryInv'
<1>1. OneDispatcher'
  BY DEF DispatchInv, OneDispatcher, Rests, Moves, Sending, PreSend
<1>2. DispatcherInv'
  BY NoEngineAssumption DEF DispatchInv, DispatcherInv, Rests, Moves, PreSend, external, Answered
<1>3. EntryInv'
  BY NoEngineAssumption DEF DispatchInv, EntryInv, Rests, Moves, external, Between, Entering
<1>q. QED
  BY <1>1, <1>2, <1>3

-----------------------------------------------------------------------------
(* The invariant, action by action *)

\* No order, no lease and no record exist before the service first runs.
LEMMA InitInv == Init => DispatchInv
<1> SUFFICES ASSUME Init PROVE DispatchInv
  OBVIOUS
<1>1. TypeOK
  <2>1. Idle("down", Between) \in Worker /\ NoSnap \in Snapshot
    BY DEF Idle, Worker, Pc, Between, NoSnap, Snapshot
  <2>2. NoRow \in Row
    BY DEF NoRow, Row, Status, DispatchState
  <2>3. eng \in [Engine -> Worker] /\ \A e \in Engine : eng[e].pc = "down" /\ eng[e].o = NoOrder
    BY <2>1 DEF Init, Idle
  <2>4. row \in [Order -> Row] /\ brk \in [Order -> Snapshot]
    BY <2>1, <2>2 DEF Init
  <2>5. faults \in 0..MaxFaults
    BY FaultsAssumption DEF Init
  <2>q. QED
    BY <2>3, <2>4, <2>5 DEF Init, TypeOK
<1>2. OneDispatcher /\ DispatcherInv
  BY DEF Init, OneDispatcher, DispatcherInv, Idle, Sending, PreSend
<1>3. BrokerInv
  BY DEF Init, BrokerInv
<1>4. RowInv /\ OneOpenRow
  BY DEF Init, RowInv, OneOpenRow, IsOpen, NoRow, NoSnap, FINAL, Working
<1>5. EntryInv
  BY NoEngineAssumption DEF Init, EntryInv
<1>q. QED
  BY <1>1, <1>2, <1>3, <1>4, <1>5 DEF DispatchInv

\* Starting, stopping, dying and the lease: no order changes.
LEMMA LeaseStep ==
  ASSUME DispatchInv, NEW e \in Engine,
         \/ Start(e) \/ Acquire(e) \/ Heartbeat(e) \/ StopOwner(e) \/ StopAfterLoss(e)
         \/ Crash(e) \/ BeginStep(e) \/ NextPhase(e) \/ DeadOwnerAges \/ HeartbeatIsLate
  PROVE  DispatchInv'
<1>1. UNCHANGED <<row, external>>
  BY DEF Start, Acquire, Heartbeat, StopOwner, StopAfterLoss, Crash, BeginStep, NextPhase,
         DeadOwnerAges, HeartbeatIsLate, Ages, durable
<1>2. BrokerInv' /\ RowInv' /\ OneOpenRow'
  BY <1>1, RecordsFrame
<1>3. CASE Start(e)
  <2>1. eng[e].pc = "down" /\ eng[e].o = NoOrder /\ UNCHANGED <<lease, lock, due, faults>>
    BY <1>3 DEF Start, At, DispatchInv, TypeOK, durable
  <2>2. Moves(e, "waiting", NoOrder, eng[e].phase, eng[e].snap, eng[e].definitive)
    BY <1>3, <2>1, GotoEffect DEF Start, DispatchInv, TypeOK, Pc
  <2>3. TypeOK'
    BY <1>1, <2>1, <2>2 DEF DispatchInv, TypeOK, Moves, external
  <2>4. OneDispatcher' /\ DispatcherInv'
    BY <1>1, <2>1, <2>2 DEF DispatchInv, OneDispatcher, DispatcherInv, Moves, Sending, PreSend,
                            Answered, external
  <2>5. EntryInv'
    BY <1>1, <2>1, <2>2 DEF DispatchInv, EntryInv, Moves, external
  <2>q. QED
    BY <1>2, <2>3, <2>4, <2>5 DEF DispatchInv
<1>4. CASE Acquire(e)
  <2>1. UNCHANGED <<lock, due, faults>> /\ lease' = [owner |-> e, age |-> "fresh"]
    BY <1>4 DEF Acquire
  <2>2. Rests(e, "loop", Between)
    BY <1>4, RestEffect DEF Acquire, DispatchInv, TypeOK
  <2>3. TypeOK'
    BY <1>1, <2>1, <2>2 DEF DispatchInv, TypeOK, Rests, Moves, external
  <2>q. QED
    BY <1>1, <1>2, <2>1, <2>2, <2>3, RestFrame DEF DispatchInv, Between
<1>5. CASE Heartbeat(e) \/ DeadOwnerAges \/ HeartbeatIsLate
  <2>1. /\ UNCHANGED <<lock, due, eng>>
        /\ lease' \in [owner : Engine \cup {NoEngine}, age : {"fresh", "idle", "stale"}]
        /\ lease'.owner = lease.owner
        /\ faults' \in 0..MaxFaults
    BY <1>5, FaultsAssumption
       DEF Heartbeat, DeadOwnerAges, HeartbeatIsLate, Ages, DispatchInv, TypeOK
  <2>2. TypeOK'
    BY <1>1, <2>1 DEF DispatchInv, TypeOK, external
  <2>3. OneDispatcher' /\ DispatcherInv' /\ EntryInv'
    BY <1>1, <2>1 DEF DispatchInv, OneDispatcher, DispatcherInv, EntryInv, Answered, external
  <2>q. QED
    BY <1>2, <2>2, <2>3 DEF DispatchInv
<1>6. CASE StopOwner(e) \/ StopAfterLoss(e) \/ Crash(e)
  <2>1. /\ lock' \in {lock, NoEngine}
        /\ due' = due
        /\ lease' \in {lease, [owner |-> NoEngine, age |-> "stale"]}
        /\ faults' \in 0..MaxFaults
    BY <1>6, FaultsAssumption DEF StopOwner, StopAfterLoss, Crash, DispatchInv, TypeOK, durable
  <2>2. Rests(e, "down", Between)
    BY <1>6, RestEffect DEF StopOwner, StopAfterLoss, Crash, DispatchInv, TypeOK
  <2>3. TypeOK'
    BY <1>1, <2>1, <2>2 DEF DispatchInv, TypeOK, Rests, Moves, external
  <2>q. QED
    BY <1>1, <1>2, <2>1, <2>2, <2>3, RestFrame DEF DispatchInv, Between
<1>7. CASE BeginStep(e) \/ NextPhase(e)
  <2>1. eng[e].pc = "loop" /\ UNCHANGED <<lease, lock, due, faults>>
    BY <1>7 DEF BeginStep, NextPhase, InPhase, At, durable
  <2>2. PICK phase \in 0..5 :
          /\ eng' = [eng EXCEPT ![e].phase = phase]
          /\ phase = Entering => Unresolved = {} \/ eng[e].phase = Entering
    BY <1>7 DEF BeginStep, NextPhase, InPhase, Reconciling, Rechecking, Entering, Between
  <2>3. Moves(e, "loop", eng[e].o, phase, eng[e].snap, eng[e].definitive)
    BY <2>1, <2>2 DEF DispatchInv, TypeOK, Worker, Moves
  <2>4. TypeOK'
    BY <1>1, <2>1, <2>3 DEF DispatchInv, TypeOK, Moves, external
  <2>5. OneDispatcher' /\ DispatcherInv'
    BY <1>1, <2>1, <2>3 DEF DispatchInv, OneDispatcher, DispatcherInv, Moves, Sending, PreSend,
                            Answered, external
  <2>6. \A p \in Order : req[p] = "flying" => p \in Unresolved
    BY DEF DispatchInv, RowInv, Unresolved, IsOpen, FINAL
  <2>7. EntryInv'
    BY <1>1, <2>1, <2>2, <2>3, <2>6 DEF DispatchInv, EntryInv, Moves, external
  <2>q. QED
    BY <1>2, <2>4, <2>5, <2>7 DEF DispatchInv
<1>q. QED
  BY <1>3, <1>4, <1>5, <1>6, <1>7

\* Reserving an order adds an intent where no order of the symbol is open.
LEMMA ReserveStep ==
  ASSUME DispatchInv, NEW e \in Engine, NEW o \in Order,
         ReserveEntry(e, o) \/ ReserveExperiment(e, o) \/ ReserveExit(e, o)
  PROVE  DispatchInv'
<1>1. PICK q \in Nat : Reserve(e, o, q)
  BY QtyAssumption DEF ReserveEntry, ReserveExperiment, ReserveExit
<1>2. /\ row[o].status = "absent"
      /\ eng[e].pc = "loop"
      /\ LeaseOk(e)
      /\ \A p \in OrdersOf(SymbolOf[o]) : ~IsOpen(p)
      /\ UNCHANGED <<lease, lock, due, external, faults>>
  BY <1>1 DEF Reserve, ReserveEntry, ReserveExperiment, ReserveExit, InPhase, At
<1>3. Moves(e, "reserved", o, eng[e].phase, eng[e].snap, eng[e].definitive)
  BY <1>1, TakeUpEffect DEF Reserve, DispatchInv, TypeOK, Pc
<1>4. Writes(o, "approved", "intent", 0, FALSE)
  <2>1. row' = [row EXCEPT ![o] = [NoRow EXCEPT !.status = "approved", !.dispatch = "intent",
                                                !.qty = q]]
    BY <1>1 DEF Reserve
  <2>2. row \in [Order -> Row]
    BY DEF DispatchInv, TypeOK
  <2>q. QED
    BY <2>1, <2>2 DEF NoRow, Row, Status, DispatchState, Writes
<1>5. TypeOK'
  BY <1>2, <1>3, <1>4, NoOrderAssumption DEF DispatchInv, TypeOK, Moves, Writes, external
<1>6. row[o].dispatch = "absent" /\ posts[o] = 0 /\ req[o] = "none" /\ hist[o] = {}
  BY <1>2 DEF DispatchInv, RowInv, BrokerInv
<1>7. OneDispatcher' /\ DispatcherInv'
  <2>1. OneDispatcher'
    BY <1>2, <1>3 DEF DispatchInv, OneDispatcher, Moves, Sending, PreSend
  <2>2. eng[e].o = NoOrder /\ ~eng[e].definitive
    BY <1>2 DEF DispatchInv, TypeOK, DispatcherInv
  <2>3. \A f \in Engine \ {e} :
            eng[f].pc \in PreSend \/ (eng[f].pc = "expiring" /\ lease.owner = f)
               => row'[eng[f].o] = row[eng[f].o]
    BY <1>4, <1>6 DEF DispatchInv, TypeOK, DispatcherInv, Worker, Writes, PreSend
  <2>4. DispatcherInv'
    BY <1>2, <1>3, <2>2, <2>3 DEF DispatchInv, DispatcherInv, Moves, PreSend, Answered, external
  <2>q. QED
    BY <2>1, <2>4
<1>8. BrokerInv'
  BY <1>2 DEF DispatchInv, BrokerInv, external
<1>9. RowInv'
  BY <1>2, <1>4, <1>6 DEF DispatchInv, TypeOK, Snapshot, BrokerInv, RowInv, Writes, external, Answered,
                          FINAL
<1>10. OneOpenRow'
  BY <1>2, <1>4 DEF DispatchInv, OneOpenRow, IsOpen, OrdersOf, Writes
<1>11. EntryInv'
  <2>1. lease.owner = e /\ lease' = lease /\ req' = req
    BY <1>2 DEF LeaseOk, LeaseHeld, external
  <2>2. CASE ReserveEntry(e, o)
    BY <1>2, <1>3, <2>1, <2>2 DEF DispatchInv, EntryInv, Moves, ReserveEntry, InPhase
  <2>3. CASE ReserveExperiment(e, o)
    <3>1. \A p \in Order : req[p] # "flying"
      BY <2>3 DEF ReserveExperiment, DispatchInv, RowInv, IsOpen, FINAL
    <3>q. QED
      BY <1>3, <2>1, <3>1 DEF EntryInv
  <2>4. CASE ReserveExit(e, o)
    BY <1>3, <2>1, <2>4 DEF DispatchInv, EntryInv, Moves, ReserveExit, InPhase, Exiting, Entering
  <2>q. QED
    BY <2>2, <2>3, <2>4, <1>1 DEF ReserveEntry, ReserveExperiment, ReserveExit
<1>q. QED
  BY <1>5, <1>7, <1>8, <1>9, <1>10, <1>11 DEF DispatchInv

\* The durable mark, the fence and the ways to give an order up before its POST.
LEMMA DispatchStep ==
  ASSUME DispatchInv, NEW e \in Engine,
         \/ StartDispatch(e) \/ Fence(e) \/ FenceRejects(e) \/ FenceRaises(e)
         \/ ExpireAfterFailure(e)
  PROVE  DispatchInv'
<1> DEFINE o == eng[e].o
<1>1. UNCHANGED <<lease, due, external, faults>>
  BY DEF StartDispatch, Fence, FenceRejects, FenceRaises, ExpireAfterFailure
<1>2. /\ eng[e].pc \in {"reserved", "fence", "armed", "failing"}
      /\ o \in Order
  BY DEF StartDispatch, Fence, FenceRejects, FenceRaises, ExpireAfterFailure, At,
         DispatchInv, TypeOK, Worker
<1>3. BrokerInv'
  BY <1>1 DEF DispatchInv, BrokerInv, external
<1>4. CASE StartDispatch(e) /\ row[o].dispatch = "intent"
  <2>1. eng[e].pc = "reserved" /\ lease.owner = e /\ lock' = lock
    BY <1>4 DEF StartDispatch, At, LeaseOk, LeaseHeld
  <2>2. Moves(e, "fence", o, eng[e].phase, eng[e].snap, eng[e].definitive)
    BY <1>4, GotoEffect DEF StartDispatch, DispatchInv, TypeOK, Pc
  <2>3. Writes(o, "reconciliation_required", "dispatching", row[o].filled, row[o].definitive)
    <3>1. row' = [row EXCEPT ![o].dispatch = "dispatching", ![o].status = "reconciliation_required"]
      BY <1>4 DEF StartDispatch
    <3>q. QED
      BY <1>2, <3>1 DEF DispatchInv, TypeOK, Row, Status, DispatchState, Writes
  <2>4. TypeOK'
    BY <1>1, <2>1, <2>2, <2>3 DEF DispatchInv, TypeOK, Moves, Writes, external
  <2>5. posts[o] = 0 /\ row[o].status = "approved"
    BY <1>2, <1>4 DEF DispatchInv, RowInv
  <2>6. \A f \in Engine : eng[f].pc \in Sending => eng[f].o # o
    BY <1>2, <1>4, <2>5 DEF DispatchInv, DispatcherInv, Sending
  <2>7. OneDispatcher'
    BY <2>2, <2>6 DEF DispatchInv, OneDispatcher, Moves
  <2>8. DispatcherInv'
    <3>1. \A f \in Engine \ {e} :
              eng[f].pc \in PreSend \/ (eng[f].pc = "expiring" /\ lease.owner = f)
                 => row'[eng[f].o] = row[eng[f].o]
      BY <2>1, <2>3, <2>6 DEF DispatchInv, TypeOK, Worker, Writes, Sending, PreSend
    <3>2. row'[o].dispatch = "dispatching" /\ row'[o].status = "reconciliation_required"
      BY <2>3 DEF Writes
    <3>q. QED
      BY <1>1, <2>1, <2>2, <2>5, <3>1, <3>2
         DEF DispatchInv, DispatcherInv, Moves, PreSend, Answered, external
  <2>9. RowInv'
    BY <1>1, <1>2, <2>3, <2>5
       DEF DispatchInv, BrokerInv, RowInv, Writes, Answered, external, FINAL
  <2>10. OneOpenRow'
    BY <1>2, <2>3, <2>5 DEF DispatchInv, OneOpenRow, IsOpen, Writes, FINAL
  <2>11. EntryInv'
    BY <1>1, <2>1, <2>2 DEF DispatchInv, EntryInv, Moves, external
  <2>q. QED
    BY <1>3, <2>4, <2>7, <2>8, <2>9, <2>10, <2>11 DEF DispatchInv
<1>5. CASE StartDispatch(e) /\ row[o].dispatch # "intent"
  <2>1. eng[e].pc = "reserved" /\ UNCHANGED <<lock, row>>
    BY <1>5 DEF StartDispatch, At
  <2>2. Rests(e, "loop", eng[e].phase)
    BY <1>5, ContinueEffect DEF StartDispatch, DispatchInv, TypeOK
  <2>3. TypeOK'
    BY <1>1, <2>1, <2>2 DEF DispatchInv, TypeOK, Rests, Moves, external
  <2>4. OneDispatcher' /\ DispatcherInv' /\ EntryInv'
    BY <1>1, <2>1, <2>2, <2>3, RestFrame DEF DispatchInv, TypeOK, Worker
  <2>5. RowInv' /\ OneOpenRow'
    BY <1>1, <2>1, RecordsFrame
  <2>q. QED
    BY <1>3, <2>3, <2>4, <2>5 DEF DispatchInv
<1>6. CASE Fence(e) \/ FenceRaises(e)
  <2>1. /\ eng[e].pc \in {"fence", "armed"}
        /\ row' = row
        /\ lock' \in Engine \cup {NoEngine}
    BY <1>6 DEF Fence, FenceRaises, At, DispatchInv, TypeOK
  <2>2. PICK pc \in {"armed", "failing"} :
          Moves(e, pc, o, eng[e].phase, eng[e].snap, eng[e].definitive)
    BY <1>6, GotoEffect DEF Fence, FenceRaises, DispatchInv, TypeOK, Pc
  <2>3. TypeOK'
    BY <1>1, <2>1, <2>2 DEF DispatchInv, TypeOK, Moves, external
  <2>4. OneDispatcher' /\ DispatcherInv'
    BY <1>1, <2>1, <2>2 DEF DispatchInv, OneDispatcher, DispatcherInv, Moves, Sending, PreSend,
                            Answered, external
  <2>5. EntryInv'
    BY <1>1, <2>1, <2>2 DEF DispatchInv, EntryInv, Moves, external
  <2>6. RowInv' /\ OneOpenRow'
    BY <1>1, <2>1, RecordsFrame
  <2>q. QED
    BY <1>3, <2>3, <2>4, <2>5, <2>6 DEF DispatchInv
<1>7. CASE FenceRejects(e) \/ ExpireAfterFailure(e)
  <2>1. eng[e].pc \in PreSend /\ lock' \in {lock, NoEngine}
    BY <1>7 DEF FenceRejects, ExpireAfterFailure, At, PreSend
  <2>2. PICK phase \in {eng[e].phase, Between} : Rests(e, "loop", phase)
    BY <1>7, ContinueEffect, RestEffect
       DEF FenceRejects, ExpireAfterFailure, AbortStep, DispatchInv, TypeOK
  <2>3. Writes(o, "expired", "expired_unsent", row[o].filled, row[o].definitive)
    BY <1>2, <1>7, ExpireUnsentEffect DEF FenceRejects, ExpireAfterFailure, DispatchInv, TypeOK
  <2>4. TypeOK'
    BY <1>1, <2>1, <2>2, <2>3 DEF DispatchInv, TypeOK, Rests, Moves, Writes, external
  <2>5. posts[o] = 0 /\ row[o].dispatch = "dispatching" /\ row[o].status = "reconciliation_required"
    BY <2>1 DEF DispatchInv, DispatcherInv
  <2>6. \A f \in Engine \ {e} :
            eng[f].pc \in PreSend \/ (eng[f].pc = "expiring" /\ lease.owner = f) => eng[f].o # o
    BY <2>1, <2>5 DEF DispatchInv, OneDispatcher, DispatcherInv, Sending
  <2>7. OneDispatcher' /\ DispatcherInv' /\ EntryInv'
    <3>1. \A f \in Engine \ {e} :
              eng[f].pc \in PreSend \/ (eng[f].pc = "expiring" /\ lease.owner = f)
                 => row'[eng[f].o] = row[eng[f].o]
      BY <2>3, <2>6 DEF DispatchInv, TypeOK, Worker, Writes, PreSend
    <3>2. phase \in 0..5
      BY <2>2 DEF DispatchInv, TypeOK, Worker, Between
    <3>3. eng[e].pc \notin {"posting", "recording"}
      BY <2>1 DEF PreSend
    <3>4. lease' = lease /\ UNCHANGED external
      BY <1>1
    <3>q. QED
      BY <2>2, <2>4, <3>1, <3>2, <3>3, <3>4, RestFrame
  <2>8. RowInv'
    <3>1. req[o] = "none" /\ hist[o] = {} /\ brk[o].st \notin Working
      BY <1>2, <2>5 DEF DispatchInv, BrokerInv, NoSnap, Working
    <3>q. QED
      BY <1>1, <1>2, <2>3, <2>5, <3>1 DEF DispatchInv, RowInv, Writes, Answered, external
  <2>9. OneOpenRow'
    BY <1>2, <2>3 DEF DispatchInv, OneOpenRow, IsOpen, Writes, FINAL
  <2>q. QED
    BY <1>3, <2>4, <2>7, <2>8, <2>9 DEF DispatchInv
<1>q. QED
  BY <1>4, <1>5, <1>6, <1>7

\* The POST is the first of its order: it needs the mark, which needs an intent.
LEMMA PostStep ==
  ASSUME DispatchInv, NEW e \in Engine,
         Post(e) \/ PostAcknowledged(e) \/ PostFails(e)
  PROVE  DispatchInv'
<1> DEFINE o == eng[e].o
<1>1. UNCHANGED <<lease, row, due, brk, hist, faults>>
  BY DEF Post, PostAcknowledged, PostFails, durable, external
<1>2. eng[e].pc \in {"armed", "posting"} /\ o \in Order
  BY DEF Post, PostAcknowledged, PostFails, At, DispatchInv, TypeOK, Worker
<1>3. OneOpenRow'
  BY <1>1 DEF DispatchInv, OneOpenRow, IsOpen
<1>4. CASE Post(e)
  <2>1. /\ eng[e].pc = "armed"
        /\ lease.owner = e
        /\ lock' = lock
        /\ posts' = [posts EXCEPT ![o] = posts[o] + 1]
        /\ req' = [req EXCEPT ![o] = "flying"]
    BY <1>4 DEF Post, At, LeaseHeld, durable
  <2>2. Moves(e, "posting", o, eng[e].phase, eng[e].snap, eng[e].definitive)
    BY <1>4, GotoEffect DEF Post, DispatchInv, TypeOK, Pc
  <2>3. /\ posts[o] = 0 /\ req[o] = "none" /\ hist[o] = {}
        /\ row[o].dispatch = "dispatching" /\ row[o].status = "reconciliation_required"
        /\ ~row[o].definitive
    BY <1>2, <2>1 DEF DispatchInv, DispatcherInv, BrokerInv, RowInv, PreSend, Answered
  <2>4. /\ posts' \in [Order -> Nat]
        /\ posts'[o] = 1
        /\ req'[o] = "flying"
        /\ \A p \in Order \ {o} : posts'[p] = posts[p] /\ req'[p] = req[p]
    BY <1>2, <2>1, <2>3 DEF DispatchInv, TypeOK
  <2>5. TypeOK'
    BY <1>1, <1>2, <2>1, <2>2, <2>4 DEF DispatchInv, TypeOK, Moves
  <2>6. OneDispatcher'
    BY <2>1, <2>2 DEF DispatchInv, OneDispatcher, Moves, Sending, PreSend
  <2>7. \A f \in Engine \ {e} : eng[f].pc \in PreSend => eng[f].o # o
    BY <2>1 DEF DispatchInv, OneDispatcher, Sending, PreSend
  <2>8. \A f \in Engine : eng[f].definitive => eng[f].o \in Order \ {o}
    BY <2>3 DEF DispatchInv, TypeOK, DispatcherInv, Answered, Worker
  <2>9. \A f \in Engine : eng[f].pc \in Pc \ {"down", "waiting", "loop"} => eng[f].o \in Order
    BY DEF DispatchInv, TypeOK, Worker
  <2>10. DispatcherInv'
    <3>1. \A f \in Engine \ {e} : eng[f].pc \in {"posting", "recording"} => eng[f].o \in Order \ {o}
      BY <2>3, <2>9 DEF DispatchInv, DispatcherInv, Pc
    <3>2. \A f \in Engine \ {e} : eng[f].pc \in PreSend => eng[f].o \in Order \ {o}
      BY <2>7, <2>9 DEF PreSend, Pc
    <3>q. QED
      BY <1>1, <1>2, <2>1, <2>2, <2>4, <2>8, <3>1, <3>2
         DEF DispatchInv, DispatcherInv, Moves, PreSend, Answered
  <2>11. BrokerInv'
    BY <1>1, <1>2, <2>3, <2>4 DEF DispatchInv, BrokerInv
  <2>12. RowInv'
    BY <1>1, <1>2, <2>3, <2>4 DEF DispatchInv, RowInv, Answered
  <2>13. EntryInv'
    BY <1>1, <1>2, <2>1, <2>2, <2>4 DEF DispatchInv, EntryInv, Moves
  <2>q. QED
    BY <1>3, <2>5, <2>6, <2>10, <2>11, <2>12, <2>13 DEF DispatchInv
<1>5. CASE PostAcknowledged(e) \/ PostFails(e)
  <2>1. eng[e].pc = "posting" /\ lock' = NoEngine /\ UNCHANGED external
    BY <1>5 DEF PostAcknowledged, PostFails, At
  <2>2. posts[o] = 1 /\ ~(eng[e].pc \in PreSend)
    BY <2>1 DEF DispatchInv, DispatcherInv, PreSend
  <2>3. BrokerInv' /\ RowInv'
    BY <1>1, <2>1, RecordsFrame
  <2>4. CASE PostAcknowledged(e)
    <3>1. PICK s \in hist[o] : eng' = [eng EXCEPT ![e].pc = "applying", ![e].snap = s]
      BY <2>4 DEF PostAcknowledged
    <3>2. s \in Snapshot /\ req[o] = "accepted"
      BY <1>2, SeenVersion DEF DispatchInv
    <3>3. Moves(e, "applying", o, eng[e].phase, s, eng[e].definitive)
      BY <3>1, <3>2, AnswerEffect DEF DispatchInv, TypeOK
    <3>4. TypeOK'
      BY <1>1, <1>2, <2>1, <3>3, NoOrderAssumption DEF DispatchInv, TypeOK, Moves, external
    <3>5. OneDispatcher' /\ DispatcherInv'
      BY <1>1, <1>2, <2>1, <3>3
         DEF DispatchInv, OneDispatcher, DispatcherInv, Moves, Sending, PreSend, Answered, external
    <3>6. EntryInv'
      BY <1>1, <2>1, <3>2, <3>3 DEF DispatchInv, EntryInv, Moves, external
    <3>q. QED
      BY <1>3, <2>3, <3>4, <3>5, <3>6 DEF DispatchInv
  <2>5. CASE PostFails(e)
    <3>1. PICK definitive \in BOOLEAN :
            /\ definitive => Answered(o)
            /\ eng' = [eng EXCEPT ![e].pc = "recording", ![e].definitive = definitive]
      BY <2>2, <2>5 DEF PostFails, Answered
    <3>2. Moves(e, "recording", o, eng[e].phase, eng[e].snap, definitive)
      <4>1. eng \in [Engine -> Worker]
        BY DEF DispatchInv, TypeOK
      <4>q. QED
        BY <3>1, <4>1, FailureEffect, Zenon
    <3>3. TypeOK'
      BY <1>1, <1>2, <2>1, <3>2, NoOrderAssumption DEF DispatchInv, TypeOK, Moves, external
    <3>4. OneDispatcher'
      BY <3>2 DEF DispatchInv, OneDispatcher, Moves, Sending, PreSend
    <3>5. DispatcherInv'
      BY <1>1, <1>2, <2>1, <2>2, <3>1, <3>2, NoOrderAssumption
         DEF DispatchInv, DispatcherInv, Moves, PreSend, Answered, external
    <3>6. EntryInv'
      BY <1>1, <2>1, <3>2 DEF DispatchInv, EntryInv, Moves, external
    <3>q. QED
      BY <1>3, <2>3, <3>3, <3>4, <3>5, <3>6 DEF DispatchInv
  <2>q. QED
    BY <1>5, <2>4, <2>5
<1>q. QED
  BY <1>4, <1>5

\* A worker that moves to a state in which it dispatches nothing, without a
\* change of the records.
LEMMA LookFrame ==
  ASSUME DispatchInv, NEW e \in Engine, NEW pc \in Pc, NEW o \in Order,
         NEW phase \in 0..5, NEW snap \in Snapshot, NEW definitive \in BOOLEAN,
         Moves(e, pc, o, phase, snap, definitive),
         pc \in {"looking", "applying", "expiring"},
         eng[e].pc \notin {"posting", "recording"},
         phase \in {eng[e].phase, Between},
         definitive => Answered(o),
         pc = "applying" /\ snap # NoSnap => snap \in hist[o],
         pc = "expiring" => row[o].dispatch = "intent",
         UNCHANGED <<durable, external, faults>>
  PROVE  DispatchInv'
<1>1. UNCHANGED <<lease, lock, row, due, faults>> /\ UNCHANGED external
  BY DEF durable
<1>2. TypeOK'
  BY <1>1, NoOrderAssumption DEF DispatchInv, TypeOK, Moves, external
<1>3. OneDispatcher'
  BY DEF DispatchInv, OneDispatcher, Moves, Sending, PreSend
<1>4. DispatcherInv'
  BY <1>1, NoOrderAssumption DEF DispatchInv, DispatcherInv, Moves, PreSend, Answered, external
<1>5. EntryInv'
  BY <1>1 DEF DispatchInv, EntryInv, Moves, external, Between, Entering
<1>6. BrokerInv' /\ RowInv' /\ OneOpenRow'
  BY <1>1, RecordsFrame
<1>q. QED
  BY <1>2, <1>3, <1>4, <1>5, <1>6 DEF DispatchInv

\* A lookup carries the broker's present record, if there is one.
LEMMA LookStep ==
  ASSUME DispatchInv, NEW e \in Engine,
         \/ LookUp(e) \/ LookUpFails(e)
         \/ \E o \in Order : ReconcileOrder(e, o) \/ FindIntent(e, o)
  PROVE  DispatchInv'
<1>1. UNCHANGED <<durable, external, faults>>
  BY DEF LookUp, LookUpFails, ReconcileOrder, FindIntent
<1>2. NoSnap \in Snapshot
  BY DEF NoSnap, Snapshot
<1>3. /\ eng[e] \in Worker
      /\ eng[e].phase \in 0..5
      /\ eng[e].snap \in Snapshot
      /\ eng[e].definitive \in BOOLEAN
      /\ eng[e].definitive => Answered(eng[e].o)
      /\ {"applying", "expiring"} \subseteq Pc
      /\ Between \in 0..5
  BY DEF DispatchInv, TypeOK, DispatcherInv, Worker, Pc, Between
<1>4. CASE LookUp(e) \/ LookUpFails(e)
  <2>1. eng[e].pc = "looking" /\ eng[e].o \in Order
    BY <1>3, <1>4 DEF LookUp, LookUpFails, At, DispatchInv, TypeOK, Worker
  <2>2. brk[eng[e].o] \in Snapshot
    BY <2>1 DEF DispatchInv, TypeOK
  <2>3. PICK phase \in {eng[e].phase, Between}, snap \in {NoSnap, brk[eng[e].o]} :
          Moves(e, "applying", eng[e].o, phase, snap, eng[e].definitive)
    <3>1. CASE LookUp(e)
      <4>1. Moves(e, "applying", eng[e].o, eng[e].phase, brk[eng[e].o], eng[e].definitive)
        BY <2>2, <3>1, AnswerEffect DEF LookUp, DispatchInv, TypeOK
      <4>q. QED
        BY <4>1
    <3>2. CASE LookUpFails(e)
      <4>1. Moves(e, "applying", eng[e].o, Between, NoSnap, eng[e].definitive)
        BY <1>2, <1>3, <3>2, NoAnswerEffect DEF LookUpFails, DispatchInv, TypeOK
      <4>q. QED
        BY <4>1
    <3>q. QED
      BY <1>4, <3>1, <3>2
  <2>4. snap # NoSnap => snap \in hist[eng[e].o]
    BY <2>1, <2>3 DEF DispatchInv, BrokerInv
  <2>q. QED
    BY <1>1, <1>2, <1>3, <2>1, <2>2, <2>3, <2>4, LookFrame
<1>5. CASE \E o \in Order : ReconcileOrder(e, o)
  <2>1. PICK o \in Order : ReconcileOrder(e, o)
    BY <1>5
  <2>2. eng[e].pc = "loop" /\ brk[o] \in Snapshot /\ row[o].definitive \in BOOLEAN
    BY <2>1 DEF ReconcileOrder, InPhase, At, DispatchInv, TypeOK, Row
  <2>3. Moves(e, "applying", o, eng[e].phase, brk[o], row[o].definitive)
    <3>1. eng \in [Engine -> Worker]
      BY DEF DispatchInv, TypeOK
    <3>2. eng' = [eng EXCEPT ![e].pc = "applying", ![e].o = o, ![e].snap = brk[o],
                             ![e].definitive = row[o].definitive]
      BY <2>1 DEF ReconcileOrder
    <3>q. QED
      BY <2>2, <3>1, <3>2, ReconcileEffect, Zenon
  <2>4. row[o].definitive => Answered(o)
    BY DEF DispatchInv, RowInv
  <2>5. brk[o] # NoSnap => brk[o] \in hist[o]
    BY DEF DispatchInv, BrokerInv
  <2>q. QED
    BY <1>1, <1>3, <2>2, <2>3, <2>4, <2>5, LookFrame
<1>6. CASE \E o \in Order : FindIntent(e, o)
  <2>1. PICK o \in Order : FindIntent(e, o)
    BY <1>6
  <2>2. eng[e].pc = "loop" /\ row[o].dispatch = "intent"
    BY <2>1 DEF FindIntent, InPhase, At
  <2>3. Moves(e, "expiring", o, eng[e].phase, eng[e].snap, eng[e].definitive)
    BY <2>1, TakeUpEffect DEF FindIntent, DispatchInv, TypeOK, Pc
  <2>4. ~eng[e].definitive
    BY <2>2 DEF DispatchInv, TypeOK, DispatcherInv
  <2>q. QED
    BY <1>1, <1>3, <2>2, <2>3, <2>4, LookFrame
<1>q. QED
  BY <1>4, <1>5, <1>6

\* What is learnt of a sent order disturbs no order that is still unsent.
LEMMA LearnFrame ==
  ASSUME DispatchInv, NEW o \in Order, NEW status, NEW dispatch, NEW filled, NEW definitive \in BOOLEAN,
         Writes(o, status, dispatch, filled, definitive),
         UNCHANGED external,
         posts[o] = 1,
         dispatch \notin {"absent", "intent", "expired_unsent"},
         status # "absent",
         definitive => Answered(o),
         filled <= brk[o].filled,
         req[o] = "flying" => dispatch = "unknown" /\ status = row[o].status,
         status \in FINAL => AmbiguousRejections \/ brk[o].st \notin Working,
         row[o].status \in FINAL => status \in FINAL
  PROVE  /\ BrokerInv' /\ RowInv' /\ OneOpenRow'
         /\ \A f \in Engine :
               eng[f].pc \in PreSend \/ (eng[f].pc = "expiring" /\ lease.owner = f)
                  => row'[eng[f].o] = row[eng[f].o]
<1>1. BrokerInv'
  BY DEF DispatchInv, BrokerInv, external
<1>2. RowInv'
  BY DEF DispatchInv, RowInv, Writes, Answered, external
<1>3. row[o].status # "absent"
  BY DEF DispatchInv, RowInv
<1>4. OneOpenRow'
  BY <1>3 DEF DispatchInv, OneOpenRow, IsOpen, Writes
<1>5. ASSUME NEW f \in Engine,
             eng[f].pc \in PreSend \/ (eng[f].pc = "expiring" /\ lease.owner = f)
      PROVE  row'[eng[f].o] = row[eng[f].o]
  <2>1. eng[f].o \in Order
    BY <1>5 DEF DispatchInv, TypeOK, Worker, PreSend
  <2>2. posts[eng[f].o] = 0
    BY <1>5, <2>1 DEF DispatchInv, DispatcherInv, RowInv
  <2>q. QED
    BY <2>1, <2>2 DEF Writes
<1>q. QED
  BY <1>1, <1>2, <1>4, <1>5

\* A version of the broker's record, however old, is safe to apply.
LEMMA UpdateFrame ==
  ASSUME DispatchInv, NEW o \in Order, NEW s \in hist[o], UpdateOrder(o, s), UNCHANGED external
  PROVE  /\ row' \in [Order -> Row]
         /\ BrokerInv' /\ RowInv' /\ OneOpenRow'
         /\ \A f \in Engine :
               eng[f].pc \in PreSend \/ (eng[f].pc = "expiring" /\ lease.owner = f)
                  => row'[eng[f].o] = row[eng[f].o]
<1>1. /\ s \in Snapshot
      /\ s.st \in FINAL \cup Working
      /\ s.filled <= brk[o].filled
      /\ s.st \in FINAL => brk[o].st \in FINAL
      /\ req[o] = "accepted"
      /\ posts[o] = 1
  BY SeenVersion DEF DispatchInv
<1>2. row \in [Order -> Row] /\ row[o].definitive \in BOOLEAN
  BY DEF DispatchInv, TypeOK, Row
<1>3. CASE row' = row
  BY <1>2, <1>3, RecordsFrame DEF DispatchInv, TypeOK
<1>4. CASE ~Regressive(o, s) /\ Writes(o, s.st, "acknowledged", s.filled, row[o].definitive)
  <2>1. row[o].status \in FINAL => s.st \in FINAL
    BY <1>4 DEF Regressive
  <2>2. s.st # "absent"
    BY <1>1 DEF FINAL, Working
  <2>3. row[o].definitive => Answered(o)
    BY DEF DispatchInv, RowInv
  <2>4. s.st \in FINAL => brk[o].st \notin Working
    BY <1>1 DEF FINAL, Working
  <2>q. QED
    BY <1>1, <1>2, <1>4, <2>1, <2>2, <2>3, <2>4, LearnFrame DEF Writes
<1>q. QED
  BY <1>1, <1>2, <1>3, <1>4, UpdateOrderEffect

\* Recording a failed POST and applying what was learnt of an order.
LEMMA LearnStep ==
  ASSUME DispatchInv, NEW e \in Engine, RecordFailure(e) \/ Apply(e)
  PROVE  DispatchInv'
<1> DEFINE o == eng[e].o
<1>1. UNCHANGED <<lease, lock, due, faults>> /\ UNCHANGED external
  BY DEF RecordFailure, Apply
<1>2. /\ o \in Order
      /\ eng[e].definitive \in BOOLEAN
      /\ eng[e].phase \in 0..5
      /\ eng[e].definitive => Answered(o)
      /\ row \in [Order -> Row]
  BY DEF RecordFailure, Apply, At, DispatchInv, TypeOK, DispatcherInv, Worker
<1>3. CASE RecordFailure(e)
  <2>1. eng[e].pc = "recording" /\ posts[o] = 1
    BY <1>3 DEF RecordFailure, At, DispatchInv, DispatcherInv
  <2>2. Writes(o, row[o].status, "unknown", row[o].filled, eng[e].definitive)
    <3>1. row' = [row EXCEPT ![o].dispatch = "unknown", ![o].definitive = eng[e].definitive]
      BY <1>3 DEF RecordFailure
    <3>q. QED
      BY <1>2, <3>1 DEF Row, DispatchState, Writes
  <2>3. /\ row[o].status # "absent"
        /\ row[o].filled <= brk[o].filled
        /\ row[o].status \in FINAL => AmbiguousRejections \/ brk[o].st \notin Working
    BY <1>2, <2>1 DEF DispatchInv, RowInv
  <2>4. /\ BrokerInv' /\ RowInv' /\ OneOpenRow'
        /\ \A f \in Engine :
              eng[f].pc \in PreSend \/ (eng[f].pc = "expiring" /\ lease.owner = f)
                 => row'[eng[f].o] = row[eng[f].o]
    BY <1>1, <1>2, <2>1, <2>2, <2>3, LearnFrame
  <2>5. \/ Moves(e, "looking", o, Between, eng[e].snap, eng[e].definitive)
        \/ Rests(e, "loop", Between)
    <3>1. eng \in [Engine -> Worker] /\ Between \in 0..5
      BY DEF DispatchInv, TypeOK, Between
    <3>q. QED
      BY <1>3, <3>1, RecordedEffect, RestEffect DEF RecordFailure, AbortStep
  <2>6. TypeOK'
    BY <1>1, <1>2, <2>2, <2>5, NoOrderAssumption
       DEF DispatchInv, TypeOK, Moves, Rests, Writes, external
  <2>7. CASE Rests(e, "loop", Between)
    <3>1. OneDispatcher' /\ DispatcherInv' /\ EntryInv'
      BY <1>1, <2>4, <2>6, <2>7, RestFrame DEF Between
    <3>q. QED
      BY <2>4, <2>6, <3>1 DEF DispatchInv
  <2>8. CASE Moves(e, "looking", o, Between, eng[e].snap, eng[e].definitive)
    <3>1. OneDispatcher'
      BY <2>8 DEF DispatchInv, OneDispatcher, Moves, Sending, PreSend
    <3>2. DispatcherInv'
      BY <1>1, <1>2, <2>4, <2>8, NoOrderAssumption
         DEF DispatchInv, DispatcherInv, Moves, PreSend, Answered, external
    <3>3. EntryInv'
      BY <1>1, <2>8 DEF DispatchInv, EntryInv, Moves, external, Between, Entering
    <3>q. QED
      BY <2>4, <2>6, <3>1, <3>2, <3>3 DEF DispatchInv
  <2>q. QED
    BY <2>5, <2>7, <2>8
<1>4. CASE Apply(e)
  <2>1. eng[e].pc = "applying"
    BY <1>4 DEF Apply, At
  <2>2. Rests(e, "loop", eng[e].phase)
    BY <1>4, ContinueEffect DEF Apply, DispatchInv, TypeOK
  <2>3. /\ row' \in [Order -> Row]
        /\ BrokerInv' /\ RowInv' /\ OneOpenRow'
        /\ \A f \in Engine :
              eng[f].pc \in PreSend \/ (eng[f].pc = "expiring" /\ lease.owner = f)
                 => row'[eng[f].o] = row[eng[f].o]
    <3>1. CASE eng[e].snap # NoSnap
      <4>1. eng[e].snap \in hist[o]
        BY <2>1, <3>1 DEF DispatchInv, DispatcherInv
      <4>2. UpdateOrder(o, eng[e].snap)
        BY <1>4, <3>1 DEF Apply
      <4>q. QED
        BY <1>1, <1>2, <4>1, <4>2, UpdateFrame
    <3>2. CASE eng[e].snap = NoSnap /\ eng[e].definitive
      <4>1. Writes(o, "rejected", "broker_rejected", row[o].filled, row[o].definitive)
        BY <1>2, <1>4, <3>2, BrokerRejectedEffect DEF Apply
      <4>2. posts[o] = 1 /\ req[o] # "flying"
        BY <1>2, <3>2 DEF Answered
      <4>3. AmbiguousRejections \/ brk[o].st \notin Working
        BY <1>2, <3>2 DEF Answered, DispatchInv, BrokerInv, NoSnap, Working
      <4>4. row[o].definitive \in BOOLEAN /\ (row[o].definitive => Answered(o))
        BY <1>2 DEF DispatchInv, RowInv, Row
      <4>5. row[o].filled <= brk[o].filled /\ "rejected" \in FINAL
        BY <1>2 DEF DispatchInv, RowInv, FINAL
      <4>q. QED
        BY <1>1, <1>2, <4>1, <4>2, <4>3, <4>4, <4>5, LearnFrame DEF Writes
    <3>3. CASE eng[e].snap = NoSnap /\ ~eng[e].definitive
      BY <1>1, <1>2, <1>4, <3>3, RecordsFrame DEF Apply
    <3>q. QED
      BY <3>1, <3>2, <3>3
  <2>4. TypeOK'
    BY <1>1, <2>2, <2>3 DEF DispatchInv, TypeOK, Rests, Moves, external
  <2>5. OneDispatcher' /\ DispatcherInv' /\ EntryInv'
    BY <1>1, <1>2, <2>1, <2>2, <2>3, <2>4, RestFrame
  <2>q. QED
    BY <2>3, <2>4, <2>5 DEF DispatchInv
<1>q. QED
  BY <1>3, <1>4

\* A snapshot from the stream, between two steps.
LEMMA StreamStep ==
  ASSUME DispatchInv, NEW e \in Engine, NEW o \in Order, ConsumeUpdate(e, o)
  PROVE  DispatchInv'
<1>1. UNCHANGED <<lease, lock, due, eng, faults>> /\ UNCHANGED external
  BY DEF ConsumeUpdate
<1>2. PICK s \in hist[o] : UpdateOrder(o, s)
  BY DEF ConsumeUpdate
<1>3. /\ row' \in [Order -> Row]
      /\ BrokerInv' /\ RowInv' /\ OneOpenRow'
      /\ \A f \in Engine :
            eng[f].pc \in PreSend \/ (eng[f].pc = "expiring" /\ lease.owner = f)
               => row'[eng[f].o] = row[eng[f].o]
  BY <1>1, <1>2, UpdateFrame
<1>4. TypeOK'
  BY <1>1, <1>3 DEF DispatchInv, TypeOK, external
<1>5. OneDispatcher' /\ DispatcherInv' /\ EntryInv'
  BY <1>1, <1>3
     DEF DispatchInv, OneDispatcher, DispatcherInv, EntryInv, PreSend, Answered, external
<1>q. QED
  BY <1>3, <1>4, <1>5 DEF DispatchInv

\* An intent is expired by the owner of the lease only, who is its one user.
LEMMA ExpireIntentStep ==
  ASSUME DispatchInv, NEW e \in Engine, ExpireIntent(e)
  PROVE  DispatchInv'
<1> DEFINE o == eng[e].o
<1>1. UNCHANGED <<lease, lock, due, faults>> /\ UNCHANGED external
  BY DEF ExpireIntent
<1>2. eng[e].pc = "expiring" /\ o \in Order /\ eng[e].phase \in 0..5 /\ lease.owner = e
  BY DEF ExpireIntent, At, LeaseOk, LeaseHeld, DispatchInv, TypeOK, Worker
<1>3. row[o].dispatch = "intent" /\ posts[o] = 0
  BY <1>2 DEF DispatchInv, DispatcherInv, RowInv
<1>4. Writes(o, "expired", "expired_unsent", row[o].filled, row[o].definitive)
  BY <1>2, ExpireUnsentEffect DEF ExpireIntent, DispatchInv, TypeOK
<1>5. Rests(e, "loop", eng[e].phase)
  BY ContinueEffect DEF ExpireIntent, DispatchInv, TypeOK
<1>6. TypeOK'
  BY <1>1, <1>4, <1>5 DEF DispatchInv, TypeOK, Rests, Moves, Writes, external
<1>7. \A f \in Engine \ {e} :
          eng[f].pc \in PreSend \/ (eng[f].pc = "expiring" /\ lease.owner = f)
             => row'[eng[f].o] = row[eng[f].o]
  BY <1>2, <1>3, <1>4 DEF DispatchInv, TypeOK, DispatcherInv, Worker, Writes, PreSend
<1>8. OneDispatcher' /\ DispatcherInv' /\ EntryInv'
  BY <1>1, <1>2, <1>5, <1>6, <1>7, RestFrame
<1>9. BrokerInv'
  BY <1>1 DEF DispatchInv, BrokerInv, external
<1>10. RowInv'
  <2>1. req[o] = "none" /\ brk[o].st \notin Working
    BY <1>2, <1>3 DEF DispatchInv, BrokerInv, NoSnap, Working
  <2>q. QED
    BY <1>1, <1>2, <1>3, <1>4, <2>1 DEF DispatchInv, RowInv, Writes, Answered, external
<1>11. OneOpenRow'
  BY <1>2, <1>4 DEF DispatchInv, OneOpenRow, IsOpen, Writes, FINAL
<1>q. QED
  BY <1>6, <1>8, <1>9, <1>10, <1>11 DEF DispatchInv

\* A step that ends early leaves the records as they are.
LEMMA EndStep ==
  ASSUME DispatchInv, NEW e \in Engine, LeaseRefused(e) \/ StepRaises(e)
  PROVE  DispatchInv'
<1>1. UNCHANGED <<lease, row, due, external, faults>> /\ lock' \in {lock, NoEngine}
  BY DEF LeaseRefused, StepRaises, durable
<1>2. Rests(e, "loop", Between)
  BY RestEffect DEF LeaseRefused, StepRaises, AbortStep, DispatchInv, TypeOK
<1>3. TypeOK'
  BY <1>1, <1>2 DEF DispatchInv, TypeOK, Rests, Moves, external
<1>4. OneDispatcher' /\ DispatcherInv' /\ EntryInv'
  BY <1>1, <1>2, <1>3, RestFrame DEF Between
<1>5. BrokerInv' /\ RowInv' /\ OneOpenRow'
  BY <1>1, RecordsFrame
<1>q. QED
  BY <1>3, <1>4, <1>5 DEF DispatchInv

\* A cancel request marks the row of an order the broker knows.
LEMMA RequestCancelStep ==
  ASSUME DispatchInv, NEW e \in Engine, NEW o \in Order, RequestCancel(e, o)
  PROVE  DispatchInv'
<1>1. UNCHANGED <<lease, lock, due, faults>> /\ UNCHANGED external
  BY DEF RequestCancel
<1>2. eng[e].pc = "loop" /\ ~eng[e].definitive /\ IsOpen(o)
  BY DEF RequestCancel, InPhase, At, DispatchInv, TypeOK, DispatcherInv
<1>3. Moves(e, "canceling", o, eng[e].phase, eng[e].snap, eng[e].definitive)
  BY TakeUpEffect DEF RequestCancel, DispatchInv, TypeOK, Pc
<1>4. Writes(o, row[o].status, row[o].dispatch, row[o].filled, row[o].definitive)
  <2>1. row' = [row EXCEPT ![o].cancel = TRUE] /\ row \in [Order -> Row]
    BY DEF RequestCancel, DispatchInv, TypeOK
  <2>q. QED
    BY <2>1 DEF Row, Writes
<1>5. row[o].status # "absent"
  BY <1>2 DEF IsOpen
<1>6. TypeOK'
  BY <1>1, <1>3, <1>4, NoOrderAssumption DEF DispatchInv, TypeOK, Moves, Writes, external
<1>7. OneDispatcher'
  BY <1>2, <1>3 DEF DispatchInv, OneDispatcher, Moves, Sending, PreSend
<1>8. DispatcherInv'
  <2>1. \A p \in Order : row'[p].dispatch = row[p].dispatch /\ row'[p].status = row[p].status
    BY <1>4 DEF Writes
  <2>2. \A f \in Engine : eng[f].pc \in PreSend \cup {"expiring"} => eng[f].o \in Order
    BY DEF DispatchInv, TypeOK, Worker, PreSend
  <2>q. QED
    BY <1>1, <1>2, <1>3, <2>1, <2>2
       DEF DispatchInv, DispatcherInv, Moves, PreSend, Answered, external
<1>9. BrokerInv'
  BY <1>1 DEF DispatchInv, BrokerInv, external
<1>10. RowInv'
  BY <1>1, <1>4, <1>5 DEF DispatchInv, RowInv, Writes, Answered, external
<1>11. OneOpenRow'
  BY <1>4 DEF DispatchInv, OneOpenRow, IsOpen, Writes
<1>12. EntryInv'
  BY <1>1, <1>2, <1>3 DEF DispatchInv, EntryInv, Moves, external
<1>q. QED
  BY <1>6, <1>7, <1>8, <1>9, <1>10, <1>11, <1>12 DEF DispatchInv

\* A new version of the broker's record of an accepted, unfinished order.
LEMMA VersionFrame ==
  ASSUME DispatchInv, NEW o \in Order, NEW st \in FINAL \cup Working, NEW filled \in Nat,
         SetBroker(o, st, filled),
         UNCHANGED <<row, posts>>,
         req' \in [Order -> {"none", "flying", "accepted", "rejected", "lost"}],
         req[o] \in {"flying", "accepted"}, req'[o] = "accepted",
         \A p \in Order \ {o} : req'[p] = req[p],
         brk[o].st \notin FINAL, brk[o].filled <= filled,
         row[o].status \in FINAL => AmbiguousRejections
  PROVE  /\ brk' \in [Order -> Snapshot]
         /\ hist' \in [Order -> SUBSET Snapshot]
         /\ \A p \in Order : hist[p] \subseteq hist'[p]
         /\ \A p \in Order : Answered(p) => Answered(p)'
         /\ BrokerInv' /\ RowInv' /\ OneOpenRow'
<1> DEFINE s == [st |-> st, filled |-> filled, ver |-> brk[o].ver + 1]
<1>1. /\ s \in Snapshot
      /\ s.st = st /\ s.filled = filled
      /\ s # NoSnap
      /\ brk \in [Order -> Snapshot]
      /\ hist \in [Order -> SUBSET Snapshot]
  <2>1. brk[o].ver \in Nat /\ brk \in [Order -> Snapshot] /\ hist \in [Order -> SUBSET Snapshot]
    BY DEF DispatchInv, TypeOK, Snapshot
  <2>2. st # "none"
    BY DEF FINAL, Working
  <2>q. QED
    BY <2>1, <2>2 DEF Snapshot, NoSnap
<1>2. brk' = [brk EXCEPT ![o] = s] /\ hist' = [hist EXCEPT ![o] = hist[o] \cup {s}]
  BY DEF SetBroker
<1> HIDE DEF s
<1>3. /\ brk' \in [Order -> Snapshot]
      /\ hist' \in [Order -> SUBSET Snapshot]
      /\ brk'[o] = s
      /\ hist'[o] = hist[o] \cup {s}
      /\ \A p \in Order \ {o} : brk'[p] = brk[p] /\ hist'[p] = hist[p]
  BY <1>1, <1>2
<1>4. \A p \in Order : Answered(p) => Answered(p)'
  BY DEF Answered
<1>5. BrokerInv'
  <2>1. posts[o] <= 1 /\ posts[o] # 0
    BY DEF DispatchInv, BrokerInv
  <2>2. \A t \in hist[o] :
          /\ t.st \in FINAL \cup Working
          /\ t.filled <= filled
          /\ t.st \notin FINAL
    <3>1. ASSUME NEW t \in hist[o] PROVE t.filled <= filled
      <4>1. t.filled \in Nat /\ brk[o].filled \in Nat /\ t.filled <= brk[o].filled
        BY <1>1 DEF Snapshot, DispatchInv, BrokerInv
      <4>q. QED
        BY <4>1
    <3>q. QED
      BY <3>1 DEF DispatchInv, BrokerInv
  <2>3. ASSUME NEW p \in Order
        PROVE  /\ posts'[p] <= 1
               /\ posts'[p] = 0 <=> req'[p] = "none"
               /\ req'[p] # "accepted" => hist'[p] = {}
               /\ brk'[p] = NoSnap <=> hist'[p] = {}
               /\ brk'[p] # NoSnap => brk'[p] \in hist'[p]
               /\ \A t \in hist'[p] :
                     /\ t.st \in FINAL \cup Working
                     /\ t.filled <= brk'[p].filled
                     /\ t.st \in FINAL => brk'[p].st \in FINAL
    <3>1. CASE p = o
      BY <1>1, <1>3, <2>1, <2>2, <3>1
    <3>2. CASE p # o
      BY <1>3, <3>2 DEF DispatchInv, BrokerInv
    <3>q. QED
      BY <3>1, <3>2
  <2>q. QED
    BY <2>3 DEF BrokerInv
<1>6. RowInv'
  <2>1. row[o].filled <= filled
    <3>1. row[o].filled \in Nat /\ brk[o].filled \in Nat /\ row[o].filled <= brk[o].filled
      BY <1>1 DEF DispatchInv, TypeOK, RowInv, Row, Snapshot
    <3>q. QED
      BY <3>1
  <2>q. QED
    BY <1>1, <1>3, <1>4, <2>1 DEF DispatchInv, RowInv
<1>7. OneOpenRow'
  BY DEF DispatchInv, OneOpenRow, IsOpen
<1>q. QED
  BY <1>3, <1>4, <1>5, <1>6, <1>7

\* A record the broker still works belongs to an accepted order.
LEMMA LiveRecord ==
  ASSUME DispatchInv, NEW o \in Order, brk[o].st \in Working
  PROVE  /\ req[o] = "accepted"
         /\ brk[o].st \notin FINAL
         /\ brk[o].filled \in Nat
         /\ row[o].status \in FINAL => AmbiguousRejections
<1>1. brk[o] # NoSnap
  BY DEF NoSnap, Working
<1>2. brk[o].st \notin FINAL
  BY DEF FINAL, Working
<1>q. QED
  BY <1>1, <1>2 DEF DispatchInv, TypeOK, BrokerInv, RowInv, Snapshot

\* What the network and the broker do on their own.
LEMMA BrokerStep ==
  ASSUME DispatchInv, NEW o \in Order,
         \/ BrokerAccepts(o) \/ RequestFails(o)
         \/ BrokerFills(o) \/ BrokerCancels(o) \/ BrokerEnds(o)
  PROVE  DispatchInv'
<1>1. UNCHANGED <<lease, lock, row, due, eng, posts, faults>>
  BY DEF BrokerAccepts, RequestFails, BrokerFills, BrokerCancels, BrokerEnds, durable
<1>2. \A p \in Order : req'[p] = "flying" => req[p] = "flying"
  BY DEF BrokerAccepts, RequestFails, BrokerFills, BrokerCancels, BrokerEnds, DispatchInv, TypeOK
<1>3. EntryInv'
  BY <1>1, <1>2 DEF DispatchInv, EntryInv
<1>4. OneDispatcher'
  BY <1>1 DEF DispatchInv, OneDispatcher
<1>5. CASE RequestFails(o)
  <2>1. /\ req' \in [Order -> {"none", "flying", "accepted", "rejected", "lost"}]
        /\ UNCHANGED <<brk, hist>>
        /\ req[o] = "flying"
        /\ req'[o] \in {"rejected", "lost"}
        /\ \A p \in Order \ {o} : req'[p] = req[p]
    BY <1>5 DEF RequestFails, DispatchInv, TypeOK
  <2>2. TypeOK'
    BY <1>1, <2>1 DEF DispatchInv, TypeOK
  <2>3. \A p \in Order : Answered(p) => Answered(p)'
    BY <1>1, <2>1 DEF Answered
  <2>4. \A e \in Engine : eng[e].definitive => eng[e].o \in Order
    BY DEF DispatchInv, TypeOK, DispatcherInv, Worker
  <2>5. DispatcherInv'
    BY <1>1, <2>1, <2>3, <2>4 DEF DispatchInv, DispatcherInv
  <2>6. BrokerInv'
    BY <1>1, <2>1 DEF DispatchInv, BrokerInv
  <2>7. RowInv' /\ OneOpenRow'
    BY <1>1, <2>1, <2>3 DEF DispatchInv, RowInv, OneOpenRow, IsOpen
  <2>q. QED
    BY <1>3, <1>4, <2>2, <2>5, <2>6, <2>7 DEF DispatchInv
<1>6. ASSUME NEW st \in FINAL \cup Working, NEW filled \in Nat,
             SetBroker(o, st, filled),
             req' \in [Order -> {"none", "flying", "accepted", "rejected", "lost"}],
             req[o] \in {"flying", "accepted"}, req'[o] = "accepted",
             \A p \in Order \ {o} : req'[p] = req[p],
             brk[o].st \notin FINAL, brk[o].filled <= filled,
             row[o].status \in FINAL => AmbiguousRejections
      PROVE  DispatchInv'
  <2>1. /\ brk' \in [Order -> Snapshot]
        /\ hist' \in [Order -> SUBSET Snapshot]
        /\ \A p \in Order : hist[p] \subseteq hist'[p]
        /\ \A p \in Order : Answered(p) => Answered(p)'
        /\ BrokerInv' /\ RowInv' /\ OneOpenRow'
    BY <1>1, <1>6, VersionFrame
  <2>2. TypeOK'
    BY <1>1, <1>6, <2>1 DEF DispatchInv, TypeOK
  <2>3. \A e \in Engine : eng[e].pc = "applying" => eng[e].o \in Order
    BY DEF DispatchInv, TypeOK, Worker
  <2>4. \A e \in Engine : eng[e].definitive => eng[e].o \in Order
    BY DEF DispatchInv, TypeOK, DispatcherInv, Worker
  <2>5. DispatcherInv'
    BY <1>1, <2>1, <2>3, <2>4 DEF DispatchInv, DispatcherInv
  <2>q. QED
    BY <1>3, <1>4, <2>1, <2>2, <2>5 DEF DispatchInv
<1>7. {"new", "partially_filled", "pending_cancel"} \subseteq Working
      /\ {"filled", "canceled", "expired", "rejected"} \subseteq FINAL
  BY DEF Working, FINAL
<1>8. CASE BrokerAccepts(o)
  <2>1. req[o] = "flying" /\ req' = [req EXCEPT ![o] = "accepted"] /\ SetBroker(o, "new", brk[o].filled)
    BY <1>8 DEF BrokerAccepts
  <2>2. /\ req' \in [Order -> {"none", "flying", "accepted", "rejected", "lost"}]
        /\ req'[o] = "accepted"
        /\ \A p \in Order \ {o} : req'[p] = req[p]
    BY <2>1 DEF DispatchInv, TypeOK
  <2>3. brk[o] = NoSnap /\ row[o].status \notin FINAL
    BY <2>1 DEF DispatchInv, BrokerInv, RowInv, FINAL
  <2>4. brk[o].st \notin FINAL /\ brk[o].filled \in Nat
    BY <2>3 DEF NoSnap, FINAL
  <2>q. QED
    BY <1>6, <1>7, <2>1, <2>2, <2>3, <2>4
<1>9. CASE BrokerFills(o) \/ BrokerCancels(o) \/ BrokerEnds(o)
  <2>1. brk[o].st \in Working /\ req' = req
    BY <1>7, <1>9 DEF BrokerFills, BrokerCancels, BrokerEnds, BrokerLive
  <2>2. /\ req[o] = "accepted"
        /\ brk[o].st \notin FINAL
        /\ brk[o].filled \in Nat
        /\ row[o].status \in FINAL => AmbiguousRejections
    BY <2>1, LiveRecord
  <2>3. PICK st \in FINAL \cup Working, filled \in Nat :
          SetBroker(o, st, filled) /\ brk[o].filled <= filled
    <3>1. CASE BrokerFills(o)
      <4>1. PICK q \in (brk[o].filled + 1)..row[o].qty :
              SetBroker(o, IF q = row[o].qty THEN "filled"
                           ELSE IF brk[o].st = "pending_cancel" THEN "pending_cancel"
                           ELSE "partially_filled", q)
        BY <3>1 DEF BrokerFills
      <4>2. q \in Nat /\ brk[o].filled <= q
        BY <2>2 DEF DispatchInv, TypeOK, Row
      <4>q. QED
        BY <1>7, <4>1, <4>2
    <3>2. CASE BrokerCancels(o) \/ BrokerEnds(o)
      BY <1>7, <2>2, <3>2 DEF BrokerCancels, BrokerEnds
    <3>q. QED
      BY <1>9, <3>1, <3>2
  <2>4. req' \in [Order -> {"none", "flying", "accepted", "rejected", "lost"}]
    BY <2>1 DEF DispatchInv, TypeOK
  <2>q. QED
    BY <1>6, <2>1, <2>2, <2>3, <2>4
<1>q. QED
  BY <1>5, <1>8, <1>9

\* The cancel request reaches the broker, or finds the order already finished.
LEMMA SendCancelStep ==
  ASSUME DispatchInv, NEW e \in Engine, SendCancel(e)
  PROVE  DispatchInv'
<1> DEFINE o == eng[e].o
<1>1. UNCHANGED <<lease, lock, row, due, req, posts, faults>>
  BY DEF SendCancel, durable
<1>2. eng[e].pc = "canceling" /\ o \in Order
  BY DEF SendCancel, At, DispatchInv, TypeOK, Worker
<1>3. \/ Moves(e, "looking", o, eng[e].phase, eng[e].snap, eng[e].definitive)
      \/ Rests(e, "loop", Between)
  <2>1. eng \in [Engine -> Worker] /\ "looking" \in Pc
    BY DEF DispatchInv, TypeOK, Pc
  <2>q. QED
    BY <2>1, GotoEffect, RestEffect DEF SendCancel, AbortStep
<1>4. /\ brk' \in [Order -> Snapshot]
      /\ hist' \in [Order -> SUBSET Snapshot]
      /\ \A p \in Order : hist[p] \subseteq hist'[p]
      /\ BrokerInv' /\ RowInv' /\ OneOpenRow'
  <2>1. CASE brk[o].st \in {"new", "partially_filled"}
    <3>1. SetBroker(o, "pending_cancel", brk[o].filled)
      BY <2>1 DEF SendCancel
    <3>2. brk[o].st \in Working /\ "pending_cancel" \in FINAL \cup Working
      BY <2>1 DEF Working
    <3>3. /\ req[o] = "accepted"
          /\ brk[o].st \notin FINAL
          /\ brk[o].filled \in Nat
          /\ row[o].status \in FINAL => AmbiguousRejections
      BY <1>2, <3>2, LiveRecord
    <3>4. req' \in [Order -> {"none", "flying", "accepted", "rejected", "lost"}]
      BY <1>1 DEF DispatchInv, TypeOK
    <3>q. QED
      BY <1>1, <1>2, <3>1, <3>2, <3>3, <3>4, VersionFrame
  <2>2. CASE brk[o].st \notin {"new", "partially_filled"}
    <3>1. UNCHANGED <<brk, hist>>
      BY <2>2 DEF SendCancel
    <3>q. QED
      BY <1>1, <3>1, RecordsFrame DEF DispatchInv, TypeOK, external
  <2>q. QED
    BY <2>1, <2>2
<1>5. TypeOK'
  BY <1>1, <1>2, <1>3, <1>4, NoOrderAssumption DEF DispatchInv, TypeOK, Moves, Rests
<1>6. OneDispatcher'
  BY <1>3 DEF DispatchInv, OneDispatcher, Moves, Rests, Sending, PreSend
<1>7. DispatcherInv'
  <2>1. \A f \in Engine : eng[f].pc = "applying" => eng[f].o \in Order
    BY DEF DispatchInv, TypeOK, Worker
  <2>2. \A f \in Engine \ {e} :
            eng[f].pc = "applying" /\ eng[f].snap # NoSnap => eng[f].snap \in hist'[eng[f].o]
    BY <1>4, <2>1 DEF DispatchInv, DispatcherInv
  <2>q. QED
    BY <1>1, <1>2, <1>3, <2>2 DEF DispatchInv, DispatcherInv, Moves, Rests, PreSend, Answered
<1>8. EntryInv'
  BY <1>1, <1>2, <1>3 DEF DispatchInv, EntryInv, Moves, Rests, Between, Entering
<1>q. QED
  BY <1>4, <1>5, <1>6, <1>7, <1>8 DEF DispatchInv

\* DispatchInv is inductive.
LEMMA NextInv == DispatchInv /\ [Next]_vars => DispatchInv'
<1> SUFFICES ASSUME DispatchInv, [Next]_vars
             PROVE  DispatchInv'
  OBVIOUS
<1>1. ASSUME NEW e \in Engine, EngineStep(e)
      PROVE  DispatchInv'
  BY <1>1, LeaseStep, DispatchStep, PostStep, LookStep, LearnStep, ExpireIntentStep,
     SendCancelStep, EndStep DEF EngineStep
<1>2. ASSUME NEW e \in Engine, NEW o \in Order, OrderStep(e, o)
      PROVE  DispatchInv'
  BY <1>2, ReserveStep, LookStep, RequestCancelStep, StreamStep DEF OrderStep
<1>3. CASE DeadOwnerAges \/ HeartbeatIsLate
  <2>1. lease.owner \in Engine
    BY <1>3 DEF DeadOwnerAges, HeartbeatIsLate, DispatchInv, TypeOK
  <2>q. QED
    BY <1>3, <2>1, LeaseStep
<1>4. ASSUME NEW o \in Order, TtlElapses(o)
      PROVE  DispatchInv'
  <2>1. UNCHANGED <<lease, lock, row, eng, faults>> /\ UNCHANGED external /\ due' \subseteq Entry
    BY <1>4 DEF TtlElapses, DispatchInv, TypeOK
  <2>2. BrokerInv' /\ RowInv' /\ OneOpenRow'
    BY <2>1, RecordsFrame
  <2>3. TypeOK' /\ OneDispatcher' /\ DispatcherInv' /\ EntryInv'
    BY <2>1 DEF DispatchInv, TypeOK, OneDispatcher, DispatcherInv, EntryInv, Answered, external
  <2>q. QED
    BY <2>2, <2>3 DEF DispatchInv
<1>5. CASE \E o \in Order : \/ BrokerAccepts(o) \/ RequestFails(o)
                            \/ BrokerFills(o) \/ BrokerCancels(o) \/ BrokerEnds(o)
  BY <1>5, BrokerStep
<1>6. CASE UNCHANGED vars
  <2>1. UNCHANGED <<lease, lock, row, due, eng, faults>> /\ UNCHANGED external
    BY <1>6 DEF vars, external
  <2>2. BrokerInv' /\ RowInv' /\ OneOpenRow'
    BY <2>1, RecordsFrame
  <2>3. TypeOK' /\ OneDispatcher' /\ DispatcherInv' /\ EntryInv'
    BY <2>1 DEF DispatchInv, TypeOK, OneDispatcher, DispatcherInv, EntryInv, Answered, external
  <2>q. QED
    BY <2>2, <2>3 DEF DispatchInv
<1>q. QED
  BY <1>1, <1>2, <1>3, <1>4, <1>5, <1>6 DEF Next, Environment

-----------------------------------------------------------------------------
(* The theorems *)

\* The invariant holds in every reachable state.
THEOREM DispatchInvariant == Spec => []DispatchInv
<1>q. QED
  BY InitInv, NextInv, PTL DEF Spec

\* Every variable keeps its type: no order in hand while a worker is idle, no
\* unknown status in a row.
THEOREM TypeCorrect == Spec => []TypeOK
<1>1. DispatchInv => TypeOK
  BY DEF DispatchInv
<1>q. QED
  BY <1>1, DispatchInvariant, PTL

\* A client order id is POSTed at most once, however often workers crash, are
\* restarted and hand the lease over: _dispatch_reserved only sends an intent.
THEOREM OrdersSubmittedOnce == Spec => []SubmittedOnce
<1>1. DispatchInv => SubmittedOnce
  BY DEF DispatchInv, BrokerInv, SubmittedOnce
<1>q. QED
  BY <1>1, DispatchInvariant, PTL

\* _expire_unsent, which writes without looking at the row, never closes an
\* order that was POSTed.
THEOREM UnsentIsUnsent == Spec => []UnsentNeverReachedBroker
<1>1. DispatchInv => UnsentNeverReachedBroker
  BY DEF DispatchInv, RowInv, UnsentNeverReachedBroker
<1>q. QED
  BY <1>1, DispatchInvariant, PTL

\* With rejections that mean what they say, an order closed in the database
\* is closed at the broker.
THEOREM ClosedIsClosed == ~AmbiguousRejections => (Spec => []FinalMeansFinal)
<1> SUFFICES ASSUME ~AmbiguousRejections PROVE Spec => []FinalMeansFinal
  OBVIOUS
<1>1. DispatchInv => FinalMeansFinal
  BY DEF DispatchInv, RowInv, FinalMeansFinal, AtBroker, BrokerLive, FINAL
<1>q. QED
  BY <1>1, DispatchInvariant, PTL

\* With rejections that mean what they say, an order at the broker has an open
\* row, so _reserve_order keeps a second one of the symbol from being sent.
THEOREM OneAtBroker == ~AmbiguousRejections => (Spec => []OneOrderAtBroker)
<1> SUFFICES ASSUME ~AmbiguousRejections PROVE Spec => []OneOrderAtBroker
  OBVIOUS
<1>1. DispatchInv => OneOrderAtBroker
  <2> SUFFICES ASSUME DispatchInv PROVE OneOrderAtBroker
    OBVIOUS
  <2>1. ASSUME NEW o \in Order, AtBroker(o) PROVE IsOpen(o)
    <3>1. CASE req[o] = "flying"
      BY <3>1 DEF DispatchInv, RowInv, IsOpen, FINAL
    <3>2. CASE brk[o].st \in Working
      <4>1. req[o] = "accepted"
        BY <3>2, LiveRecord
      <4>2. row[o].status # "absent"
        BY <4>1 DEF DispatchInv, BrokerInv, RowInv
      <4>q. QED
        BY <3>2, <4>2 DEF DispatchInv, RowInv, IsOpen
    <3>q. QED
      BY <2>1, <3>1, <3>2 DEF AtBroker, BrokerLive
  <2>q. QED
    BY <2>1 DEF DispatchInv, OneOpenRow, OneOrderAtBroker
<1>q. QED
  BY <1>1, DispatchInvariant, PTL

\* No entry is POSTed for any symbol while another POST is unanswered: what
\* the gate of step() saw still holds when the POST leaves.
THEOREM EntriesAwaitAnswers == Spec => NoEntryIntoUnknown
<1>1. DispatchInv /\ [Next]_vars =>
        [\A o \in Entry : posts'[o] # posts[o] => \A p \in Order \ {o} : req[p] # "flying"]_vars
  <2> SUFFICES ASSUME DispatchInv, Next, NEW o \in Entry, posts'[o] # posts[o]
               PROVE  \A p \in Order \ {o} : req[p] # "flying"
    OBVIOUS
  <2>1. ~ UNCHANGED posts
    OBVIOUS
  <2>2. PICK e \in Engine : Post(e)
    <3>1. ASSUME NEW e \in Engine, EngineStep(e), ~Post(e) PROVE UNCHANGED posts
      BY <3>1 DEF EngineStep, Start, Acquire, Heartbeat, StopOwner, StopAfterLoss, Crash, BeginStep,
                  NextPhase, StartDispatch, Fence, FenceRejects, FenceRaises, ExpireAfterFailure,
                  PostAcknowledged, PostFails, RecordFailure, LookUp, LookUpFails, Apply,
                  ExpireIntent, SendCancel, LeaseRefused, StepRaises, external
    <3>2. ASSUME NEW e \in Engine, NEW p \in Order, OrderStep(e, p) PROVE UNCHANGED posts
      BY <3>2 DEF OrderStep, ReserveEntry, ReserveExperiment, ReserveExit, Reserve, ReconcileOrder,
                  FindIntent, RequestCancel, ConsumeUpdate, external
    <3>3. ASSUME Environment PROVE UNCHANGED posts
      BY <3>3 DEF Environment, DeadOwnerAges, HeartbeatIsLate, Ages, TtlElapses, BrokerAccepts,
                  RequestFails, BrokerFills, BrokerCancels, BrokerEnds, external
    <3>q. QED
      BY <2>1, <3>1, <3>2, <3>3 DEF Next
  <2>3. /\ eng[e].pc = "armed"
        /\ lease.owner = e
        /\ posts' = [posts EXCEPT ![eng[e].o] = posts[eng[e].o] + 1]
    BY <2>2 DEF Post, At, LeaseHeld
  <2>4. eng[e].o = o
    BY <2>3, EntryAssumption DEF DispatchInv, TypeOK
  <2>q. QED
    BY <2>3, <2>4 DEF DispatchInv, EntryInv
<1>q. QED
  BY <1>1, DispatchInvariant, PTL DEF Spec, NoEntryIntoUnknown

\* A write that keeps the fills and does not reopen a final order.
LEMMA WriteStands ==
  ASSUME row \in [Order -> Row], NEW o \in Order, NEW status, NEW dispatch, NEW filled \in Nat,
         NEW definitive,
         Writes(o, status, dispatch, filled, definitive),
         filled >= row[o].filled, row[o].status \in FINAL => status \in FINAL
  PROVE  \A p \in Order : /\ row'[p].filled >= row[p].filled
                          /\ row[p].status \in FINAL => row'[p].status \in FINAL
  BY DEF Row, Writes

\* A snapshot of an order, whatever its version, is either dropped or keeps both.
LEMMA UpdateStands ==
  ASSUME DispatchInv, NEW o \in Order, NEW s \in hist[o], UpdateOrder(o, s)
  PROVE  \A p \in Order : /\ row'[p].filled >= row[p].filled
                          /\ row[p].status \in FINAL => row'[p].status \in FINAL
<1>1. s \in Snapshot /\ s.st \in FINAL \cup Working /\ row \in [Order -> Row]
  BY SeenVersion DEF DispatchInv, TypeOK
<1>2. CASE row' = row
  BY <1>1, <1>2 DEF Row
<1>3. CASE ~Regressive(o, s) /\ Writes(o, s.st, "acknowledged", s.filled, row[o].definitive)
  <2>1. s.filled \in Nat /\ row[o].filled \in Nat
    BY <1>1 DEF Snapshot, Row
  <2>2. s.filled >= row[o].filled /\ (row[o].status \in FINAL => s.st \in FINAL)
    BY <1>3, <2>1 DEF Regressive
  <2>q. QED
    BY <1>1, <1>3, <2>1, <2>2, WriteStands
<1>q. QED
  BY <1>1, <1>2, <1>3, UpdateOrderEffect

\* Recorded fills never shrink and a final order stays final: _update_order
\* drops stale snapshots, and every other write leaves the fills alone.
THEOREM OutcomesNeverRegress == Spec => OutcomesStand
<1> DEFINE Stands == \A o \in Order : /\ row'[o].filled >= row[o].filled
                                      /\ row[o].status \in FINAL => row'[o].status \in FINAL
<1>1. DispatchInv /\ [Next]_vars => [Stands]_vars
  <2> SUFFICES ASSUME DispatchInv, Next PROVE Stands
    OBVIOUS
  <2>1. row \in [Order -> Row] /\ \A o \in Order : row[o].filled \in Nat
    BY DEF DispatchInv, TypeOK, Row
  <2>2. CASE row' = row
    BY <2>1, <2>2
  <2>3. ASSUME NEW e \in Engine, StartDispatch(e) PROVE Stands
    <3>1. CASE row[eng[e].o].dispatch = "intent"
      <4>1. eng[e].o \in Order
        BY <2>3 DEF StartDispatch, At, DispatchInv, TypeOK, Worker
      <4>2. row[eng[e].o].status \notin FINAL
        BY <3>1, <4>1 DEF DispatchInv, RowInv, FINAL
      <4>3. row' = [row EXCEPT ![eng[e].o].dispatch = "dispatching",
                               ![eng[e].o].status = "reconciliation_required"]
        BY <2>3, <3>1 DEF StartDispatch
      <4>4. Writes(eng[e].o, "reconciliation_required", "dispatching", row[eng[e].o].filled,
                   row[eng[e].o].definitive)
        BY <2>1, <4>1, <4>3 DEF Row, Status, DispatchState, Writes
      <4>q. QED
        BY <2>1, <4>1, <4>2, <4>4, WriteStands
    <3>q. QED
      BY <2>2, <2>3, <3>1 DEF StartDispatch
  <2>4. ASSUME NEW e \in Engine, FenceRejects(e) \/ ExpireAfterFailure(e) \/ ExpireIntent(e)
        PROVE  Stands
    <3>1. eng[e].o \in Order
      BY <2>4 DEF FenceRejects, ExpireAfterFailure, ExpireIntent, At, DispatchInv, TypeOK, Worker
    <3>2. Writes(eng[e].o, "expired", "expired_unsent", row[eng[e].o].filled,
                 row[eng[e].o].definitive)
      BY <2>1, <2>4, <3>1, ExpireUnsentEffect DEF FenceRejects, ExpireAfterFailure, ExpireIntent
    <3>3. "expired" \in FINAL
      BY DEF FINAL
    <3>q. QED
      BY <2>1, <3>1, <3>2, <3>3, WriteStands
  <2>5. ASSUME NEW e \in Engine, RecordFailure(e) PROVE Stands
    <3>1. eng[e].o \in Order
      BY <2>5 DEF RecordFailure, At, DispatchInv, TypeOK, Worker
    <3>2. row' = [row EXCEPT ![eng[e].o].dispatch = "unknown",
                             ![eng[e].o].definitive = eng[e].definitive]
      BY <2>5 DEF RecordFailure
    <3>q. QED
      BY <2>1, <3>1, <3>2 DEF Row
  <2>6. ASSUME NEW e \in Engine, Apply(e) PROVE Stands
    <3>1. eng[e].pc = "applying" /\ eng[e].o \in Order
      BY <2>6 DEF Apply, At, DispatchInv, TypeOK, Worker
    <3>2. CASE eng[e].snap # NoSnap
      <4>1. eng[e].snap \in hist[eng[e].o]
        BY <3>1, <3>2 DEF DispatchInv, DispatcherInv
      <4>q. QED
        BY <2>6, <3>1, <3>2, <4>1, UpdateStands DEF Apply
    <3>3. CASE eng[e].snap = NoSnap /\ eng[e].definitive
      <4>1. Writes(eng[e].o, "rejected", "broker_rejected", row[eng[e].o].filled,
                   row[eng[e].o].definitive)
        BY <2>1, <2>6, <3>1, <3>3, BrokerRejectedEffect DEF Apply
      <4>2. "rejected" \in FINAL
        BY DEF FINAL
      <4>q. QED
        BY <2>1, <3>1, <4>1, <4>2, WriteStands
    <3>4. CASE eng[e].snap = NoSnap /\ ~eng[e].definitive
      BY <2>2, <2>6, <3>4 DEF Apply
    <3>q. QED
      BY <3>2, <3>3, <3>4
  <2>7. ASSUME NEW e \in Engine, NEW o \in Order,
               ReserveEntry(e, o) \/ ReserveExperiment(e, o) \/ ReserveExit(e, o)
        PROVE  Stands
    <3>1. PICK q : Reserve(e, o, q)
      BY <2>7 DEF ReserveEntry, ReserveExperiment, ReserveExit
    <3>2. row[o] = NoRow
      BY <3>1 DEF Reserve, DispatchInv, RowInv
    <3>3. row' = [row EXCEPT ![o] = [NoRow EXCEPT !.status = "approved", !.dispatch = "intent",
                                                  !.qty = q]]
      BY <3>1 DEF Reserve
    <3>q. QED
      BY <2>1, <3>2, <3>3 DEF NoRow, FINAL
  <2>8. ASSUME NEW e \in Engine, NEW o \in Order, RequestCancel(e, o) PROVE Stands
    <3>1. row' = [row EXCEPT ![o].cancel = TRUE]
      BY <2>8 DEF RequestCancel
    <3>q. QED
      BY <2>1, <3>1 DEF Row
  <2>9. ASSUME NEW e \in Engine, NEW o \in Order, ConsumeUpdate(e, o) PROVE Stands
    <3>1. PICK s \in hist[o] : UpdateOrder(o, s)
      BY <2>9 DEF ConsumeUpdate
    <3>q. QED
      BY <3>1, UpdateStands
  <2>10. ASSUME NEW e \in Engine, EngineStep(e) PROVE Stands
    <3>1. CASE \/ StartDispatch(e) \/ FenceRejects(e) \/ ExpireAfterFailure(e) \/ ExpireIntent(e)
               \/ RecordFailure(e) \/ Apply(e)
      BY <2>3, <2>4, <2>5, <2>6, <3>1
    <3>2. CASE ~(\/ StartDispatch(e) \/ FenceRejects(e) \/ ExpireAfterFailure(e)
                 \/ ExpireIntent(e) \/ RecordFailure(e) \/ Apply(e))
      <4>1. row' = row
        BY <2>10, <3>2
           DEF EngineStep, Start, Acquire, Heartbeat, StopOwner, StopAfterLoss, Crash, BeginStep,
               NextPhase, Fence, FenceRaises, Post, PostAcknowledged, PostFails, LookUp,
               LookUpFails, SendCancel, LeaseRefused, StepRaises, durable
      <4>q. QED
        BY <2>2, <4>1
    <3>q. QED
      BY <3>1, <3>2
  <2>11. ASSUME NEW e \in Engine, NEW o \in Order, OrderStep(e, o) PROVE Stands
    <3>1. CASE ReconcileOrder(e, o) \/ FindIntent(e, o)
      BY <2>2, <3>1 DEF ReconcileOrder, FindIntent, durable
    <3>q. QED
      BY <2>7, <2>8, <2>9, <2>11, <3>1 DEF OrderStep
  <2>12. ASSUME Environment PROVE Stands
    <3>1. row' = row
      BY <2>12 DEF Environment, DeadOwnerAges, HeartbeatIsLate, Ages, TtlElapses, BrokerAccepts,
                   RequestFails, BrokerFills, BrokerCancels, BrokerEnds, durable
    <3>q. QED
      BY <2>2, <3>1
  <2>q. QED
    BY <2>10, <2>11, <2>12 DEF Next
<1>q. QED
  BY <1>1, DispatchInvariant, PTL DEF Spec, OutcomesStand

-----------------------------------------------------------------------------
(* No oversell *)

\* A sell whose fence was passed, up to the broker's answer.
Committed(o) == req[o] = "flying" \/ \E e \in Engine : eng[e].pc = "armed" /\ eng[e].o = o

\* What an order may yet have filled.
Cap(o) == IF Committed(o) \/ BrokerLive(o) THEN row[o].qty ELSE brk[o].filled

Exits(sym) == OrdersOf(sym) \ Entry
Entries(sym) == OrdersOf(sym) \cap Entry
Caps(sym) == [o \in Exits(sym) |-> Cap(o)]

\* The sells of a symbol that filled, or may fill, are covered by its buys.
Covered(sym) == SumOf(Caps(sym), Exits(sym)) <= FilledSum(brk, Entries(sym))

SellInv ==
    /\ \A o \in Order : brk[o].filled <= row[o].qty
    /\ \A o \in Order : Covered(SymbolOf[o])

LEMMA SymbolSets ==
  ASSUME NEW sym
  PROVE  /\ IsFiniteSet(Exits(sym)) /\ IsFiniteSet(Entries(sym))
         /\ Exits(sym) \subseteq Order /\ Entries(sym) \subseteq Order
BY OrderAssumption, FS_Subset DEF Exits, Entries, OrdersOf

LEMMA Quantities ==
  ASSUME TypeOK, NEW o \in Order
  PROVE  /\ brk[o].filled \in Nat /\ row[o].qty \in Nat
         /\ Cap(o) \in Int
BY DEF TypeOK, Snapshot, Row, Cap

LEMMA QuantitiesNext ==
  ASSUME TypeOK', NEW o \in Order
  PROVE  /\ brk'[o].filled \in Nat /\ row'[o].qty \in Nat
         /\ Cap(o)' \in Int
BY DEF TypeOK, Snapshot, Row, Cap

\* No cap grows and no fill shrinks: the sells stay covered.
LEMMA CoveredStep ==
  ASSUME TypeOK, TypeOK', NEW sym, Covered(sym),
         \A o \in Order : brk'[o].filled >= brk[o].filled,
         \A o \in Exits(sym) : Cap(o)' <= Cap(o)
  PROVE  Covered(sym)'
<1>1. /\ IsFiniteSet(Exits(sym)) /\ IsFiniteSet(Entries(sym))
      /\ Exits(sym) \subseteq Order /\ Entries(sym) \subseteq Order
  BY SymbolSets
<1>2. ASSUME NEW o \in Exits(sym)
      PROVE  Caps(sym)[o] \in Int /\ Caps(sym)'[o] \in Int /\ Caps(sym)'[o] <= Caps(sym)[o]
  <2>1. Caps(sym)[o] = Cap(o) /\ Caps(sym)'[o] = Cap(o)'
    BY DEF Caps
  <2>2. o \in Order /\ Cap(o) \in Int /\ Cap(o)' \in Int
    BY <1>1, Quantities, QuantitiesNext
  <2> QED  BY <2>1, <2>2
<1>3. SumOf(Caps(sym)', Exits(sym)) <= SumOf(Caps(sym), Exits(sym))
  BY <1>1, <1>2, GrowingSum
<1>4. SumOf(Caps(sym)', Exits(sym)) \in Int /\ SumOf(Caps(sym), Exits(sym)) \in Int
  BY <1>1, <1>2, SumOfInts
<1>5. \A o \in Entries(sym) : brk[o].filled \in Int /\ brk'[o].filled \in Int /\ brk[o].filled <= brk'[o].filled
  BY <1>1, Quantities, QuantitiesNext
<1>6. FilledSum(brk, Entries(sym)) <= FilledSum(brk', Entries(sym))
  BY <1>1, <1>5, SumGrows
<1>7. FilledSum(brk, Entries(sym)) \in Int /\ FilledSum(brk', Entries(sym)) \in Int
  BY <1>1, <1>5, SumInt
<1>8. Covered(sym)' <=> SumOf(Caps(sym)', Exits(sym)) <= FilledSum(brk', Entries(sym))
  BY DEF Covered, Exits, Entries, OrdersOf
<1> QED  BY <1>3, <1>4, <1>6, <1>7, <1>8 DEF Covered

\* A step that commits no sell of its own: what an order may yet have filled
\* does not grow, because only an order that is live or committed fills.
LEMMA SellStep ==
  ASSUME DispatchInv, DispatchInv', SellInv,
         \A o \in Order :
            /\ row'[o].qty = row[o].qty
            /\ brk'[o].filled >= brk[o].filled
            /\ brk'[o].filled <= row[o].qty
            /\ Committed(o)' \/ BrokerLive(o)' \/ brk'[o].filled # brk[o].filled =>
                  Committed(o) \/ BrokerLive(o)
  PROVE  SellInv'
<1>0. TypeOK /\ TypeOK'
  BY DEF DispatchInv
<1>1. ASSUME NEW o \in Order PROVE Cap(o)' <= Cap(o)
  <2>1. /\ brk[o].filled \in Nat /\ row[o].qty \in Nat /\ brk[o].filled <= row[o].qty
        /\ brk'[o].filled \in Nat
    BY <1>0, Quantities, QuantitiesNext DEF SellInv
  <2> QED  BY <2>1 DEF Cap
<1>2. \A o \in Order : brk'[o].filled >= brk[o].filled
  OBVIOUS
<1>3. \A o \in Order : Covered(SymbolOf[o])'
  BY <1>0, <1>1, <1>2, SymbolSets, CoveredStep DEF SellInv
<1> QED  BY <1>0, <1>3 DEF SellInv

\* A worker's step that passes no fence.
Unarmed(e) ==
    /\ eng'[e].pc # "armed"
    /\ \A f \in Engine \ {e} : eng'[f] = eng[f]

\* What is committed was so before.
LEMMA UnarmedKeeps ==
  ASSUME DispatchInv, NEW e \in Engine, Unarmed(e) \/ UNCHANGED eng, NEW o \in Order,
         req'[o] = "flying" => req[o] = "flying", Committed(o)'
  PROVE  Committed(o)
BY DEF Committed, Unarmed

\* And the sells stay covered, when the broker does nothing.
LEMMA UnarmedStep ==
  ASSUME DispatchInv, DispatchInv', SellInv, NEW e \in Engine, Unarmed(e) \/ UNCHANGED eng,
         UNCHANGED <<req, brk>>,
         \A o \in Order : row'[o].qty = row[o].qty
  PROVE  SellInv'
<1>1. ASSUME NEW o \in Order
      PROVE  /\ brk[o].filled \in Nat /\ brk[o].filled <= row[o].qty
             /\ Committed(o)' => Committed(o)
             /\ BrokerLive(o)' <=> BrokerLive(o)
  BY Quantities, UnarmedKeeps DEF SellInv, DispatchInv, BrokerLive
<1> QED  BY <1>1, SellStep

\* Starting, stopping, looking and failing change no quantity.
LEMMA QuietSells ==
  ASSUME DispatchInv, NEW e \in Engine,
         \/ Start(e) \/ Acquire(e) \/ Heartbeat(e) \/ StopOwner(e) \/ StopAfterLoss(e) \/ Crash(e)
         \/ BeginStep(e) \/ NextPhase(e)
         \/ FenceRaises(e) \/ PostAcknowledged(e) \/ PostFails(e)
         \/ LookUp(e) \/ LookUpFails(e) \/ LeaseRefused(e) \/ StepRaises(e)
         \/ \E o \in Order : ReconcileOrder(e, o) \/ FindIntent(e, o)
  PROVE  (Unarmed(e) \/ UNCHANGED eng) /\ UNCHANGED <<row, req, brk>>
<1>0. eng \in [Engine -> Worker] /\ eng[e] \in Worker
  BY DEF DispatchInv, TypeOK
<1>1. UNCHANGED <<row, req, brk>>
  BY DEF Start, Acquire, Heartbeat, StopOwner, StopAfterLoss, Crash, BeginStep, NextPhase,
         FenceRaises, PostAcknowledged, PostFails, LookUp, LookUpFails, LeaseRefused, StepRaises,
         ReconcileOrder, FindIntent, durable, external
<1>2. CASE Heartbeat(e)
  BY <1>1, <1>2 DEF Heartbeat
<1>3. CASE Start(e) \/ FenceRaises(e)
  BY <1>0, <1>1, <1>3 DEF Start, FenceRaises, Goto, Worker, Unarmed
<1>4. CASE Acquire(e) \/ StopOwner(e) \/ StopAfterLoss(e) \/ Crash(e) \/ LeaseRefused(e) \/ StepRaises(e)
  BY <1>0, <1>1, <1>4 DEF Acquire, StopOwner, StopAfterLoss, Crash, LeaseRefused, StepRaises,
                          AbortStep, Idle, Unarmed
<1>5. CASE BeginStep(e) \/ NextPhase(e)
  BY <1>0, <1>1, <1>5 DEF BeginStep, NextPhase, InPhase, At, Worker, Unarmed
<1>6. CASE PostAcknowledged(e) \/ PostFails(e) \/ LookUp(e) \/ LookUpFails(e)
  BY <1>0, <1>1, <1>6 DEF PostAcknowledged, PostFails, LookUp, LookUpFails, Worker, Unarmed
<1>7. CASE \E o \in Order : ReconcileOrder(e, o) \/ FindIntent(e, o)
  <2>1. ASSUME NEW o \in Order, FindIntent(e, o) PROVE Unarmed(e)
    BY <1>0, <2>1 DEF FindIntent, TakeUp, Worker, Unarmed
  <2>2. ASSUME NEW o \in Order, ReconcileOrder(e, o) PROVE Unarmed(e)
    <3>1. eng' = [eng EXCEPT ![e].pc = "applying", ![e].o = o, ![e].snap = brk[o],
                             ![e].definitive = row[o].definitive]
      BY <2>2 DEF ReconcileOrder
    <3>2. eng'[e].pc = "applying" /\ \A f \in Engine \ {e} : eng'[f] = eng[f]
      BY <1>0, <3>1 DEF Worker
    <3> QED  BY <3>2 DEF Unarmed
  <2> QED  BY <1>1, <1>7, <2>1, <2>2
<1> QED  BY <1>2, <1>3, <1>4, <1>5, <1>6, <1>7

\* Writing what was learnt of an order leaves its quantity.
LEMMA LearningSells ==
  ASSUME DispatchInv, NEW e \in Engine,
         \/ StartDispatch(e) \/ FenceRejects(e) \/ ExpireAfterFailure(e) \/ RecordFailure(e)
         \/ Apply(e) \/ ExpireIntent(e)
         \/ \E o \in Order : RequestCancel(e, o) \/ ConsumeUpdate(e, o)
  PROVE  /\ Unarmed(e) \/ UNCHANGED eng
         /\ UNCHANGED <<req, brk>>
         /\ \A o \in Order : row'[o].qty = row[o].qty
<1>0. eng \in [Engine -> Worker] /\ eng[e] \in Worker /\ row \in [Order -> Row]
  BY DEF DispatchInv, TypeOK
<1>1. UNCHANGED <<req, brk>>
  BY DEF StartDispatch, FenceRejects, ExpireAfterFailure, RecordFailure, Apply, ExpireIntent,
         RequestCancel, ConsumeUpdate, external
<1>2. Unarmed(e) \/ UNCHANGED eng
  <2>1. CASE StartDispatch(e) \/ FenceRejects(e) \/ Apply(e) \/ ExpireIntent(e) \/ ExpireAfterFailure(e)
    BY <1>0, <2>1 DEF StartDispatch, FenceRejects, Apply, ExpireIntent, ExpireAfterFailure,
                      Continue, AbortStep, Goto, Idle, Worker, Unarmed
  <2>2. CASE RecordFailure(e)
    BY <1>0, <2>2 DEF RecordFailure, AbortStep, Idle, Worker, Unarmed
  <2>3. CASE \E o \in Order : RequestCancel(e, o) \/ ConsumeUpdate(e, o)
    BY <1>0, <2>3 DEF RequestCancel, ConsumeUpdate, TakeUp, Worker, Unarmed
  <2> QED  BY <2>1, <2>2, <2>3
<1>3. ASSUME NEW o \in Order, NEW p, NEW s, UpdateOrder(p, s) PROVE row'[o].qty = row[o].qty
  BY <1>0, <1>3 DEF UpdateOrder, Row
<1>4. ASSUME NEW o \in Order, NEW p, ExpireUnsent(p) \/ BrokerRejected(p) PROVE row'[o].qty = row[o].qty
  BY <1>0, <1>4 DEF ExpireUnsent, BrokerRejected, Row
<1>5. ASSUME NEW o \in Order PROVE row'[o].qty = row[o].qty
  <2>1. CASE StartDispatch(e) \/ RecordFailure(e) \/ \E p \in Order : RequestCancel(e, p)
    BY <1>0, <2>1 DEF StartDispatch, RecordFailure, RequestCancel, Row
  <2>2. CASE FenceRejects(e) \/ ExpireAfterFailure(e) \/ ExpireIntent(e)
    BY <1>4, <2>2 DEF FenceRejects, ExpireAfterFailure, ExpireIntent
  <2>3. CASE Apply(e)
    BY <1>3, <1>4, <2>3 DEF Apply
  <2>4. CASE \E p \in Order : ConsumeUpdate(e, p)
    BY <1>3, <2>4 DEF ConsumeUpdate
  <2> QED  BY <2>1, <2>2, <2>3, <2>4
<1> QED  BY <1>1, <1>2, <1>5

\* The broker and the network: a request arrives, or does not, and what is live
\* fills within its quantity or comes to its end.
LEMMA BrokerSells ==
  ASSUME DispatchInv, DispatchInv', SellInv, Environment
  PROVE  SellInv'
<1>0. /\ brk \in [Order -> Snapshot] /\ req \in [Order -> {"none", "flying", "accepted", "rejected", "lost"}]
      /\ \A o \in Order : brk[o].filled \in Nat /\ row[o].qty \in Nat /\ brk[o].filled <= row[o].qty
  BY Quantities DEF SellInv, DispatchInv, TypeOK
<1>1. UNCHANGED row /\ UNCHANGED eng
  BY DEF Environment, DeadOwnerAges, HeartbeatIsLate, Ages, TtlElapses, BrokerAccepts,
         RequestFails, BrokerFills, BrokerCancels, BrokerEnds, durable
<1>2. CASE DeadOwnerAges \/ HeartbeatIsLate \/ (\E o \in Order : TtlElapses(o))
  <2>1. UNCHANGED <<req, brk>>
    BY <1>2 DEF DeadOwnerAges, HeartbeatIsLate, Ages, TtlElapses, external
  <2>2. \A o \in Order : (Committed(o)' <=> Committed(o)) /\ (BrokerLive(o)' <=> BrokerLive(o))
    BY <1>1, <2>1 DEF Committed, BrokerLive
  <2> QED  BY <1>0, <1>1, <2>1, <2>2, SellStep
<1>3. ASSUME NEW o \in Order, RequestFails(o) PROVE SellInv'
  <2>1. UNCHANGED brk /\ \A p \in Order : req'[p] = "flying" => req[p] = "flying"
    BY <1>0, <1>3 DEF RequestFails
  <2>2. \A p \in Order : (Committed(p)' => Committed(p)) /\ (BrokerLive(p)' <=> BrokerLive(p))
    BY <1>1, <2>1 DEF Committed, BrokerLive
  <2> QED  BY <1>0, <1>1, <2>1, <2>2, SellStep
<1>4. ASSUME NEW o \in Order, NEW st, NEW filled \in Nat, SetBroker(o, st, filled),
             filled >= brk[o].filled, filled <= row[o].qty,
             Committed(o) \/ BrokerLive(o),
             \A p \in Order : req'[p] = "flying" => req[p] = "flying"
      PROVE  SellInv'
  <2>1. brk'[o].filled = filled /\ \A p \in Order \ {o} : brk'[p] = brk[p]
    BY <1>0, <1>4 DEF SetBroker
  <2>2. ASSUME NEW p \in Order PROVE Committed(p)' => Committed(p)
    BY <1>1, <1>4 DEF Committed
  <2>3. ASSUME NEW p \in Order \ {o} PROVE BrokerLive(p)' <=> BrokerLive(p)
    BY <2>1 DEF BrokerLive
  <2>4. ASSUME NEW p \in Order
        PROVE  /\ row'[p].qty = row[p].qty
               /\ brk'[p].filled >= brk[p].filled
               /\ brk'[p].filled <= row[p].qty
               /\ Committed(p)' \/ BrokerLive(p)' \/ brk'[p].filled # brk[p].filled =>
                     Committed(p) \/ BrokerLive(p)
    <3>1. CASE p = o
      BY <1>0, <1>1, <1>4, <2>1, <3>1
    <3>2. CASE p # o
      BY <1>0, <1>1, <2>1, <2>2, <2>3, <3>2
    <3> QED  BY <3>1, <3>2
  <2> QED  BY <2>4, SellStep
<1>5. ASSUME NEW o \in Order, BrokerAccepts(o) PROVE SellInv'
  <2>1. req[o] = "flying" /\ SetBroker(o, "new", brk[o].filled)
        /\ \A p \in Order : req'[p] = "flying" => req[p] = "flying"
    BY <1>0, <1>5 DEF BrokerAccepts
  <2>2. Committed(o)
    BY <2>1 DEF Committed
  <2> QED  BY <1>0, <1>4, <2>1, <2>2
<1>6. ASSUME NEW o \in Order, BrokerFills(o) PROVE SellInv'
  <2>1. PICK q \in (brk[o].filled + 1)..row[o].qty :
           SetBroker(o, IF q = row[o].qty THEN "filled"
                        ELSE IF brk[o].st = "pending_cancel" THEN "pending_cancel"
                        ELSE "partially_filled", q)
    BY <1>6 DEF BrokerFills
  <2>2. q \in Nat /\ q >= brk[o].filled /\ q <= row[o].qty
    BY <1>0
  <2>3. BrokerLive(o) /\ UNCHANGED req
    BY <1>6 DEF BrokerFills
  <2> QED  BY <1>4, <2>1, <2>2, <2>3
<1>7. ASSUME NEW o \in Order, BrokerCancels(o) \/ BrokerEnds(o) PROVE SellInv'
  <2>1. PICK st : SetBroker(o, st, brk[o].filled)
    BY <1>7 DEF BrokerCancels, BrokerEnds
  <2>2. BrokerLive(o) /\ UNCHANGED req
    BY <1>7 DEF BrokerCancels, BrokerEnds, BrokerLive, Working
  <2> QED  BY <1>0, <1>4, <2>1, <2>2
<1> QED  BY <1>2, <1>3, <1>5, <1>6, <1>7 DEF Environment

\* A cancel request leaves what has filled, and what is live.
LEMMA CancelSells ==
  ASSUME DispatchInv, DispatchInv', SellInv, NEW e \in Engine, SendCancel(e)
  PROVE  SellInv'
<1>0. /\ brk \in [Order -> Snapshot] /\ eng \in [Engine -> Worker]
      /\ \A o \in Order : brk[o].filled \in Nat /\ row[o].qty \in Nat /\ brk[o].filled <= row[o].qty
  BY Quantities DEF SellInv, DispatchInv, TypeOK
<1>1. UNCHANGED <<row, req>>
  BY DEF SendCancel, durable
<1>2. Unarmed(e)
  BY <1>0 DEF SendCancel, Goto, AbortStep, Idle, Worker, Unarmed
<1>3. ASSUME NEW o \in Order PROVE brk'[o].filled = brk[o].filled /\ (BrokerLive(o)' => BrokerLive(o))
  BY <1>0 DEF SendCancel, SetBroker, BrokerLive, Working
<1>4. ASSUME NEW o \in Order, Committed(o)' PROVE Committed(o)
  BY <1>1, <1>2, <1>4, UnarmedKeeps
<1> QED  BY <1>0, <1>1, <1>3, <1>4, SellStep

\* The POST takes what its fence committed.
LEMMA PostSells ==
  ASSUME DispatchInv, DispatchInv', SellInv, NEW e \in Engine, Post(e)
  PROVE  SellInv'
<1>0. /\ eng \in [Engine -> Worker] /\ req \in [Order -> {"none", "flying", "accepted", "rejected", "lost"}]
      /\ \A o \in Order : brk[o].filled \in Nat /\ row[o].qty \in Nat /\ brk[o].filled <= row[o].qty
  BY Quantities DEF SellInv, DispatchInv, TypeOK
<1>1. UNCHANGED <<row, brk>> /\ eng[e].pc = "armed" /\ req' = [req EXCEPT ![eng[e].o] = "flying"]
      /\ eng' = [eng EXCEPT ![e].pc = "posting"]
  BY DEF Post, durable, At, Goto
<1>2. ASSUME NEW o \in Order, Committed(o)' PROVE Committed(o)
  BY <1>0, <1>1, <1>2 DEF Committed, Worker
<1>3. \A o \in Order : BrokerLive(o)' <=> BrokerLive(o)
  BY <1>1 DEF BrokerLive
<1> QED  BY <1>0, <1>1, <1>2, <1>3, SellStep

\* What the model adds up at the broker, as sums over the symbol's orders.
LEMMA BrokerSums ==
  ASSUME NEW sym
  PROVE  /\ BoughtAtBroker(sym) = FilledSum(brk, Entries(sym))
         /\ SoldAtBroker(sym) = FilledSum(brk, Exits(sym))
BY DEF BoughtAtBroker, SoldAtBroker, FilledSum, Entries, Exits, MapThenSumSet, MapThenFoldSet

\* What a working order still holds back.
Hold(o) == IF BrokerLive(o) THEN row[o].qty - brk[o].filled ELSE 0
Holds(sym) == [o \in Exits(sym) |-> Hold(o)]

LEMMA HeldSum ==
  ASSUME NEW sym
  PROVE  HeldAtBroker(sym) = SumOf(Holds(sym), Exits(sym))
<1> DEFINE S == Exits(sym)
           Fill(h) == [s \in SUBSET S |-> IF s = {} THEN 0 ELSE Hold(Chosen(s)) + h[s \ {Chosen(s)}]]
<1>1. ASSUME NEW h PROVE Fill(h) = SumStep(Holds(sym), S, h)
  <2>1. \A s \in SUBSET S : s # {} => Holds(sym)[Chosen(s)] = Hold(Chosen(s))
    BY DEF Chosen, Holds
  <2> QED  BY <2>1 DEF SumStep
<1>2. HeldAtBroker(sym) = (CHOOSE h : h = Fill(h))[S]
  BY DEF HeldAtBroker, Hold, Exits, MapThenSumSet, MapThenFoldSet, Chosen
<1> HIDE DEF Fill, S
<1>3. (CHOOSE h : h = Fill(h)) = (CHOOSE h : h = SumStep(Holds(sym), S, h))
  BY <1>1
<1> QED  BY <1>2, <1>3, SumIsStep DEF S

\* No order is at the broker that was never sent.
LEMMA UnsentOrder ==
  ASSUME DispatchInv, NEW o \in Order, posts[o] = 0
  PROVE  req[o] = "none" /\ brk[o] = NoSnap
BY DEF DispatchInv, BrokerInv, TypeOK

\* An order whose fence was passed is open.
LEMMA CommittedIsOpen ==
  ASSUME DispatchInv, NEW o \in Order, Committed(o)
  PROVE  IsOpen(o)
<1>1. row[o].status = "reconciliation_required"
  BY DEF DispatchInv, RowInv, DispatcherInv, PreSend, Committed
<1> QED  BY <1>1 DEF IsOpen, FINAL

\* A reservation is of an order that is not sent yet.
LEMMA ReserveSells ==
  ASSUME DispatchInv, DispatchInv', SellInv, NEW e \in Engine, NEW o \in Order, NEW q \in Nat,
         Reserve(e, o, q)
  PROVE  SellInv'
<1>0. /\ eng \in [Engine -> Worker] /\ row \in [Order -> Row] /\ TypeOK /\ TypeOK'
      /\ \A p \in Order : brk[p].filled \in Nat /\ row[p].qty \in Nat /\ brk[p].filled <= row[p].qty
  BY Quantities DEF SellInv, DispatchInv, TypeOK
<1>1. /\ UNCHANGED <<req, brk>> /\ row[o].status = "absent"
      /\ row' = [row EXCEPT ![o] = [NoRow EXCEPT !.status = "approved", !.dispatch = "intent", !.qty = q]]
      /\ eng' = [eng EXCEPT ![e].pc = "reserved", ![e].o = o]
  BY DEF Reserve, TakeUp, external
<1>2. row'[o].qty = q /\ \A p \in Order \ {o} : row'[p] = row[p]
  BY <1>0, <1>1 DEF NoRow
<1>3. Unarmed(e)
  BY <1>0, <1>1 DEF Worker, Unarmed
<1>4. brk[o].filled = 0 /\ brk[o] = NoSnap /\ ~Committed(o)
  <2>1. posts[o] = 0
    BY <1>1 DEF DispatchInv, RowInv
  <2>2. ~IsOpen(o)
    BY <1>1 DEF IsOpen
  <2> QED  BY <2>1, <2>2, UnsentOrder, CommittedIsOpen DEF NoSnap
<1>5. ASSUME NEW p \in Order PROVE Cap(p)' <= Cap(p)
  <2>1. Committed(p)' => Committed(p)
    BY <1>1, <1>3, UnarmedKeeps
  <2>2. BrokerLive(p)' <=> BrokerLive(p)
    BY <1>1 DEF BrokerLive
  <2>3. CASE p = o
    <3>1. ~Committed(o)' /\ ~BrokerLive(o)' /\ ~BrokerLive(o) /\ brk'[o] = brk[o]
      BY <1>1, <1>4, <2>1, <2>2, <2>3 DEF BrokerLive, NoSnap, Working
    <3> QED  BY <1>0, <1>4, <2>3, <3>1 DEF Cap
  <2>4. CASE p # o
    BY <1>0, <1>1, <1>2, <2>1, <2>2, <2>4 DEF Cap
  <2> QED  BY <2>3, <2>4
<1>6. \A p \in Order : brk'[p].filled >= brk[p].filled /\ brk'[p].filled <= row'[p].qty
  BY <1>0, <1>1, <1>2, <1>4
<1>7. \A p \in Order : Covered(SymbolOf[p])'
  BY <1>0, <1>5, <1>6, SymbolSets, CoveredStep DEF SellInv
<1> QED  BY <1>6, <1>7 DEF SellInv

\* The fence of a sell looks at what the broker says is available, and no other
\* sell of the symbol is on its way: what is committed stays covered.
LEMMA FenceCovers ==
  ASSUME DispatchInv, DispatchInv', SellInv, NEW e \in Engine, Fence(e),
         NEW o \in Order \ Entry, eng[e].o = o
  PROVE  Covered(SymbolOf[o])'
<1> DEFINE sym == SymbolOf[o]
           S == Exits(sym)
           F == [p \in S |-> brk[p].filled]
           H == Holds(sym)
           FH == [p \in S |-> F[p] + H[p]]
           C == Caps(sym)'
<1>0. /\ eng \in [Engine -> Worker] /\ TypeOK /\ TypeOK'
      /\ \A p \in Order : brk[p].filled \in Nat /\ row[p].qty \in Nat
  BY Quantities DEF DispatchInv, TypeOK
<1>1. /\ UNCHANGED <<req, brk, row>> /\ eng[e].pc = "fence" /\ eng' = [eng EXCEPT ![e].pc = "armed"]
      /\ row[o].qty <= Available(sym)
  BY DEF Fence, At, Goto, external
<1>2. /\ IsFiniteSet(S) /\ S \subseteq Order /\ o \in S
      /\ IsFiniteSet(Entries(sym)) /\ Entries(sym) \subseteq Order
  BY SymbolSets DEF Exits, OrdersOf
<1>3. posts[o] = 0 /\ IsOpen(o)
  BY <1>1 DEF DispatchInv, DispatcherInv, PreSend, IsOpen, FINAL
<1>4. brk[o] = NoSnap
  BY <1>3, UnsentOrder
<1>5. ASSUME NEW p \in S
      PROVE  /\ F[p] = brk[p].filled /\ F[p] \in Int
             /\ H[p] = Hold(p) /\ H[p] \in Int
             /\ FH[p] = F[p] + H[p] /\ FH[p] \in Int
             /\ C[p] = Cap(p)' /\ C[p] \in Int
  <2>1. p \in Order
    BY <1>2
  <2>2. H[p] = Hold(p) /\ Hold(p) \in Int
    BY <1>0, <2>1 DEF Hold, Holds
  <2>3. C[p] = Cap(p)' /\ Cap(p)' \in Int
    BY <1>0, <2>1, QuantitiesNext DEF Caps, Exits, OrdersOf
  <2> QED  BY <1>0, <2>1, <2>2, <2>3
<1>6. ASSUME NEW p \in S \ {o} PROVE C[p] = FH[p]
  <2>1. p \in Order /\ SymbolOf[p] = sym /\ p # o
    BY <1>2 DEF Exits, OrdersOf
  <2>2. ~Committed(p)
    BY <1>3, <2>1, CommittedIsOpen DEF DispatchInv, OneOpenRow
  <2>3. ~Committed(p)'
    BY <1>0, <1>1, <2>1, <2>2 DEF Committed, Worker
  <2>4. BrokerLive(p)' <=> BrokerLive(p)
    BY <1>1 DEF BrokerLive
  <2>5. Cap(p)' = brk[p].filled + Hold(p)
    BY <1>0, <1>1, <2>1, <2>3, <2>4 DEF Cap, Hold
  <2> QED  BY <1>5, <2>5
<1>7. FH[o] = 0 /\ C[o] <= row[o].qty
  <2>1. ~BrokerLive(o) /\ brk[o].filled = 0
    BY <1>4 DEF NoSnap, BrokerLive, Working
  <2>2. Hold(o) = 0
    BY <2>1 DEF Hold
  <2>3. Cap(o)' <= row[o].qty
    BY <1>0, <1>1, <1>2, <2>1 DEF Cap
  <2> QED  BY <1>2, <1>5, <2>1, <2>2, <2>3
<1>8. /\ SoldAtBroker(sym) = SumOf(F, S)
      /\ HeldAtBroker(sym) = SumOf(H, S)
      /\ BoughtAtBroker(sym) = FilledSum(brk, Entries(sym))
  BY BrokerSums, HeldSum, FilledIsSum
<1>9. \A p \in Entries(sym) : brk[p].filled \in Int
  BY <1>0, <1>2
<1>10. Covered(sym)' <=> SumOf(C, S) <= FilledSum(brk, Entries(sym))
  BY <1>1 DEF Covered, Exits, Entries, OrdersOf
<1>11. Available(sym) = FilledSum(brk, Entries(sym)) - SumOf(F, S) - SumOf(H, S)
  BY <1>8 DEF Available
<1>12. row[o].qty \in Nat
  BY <1>0, <1>2
<1> HIDE DEF F, H, FH, C, S
<1>13. SumOf(FH, S) = SumOf(F, S) + SumOf(H, S)
  BY <1>2, <1>5, SumsAdd
<1>14. SumOf(C, S) = SumOf(FH, S) + (C[o] - FH[o])
  <2>1. SumOf(C, S) = SumOf(FH, S) + IF o \in S THEN C[o] - FH[o] ELSE 0
    BY <1>2, <1>5, <1>6, SumChanges
  <2> QED  BY <1>2, <2>1
<1>15. /\ SumOf(F, S) \in Int /\ SumOf(H, S) \in Int /\ SumOf(FH, S) \in Int /\ SumOf(C, S) \in Int
       /\ FilledSum(brk, Entries(sym)) \in Int
       /\ C[o] \in Int /\ FH[o] \in Int
  BY <1>2, <1>5, <1>9, SumOfInts, SumInt
<1>16. SumOf(C, S) <= FilledSum(brk, Entries(sym))
  BY <1>1, <1>7, <1>11, <1>12, <1>13, <1>14, <1>15
<1> QED  BY <1>10, <1>16

LEMMA FenceSells ==
  ASSUME DispatchInv, DispatchInv', SellInv, NEW e \in Engine, Fence(e)
  PROVE  SellInv'
<1> DEFINE o == eng[e].o
<1>0. /\ eng \in [Engine -> Worker] /\ TypeOK /\ TypeOK'
      /\ \A p \in Order : brk[p].filled \in Nat /\ row[p].qty \in Nat /\ brk[p].filled <= row[p].qty
  BY Quantities DEF SellInv, DispatchInv, TypeOK
<1>1. UNCHANGED <<req, brk, row>> /\ eng[e].pc = "fence" /\ eng' = [eng EXCEPT ![e].pc = "armed"]
  BY DEF Fence, At, Goto, external
<1>2. eng[e].o \in Order
  BY <1>1 DEF DispatchInv, DispatcherInv, TypeOK, Worker
<1>3. ASSUME NEW p \in Order \ {o} PROVE Cap(p)' <= Cap(p)
  <2>1. Committed(p)' => Committed(p)
    BY <1>0, <1>1, <1>3 DEF Committed, Worker
  <2>2. BrokerLive(p)' <=> BrokerLive(p)
    BY <1>1 DEF BrokerLive
  <2> QED  BY <1>0, <1>1, <2>1, <2>2 DEF Cap
<1>4. \A p \in Order : brk'[p].filled >= brk[p].filled /\ brk'[p].filled <= row'[p].qty
  BY <1>0, <1>1
<1>5. ASSUME NEW p \in Order PROVE Covered(SymbolOf[p])'
  <2>1. CASE o \notin Entry /\ SymbolOf[p] = SymbolOf[o]
    <3>1. PICK y \in Order \ Entry : y = o
      BY <1>2, <2>1
    <3>2. Covered(SymbolOf[y])'
      BY <3>1, FenceCovers
    <3> QED  BY <2>1, <3>1, <3>2
  <2>2. CASE o \in Entry \/ SymbolOf[p] # SymbolOf[o]
    <3>1. \A x \in Exits(SymbolOf[p]) : x \in Order \ {o}
      BY <2>2 DEF Exits, OrdersOf
    <3>2. Covered(SymbolOf[p])
      BY DEF SellInv
    <3> HIDE DEF o
    <3> QED  BY <1>0, <1>3, <1>4, <3>1, <3>2, CoveredStep
  <2> QED  BY <2>1, <2>2
<1> QED  BY <1>4, <1>5 DEF SellInv

LEMMA SellInit == Init => SellInv
<1> SUFFICES ASSUME Init PROVE SellInv
  OBVIOUS
<1>1. \A o \in Order : brk[o].filled = 0 /\ row[o].qty = 0
  BY DEF Init, NoSnap, NoRow
<1>2. ASSUME NEW o \in Order PROVE Cap(o) = 0
  BY <1>1 DEF Cap
<1>3. ASSUME NEW sym PROVE Covered(sym)
  <2>1. /\ IsFiniteSet(Exits(sym)) /\ IsFiniteSet(Entries(sym))
        /\ \A o \in Exits(sym) : Caps(sym)[o] = 0
        /\ \A o \in Entries(sym) : brk[o].filled = 0
    BY <1>1, <1>2, SymbolSets DEF Caps
  <2> DEFINE C == Caps(sym)
  <2>2. \A o \in Exits(sym) : C[o] \in Int /\ C[o] = C[o] + C[o]
    BY <2>1
  <2> HIDE DEF C
  <2>3. SumOf(C, Exits(sym)) = SumOf(C, Exits(sym)) + SumOf(C, Exits(sym))
    BY <2>1, <2>2, SumsAdd
  <2>4. SumOf(C, Exits(sym)) \in Int
    BY <2>1, <2>2, SumOfInts
  <2>5. FilledSum(brk, Entries(sym)) \in Int /\ FilledSum(brk, Entries(sym)) >= 0
    BY <2>1, SumNonNegative
  <2> QED  BY <2>3, <2>4, <2>5 DEF C, Covered
<1> QED  BY <1>1, <1>3 DEF SellInv

LEMMA SellNext == DispatchInv /\ DispatchInv' /\ SellInv /\ [Next]_vars => SellInv'
<1> SUFFICES ASSUME DispatchInv, DispatchInv', SellInv, [Next]_vars PROVE SellInv'
  OBVIOUS
<1>1. ASSUME NEW e \in Engine, EngineStep(e) PROVE SellInv'
  <2>1. CASE \/ Start(e) \/ Acquire(e) \/ Heartbeat(e) \/ StopOwner(e) \/ StopAfterLoss(e)
             \/ Crash(e) \/ BeginStep(e) \/ NextPhase(e)
             \/ FenceRaises(e) \/ PostAcknowledged(e) \/ PostFails(e)
             \/ LookUp(e) \/ LookUpFails(e) \/ LeaseRefused(e) \/ StepRaises(e)
    BY <2>1, QuietSells, UnarmedStep
  <2>2. CASE \/ StartDispatch(e) \/ FenceRejects(e) \/ ExpireAfterFailure(e) \/ RecordFailure(e)
             \/ Apply(e) \/ ExpireIntent(e)
    BY <2>2, LearningSells, UnarmedStep
  <2>3. CASE Fence(e)
    BY <2>3, FenceSells
  <2>4. CASE Post(e)
    BY <2>4, PostSells
  <2>5. CASE SendCancel(e)
    BY <2>5, CancelSells
  <2> QED  BY <1>1, <2>1, <2>2, <2>3, <2>4, <2>5 DEF EngineStep
<1>2. ASSUME NEW e \in Engine, NEW o \in Order, OrderStep(e, o) PROVE SellInv'
  <2>1. CASE ReserveEntry(e, o) \/ ReserveExperiment(e, o) \/ ReserveExit(e, o)
    <3>1. PICK q \in Nat : Reserve(e, o, q)
      BY <2>1, QtyAssumption DEF ReserveEntry, ReserveExperiment, ReserveExit
    <3> QED  BY <3>1, ReserveSells
  <2>2. CASE ReconcileOrder(e, o) \/ FindIntent(e, o)
    BY <2>2, QuietSells, UnarmedStep
  <2>3. CASE RequestCancel(e, o) \/ ConsumeUpdate(e, o)
    BY <2>3, LearningSells, UnarmedStep
  <2> QED  BY <1>2, <2>1, <2>2, <2>3 DEF OrderStep
<1>3. CASE UNCHANGED vars
  <2>1. UNCHANGED <<eng, row, req, brk>>
    BY <1>3 DEF vars
  <2>2. \A o \in Order : (Committed(o)' <=> Committed(o)) /\ (BrokerLive(o)' <=> BrokerLive(o))
    BY <2>1 DEF Committed, BrokerLive
  <2>3. \A o \in Order : brk[o].filled \in Nat /\ brk[o].filled <= row[o].qty
    BY Quantities DEF SellInv, DispatchInv
  <2> QED  BY <2>1, <2>2, <2>3, SellStep
<1> QED  BY <1>1, <1>2, <1>3, BrokerSells DEF Next

\* What is sold does not exceed what may be sold.
LEMMA SellsAreCovered ==
  ASSUME DispatchInv, SellInv
  PROVE  NoOversell
<1> SUFFICES ASSUME NEW x \in Order PROVE SoldAtBroker(SymbolOf[x]) <= BoughtAtBroker(SymbolOf[x])
  BY DEF NoOversell
<1> DEFINE sym == SymbolOf[x]
           S == Exits(sym)
           F == [p \in S |-> brk[p].filled]
           C == Caps(sym)
<1>1. /\ IsFiniteSet(S) /\ S \subseteq Order
      /\ IsFiniteSet(Entries(sym)) /\ Entries(sym) \subseteq Order
  BY SymbolSets
<1>2. ASSUME NEW p \in S PROVE F[p] \in Int /\ C[p] \in Int /\ F[p] <= C[p]
  <2>1. C[p] = Cap(p) /\ brk[p].filled \in Nat /\ row[p].qty \in Nat /\ brk[p].filled <= row[p].qty
    BY <1>1, Quantities DEF SellInv, DispatchInv, Caps
  <2> QED  BY <2>1 DEF Cap
<1>3. /\ SoldAtBroker(sym) = SumOf(F, S)
      /\ BoughtAtBroker(sym) = FilledSum(brk, Entries(sym))
  BY BrokerSums, FilledIsSum
<1>4. SumOf(C, S) <= FilledSum(brk, Entries(sym))
  BY DEF SellInv, Covered
<1>5. \A p \in Entries(sym) : brk[p].filled \in Int
  BY <1>1, Quantities DEF DispatchInv
<1> HIDE DEF F, C, S
<1>6. SumOf(F, S) <= SumOf(C, S) /\ SumOf(F, S) \in Int /\ SumOf(C, S) \in Int
  BY <1>1, <1>2, GrowingSum, SumOfInts
<1>7. FilledSum(brk, Entries(sym)) \in Int
  BY <1>1, <1>5, SumInt
<1> QED  BY <1>3, <1>4, <1>6, <1>7

\* Exits never sell more than the entries bought: between its fence and the
\* end of the order at the broker a sell is the only one of its symbol, and the
\* fence compared its quantity with the position it is taken from.
THEOREM ExitsSellOwn == Spec => []NoOversell
<1>1. Init => SellInv
  BY SellInit
<1>2. DispatchInv /\ SellInv /\ [Next]_vars => SellInv'
  BY NextInv, SellNext
<1>3. DispatchInv /\ SellInv => NoOversell
  BY SellsAreCovered
<1> QED  BY <1>1, <1>2, <1>3, DispatchInvariant, PTL DEF Spec
=============================================================================
