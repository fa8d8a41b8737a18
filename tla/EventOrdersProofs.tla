-------------------------- MODULE EventOrdersProofs --------------------------
(***************************************************************************)
(* Proofs about EventOrders for any workers, events, exits, quantities,    *)
(* limits and faults: its variables keep their types, a reservation that   *)
(* was released never reaches the broker, no more entries reach it than    *)
(* the session allows, and no late report takes a fill back.               *)
(***************************************************************************)
EXTENDS EventOrders, Sums

-----------------------------------------------------------------------------
(* The invariant *)

\* A worker whose order is claimed: from the claim's commit to the recorded
\* answer.
ClaimedAt(l) == l.pc \in {"fence", "post", "record", "resolve"}
Claims(w, o) == ClaimedAt(wk[w]) /\ wk[w].order = o

\* An order's row and the broker: a reservation that was not claimed is not at
\* the broker, one that ended unsent never gets there, and what a row says of
\* fills and ends is what the broker has.
OrderInv(o) ==
    /\ rows[o].status \in {"absent", "approved"} =>
          /\ broker[o].state = "none"
          /\ ~ rows[o].attempted /\ ~ rows[o].released
          /\ \A w \in Worker : ~ Claims(w, o)
    /\ rows[o].status # "absent" => rows[o].qty > 0
    /\ rows[o].known => Visible(o)
    /\ rows[o].released => rows[o].status = "expired"
    /\ rows[o].status \in {"expired", "rejected"} => broker[o].state = "none"
    /\ rows[o].status \in {"filled", "canceled"} =>
          /\ broker[o].state = "closed"
          /\ rows[o].filled = broker[o].filled
          /\ rows[o].status = "filled" <=> rows[o].filled = rows[o].qty
    /\ rows[o].filled <= broker[o].filled
    /\ broker[o].filled <= rows[o].qty
    /\ broker[o].state = "open" => broker[o].filled < rows[o].qty
    /\ broker[o].state \in {"none", "coming"} => broker[o].filled = 0

\* Between claim and POST, and after a refusal, the broker does not have the
\* order.
Untaken(l) ==
    l.pc \in {"fence", "post"} \/ (l.pc \in {"record", "resolve"} /\ l.answer = "rejected")

\* What a worker knows of its order still holds.
LocalInv(l) ==
    /\ l.pc \in {"expire", "reserve"} => l.order \in Entry
    /\ l.pc \in {"dispatch", "claim", "fence", "post", "record", "resolve"} =>
          l.order \in Order /\ rows[l.order].status # "absent"
    /\ l.pc \in {"check", "reserve_exit"} => l.order \in Exit /\ l.qty > 0
    /\ l.pc \in {"observe", "delete", "mark"} => l.order \in Order /\ Visible(l.order)
    /\ l.pc = "observe" =>
          /\ l.report \in Report
          /\ l.report.filled <= broker[l.order].filled
          /\ l.report.state = "closed" => ReportOf(l.order) = l.report
    /\ Untaken(l) =>
          rows[l.order].status = "reconciliation_required" /\ broker[l.order].state = "none"
    /\ l.pc \in {"fence", "post"} => ~ rows[l.order].attempted
    /\ l.pc = "record" => l.answer # "none"
    /\ l.pc = "record" /\ l.answer = "ok" =>
          Visible(l.order) /\ l.report = [state |-> "open", filled |-> 0]

\* An order is claimed once.
Exclusive ==
    \A v, w \in Worker :
        ClaimedAt(wk[v]) /\ ClaimedAt(wk[w]) /\ wk[v].order = wk[w].order => v = w

\* The fills of an entry that cannot grow any more.
Finished(e) ==
    \/ rows[e].status \in {"absent", "expired", "rejected"}
    \/ broker[e].state = "closed" /\ rows[e].filled = broker[e].filled

\* All entries but the last are finished, and no more is held than the last
\* one has bought.
InventoryInv ==
    Entry # {} => \E c \in Entry :
        /\ Inventory <= rows[c].filled
        /\ \A e \in Entry \ {c} : Finished(e)

\* The reservations of the session.
Counted == {e \in Entry : rows[e].status # "absent" /\ ~ rows[e].released}
BudgetInv == budget = Cardinality(Counted)

OrdersInv ==
    /\ TypeOK
    /\ \A o \in Order : OrderInv(o)
    /\ \A w \in Worker : LocalInv(wk[w])
    /\ Exclusive
    /\ InventoryInv
    /\ BudgetInv

-----------------------------------------------------------------------------
(* The orders of the model *)

LEMMA FiniteOrders == IsFiniteSet(Entry) /\ IsFiniteSet(Exit)
<1>1. IsFiniteSet(1..Events) /\ IsFiniteSet(1..MaxExits)
  BY EventsAssumption, MaxExitsAssumption, FS_Interval
<1>2. IsFiniteSet({0})
  BY FS_Singleton
<1> QED  BY <1>1, <1>2, FS_Product DEF Entry, Exit

\* An entry is no exit, and an order is one of the two.
LEMMA OrderKinds ==
  /\ Order = Entry \cup Exit /\ Entry \cap Exit = {}
  /\ \A o \in Entry : o[1] \in 1..Events /\ o[2] = 0 /\ o = <<o[1], 0>>
  /\ \A o \in Exit : o[1] \in 1..Events /\ o[2] \in 1..MaxExits /\ o = <<o[1], o[2]>>
BY MaxExitsAssumption DEF Order, Entry, Exit

\* The order looked up first is one of those to look up.
LEMMA FirstIn ==
  ASSUME NEW S \in SUBSET Order, S # {}
  PROVE  First(S) \in S
<1>1. \A o \in Order : o[1] \in Nat /\ o[2] \in Nat /\ o = <<o[1], o[2]>>
  BY OrderKinds, EventsAssumption, MaxExitsAssumption
<1>2. PICK m \in {o[1] : o \in S} : \A n \in {o[1] : o \in S} : m <= n
  <2>1. {o[1] : o \in S} \subseteq Nat /\ {o[1] : o \in S} # {}
    BY <1>1
  <2> HIDE DEF First
  <2> QED  BY <2>1, LeastElement
<1> DEFINE S2 == {o \in S : o[1] = m}
<1>3. PICK k \in {o[2] : o \in S2} : \A n \in {o[2] : o \in S2} : k <= n
  <2>1. {o[2] : o \in S2} \subseteq Nat /\ {o[2] : o \in S2} # {}
    BY <1>1, <1>2
  <2> QED  BY <2>1, LeastElement
<1>4. PICK o \in S : o[1] = m /\ o[2] = k
  BY <1>3
<1>5. ASSUME NEW p \in S PROVE o[1] < p[1] \/ (o[1] = p[1] /\ o[2] <= p[2])
  <2>1. o[1] <= p[1] /\ o[1] \in Nat /\ p[1] \in Nat
    BY <1>1, <1>2, <1>4
  <2>2. p[1] = o[1] => o[2] <= p[2]
    BY <1>3, <1>4
  <2> QED  BY <2>1, <2>2
<1> QED  BY <1>4, <1>5 DEF First

LEMMA FillTypes ==
  ASSUME TypeOK
  PROVE  /\ \A o \in Order : rows[o].filled \in Int /\ rows[o].filled >= 0
         /\ \A o \in Order : broker[o].filled \in Int /\ broker[o].filled >= 0
BY QtyAssumption DEF TypeOK, Row, BrokerOrder

\* What is held by the rows.
LEMMA InventoryType ==
  ASSUME TypeOK
  PROVE  /\ Inventory = FilledSum(rows, Entry) - FilledSum(rows, Exit)
         /\ FilledSum(rows, Entry) \in Int /\ FilledSum(rows, Exit) \in Int
         /\ Inventory \in Int
<1>1. Sum(Filled, Entry) = FilledSum(rows, Entry) /\ Sum(Filled, Exit) = FilledSum(rows, Exit)
  BY DEF Sum, Filled, FilledSum, MapThenSumSet, MapThenFoldSet
<1>2. FilledSum(rows, Entry) \in Int /\ FilledSum(rows, Exit) \in Int
  BY FillTypes, FiniteOrders, OrderKinds, SumInt
<1> QED  BY <1>1, <1>2 DEF Inventory

\* While something is held, the entry to sell is one of the entries.
LEMMA HeldIn ==
  ASSUME TypeOK, Inventory > 0
  PROVE  Held \in Entry
<1> DEFINE Left(e) == rows[e].filled - Sum(Filled, {x \in Exit : x[1] = e[1]})
           Bought == {e \in Entry : rows[e].filled > 0}
           left == [e \in Bought |-> Left(e)]
<1>1. FilledSum(rows, Entry) > 0
  <2>1. FilledSum(rows, Exit) >= 0
    BY FillTypes, FiniteOrders, OrderKinds, SumNonNegative
  <2> QED  BY <2>1, InventoryType
<1>2. Bought # {} /\ IsFiniteSet(Bought)
  BY <1>1, FillTypes, FiniteOrders, OrderKinds, SumPositive, FS_Subset
<1>3. ASSUME NEW e \in Bought PROVE left[e] \in Int
  <2> DEFINE X == {x \in Exit : x[1] = e[1]}
  <2>1. Sum(Filled, X) = FilledSum(rows, X)
    BY DEF Sum, Filled, FilledSum, MapThenSumSet, MapThenFoldSet
  <2>2. IsFiniteSet(X) /\ \A x \in X : rows[x].filled \in Int
    BY FillTypes, FiniteOrders, OrderKinds, FS_Subset
  <2> HIDE DEF X
  <2>3. FilledSum(rows, X) \in Int
    BY <2>2, SumInt
  <2>4. rows[e].filled \in Int
    BY FillTypes, OrderKinds
  <2> QED  BY <2>1, <2>3, <2>4 DEF X
<1> HIDE DEF left
<1>4. PICK e \in Bought : \A f \in Bought : left[f] <= left[e]
  BY <1>2, <1>3, Maximum
<1>5. \E d \in Entry : rows[d].filled > 0 /\ \A f \in Entry : rows[f].filled > 0 => Left(f) <= Left(d)
  <2>1. \A f \in Bought : Left(f) <= Left(e)
    BY <1>4 DEF left
  <2> HIDE DEF Left
  <2> QED  BY <2>1
<1> QED  BY <1>5 DEF Held

\* What is held fits the quantity of an entry.
LEMMA HeldQuantity ==
  ASSUME TypeOK, InventoryInv, Inventory > 0
  PROVE  Inventory \in 1..Qty
<1>1. Entry # {}
  BY HeldIn
<1>2. PICK c \in Entry : Inventory <= rows[c].filled
  BY <1>1 DEF InventoryInv
<1>3. rows[c].filled \in 0..Qty
  BY OrderKinds DEF TypeOK, Row
<1> QED  BY <1>2, <1>3, InventoryType, QtyAssumption

-----------------------------------------------------------------------------
(* One step of one actor *)

StateInv ==
    /\ TypeOK
    /\ \A o \in Order : OrderInv(o)
    /\ \A w \in Worker : LocalInv(wk[w])
    /\ Exclusive

\* What the other workers V rely on in an order.
Grows(o, V) ==
    /\ rows[o].status # "absent" => rows'[o].status # "absent"
    /\ Visible(o) => Visible(o)'
    /\ broker'[o].filled >= broker[o].filled
    /\ broker[o].state = "closed" => ReportOf(o)' = ReportOf(o)
    /\ \A v \in V : wk[v].order = o =>
          /\ Untaken(wk[v]) => rows'[o].status = rows[o].status /\ broker'[o].state = broker[o].state
          /\ wk[v].pc \in {"fence", "post"} => rows'[o].attempted = rows[o].attempted

\* A worker's step on an order: nobody claims it but one who had claimed the
\* same order before, or the first to claim it.
Claiming(w, o) ==
    ClaimedAt(wk'[w]) =>
        \/ ClaimedAt(wk[w]) /\ wk'[w].order = wk[w].order
        \/ wk'[w].order = o /\ \A v \in Worker : ~ Claims(v, o)

\* No fill is taken back, and a final row only reopened for its cancellation.
RowsStand ==
    \A p \in Order :
        /\ rows'[p].filled >= rows[p].filled
        /\ rows[p].status \in FINAL => rows'[p].status \in {rows[p].status, "cancel_pending"}

\* A step of w that changes no order but o keeps what is said of the others.
LEMMA OrderStep ==
  ASSUME StateInv, TypeOK', NEW o \in Order, NEW w,
         \A v \in Worker \ {w} : wk'[v] = wk[v],
         \A p \in Order \ {o} : rows'[p] = rows[p] /\ broker'[p] = broker[p],
         Grows(o, Worker \ {w}),
         OrderInv(o)',
         w \in Worker => LocalInv(wk[w])' /\ Claiming(w, o)
  PROVE  StateInv'
<1> USE DEF StateInv
<1>1. ASSUME NEW v \in Worker, NEW p \in Order \ {o}, Claims(v, p)' PROVE Claims(v, p)
  <2>1. CASE v = w
    BY <1>1, <2>1 DEF Claiming, Claims
  <2>2. CASE v # w
    BY <1>1, <2>2 DEF Claims
  <2> QED  BY <2>1, <2>2
<1>2. ASSUME NEW p \in Order PROVE OrderInv(p)'
  <2>1. CASE p = o
    BY <2>1
  <2>2. CASE p # o
    BY <1>1, <2>2 DEF OrderInv, Visible
  <2> QED  BY <2>1, <2>2
<1>3. ASSUME NEW v \in Worker PROVE LocalInv(wk[v])'
  <2>1. CASE v = w
    BY <2>1
  <2>2. CASE v # w
    <3> DEFINE l == wk[v]
    <3>1. wk'[v] = l /\ LocalInv(l)
      BY <2>2
    <3>2. CASE l.order = o
      <4>1. /\ rows[o].status # "absent" => rows'[o].status # "absent"
            /\ Visible(o) => Visible(o)'
            /\ broker'[o].filled >= broker[o].filled
            /\ broker[o].state = "closed" => ReportOf(o)' = ReportOf(o)
            /\ Untaken(l) => rows'[o].status = rows[o].status /\ broker'[o].state = broker[o].state
            /\ l.pc \in {"fence", "post"} => rows'[o].attempted = rows[o].attempted
        BY <2>2, <3>2 DEF Grows
      <4>2. l.pc = "observe" => l.report.filled \in Int /\ broker[o].filled \in Int /\ broker'[o].filled \in Int
        BY <3>1, QtyAssumption DEF LocalInv, TypeOK, BrokerOrder, Report
      <4>3. broker[o].state = "open" \/ broker[o].state = "closed" => Visible(o)
        BY DEF Visible
      <4>4. l.report.state = "closed" /\ ReportOf(o) = l.report => broker[o].state = "closed"
        BY DEF ReportOf
      <4>5. LocalInv(l)'
        BY <3>1, <3>2, <4>1, <4>2, <4>3, <4>4 DEF LocalInv, Untaken
      <4> QED  BY <3>1, <4>5
    <3>3. CASE l.order # o
      BY <3>1, <3>3 DEF LocalInv, Untaken, Visible, ReportOf
    <3> QED  BY <3>2, <3>3
  <2> QED  BY <2>1, <2>2
<1>4. Exclusive'
  <2> SUFFICES ASSUME NEW u \in Worker, NEW v \in Worker,
                      ClaimedAt(wk'[u]), ClaimedAt(wk'[v]), wk'[u].order = wk'[v].order
               PROVE  u = v
    BY DEF Exclusive, ClaimedAt
  <2> QED  BY DEF Exclusive, Claiming, Claims, ClaimedAt
<1> QED  BY <1>2, <1>3, <1>4

\* A step of w that changes no order at all.
LEMMA QuietStep ==
  ASSUME StateInv, TypeOK', NEW w,
         UNCHANGED <<rows, broker>>,
         \A v \in Worker \ {w} : wk'[v] = wk[v],
         w \in Worker => LocalInv(wk[w])' /\ (ClaimedAt(wk'[w]) => ClaimedAt(wk[w]) /\ wk'[w].order = wk[w].order)
  PROVE  StateInv'
<1> USE DEF StateInv
<1>1. ASSUME NEW v \in Worker, NEW p \in Order, Claims(v, p)' PROVE Claims(v, p)
  BY <1>1 DEF Claims, ClaimedAt
<1>2. ASSUME NEW p \in Order PROVE OrderInv(p)'
  BY <1>1 DEF OrderInv, Visible
<1>3. ASSUME NEW v \in Worker PROVE LocalInv(wk[v])'
  <2>1. CASE v = w
    BY <2>1
  <2>2. CASE v # w
    BY <2>2 DEF LocalInv, Untaken, Visible, ReportOf
  <2> QED  BY <2>1, <2>2
<1>4. Exclusive'
  BY DEF Exclusive, ClaimedAt
<1> QED  BY <1>2, <1>3, <1>4

\* What is held when one row changes.
LEMMA InventoryKeeps ==
  ASSUME TypeOK, TypeOK', InventoryInv, NEW o \in Order,
         \A p \in Order \ {o} : rows'[p] = rows[p],
         rows'[o].filled >= rows[o].filled,
         \A e \in Entry : Finished(e) => Finished(e)' /\ rows'[e].filled = rows[e].filled
  PROVE  InventoryInv'
<1> SUFFICES ASSUME Entry # {}
             PROVE  \E c \in Entry : (Inventory <= rows[c].filled)' /\ \A e \in Entry \ {c} : Finished(e)'
  BY DEF InventoryInv
<1>1. PICK c \in Entry : Inventory <= rows[c].filled /\ \A e \in Entry \ {c} : Finished(e)
  BY DEF InventoryInv
<1>2. /\ Inventory = FilledSum(rows, Entry) - FilledSum(rows, Exit)
      /\ FilledSum(rows, Entry) \in Int /\ FilledSum(rows, Exit) \in Int
  BY InventoryType
<1>3. /\ Inventory' = FilledSum(rows', Entry) - FilledSum(rows', Exit)
      /\ FilledSum(rows', Entry) \in Int /\ FilledSum(rows', Exit) \in Int
  <2>1. (Inventory = FilledSum(rows, Entry) - FilledSum(rows, Exit)
         /\ FilledSum(rows, Entry) \in Int /\ FilledSum(rows, Exit) \in Int)'
    BY InventoryType, PTL
  <2> QED  BY <2>1
<1>4. \A p \in Order : rows[p].filled \in Int /\ rows'[p].filled \in Int
  BY QtyAssumption DEF TypeOK, Row
<1>5. ASSUME NEW S \in {Entry, Exit}
      PROVE  FilledSum(rows', S) = FilledSum(rows, S) + IF o \in S THEN rows'[o].filled - rows[o].filled ELSE 0
  <2>1. IsFiniteSet(S) /\ S \subseteq Order
    BY FiniteOrders, OrderKinds
  <2>2. \A x \in S : rows[x].filled \in Int /\ rows'[x].filled \in Int
    BY <1>4, <2>1
  <2>3. \A x \in S \ {o} : rows'[x].filled = rows[x].filled
    BY <2>1
  <2> QED  BY <2>1, <2>2, <2>3, SumChange
<1>6. c \in Order
  BY OrderKinds
<1>7. Inventory' <= rows'[c].filled
  <2>1. CASE o \in Exit
    <3>1. o \notin Entry /\ o # c
      BY <2>1, OrderKinds
    <3>2. rows'[c] = rows[c]
      BY <1>6, <3>1
    <3>3. Inventory' = Inventory - (rows'[o].filled - rows[o].filled)
      BY <1>2, <1>3, <1>4, <1>5, <2>1, <3>1
    <3> QED  BY <1>1, <1>2, <1>4, <1>6, <3>2, <3>3
  <2>2. CASE o \in Entry
    <3>1. o \notin Exit
      BY <2>2, OrderKinds
    <3>2. Inventory' = Inventory + (rows'[o].filled - rows[o].filled)
      BY <1>2, <1>3, <1>4, <1>5, <2>2, <3>1
    <3>3. CASE o = c
      BY <1>1, <1>2, <1>4, <1>6, <3>2, <3>3
    <3>4. CASE o # c
      <4>1. rows'[o].filled = rows[o].filled /\ rows'[c] = rows[c]
        BY <1>1, <1>6, <2>2, <3>4
      <4> QED  BY <1>1, <1>2, <1>4, <1>6, <3>2, <4>1
    <3> QED  BY <3>3, <3>4
  <2> QED  BY <2>1, <2>2, OrderKinds
<1> QED  BY <1>1, <1>7

\* What is held when only the broker changes.
LEMMA InventoryStays ==
  ASSUME InventoryInv, UNCHANGED rows, \A e \in Entry : Finished(e) => Finished(e)'
  PROVE  InventoryInv'
<1>1. Inventory' = Inventory
  BY DEF Inventory, Sum, Filled, MapThenSumSet, MapThenFoldSet
<1> QED  BY <1>1 DEF InventoryInv

-----------------------------------------------------------------------------
(* Types *)

\* One worker's local state changes.
LEMMA LocalType ==
  ASSUME TypeOK, NEW w \in Worker, NEW l \in Local, wk' = [wk EXCEPT ![w] = l]
  PROVE  wk' \in [Worker -> Local] /\ wk'[w] = l /\ \A v \in Worker \ {w} : wk'[v] = wk[v]
BY DEF TypeOK

LEMMA IdleType ==
  /\ Off \in Local /\ Idle \in Local
  /\ \A pc \in Pc : [Idle EXCEPT !.pc = pc] \in Local
  /\ Off.pc = "off" /\ Idle.pc = "idle"
<1>1. 0 \in 0..Qty
  BY QtyAssumption
<1>2. Off \in Local
  BY <1>1 DEF Off, Local, Pc
<1>3. Idle \in Local
  BY <1>2 DEF Idle, Local, Pc
<1>4. Off.pc = "off" /\ Idle.pc = "idle"
  BY DEF Off, Idle
<1> QED  BY <1>2, <1>3, <1>4 DEF Local

LEMMA RowType ==
  /\ NoRow \in Row /\ NotThere \in BrokerOrder
  /\ \A qty \in 0..Qty : Approved(qty) \in Row
<1>1. 0 \in 0..Qty
  BY QtyAssumption
<1>2. NoRow \in Row
  BY <1>1 DEF NoRow, Row, Status
<1>3. NotThere \in BrokerOrder
  BY <1>1 DEF NotThere, BrokerOrder
<1>4. ASSUME NEW qty \in 0..Qty PROVE Approved(qty) \in Row
  BY <1>2 DEF Approved, Row, Status
<1> QED  BY <1>2, <1>3, <1>4

LEMMA TypeInit == Init => TypeOK
<1>1. 0 \in 0..EntryLimit /\ 0 \in 0..MaxFaults
  BY EntryLimitAssumption, MaxFaultsAssumption
<1> SUFFICES ASSUME Init PROVE TypeOK
  OBVIOUS
<1>2. lease \in [owner : Worker \cup {NoWorker}, stale : BOOLEAN]
  BY DEF Init
<1>3. rows \in [Order -> Row] /\ broker \in [Order -> BrokerOrder] /\ wk \in [Worker -> Local]
  BY RowType, IdleType DEF Init
<1> QED  BY <1>1, <1>2, <1>3 DEF Init, TypeOK

\* One field of a row changes.
LEMMA RowUpdate ==
  ASSUME TypeOK, NEW o \in Order
  PROVE  /\ \A s \in Status : [rows EXCEPT ![o].status = s] \in [Order -> Row]
         /\ [rows EXCEPT ![o].status = "expired", ![o].released = TRUE] \in [Order -> Row]
         /\ [rows EXCEPT ![o].attempted = TRUE] \in [Order -> Row]
         /\ \A r \in Report \cup {NoReport} :
               [rows EXCEPT ![o].status = "cancel_pending", ![o].seen = r] \in [Order -> Row]
         /\ \A s \in {"none", "coming", "open", "closed"} : [broker EXCEPT ![o].state = s] \in [Order -> BrokerOrder]
         /\ [broker EXCEPT ![o].cancel = TRUE] \in [Order -> BrokerOrder]
<1>1. rows[o] \in Row /\ broker[o] \in BrokerOrder
  BY DEF TypeOK
<1>2. "expired" \in Status /\ "cancel_pending" \in Status
  BY DEF Status, FINAL
<1>3. ASSUME NEW s \in Status PROVE [rows EXCEPT ![o].status = s] \in [Order -> Row]
  <2>1. [rows[o] EXCEPT !.status = s] \in Row
    BY <1>1 DEF Row
  <2> QED  BY <2>1 DEF TypeOK
<1>4. [rows EXCEPT ![o].status = "expired", ![o].released = TRUE] \in [Order -> Row]
  <2>1. [rows[o] EXCEPT !.status = "expired", !.released = TRUE] \in Row
    BY <1>1, <1>2 DEF Row
  <2> QED  BY <2>1 DEF TypeOK
<1>5. [rows EXCEPT ![o].attempted = TRUE] \in [Order -> Row]
  <2>1. [rows[o] EXCEPT !.attempted = TRUE] \in Row
    BY <1>1 DEF Row
  <2> QED  BY <2>1 DEF TypeOK
<1>6. ASSUME NEW r \in Report \cup {NoReport}
      PROVE [rows EXCEPT ![o].status = "cancel_pending", ![o].seen = r] \in [Order -> Row]
  <2>1. [rows[o] EXCEPT !.status = "cancel_pending", !.seen = r] \in Row
    BY <1>1, <1>2 DEF Row
  <2> QED  BY <2>1 DEF TypeOK
<1>7. ASSUME NEW s \in {"none", "coming", "open", "closed"}
      PROVE [broker EXCEPT ![o].state = s] \in [Order -> BrokerOrder]
  <2>1. [broker[o] EXCEPT !.state = s] \in BrokerOrder
    BY <1>1 DEF BrokerOrder
  <2> QED  BY <2>1 DEF TypeOK
<1>8. [broker EXCEPT ![o].cancel = TRUE] \in [Order -> BrokerOrder]
  <2>1. [broker[o] EXCEPT !.cancel = TRUE] \in BrokerOrder
    BY <1>1 DEF BrokerOrder
  <2> QED  BY <2>1 DEF TypeOK
<1> QED  BY <1>3, <1>4, <1>5, <1>6, <1>7, <1>8

LEMMA ReportType ==
  ASSUME TypeOK, NEW o \in Order, Visible(o)
  PROVE  ReportOf(o) \in Report
BY DEF TypeOK, BrokerOrder, Visible, ReportOf, Report

\* A reconciliation reads the rows into the local state.
LEMMA ReconcileType ==
  ASSUME TypeOK, NEW w \in Worker, NEW goal \in {"none", "cancel", "plan", "assess"}, Reconcile(w, goal)
  PROVE  /\ wk' \in [Worker -> Local]
         /\ \A v \in Worker \ {w} : wk'[v] = wk[v]
         /\ wk'[w].pc = "reconcile"
<1>1. Unresolved \in SUBSET Order /\ {o \in Unresolved : rows[o].status # "approved"} \in SUBSET Order
  BY DEF Unresolved
<1> DEFINE l == [Idle EXCEPT !.pc = "reconcile", !.goal = goal, !.todo = Unresolved,
                             !.sent = {o \in Unresolved : rows[o].status # "approved"}]
<1>2. l \in Local /\ l.pc = "reconcile"
  <2>1. Idle \in Local
    BY IdleType
  <2> QED  BY <1>1, <2>1 DEF Local, Pc
<1>3. wk' = [wk EXCEPT ![w] = l]
  BY DEF Reconcile
<1> HIDE DEF l
<1> QED  BY <1>2, <1>3, LocalType

\* The number of an order that was counted.
LEMMA CountedSize ==
  /\ IsFiniteSet(Counted) /\ Cardinality(Counted) \in Nat
  /\ Counted # {} => Cardinality(Counted) > 0
<1>1. IsFiniteSet(Counted)
  BY FiniteOrders, FS_Subset DEF Counted
<1> QED  BY <1>1, FS_CardinalityType, FS_EmptySet

\* The next exit has a number of its own.
LEMMA NextExit ==
  ASSUME TypeOK, InventoryInv, Inventory > 0, Cardinality(Sells) < MaxExits
  PROVE  <<Held[1], Cardinality(Sells) + 1>> \in Exit
<1>1. Held[1] \in 1..Events
  BY HeldIn, OrderKinds
<1>2. Cardinality(Sells) \in Nat
  BY FiniteOrders, FS_Subset, FS_CardinalityType DEF Sells
<1> QED  BY <1>1, <1>2, MaxExitsAssumption DEF Exit

\* A reservation is taken back.
LEMMA ExpireType ==
  ASSUME TypeOK, BudgetInv, NEW o \in Entry, NEW expected \in {"approved", "reconciliation_required"},
         ExpireUnsent(o, expected)
  PROVE  budget' \in 0..EntryLimit /\ rows' \in [Order -> Row]
<1>1. CASE UNCHANGED <<budget, rows>>
  BY <1>1 DEF TypeOK
<1>2. CASE ~ UNCHANGED <<budget, rows>>
  <2>1. /\ o \in Counted /\ budget' = budget - 1
        /\ rows' = [rows EXCEPT ![o].status = "expired", ![o].released = TRUE]
    BY <1>2 DEF ExpireUnsent, Counted
  <2>2. budget \in 0..EntryLimit /\ budget > 0
    BY <2>1, CountedSize DEF TypeOK, BudgetInv
  <2>3. rows' \in [Order -> Row]
    BY <2>1, OrderKinds, RowUpdate
  <2> QED  BY <2>1, <2>2, <2>3, EntryLimitAssumption
<1> QED  BY <1>1, <1>2

LEMMA TypeStep ==
  ASSUME OrdersInv, [Next]_vars
  PROVE  TypeOK'
<1> USE DEF OrdersInv
<1>Q. NoWorker \notin Worker /\ Qty \in Nat \ {0} /\ EntryLimit \in Nat /\ MaxFaults \in Nat
  BY NoWorkerAssumption, QtyAssumption, EntryLimitAssumption, MaxFaultsAssumption
<1>U. CASE UNCHANGED vars
  BY <1>U DEF vars, TypeOK
<1>W. ASSUME NEW w \in Worker, WorkerStep(w) \/ Start(w) \/ Crash(w) \/ RequestFails(w)
               \/ Supervise(w) \/ SubmitEntry(w) \/ StreamUpdate(w) \/ MarketClosed(w)
               \/ FenceRefusesExit(w) \/ PostRejected(w) \/ PostUnanswered(w)
      PROVE  TypeOK'
  <2>L. wk[w] \in Local /\ LocalInv(wk[w])
    BY DEF TypeOK
  <2>E. ASSUME Ends(w), UNCHANGED <<paused, budget, rows, broker, due, faults>> PROVE TypeOK'
    BY <2>E, IdleType DEF TypeOK, Ends
  <2>R. ASSUME Rest(w), UNCHANGED <<budget, rows, broker, due, faults, lease>>, paused' \in BOOLEAN PROVE TypeOK'
    BY <2>R, IdleType DEF TypeOK, Rest
  <2>C. [Idle EXCEPT !.pc = "cancel"] \in Local
    BY IdleType DEF Pc
  <2>1. CASE Start(w)
    BY <2>1, IdleType DEF Start, Rest, TypeOK
  <2>2. CASE Crash(w)
    BY <1>Q, <2>2, IdleType DEF Crash, Fault, TypeOK
  <2>3. CASE RequestFails(w) \/ MarketClosed(w)
    <3>1. Rest(w) /\ UNCHANGED <<lease, budget, rows, broker, due>> /\ paused' = TRUE /\ Fault
      BY <2>3 DEF RequestFails, MarketClosed
    <3> QED  BY <1>Q, <3>1, IdleType DEF Fault, Rest, TypeOK
  <2>4. CASE Supervise(w) \/ SubmitEntry(w) \/ StreamUpdate(w)
    <3>1. \E goal \in {"none", "cancel", "plan", "assess"} : Tick(w, goal)
      BY <2>4 DEF Supervise, SubmitEntry, StreamUpdate
    <3> QED  BY <3>1, ReconcileType DEF Tick, Refresh, TypeOK
  <2>5. CASE LookUp(w)
    <3> DEFINE o == First(wk[w].todo)
    <3>1. o \in Order
      BY <2>5, <2>L, FirstIn DEF LookUp, Local
    <3>2. Visible(o) => ReportOf(o) \in Report
      BY <3>1, ReportType
    <3> HIDE DEF o
    <3>3. wk' = [wk EXCEPT ![w] =
           IF Visible(o) THEN [@ EXCEPT !.pc = "observe", !.order = o, !.report = ReportOf(o)]
                         ELSE [@ EXCEPT !.todo = wk[w].todo \ {o}, !.bad = wk[w].bad \/ o \in wk[w].sent]]
      BY <2>5 DEF LookUp, o
    <3>4. (wk[w].bad \/ o \in wk[w].sent) \in BOOLEAN
      BY <2>L DEF Local
    <3>5. wk' \in [Worker -> Local]
      <4>1. CASE Visible(o)
        <5>1. [wk[w] EXCEPT !.pc = "observe", !.order = o, !.report = ReportOf(o)] \in Local
          BY <2>L, <3>1, <3>2, <4>1 DEF Local, Pc
        <5> QED  BY <3>3, <4>1, <5>1 DEF TypeOK
      <4>2. CASE ~ Visible(o)
        <5> DEFINE l == [wk[w] EXCEPT !.todo = @ \ {o}, !.bad = @ \/ o \in wk[w].sent]
        <5> DEFINE k == IF Visible(o) THEN [wk[w] EXCEPT !.pc = "observe", !.order = o, !.report = ReportOf(o)] ELSE l
        <5>1. k = l
          BY <4>2, Zenon
        <5>2. wk' = [wk EXCEPT ![w] = l]
          <6>1. wk' = [wk EXCEPT ![w] = k]
            BY <3>3, Zenon
          <6> HIDE DEF k, l
          <6> QED  BY <5>1, <6>1
        <5>3. l \in Local
          <6> DEFINE b == wk[w].bad \/ o \in wk[w].sent
          <6>1. b \in BOOLEAN
            BY <3>4
          <6>2. l = [wk[w] EXCEPT !.todo = @ \ {o}, !.bad = b]
            BY Zenon
          <6> HIDE DEF b, l
          <6> QED  BY <2>L, <6>1, <6>2 DEF Local
        <5> HIDE DEF l
        <5> QED  BY <5>2, <5>3, LocalType
      <4> QED  BY <4>1, <4>2
    <3> QED  BY <2>5, <3>5 DEF LookUp, TypeOK
  <2>6. CASE FinishReconcile(w)
    <3>1. wk' = [wk EXCEPT ![w] = Idle] \/ wk' = [wk EXCEPT ![w] = [Idle EXCEPT !.pc = wk[w].goal]]
      BY <2>6 DEF FinishReconcile
    <3>2. wk' \in [Worker -> Local]
      <4>1. wk[w].goal \in Pc \/ wk[w].goal = "none"
        BY <2>L DEF Local, Pc
      <4>2. wk' = [wk EXCEPT ![w] = Idle] \/ (wk[w].goal \in Pc /\ wk' = [wk EXCEPT ![w] = [Idle EXCEPT !.pc = wk[w].goal]])
        BY <2>6, <4>1 DEF FinishReconcile
      <4> QED  BY <4>2, IdleType DEF TypeOK
    <3>3. paused' \in BOOLEAN
      BY <2>6 DEF FinishReconcile, TypeOK
    <3> QED  BY <2>6, <3>2, <3>3 DEF FinishReconcile, TypeOK
  <2>7. CASE Observe(w)
    <3> DEFINE o == wk[w].order
               r == wk[w].report
    <3>1. o \in Order /\ r \in Report
      BY <2>7, <2>L DEF Observe, At, LocalInv
    <3>2. Observed(rows[o], r) \in Row
      <4>1. rows[o] \in Row /\ r.filled \in 0..Qty /\ Incoming(rows[o], r) \in Status
        BY <3>1 DEF TypeOK, Incoming, Report, Status, FINAL
      <4>2. [rows[o] EXCEPT !.known = TRUE, !.filled = r.filled, !.seen = r, !.status = Incoming(rows[o], r)] \in Row
        BY <3>1, <4>1 DEF Row
      <4> QED  BY <4>1, <4>2 DEF Observed
    <3>3. wk' \in [Worker -> Local]
      <4>1. /\ [wk[w] EXCEPT !.pc = "reconcile", !.todo = @ \ {o}, !.order = NoOrder, !.report = NoReport] \in Local
            /\ [Idle EXCEPT !.pc = "cancel"] \in Local
        <5>1. [wk[w] EXCEPT !.pc = "reconcile", !.todo = @ \ {o}, !.order = NoOrder, !.report = NoReport] \in Local
          BY <2>L DEF Local, Pc
        <5> QED  BY <5>1, <2>C
      <4>2. \/ wk' = [wk EXCEPT ![w] = Idle]
            \/ wk' = [wk EXCEPT ![w] = [wk[w] EXCEPT !.pc = "reconcile", !.todo = @ \ {o}, !.order = NoOrder, !.report = NoReport]]
            \/ wk' = [wk EXCEPT ![w] = [Idle EXCEPT !.pc = "cancel"]]
        <5>1. CASE TakesBack(rows[o], r)
          BY <2>7, <5>1 DEF Observe, Rest
        <5>2. CASE ~ TakesBack(rows[o], r)
          <6>1. wk' = [wk EXCEPT ![w] =
                   IF o \in wk[w].todo
                   THEN [@ EXCEPT !.pc = "reconcile", !.todo = wk[w].todo \ {o}, !.order = NoOrder, !.report = NoReport]
                   ELSE IF wk[w].goal = "plan" THEN [Idle EXCEPT !.pc = "cancel"] ELSE Idle]
            BY <2>7, <5>2 DEF Observe
          <6>2. CASE o \in wk[w].todo
            BY <6>1, <6>2, Zenon
          <6>3. CASE o \notin wk[w].todo
            BY <6>1, <6>3, Zenon
          <6> QED  BY <6>2, <6>3
        <5> QED  BY <5>1, <5>2
      <4> QED  BY <4>1, <4>2, IdleType DEF TypeOK
    <3>4. rows' \in [Order -> Row] /\ paused' \in BOOLEAN
      BY <2>7, <3>1, <3>2 DEF Observe, TypeOK
    <3> QED  BY <2>7, <3>3, <3>4 DEF Observe, TypeOK
  <2>8. CASE ChooseCancel(w)
    <3>1. PICK o \in Cancellable : wk' = [wk EXCEPT ![w].pc = "delete", ![w].order = o, ![w].report = rows[o].seen]
      BY <2>8 DEF ChooseCancel
    <3>2. o \in Order /\ rows[o].seen \in Report \cup {NoReport}
      BY DEF Cancellable, Unresolved, TypeOK, Row
    <3>3. wk' \in [Worker -> Local]
      BY <2>L, <3>1, <3>2 DEF TypeOK, Local, Pc
    <3> QED  BY <2>8, <3>3 DEF ChooseCancel, TypeOK
  <2>9. CASE ChooseUnsent(w)
    <3>1. PICK o \in Unsent : wk' = [wk EXCEPT ![w].pc = "expire", ![w].order = o]
      BY <2>9 DEF ChooseUnsent
    <3>2. wk' \in [Worker -> Local]
      BY <2>L, <3>1 DEF TypeOK, Local, Pc, Unsent, Unresolved
    <3> QED  BY <2>9, <3>2 DEF ChooseUnsent, TypeOK
  <2>10. CASE ExpireBuy(w)
    <3>1. wk[w].order \in Entry
      BY <2>10, <2>L DEF ExpireBuy, At, LocalInv
    <3>2. budget' \in 0..EntryLimit /\ rows' \in [Order -> Row]
      BY <2>10, <3>1, ExpireType DEF ExpireBuy
    <3>3. wk' \in [Worker -> Local]
      BY <2>10, <2>C DEF ExpireBuy, TypeOK
    <3> QED  BY <2>10, <3>2, <3>3 DEF ExpireBuy, TypeOK
  <2>11. CASE EndCancel(w)
    BY <2>11, ReconcileType DEF EndCancel, TypeOK
  <2>12. CASE Delete(w)
    <3>1. wk[w].order \in Order /\ Visible(wk[w].order)
      BY <2>12, <2>L DEF Delete, At, LocalInv
    <3>2. ReportOf(wk[w].order) \in Report
      BY <3>1, ReportType
    <3>3. wk' \in [Worker -> Local]
      BY <2>12, <2>L, <3>2 DEF Delete, Goto, TypeOK, Local, Pc
    <3>4. broker' \in [Order -> BrokerOrder]
      <4>1. [broker EXCEPT ![wk[w].order].cancel = TRUE] \in [Order -> BrokerOrder]
        BY <3>1, RowUpdate
      <4>2. broker' = [broker EXCEPT ![wk[w].order].cancel = TRUE] \/ UNCHANGED broker
        BY <2>12 DEF Delete
      <4> QED  BY <4>1, <4>2 DEF TypeOK
    <3> QED  BY <2>12, <3>3, <3>4 DEF Delete, Refresh, TypeOK
  <2>13. CASE MarkCancelPending(w)
    <3>1. wk[w].order \in Order
      BY <2>13, <2>L DEF MarkCancelPending, At, LocalInv
    <3>2. rows' \in [Order -> Row]
      <4>1. wk[w].report \in Report \cup {NoReport}
        BY <2>L DEF Local
      <4> QED  BY <2>13, <3>1, <4>1, RowUpdate DEF MarkCancelPending
    <3>3. wk' \in [Worker -> Local]
      BY <2>13, <2>C DEF MarkCancelPending, TypeOK
    <3> QED  BY <2>13, <3>2, <3>3 DEF MarkCancelPending, TypeOK
  <2>14. CASE Plan(w)
    <3>1. CASE Rest(w)
      <4>1. paused' \in BOOLEAN
        BY <2>14 DEF Plan, TypeOK
      <4> QED  BY <2>14, <2>R, <3>1, <4>1 DEF Plan
    <3>2. CASE ~ Rest(w)
      <4>1. /\ Inventory > 0 /\ Cardinality(Sells) < MaxExits
            /\ wk' = [wk EXCEPT ![w].pc = "check", ![w].qty = Inventory,
                                ![w].order = <<Held[1], Cardinality(Sells) + 1>>]
            /\ UNCHANGED paused
        BY <2>14, <3>2 DEF Plan
      <4>2. <<Held[1], Cardinality(Sells) + 1>> \in Exit
        BY <4>1, NextExit
      <4>3. Inventory \in 1..Qty
        BY <4>1, HeldQuantity
      <4>4. wk' \in [Worker -> Local]
        <5> DEFINE o == <<Held[1], Cardinality(Sells) + 1>>
        <5>1. o \in Order /\ Inventory \in 0..Qty
          BY <4>2, <4>3, <1>Q, OrderKinds
        <5> HIDE DEF o
        <5>2. wk' = [wk EXCEPT ![w].pc = "check", ![w].qty = Inventory, ![w].order = o]
          BY <4>1 DEF o
        <5> QED  BY <2>L, <5>1, <5>2 DEF TypeOK, Local, Pc
      <4> QED  BY <2>14, <4>1, <4>4 DEF Plan, TypeOK
    <3> QED  BY <3>1, <3>2
  <2>15. CASE Check(w)
    <3>1. CASE Rest(w)
      BY <2>15, <2>R, <3>1 DEF Check, TypeOK
    <3>2. CASE Goto(w, "reserve_exit")
      BY <2>15, <2>L, <3>2 DEF Check, Goto, TypeOK, Local, Pc
    <3> QED  BY <2>15, <3>1, <3>2 DEF Check
  <2>16. CASE ReserveExit(w)
    <3>1. CASE Rest(w) /\ UNCHANGED <<rows, lease>>
      BY <2>16, <2>R, <3>1 DEF ReserveExit, TypeOK
    <3>2. CASE Ends(w) /\ UNCHANGED rows
      BY <2>16, <2>E, <3>2 DEF ReserveExit
    <3>3. CASE /\ rows' = [rows EXCEPT ![wk[w].order] = Approved(wk[w].qty)]
               /\ Goto(w, "dispatch") /\ UNCHANGED lease
      <4>1. wk[w].qty \in 0..Qty
        BY <2>L DEF Local
      <4>2. Approved(wk[w].qty) \in Row
        BY <4>1, RowType
      <4>3. rows' \in [Order -> Row]
        BY <3>3, <4>2 DEF TypeOK
      <4>4. wk' \in [Worker -> Local]
        BY <2>L, <3>3 DEF Goto, TypeOK, Local, Pc
      <4> QED  BY <2>16, <3>3, <4>3, <4>4 DEF ReserveExit, TypeOK
    <3> QED  BY <2>16, <3>1, <3>2, <3>3 DEF ReserveExit
  <2>17. CASE Assess(w)
    <3>1. CASE Rest(w)
      BY <2>17, <2>R, <3>1 DEF Assess, TypeOK
    <3>2. CASE \E e \in Entry : wk' = [wk EXCEPT ![w].pc = "reserve", ![w].order = e]
      <4>1. wk' \in [Worker -> Local]
        <5>1. PICK e \in Entry : wk' = [wk EXCEPT ![w].pc = "reserve", ![w].order = e]
          BY <3>2
        <5>2. e \in Order
          BY OrderKinds
        <5>3. [wk[w] EXCEPT !.pc = "reserve", !.order = e] \in Local
          BY <2>L, <5>2 DEF Local, Pc
        <5> QED  BY <5>1, <5>3 DEF TypeOK
      <4> QED  BY <2>17, <4>1 DEF Assess, TypeOK
    <3> QED  BY <2>17, <3>1, <3>2 DEF Assess
  <2>18. CASE ReserveEntry(w)
    <3>1. CASE Rest(w) /\ UNCHANGED <<rows, budget>>
      BY <2>18, <2>R, <3>1 DEF ReserveEntry, TypeOK
    <3>2. CASE /\ MayEnter(wk[w].order) /\ rows' = [rows EXCEPT ![wk[w].order] = Approved(Qty)]
               /\ budget' = budget + 1 /\ Goto(w, "dispatch")
      <4>1. Approved(Qty) \in Row
        BY <1>Q, RowType
      <4>2. rows' \in [Order -> Row]
        BY <3>2, <4>1 DEF TypeOK
      <4>3. wk' \in [Worker -> Local]
        BY <2>L, <3>2 DEF Goto, TypeOK, Local, Pc
      <4>4. budget' \in 0..EntryLimit
        BY <1>Q, <3>2 DEF MayEnter, TypeOK
      <4> QED  BY <2>18, <4>2, <4>3, <4>4 DEF ReserveEntry, TypeOK
    <3> QED  BY <2>18, <3>1, <3>2 DEF ReserveEntry
  <2>19. CASE Dispatch(w)
    <3>1. Visible(wk[w].order) => ReportOf(wk[w].order) \in Report
      BY <2>19, <2>L, ReportType DEF Dispatch, At, LocalInv
    <3>2. wk' \in [Worker -> Local]
      BY <2>19, <2>L, <3>1 DEF Dispatch, TypeOK, Local, Pc
    <3> QED  BY <2>19, <3>2 DEF Dispatch, Refresh, TypeOK
  <2>20. CASE Claim(w)
    <3>1. rows' \in [Order -> Row]
      <4>1. wk[w].order \in Order
        BY <2>20, <2>L DEF Claim, At, LocalInv
      <4>2. [rows EXCEPT ![wk[w].order].status = "reconciliation_required"] \in [Order -> Row]
        BY <4>1, RowUpdate DEF Status
      <4>3. rows' = [rows EXCEPT ![wk[w].order].status = "reconciliation_required"] \/ UNCHANGED rows
        BY <2>20 DEF Claim
      <4> QED  BY <4>2, <4>3 DEF TypeOK
    <3>2. wk' \in [Worker -> Local]
      <4>1. [wk[w] EXCEPT !.pc = "fence"] \in Local
        BY <2>L DEF Local, Pc
      <4> QED  BY <2>20, <4>1, IdleType DEF Claim, Goto, Rest, TypeOK
    <3> QED  BY <2>20, <3>1, <3>2 DEF Claim, TypeOK
  <2>21. CASE Fence(w)
    <3>1. wk' \in [Worker -> Local]
      BY <2>21, <2>L DEF Fence, Goto, TypeOK, Local, Pc
    <3> QED  BY <2>21, <3>1 DEF Fence, Refresh, TypeOK
  <2>22. CASE FenceRefusesEntry(w)
    <3>1. budget' \in 0..EntryLimit /\ rows' \in [Order -> Row]
      BY <2>22, ExpireType DEF FenceRefusesEntry
    <3>2. wk' \in [Worker -> Local]
      BY <2>22, IdleType DEF FenceRefusesEntry, Rest, TypeOK
    <3> QED  BY <2>22, <3>1, <3>2 DEF FenceRefusesEntry, Refresh, TypeOK
  <2>23. CASE PostAccepted(w)
    <3>1. broker' \in [Order -> BrokerOrder]
      <4>1. wk[w].order \in Order
        BY <2>23, <2>L DEF PostAccepted, At, LocalInv
      <4> QED  BY <2>23, <4>1, RowUpdate DEF PostAccepted
    <3>2. wk' \in [Worker -> Local]
      <4>1. [state |-> "open", filled |-> 0] \in Report
        BY <1>Q DEF Report
      <4>2. [wk[w] EXCEPT !.pc = "record", !.answer = "ok", !.report = [state |-> "open", filled |-> 0]] \in Local
        BY <2>L, <4>1 DEF Local, Pc
      <4> QED  BY <2>23, <4>2 DEF PostAccepted, TypeOK
    <3> QED  BY <2>23, <3>1, <3>2 DEF PostAccepted, TypeOK
  <2>24. CASE RecordAttempt(w)
    <3>1. rows' \in [Order -> Row]
      <4>1. wk[w].order \in Order
        BY <2>24, <2>L DEF RecordAttempt, At, LocalInv
      <4> QED  BY <2>24, <4>1, RowUpdate DEF RecordAttempt
    <3>2. wk' \in [Worker -> Local]
      BY <2>24, <2>L DEF RecordAttempt, TypeOK, Local, Pc
    <3> QED  BY <2>24, <3>1, <3>2 DEF RecordAttempt, TypeOK
  <2>25. CASE Resolve(w)
    <3>1. rows' \in [Order -> Row] /\ paused' \in BOOLEAN
      <4>1. wk[w].order \in Order
        BY <2>25, <2>L DEF Resolve, At, LocalInv
      <4>2. [rows EXCEPT ![wk[w].order].status = "rejected"] \in [Order -> Row]
        BY <4>1, RowUpdate DEF Status, FINAL
      <4>3. rows' = [rows EXCEPT ![wk[w].order].status = "rejected"] \/ UNCHANGED rows
        BY <2>25 DEF Resolve
      <4>4. paused' \in BOOLEAN
        BY <2>25 DEF Resolve, TypeOK
      <4> QED  BY <4>2, <4>3, <4>4 DEF TypeOK
    <3>2. wk' \in [Worker -> Local]
      BY <2>25, IdleType DEF Resolve, Rest, TypeOK
    <3> QED  BY <2>25, <3>1, <3>2 DEF Resolve, TypeOK
  <2>26. CASE TickLosesLease(w) \/ DeleteLosesLease(w) \/ DispatchLosesLease(w)
    BY <2>26, <2>E DEF TickLosesLease, DeleteLosesLease, DispatchLosesLease, LeaseLost
  <2>27. CASE FenceRefusesExit(w)
    <3>1. rows' \in [Order -> Row]
      <4>1. wk[w].order \in Order
        BY <2>27, <2>L DEF FenceRefusesExit, At, LocalInv
      <4>2. PICK s \in Status : rows' = [rows EXCEPT ![wk[w].order].status = s]
        <5>1. rows[wk[w].order].status \in Status /\ "expired" \in Status
          BY <4>1 DEF TypeOK, Row, Status, FINAL
        <5> QED  BY <2>27, <5>1 DEF FenceRefusesExit
      <4>3. \A s_1 \in Status : [rows EXCEPT ![wk[w].order].status = s_1] \in [Order -> Row]
        BY <4>1, RowUpdate
      <4> QED  BY <4>2, <4>3
    <3>2. wk' \in [Worker -> Local]
      BY <2>27, IdleType DEF FenceRefusesExit, Rest, TypeOK
    <3>3. lease' \in [owner : Worker \cup {NoWorker}, stale : BOOLEAN] /\ faults' \in 0..MaxFaults
      <4>1. lease' = [lease EXCEPT !.stale = FALSE] /\ faults < MaxFaults /\ faults' = faults + 1
        BY <2>27 DEF FenceRefusesExit, Refresh, Fault
      <4>2. faults' \in 0..MaxFaults
        BY <1>Q, <4>1 DEF TypeOK
      <4> QED  BY <4>1, <4>2 DEF TypeOK
    <3> QED  BY <2>27, <3>1, <3>2, <3>3 DEF FenceRefusesExit, TypeOK
  <2>28. CASE PostRejected(w)
    <3>1. wk' \in [Worker -> Local]
      BY <2>28, <2>L DEF PostRejected, TypeOK, Local, Pc
    <3> QED  BY <1>Q, <2>28, <3>1 DEF PostRejected, Fault, TypeOK
  <2>29. CASE PostUnanswered(w)
    <3>1. broker' \in [Order -> BrokerOrder]
      <4>1. wk[w].order \in Order
        BY <2>29, <2>L DEF PostUnanswered, At, LocalInv
      <4>2. PICK s \in {"none", "coming", "open"} : broker' = [broker EXCEPT ![wk[w].order].state = s]
        BY <2>29 DEF PostUnanswered
      <4>3. \A s_1 \in {"none", "coming", "open", "closed"} :
               [broker EXCEPT ![wk[w].order].state = s_1] \in [Order -> BrokerOrder]
        BY <4>1, RowUpdate
      <4> QED  BY <4>2, <4>3
    <3>2. wk' \in [Worker -> Local]
      BY <2>29, <2>L DEF PostUnanswered, TypeOK, Local, Pc
    <3> QED  BY <1>Q, <2>29, <3>1, <3>2 DEF PostUnanswered, Fault, TypeOK
  <2> QED  BY <1>W, <2>1, <2>2, <2>3, <2>4, <2>5, <2>6, <2>7, <2>8, <2>9, <2>10, <2>11, <2>12, <2>13, <2>14,
              <2>15, <2>16, <2>17, <2>18, <2>19, <2>20, <2>21, <2>22, <2>23, <2>24, <2>25, <2>26, <2>27,
              <2>28, <2>29 DEF WorkerStep
<1>A. CASE Ages
  <2>1. faults' \in 0..MaxFaults
    BY <1>Q, <1>A DEF Ages, Fault, TypeOK
  <2>2. lease' \in [owner : Worker \cup {NoWorker}, stale : BOOLEAN]
    BY <1>A DEF Ages, TypeOK
  <2> QED  BY <1>A, <2>1, <2>2 DEF Ages, TypeOK
<1>B. ASSUME NEW o \in Order, Arrives(o) \/ Fills(o) \/ EndsUnfilled(o) PROVE TypeOK'
  <2>1. broker[o].state = "open" => broker[o].filled + 1 \in 0..Qty
    <3>1. broker[o].filled \in 0..Qty /\ rows[o].qty \in 0..Qty
      BY DEF TypeOK, BrokerOrder, Row
    <3>2. broker[o].state = "open" => broker[o].filled < rows[o].qty
      BY DEF OrderInv
    <3> QED  BY <1>Q, <3>1, <3>2
  <2>2. broker' \in [Order -> BrokerOrder]
    BY <1>B, <2>1 DEF Arrives, Fills, EndsUnfilled, TypeOK, BrokerOrder
  <2> QED  BY <1>B, <2>2 DEF Arrives, Fills, EndsUnfilled, TypeOK
<1>T. CASE TimePasses
  BY <1>T DEF TimePasses, TypeOK
<1> QED  BY <1>U, <1>W, <1>A, <1>B, <1>T DEF Next

-----------------------------------------------------------------------------
(* Orders *)

\* A worker that rests, or stopped, knows nothing; one that reconciles, nothing of a single order.
LEMMA IdleInv ==
  /\ LocalInv(Off) /\ LocalInv(Idle)
  /\ ~ ClaimedAt(Off) /\ ~ ClaimedAt(Idle)
  /\ \A l : l.pc \in {"off", "idle", "reconcile", "cancel", "plan", "assess"} => LocalInv(l) /\ ~ ClaimedAt(l)
<1>1. \A l : l.pc \in {"off", "idle", "reconcile", "cancel", "plan", "assess"} => LocalInv(l) /\ ~ ClaimedAt(l)
  BY DEF LocalInv, ClaimedAt, Untaken
<1> QED  BY <1>1, IdleType

LEMMA IdleInvPrime ==
  \A l : l.pc \in {"off", "idle", "reconcile", "cancel", "plan", "assess"} => LocalInv(l)'
BY DEF LocalInv, Untaken

LEMMA StateInit == Init => StateInv
<1> SUFFICES ASSUME Init PROVE StateInv
  OBVIOUS
<1>1. \A w \in Worker : wk[w] = Off /\ Off.pc = "off"
  BY IdleType DEF Init
<1>2. \A o \in Order : rows[o] = NoRow /\ broker[o] = NotThere
  BY DEF Init
<1>3. ASSUME NEW o \in Order PROVE OrderInv(o)
  BY <1>1, <1>2 DEF OrderInv, NoRow, NotThere, Claims, ClaimedAt
<1>4. Exclusive
  BY <1>1 DEF Exclusive, ClaimedAt
<1> QED  BY <1>1, <1>3, <1>4, TypeInit, IdleInv DEF StateInv

\* The steps that change neither a row nor an order at the broker.
LEMMA QuietActions ==
  ASSUME StateInv, TypeOK', InventoryInv, NEW w \in Worker,
         \/ Start(w) \/ Crash(w) \/ RequestFails(w) \/ Supervise(w) \/ SubmitEntry(w) \/ StreamUpdate(w)
         \/ LookUp(w) \/ FinishReconcile(w) \/ ChooseCancel(w) \/ ChooseUnsent(w) \/ EndCancel(w)
         \/ Plan(w) \/ Check(w) \/ MarketClosed(w) \/ Assess(w) \/ Dispatch(w) \/ Fence(w) \/ PostRejected(w)
         \/ TickLosesLease(w) \/ DeleteLosesLease(w) \/ DispatchLosesLease(w)
  PROVE  StateInv' /\ UNCHANGED <<rows, broker, budget>>
<1> USE DEF StateInv
<1>L. TypeOK /\ wk[w] \in Local /\ LocalInv(wk[w])
  BY DEF TypeOK
<1> SUFFICES /\ UNCHANGED <<rows, broker, budget>>
             /\ \A v \in Worker \ {w} : wk'[v] = wk[v]
             /\ LocalInv(wk[w])' /\ (ClaimedAt(wk'[w]) => ClaimedAt(wk[w]) /\ wk'[w].order = wk[w].order)
  BY QuietStep
<1>R. ASSUME NEW l \in Local, wk' = [wk EXCEPT ![w] = l], UNCHANGED <<rows, broker, budget>>,
             l.pc \in {"off", "idle", "reconcile", "cancel", "plan", "assess"}
      PROVE  /\ UNCHANGED <<rows, broker, budget>>
             /\ \A v \in Worker \ {w} : wk'[v] = wk[v]
             /\ LocalInv(wk[w])' /\ (ClaimedAt(wk'[w]) => ClaimedAt(wk[w]) /\ wk'[w].order = wk[w].order)
  <2>1. wk'[w] = l /\ \A v \in Worker \ {w} : wk'[v] = wk[v]
    BY <1>L, <1>R, LocalType
  <2>2. LocalInv(wk[w])' /\ ~ ClaimedAt(wk'[w])
    BY <1>R, <2>1, IdleInvPrime DEF ClaimedAt
  <2> QED  BY <1>R, <2>1, <2>2
<1>E. ASSUME wk' = [wk EXCEPT ![w] = Idle] \/ wk' = [wk EXCEPT ![w] = Off], UNCHANGED <<rows, broker, budget>>
      PROVE  /\ UNCHANGED <<rows, broker, budget>>
             /\ \A v \in Worker \ {w} : wk'[v] = wk[v]
             /\ LocalInv(wk[w])' /\ (ClaimedAt(wk'[w]) => ClaimedAt(wk[w]) /\ wk'[w].order = wk[w].order)
  BY <1>E, <1>R, IdleType
<1>1. CASE Start(w) \/ Crash(w) \/ RequestFails(w) \/ MarketClosed(w)
  BY <1>1, <1>E DEF Start, Crash, RequestFails, MarketClosed, Rest
<1>2. CASE TickLosesLease(w) \/ DeleteLosesLease(w) \/ DispatchLosesLease(w)
  BY <1>2, <1>E DEF TickLosesLease, DeleteLosesLease, DispatchLosesLease, LeaseLost, Ends
<1>3. CASE Supervise(w) \/ SubmitEntry(w) \/ StreamUpdate(w) \/ EndCancel(w)
  <2>1. \E goal \in {"none", "cancel", "plan", "assess"} : Reconcile(w, goal) /\ UNCHANGED <<rows, broker, budget>>
    BY <1>3 DEF Supervise, SubmitEntry, StreamUpdate, EndCancel, Tick
  <2>2. \A v \in Worker \ {w} : wk'[v] = wk[v] /\ wk'[w].pc = "reconcile"
    BY <1>L, <2>1, ReconcileType
  <2>3. wk'[w].pc = "reconcile"
    BY <1>L, <2>1, ReconcileType
  <2>4. LocalInv(wk[w])' /\ ~ ClaimedAt(wk'[w])
    BY <2>3, IdleInvPrime DEF ClaimedAt
  <2> QED  BY <2>1, <2>2, <2>4
<1>4. CASE LookUp(w)
  <2> DEFINE o == First(wk[w].todo)
  <2>1. o \in Order
    BY <1>4, <1>L, FirstIn DEF LookUp, Local
  <2>2. Visible(o) => ReportOf(o) \in Report
    BY <1>L, <2>1, ReportType
  <2> HIDE DEF o
  <2>3. wk' = [wk EXCEPT ![w] =
         IF Visible(o) THEN [@ EXCEPT !.pc = "observe", !.order = o, !.report = ReportOf(o)]
                       ELSE [@ EXCEPT !.todo = wk[w].todo \ {o}, !.bad = wk[w].bad \/ o \in wk[w].sent]]
        /\ UNCHANGED <<rows, broker, budget>> /\ wk[w].pc = "reconcile"
    BY <1>4 DEF LookUp, At, o
  <2>4. CASE Visible(o)
    <3>1. wk'[w].pc = "observe" /\ wk'[w].order = o /\ wk'[w].report = ReportOf(o)
      BY <1>L, <2>3, <2>4 DEF TypeOK, Local
    <3>2. broker[o].filled \in Int
      BY <1>L, <2>1, FillTypes
    <3>3. ReportOf(o).filled = broker[o].filled
      BY DEF ReportOf
    <3>4. LocalInv(wk'[w]) /\ ~ ClaimedAt(wk'[w])
      BY <2>1, <2>2, <2>4, <3>1, <3>2, <3>3 DEF LocalInv, ClaimedAt, Untaken
    <3>5. LocalInv(wk[w])'
      BY <2>3, <3>4 DEF LocalInv, Untaken, Visible, ReportOf
    <3> QED  BY <1>L, <2>3, <3>4, <3>5 DEF TypeOK
  <2>5. CASE ~ Visible(o)
    <3>1. wk'[w].pc = "reconcile"
      BY <1>L, <2>3, <2>5 DEF TypeOK, Local
    <3>2. LocalInv(wk[w])' /\ ~ ClaimedAt(wk'[w])
      BY <3>1, IdleInvPrime DEF ClaimedAt
    <3> QED  BY <1>L, <2>3, <3>2 DEF TypeOK
  <2> QED  BY <2>4, <2>5
<1>5. CASE FinishReconcile(w)
  <2>1. wk[w].goal \in {"none", "cancel", "plan", "assess"}
    BY <1>L DEF Local
  <2>2. \/ wk' = [wk EXCEPT ![w] = Idle]
        \/ wk[w].goal # "none" /\ wk' = [wk EXCEPT ![w] = [Idle EXCEPT !.pc = wk[w].goal]]
    BY <1>5 DEF FinishReconcile
  <2>3. UNCHANGED <<rows, broker, budget>>
    BY <1>5 DEF FinishReconcile
  <2>4. CASE wk' = [wk EXCEPT ![w] = Idle]
    BY <1>E, <2>3, <2>4
  <2>5. CASE wk[w].goal # "none" /\ wk' = [wk EXCEPT ![w] = [Idle EXCEPT !.pc = wk[w].goal]]
    <3> DEFINE l == [Idle EXCEPT !.pc = wk[w].goal]
    <3>1. l \in Local /\ l.pc = wk[w].goal
      <4>1. wk[w].goal \in Pc /\ Idle \in Local
        BY <2>1, <2>5, IdleType DEF Pc
      <4>2. l \in Local
        BY <4>1, IdleType
      <4>3. l.pc = wk[w].goal
        BY <4>1 DEF Local
      <4> QED  BY <4>2, <4>3
    <3> HIDE DEF l
    <3> QED  BY <1>R, <2>1, <2>3, <2>5, <3>1 DEF l
  <2> QED  BY <2>2, <2>4, <2>5
<1>6. CASE ChooseCancel(w)
  <2>1. PICK o \in Cancellable : wk' = [wk EXCEPT ![w].pc = "delete", ![w].order = o, ![w].report = rows[o].seen]
    BY <1>6 DEF ChooseCancel
  <2>2. o \in Order /\ Visible(o)
    BY DEF Cancellable, Unresolved, OrderInv
  <2>3. wk'[w].pc = "delete" /\ wk'[w].order = o
    BY <1>L, <2>1 DEF TypeOK, Local
  <2>4. UNCHANGED <<rows, broker, budget>>
    BY <1>6 DEF ChooseCancel
  <2>5. LocalInv(wk[w])' /\ ~ ClaimedAt(wk'[w])
    BY <2>2, <2>3, <2>4 DEF LocalInv, ClaimedAt, Untaken, Visible
  <2> QED  BY <1>L, <2>1, <2>4, <2>5 DEF TypeOK
<1>7. CASE ChooseUnsent(w)
  <2>1. PICK o \in Unsent : wk' = [wk EXCEPT ![w].pc = "expire", ![w].order = o]
    BY <1>7 DEF ChooseUnsent
  <2>2. wk'[w].pc = "expire" /\ wk'[w].order = o /\ o \in Entry
    BY <1>L, <2>1 DEF TypeOK, Local, Unsent
  <2>3. UNCHANGED <<rows, broker, budget>>
    BY <1>7 DEF ChooseUnsent
  <2>4. LocalInv(wk[w])' /\ ~ ClaimedAt(wk'[w])
    BY <2>2 DEF LocalInv, ClaimedAt, Untaken
  <2> QED  BY <1>L, <2>1, <2>3, <2>4 DEF TypeOK
<1>8. CASE Plan(w)
  <2>1. CASE Rest(w)
    BY <1>8, <1>E, <2>1 DEF Plan, Rest
  <2>2. CASE ~ Rest(w)
    <3>1. /\ Inventory > 0 /\ Cardinality(Sells) < MaxExits
          /\ wk' = [wk EXCEPT ![w].pc = "check", ![w].qty = Inventory,
                              ![w].order = <<Held[1], Cardinality(Sells) + 1>>]
          /\ UNCHANGED <<rows, broker, budget>>
      BY <1>8, <2>2 DEF Plan
    <3>2. <<Held[1], Cardinality(Sells) + 1>> \in Exit
      BY <1>L, <3>1, NextExit
    <3> DEFINE o == <<Held[1], Cardinality(Sells) + 1>>
    <3> HIDE DEF o
    <3>3. wk'[w].pc = "check" /\ wk'[w].qty = Inventory /\ wk'[w].order = o
      BY <1>L, <3>1 DEF TypeOK, Local, o
    <3>4. LocalInv(wk[w])' /\ ~ ClaimedAt(wk'[w])
      BY <3>1, <3>2, <3>3 DEF LocalInv, ClaimedAt, Untaken, o
    <3> QED  BY <1>L, <3>1, <3>4 DEF TypeOK
  <2> QED  BY <2>1, <2>2
<1>9. CASE Check(w)
  <2>1. CASE Rest(w)
    BY <1>9, <1>E, <2>1 DEF Check, Rest
  <2>2. CASE Goto(w, "reserve_exit")
    <3>1. wk[w].pc = "check" /\ UNCHANGED <<rows, broker, budget>>
      BY <1>9 DEF Check, At
    <3>2. wk'[w] = [wk[w] EXCEPT !.pc = "reserve_exit"] /\ \A v \in Worker \ {w} : wk'[v] = wk[v]
      BY <1>L, <2>2 DEF Goto, TypeOK
    <3>3. wk'[w].pc = "reserve_exit" /\ wk'[w].qty = wk[w].qty /\ wk'[w].order = wk[w].order
      BY <1>L, <3>2 DEF Local
    <3>4. LocalInv(wk[w])' /\ ~ ClaimedAt(wk'[w])
      BY <1>L, <3>1, <3>3 DEF LocalInv, ClaimedAt, Untaken
    <3> QED  BY <3>1, <3>2, <3>4
  <2> QED  BY <1>9, <2>1, <2>2 DEF Check
<1>10. CASE Assess(w)
  <2>1. CASE Rest(w)
    BY <1>10, <1>E, <2>1 DEF Assess, Rest
  <2>2. CASE ~ Rest(w)
    <3>1. PICK e \in Entry : wk' = [wk EXCEPT ![w].pc = "reserve", ![w].order = e]
      BY <1>10, <2>2 DEF Assess
    <3>2. wk'[w].pc = "reserve" /\ wk'[w].order = e
      BY <1>L, <3>1 DEF TypeOK, Local
    <3>3. LocalInv(wk[w])' /\ ~ ClaimedAt(wk'[w])
      BY <3>2 DEF LocalInv, ClaimedAt, Untaken
    <3> QED  BY <1>10, <1>L, <3>1, <3>3 DEF Assess, TypeOK
  <2> QED  BY <2>1, <2>2
<1>11. CASE Dispatch(w)
  <2> DEFINE o == wk[w].order
  <2>1. wk[w].pc = "dispatch" /\ UNCHANGED <<rows, broker, budget>> /\ o \in Order /\ rows[o].status # "absent"
    BY <1>11, <1>L DEF Dispatch, At, LocalInv
  <2>2. CASE Visible(o)
    <3>1. wk' = [wk EXCEPT ![w] = [wk[w] EXCEPT !.pc = "observe", !.report = ReportOf(o)]]
      BY <1>11, <2>2 DEF Dispatch
    <3>2. wk'[w].pc = "observe" /\ wk'[w].order = o /\ wk'[w].report = ReportOf(o)
      BY <1>L, <3>1 DEF TypeOK, Local
    <3>3. broker[o].filled \in Int /\ ReportOf(o) \in Report /\ ReportOf(o).filled = broker[o].filled
      BY <1>L, <2>1, <2>2, FillTypes, ReportType DEF ReportOf
    <3> HIDE DEF o
    <3>4. LocalInv(wk[w])' /\ ~ ClaimedAt(wk'[w])
      BY <2>1, <2>2, <3>2, <3>3 DEF LocalInv, ClaimedAt, Untaken, Visible, ReportOf
    <3> QED  BY <1>L, <2>1, <3>1, <3>4 DEF TypeOK
  <2>3. CASE ~ Visible(o)
    <3>1. wk' = [wk EXCEPT ![w] = [wk[w] EXCEPT !.pc = "claim"]]
      BY <1>11, <2>3 DEF Dispatch
    <3>2. wk'[w].pc = "claim" /\ wk'[w].order = o
      BY <1>L, <3>1 DEF TypeOK, Local
    <3>3. LocalInv(wk[w])' /\ ~ ClaimedAt(wk'[w])
      BY <2>1, <3>2 DEF LocalInv, ClaimedAt, Untaken
    <3> QED  BY <1>L, <2>1, <3>1, <3>3 DEF TypeOK
  <2> QED  BY <2>2, <2>3
<1>12. CASE Fence(w) \/ PostRejected(w)
  <2>1. UNCHANGED <<rows, broker, budget>> /\ \A v \in Worker \ {w} : wk'[v] = wk[v]
    BY <1>12, <1>L DEF Fence, PostRejected, Goto, TypeOK
  <2>2. \/ wk[w].pc = "fence" /\ wk'[w].pc = "post" /\ wk'[w].order = wk[w].order
        \/ wk[w].pc = "post" /\ wk'[w].pc = "record" /\ wk'[w].answer = "rejected" /\ wk'[w].order = wk[w].order
    BY <1>12, <1>L DEF Fence, PostRejected, Goto, At, TypeOK, Local
  <2>3. LocalInv(wk[w])' /\ ClaimedAt(wk[w])
    BY <1>L, <2>1, <2>2 DEF LocalInv, ClaimedAt, Untaken
  <2> QED  BY <2>1, <2>2, <2>3
<1> QED  BY <1>1, <1>2, <1>3, <1>4, <1>5, <1>6, <1>7, <1>8, <1>9, <1>10, <1>11, <1>12

\* _observe records a report that may be old by now.
LEMMA ObserveKeeps ==
  ASSUME StateInv, TypeOK', NEW w \in Worker, NEW o, NEW r, wk[w].order = o, wk[w].report = r, Observe(w)
  PROVE  /\ StateInv' /\ UNCHANGED <<broker, budget>>
         /\ o \in Order
         /\ \A p \in Order \ {o} : rows'[p] = rows[p]
         /\ rows'[o].filled >= rows[o].filled
         /\ rows[o].status \in FINAL => rows'[o].status = rows[o].status
         /\ rows[o].status # "absent" /\ rows'[o].status # "absent"
         /\ rows'[o].released = rows[o].released
         /\ Finished(o) => Finished(o)' /\ rows'[o].filled = rows[o].filled
         /\ rows'[o].qty = rows[o].qty
         /\ wk'[w].pc \in {"idle", "reconcile", "cancel"}
<1> USE DEF StateInv
<1>L. TypeOK /\ wk[w] \in Local /\ LocalInv(wk[w]) /\ wk[w].pc = "observe"
  BY DEF TypeOK, Observe, At
<1>1. /\ o \in Order /\ Visible(o) /\ r \in Report /\ r.filled <= broker[o].filled
      /\ r.state = "closed" => ReportOf(o) = r
  BY <1>L DEF LocalInv
<1>2. OrderInv(o) /\ rows[o] \in Row /\ broker[o] \in BrokerOrder
  BY <1>1 DEF TypeOK
<1>3. UNCHANGED <<broker, budget>>
  BY DEF Observe
<1>4. \/ UNCHANGED rows
      \/ /\ rows' = [rows EXCEPT ![o] = Observed(rows[o], r)]
         /\ ~ TakesBack(rows[o], r)
  BY DEF Observe
<1>5. \A v \in Worker \ {w} : wk'[v] = wk[v]
  BY <1>L DEF Observe, Rest, TypeOK
<1>6. wk'[w].pc \in {"idle", "reconcile", "cancel"}
  <2>1. CASE TakesBack(rows[o], r)
    BY <1>L, <2>1, IdleType DEF Observe, Rest, TypeOK
  <2>2. CASE ~ TakesBack(rows[o], r)
    <3>1. wk' = [wk EXCEPT ![w] =
             IF o \in wk[w].todo
             THEN [@ EXCEPT !.pc = "reconcile", !.todo = wk[w].todo \ {o}, !.order = NoOrder, !.report = NoReport]
             ELSE IF wk[w].goal = "plan" THEN [Idle EXCEPT !.pc = "cancel"] ELSE Idle]
      BY <2>2 DEF Observe
    <3>2. Idle \in Local /\ Idle.pc = "idle"
      BY IdleType
    <3> QED  BY <1>L, <3>1, <3>2 DEF TypeOK, Local
  <2> QED  BY <2>1, <2>2
<1>7. LocalInv(wk[w])' /\ ~ ClaimedAt(wk'[w])
  BY <1>6, IdleInvPrime DEF ClaimedAt
<1>8. CASE UNCHANGED rows
  <2>1. StateInv'
    BY <1>3, <1>5, <1>7, <1>8, QuietStep
  <2>2. Finished(o) => Finished(o)'
    BY <1>3, <1>8 DEF Finished
  <2>3. rows[o].status # "absent" /\ rows[o].filled \in Int
    BY <1>1, <1>2 DEF OrderInv, Visible, Row
  <2> QED  BY <1>1, <1>3, <1>6, <1>8, <2>1, <2>2, <2>3
<1>9. CASE ~ UNCHANGED rows
  <2>1. /\ \A p \in Order \ {o} : rows'[p] = rows[p]
        /\ ~ Stale(rows[o], r) /\ ~ r.filled < rows[o].filled
        /\ rows'[o] = [rows[o] EXCEPT !.known = TRUE, !.filled = r.filled, !.seen = r, !.status = Incoming(rows[o], r)]
    BY <1>1, <1>4, <1>9 DEF Observed, TakesBack, TypeOK
  <2>2. /\ rows'[o].filled = r.filled /\ rows'[o].status = Incoming(rows[o], r)
        /\ rows'[o].qty = rows[o].qty /\ rows'[o].known
        /\ rows'[o].attempted = rows[o].attempted /\ rows'[o].released = rows[o].released
    BY <1>2, <2>1 DEF Row
  <2>3. /\ r.filled \in Int /\ rows[o].filled \in Int /\ broker[o].filled \in Int /\ rows[o].qty \in Int
        /\ r.state \in {"open", "closed"}
    BY <1>1, <1>2 DEF Report, Row, BrokerOrder
  <2>4. rows[o].filled <= r.filled /\ r.filled <= broker[o].filled
    BY <1>1, <2>1, <2>3
  <2>5. r.state = "closed" => broker[o].state = "closed" /\ broker[o].filled = r.filled
    BY <1>1 DEF ReportOf
  <2>6. ReportOf(o)' = ReportOf(o) /\ (Visible(o) <=> Visible(o)')
    BY <1>3 DEF ReportOf, Visible
  <2>7. rows[o].status \notin {"absent", "approved", "expired", "rejected"}
    BY <1>1, <1>2 DEF OrderInv, Visible
  <2>8. rows'[o].status \in {"working", "filled", "canceled"}
    BY <2>2 DEF Incoming
  <2>9. OrderInv(o)'
    BY <1>1, <1>2, <1>3, <2>2, <2>3, <2>4, <2>5, <2>6, <2>7, <2>8 DEF OrderInv, Incoming
  <2>10. Grows(o, Worker \ {w})
    <3>1. \A v \in Worker : wk[v].order = o => ~ Untaken(wk[v]) /\ wk[v].pc \notin {"fence", "post"}
      BY <1>1 DEF LocalInv, Untaken, Visible
    <3> QED  BY <1>3, <2>3, <2>6, <2>8, <3>1 DEF Grows
  <2>11. StateInv'
    BY <1>1, <1>3, <1>5, <1>7, <2>1, <2>9, <2>10, OrderStep DEF Claiming
  <2>12. Finished(o) => Finished(o)' /\ rows'[o].filled = rows[o].filled
    BY <1>3, <2>2, <2>3, <2>4, <2>7 DEF Finished
  <2>13. rows[o].status \in FINAL => rows'[o].status = rows[o].status
    <3> SUFFICES ASSUME rows[o].status \in {"filled", "canceled"} PROVE rows'[o].status = rows[o].status
      BY <2>7 DEF FINAL
    <3>1. /\ broker[o].state = "closed" /\ rows[o].filled = broker[o].filled
          /\ (rows[o].status = "filled" <=> rows[o].filled = rows[o].qty)
      BY <1>2 DEF OrderInv
    <3>2. r.filled = rows[o].filled
      BY <2>3, <2>4, <3>1
    <3>3. r.state = "closed"
      BY <2>1, <2>3, <3>2 DEF Stale, FINAL
    <3> QED  BY <2>2, <3>1, <3>2, <3>3 DEF Incoming
  <2> QED  BY <1>1, <1>3, <1>6, <2>1, <2>2, <2>3, <2>4, <2>7, <2>8, <2>11, <2>12, <2>13
<1> QED  BY <1>8, <1>9

\* _expire_unsent: a reservation that was never sent ends, whoever holds it.
LEMMA ExpireKeeps ==
  ASSUME OrdersInv, TypeOK', NEW w \in Worker, NEW o \in Entry, NEW expected,
         ExpireUnsent(o, expected), UNCHANGED broker,
         \A v \in Worker \ {w} : wk'[v] = wk[v],
         wk'[w].pc \in {"idle", "cancel"},
         \/ expected = "approved"
         \/ expected = "reconciliation_required" /\ wk[w].pc = "fence" /\ wk[w].order = o
  PROVE  /\ StateInv' /\ InventoryInv' /\ BudgetInv'
         /\ \A p \in Order :
               /\ rows'[p].filled >= rows[p].filled
               /\ rows[p].status \in FINAL => rows'[p].status = rows[p].status
<1> USE DEF OrdersInv, StateInv
<1>1. LocalInv(wk[w])' /\ ~ ClaimedAt(wk'[w])
  BY IdleInvPrime DEF ClaimedAt
<1>2. CASE UNCHANGED <<rows, budget>>
  <2>1. StateInv'
    BY <1>1, <1>2, QuietStep
  <2>2. InventoryInv' /\ BudgetInv'
    BY <1>2, InventoryStays DEF Finished, BudgetInv, Counted
  <2> QED  BY <1>2, <2>1, <2>2, FillTypes
<1>3. CASE ~ UNCHANGED <<rows, budget>>
  <2>0. o \in Order
    BY OrderKinds
  <2>1. /\ rows[o].status = expected /\ ~ rows[o].known /\ ~ rows[o].attempted /\ ~ rows[o].released
        /\ rows' = [rows EXCEPT ![o].status = "expired", ![o].released = TRUE]
        /\ budget' = budget - 1
    BY <1>3 DEF ExpireUnsent
  <2>2. /\ \A p \in Order \ {o} : rows'[p] = rows[p]
        /\ rows'[o].status = "expired" /\ rows'[o].released
        /\ rows'[o].filled = rows[o].filled /\ rows'[o].qty = rows[o].qty
        /\ rows'[o].known = rows[o].known /\ rows'[o].attempted = rows[o].attempted
    BY <2>0, <2>1 DEF TypeOK, Row
  <2>3. broker[o].state = "none" /\ OrderInv(o)
    BY <2>0, <2>1 DEF OrderInv, LocalInv, Untaken
  <2>4. OrderInv(o)'
    BY <2>1, <2>2, <2>3 DEF OrderInv, Visible
  <2>5. ASSUME NEW v \in Worker \ {w}, wk[v].order = o PROVE ~ Untaken(wk[v]) /\ wk[v].pc \notin {"fence", "post"}
    <3>1. CASE expected = "approved"
      BY <2>1, <2>5, <3>1 DEF LocalInv, Untaken
    <3>2. CASE wk[w].pc = "fence" /\ wk[w].order = o
      BY <2>5, <3>2 DEF Exclusive, ClaimedAt, Untaken
    <3> QED  BY <3>1, <3>2
  <2>6. Grows(o, Worker \ {w})
    <3>1. broker[o].filled \in Int /\ UNCHANGED <<Visible(o), ReportOf(o)>>
      BY <2>0, FillTypes DEF Visible, ReportOf
    <3> QED  BY <2>2, <2>5, <3>1 DEF Grows
  <2>7. StateInv'
    BY <1>1, <2>0, <2>2, <2>4, <2>6, OrderStep DEF Claiming
  <2>8. InventoryInv'
    <3>1. \A e \in Entry : Finished(e) => Finished(e)' /\ rows'[e].filled = rows[e].filled
      BY <2>2, OrderKinds DEF Finished
    <3> QED  BY <2>0, <2>2, <3>1, FillTypes, InventoryKeeps
  <2>9. BudgetInv'
    <3>1. Counted' = Counted \ {o} /\ o \in Counted
      BY <2>1, <2>2, OrderKinds DEF Counted
    <3>2. Cardinality(Counted') = Cardinality(Counted) - 1
      BY <3>1, CountedSize, FS_RemoveElement
    <3> QED  BY <2>1, <3>2 DEF BudgetInv
  <2>10. \A p \in Order : /\ rows'[p].filled >= rows[p].filled
                          /\ rows[p].status \in FINAL => rows'[p].status = rows[p].status
    <3>1. rows[o].status \notin FINAL
      BY <2>1 DEF FINAL
    <3> QED  BY <2>2, <3>1, FillTypes
  <2> QED  BY <2>7, <2>8, <2>9, <2>10
<1> QED  BY <1>2, <1>3

\* A step of w that changes one row, but neither its fills nor the budget.
LEMMA RowStep ==
  ASSUME OrdersInv, TypeOK', NEW w \in Worker, NEW o \in Order,
         UNCHANGED <<broker, budget>>,
         \A v \in Worker \ {w} : wk'[v] = wk[v],
         \A p \in Order \ {o} : rows'[p] = rows[p],
         rows'[o].filled = rows[o].filled, rows'[o].released = rows[o].released,
         rows[o].status = "absent" <=> rows'[o].status = "absent",
         rows[o].status \in FINAL => rows'[o].status \in {rows[o].status, "cancel_pending"},
         Finished(o) => Finished(o)',
         \A v \in Worker \ {w} : wk[v].order = o =>
             /\ Untaken(wk[v]) => rows'[o].status = rows[o].status
             /\ wk[v].pc \in {"fence", "post"} => rows'[o].attempted = rows[o].attempted,
         OrderInv(o)', LocalInv(wk[w])', Claiming(w, o)
  PROVE  StateInv' /\ InventoryInv' /\ BudgetInv' /\ RowsStand
<1> USE DEF OrdersInv, StateInv
<1>1. Grows(o, Worker \ {w})
  <2>1. broker[o].filled \in Int /\ UNCHANGED <<Visible(o), ReportOf(o)>>
    BY FillTypes DEF Visible, ReportOf
  <2> QED  BY <2>1 DEF Grows
<1>2. StateInv'
  BY <1>1, OrderStep
<1>3. \A p \in Order : rows'[p].filled = rows[p].filled /\ rows[p].filled \in Int
  BY FillTypes
<1>4. InventoryInv'
  <2>1. ASSUME NEW e \in Entry, Finished(e) PROVE Finished(e)' /\ rows'[e].filled = rows[e].filled
    BY <1>3, <2>1, OrderKinds DEF Finished
  <2> QED  BY <1>3, <2>1, InventoryKeeps
<1>5. BudgetInv'
  <2>1. Counted' = Counted
    BY OrderKinds DEF Counted
  <2> QED  BY <2>1 DEF BudgetInv
<1> QED  BY <1>2, <1>3, <1>4, <1>5 DEF RowsStand

\* A step of w, or of the broker, that changes one order at the broker.
LEMMA BrokerStep ==
  ASSUME OrdersInv, TypeOK', NEW w, NEW o \in Order,
         UNCHANGED <<rows, budget>>,
         \A v \in Worker \ {w} : wk'[v] = wk[v],
         \A p \in Order \ {o} : broker'[p] = broker[p],
         broker'[o].filled >= broker[o].filled, Visible(o) => Visible(o)',
         broker[o].state = "closed" => ReportOf(o)' = ReportOf(o),
         \A v \in Worker \ {w} : wk[v].order = o /\ Untaken(wk[v]) => broker'[o].state = broker[o].state,
         Finished(o) => Finished(o)',
         OrderInv(o)',
         w \in Worker => LocalInv(wk[w])' /\ Claiming(w, o)
  PROVE  StateInv' /\ InventoryInv' /\ BudgetInv' /\ RowsStand
<1> USE DEF OrdersInv, StateInv
<1>1. Grows(o, Worker \ {w})
  BY DEF Grows
<1>2. StateInv'
  BY <1>1, OrderStep
<1>3. InventoryInv'
  <2>1. ASSUME NEW e \in Entry, Finished(e) PROVE Finished(e)'
    BY <2>1, OrderKinds DEF Finished
  <2> QED  BY <2>1, InventoryStays
<1>4. BudgetInv' /\ RowsStand
  BY FillTypes DEF BudgetInv, Counted, RowsStand
<1> QED  BY <1>2, <1>3, <1>4

LEMMA MarkKeeps ==
  ASSUME OrdersInv, TypeOK', NEW w \in Worker, NEW o, wk[w].order = o, MarkCancelPending(w)
  PROVE  StateInv' /\ InventoryInv' /\ BudgetInv' /\ RowsStand
<1> USE DEF OrdersInv, StateInv
<1>1. o \in Order /\ Visible(o) /\ OrderInv(o) /\ LocalInv(wk[w])
  BY DEF MarkCancelPending, At, LocalInv
<1>2. /\ UNCHANGED <<broker, budget>>
      /\ \A p \in Order \ {o} : rows'[p] = rows[p]
      /\ \A v \in Worker \ {w} : wk'[v] = wk[v]
  BY <1>1 DEF MarkCancelPending, TypeOK
<1>3. /\ rows'[o].status = "cancel_pending" /\ rows'[o].filled = rows[o].filled /\ rows'[o].qty = rows[o].qty
      /\ rows'[o].known = rows[o].known /\ rows'[o].attempted = rows[o].attempted
      /\ rows'[o].released = rows[o].released
  BY <1>1 DEF MarkCancelPending, TypeOK, Row
<1>4. wk'[w].pc = "cancel"
  <2>1. wk' = [wk EXCEPT ![w] = [Idle EXCEPT !.pc = "cancel"]] /\ Idle \in Local
    BY IdleType DEF MarkCancelPending
  <2> QED  BY <2>1 DEF TypeOK, Local
<1>5. LocalInv(wk[w])' /\ ~ ClaimedAt(wk'[w])
  BY <1>4, IdleInvPrime DEF ClaimedAt
<1>6. rows[o].status \notin {"absent", "approved", "expired", "rejected"}
  BY <1>1 DEF OrderInv, Visible
<1>7. OrderInv(o)'
  BY <1>1, <1>2, <1>3, <1>6 DEF OrderInv, Visible
<1>8. Finished(o) => Finished(o)'
  BY <1>2, <1>3, <1>6 DEF Finished
<1>9. \A v \in Worker : wk[v].order = o => ~ Untaken(wk[v]) /\ wk[v].pc \notin {"fence", "post"}
  BY <1>1 DEF LocalInv, Untaken, Visible
<1> QED  BY <1>1, <1>2, <1>3, <1>5, <1>6, <1>7, <1>8, <1>9, RowStep DEF Claiming

LEMMA ClaimKeeps ==
  ASSUME OrdersInv, TypeOK', NEW w \in Worker, NEW o, wk[w].order = o, Claim(w)
  PROVE  StateInv' /\ InventoryInv' /\ BudgetInv' /\ RowsStand
<1> USE DEF OrdersInv, StateInv
<1>1. o \in Order /\ OrderInv(o) /\ LocalInv(wk[w]) /\ wk[w] \in Local
  BY DEF Claim, At, LocalInv, TypeOK
<1>2. UNCHANGED <<broker, budget>> /\ \A v \in Worker \ {w} : wk'[v] = wk[v]
  BY <1>1 DEF Claim, Goto, Rest, TypeOK
<1>3. CASE rows[o].status = "approved"
  <2>1. \A p \in Order \ {o} : rows'[p] = rows[p]
    BY <1>1, <1>3 DEF Claim, TypeOK
  <2>2. /\ rows'[o].status = "reconciliation_required"
        /\ rows'[o].filled = rows[o].filled /\ rows'[o].qty = rows[o].qty
        /\ rows'[o].known = rows[o].known /\ rows'[o].attempted = rows[o].attempted
        /\ rows'[o].released = rows[o].released
    BY <1>1, <1>3 DEF Claim, TypeOK, Row
  <2>3. wk'[w].pc = "fence" /\ wk'[w].order = o
    BY <1>1, <1>3 DEF Claim, Goto, TypeOK, Local
  <2>4. broker[o].state = "none" /\ ~ rows[o].attempted /\ \A v \in Worker : ~ Claims(v, o)
    BY <1>1, <1>3 DEF OrderInv
  <2>5. LocalInv(wk[w])' /\ Claiming(w, o)
    BY <1>1, <1>2, <2>2, <2>3, <2>4 DEF LocalInv, Claiming, Untaken
  <2>6. OrderInv(o)'
    BY <1>1, <1>2, <1>3, <2>2, <2>4 DEF OrderInv, Visible
  <2>7. Finished(o) => Finished(o)'
    BY <1>3, <2>4 DEF Finished
  <2>8. \A v \in Worker : wk[v].order = o => ~ Untaken(wk[v]) /\ wk[v].pc \notin {"fence", "post"}
    BY <1>3 DEF LocalInv, Untaken
  <2> QED  BY <1>1, <1>2, <1>3, <2>1, <2>2, <2>5, <2>6, <2>7, <2>8, RowStep DEF FINAL
<1>4. CASE rows[o].status # "approved"
  <2>1. UNCHANGED rows /\ wk'[w] = Idle
    BY <1>1, <1>4 DEF Claim, Rest, TypeOK
  <2>2. LocalInv(wk[w])' /\ ~ ClaimedAt(wk'[w])
    BY <2>1, IdleType, IdleInvPrime, IdleInv
  <2>3. StateInv'
    BY <1>2, <2>1, <2>2, QuietStep
  <2> QED  BY <1>2, <2>1, <2>3, InventoryStays, FillTypes DEF Finished, BudgetInv, Counted, RowsStand
<1> QED  BY <1>3, <1>4

\* A worker at the fence is the only one that has claimed the order.
LEMMA OnlyClaim ==
  ASSUME OrdersInv, NEW w \in Worker, ClaimedAt(wk[w])
  PROVE  \A v \in Worker \ {w} : wk[v].order = wk[w].order => ~ Untaken(wk[v]) /\ wk[v].pc \notin {"fence", "post"}
BY DEF OrdersInv, Exclusive, ClaimedAt, Untaken

LEMMA RefuseExitKeeps ==
  ASSUME OrdersInv, TypeOK', NEW w \in Worker, NEW o, wk[w].order = o, FenceRefusesExit(w)
  PROVE  StateInv' /\ InventoryInv' /\ BudgetInv' /\ RowsStand
<1> USE DEF OrdersInv, StateInv
<1>1. /\ o \in Order /\ OrderInv(o) /\ LocalInv(wk[w]) /\ ClaimedAt(wk[w])
      /\ rows[o].status = "reconciliation_required" /\ broker[o].state = "none"
  BY DEF FenceRefusesExit, At, LocalInv, ClaimedAt, Untaken
<1>2. /\ UNCHANGED <<broker, budget>> /\ wk'[w] = Idle
      /\ \A v \in Worker \ {w} : wk'[v] = wk[v]
  BY DEF FenceRefusesExit, Rest, TypeOK
<1>3. rows' = [rows EXCEPT ![o].status = "expired"]
  BY <1>1 DEF FenceRefusesExit
<1>4. \A p \in Order \ {o} : rows'[p] = rows[p]
  BY <1>3 DEF TypeOK
<1>5. /\ rows'[o].status = "expired" /\ rows'[o].filled = rows[o].filled /\ rows'[o].qty = rows[o].qty
      /\ rows'[o].known = rows[o].known /\ rows'[o].attempted = rows[o].attempted
      /\ rows'[o].released = rows[o].released
  BY <1>1, <1>3 DEF TypeOK, Row
<1>6. LocalInv(wk[w])' /\ ~ ClaimedAt(wk'[w])
  BY <1>2, IdleType, IdleInvPrime, IdleInv
<1>7. OrderInv(o)'
  BY <1>1, <1>2, <1>5 DEF OrderInv, Visible
<1>8. Finished(o) => Finished(o)'
  BY <1>5 DEF Finished
<1> QED  BY <1>1, <1>2, <1>4, <1>5, <1>6, <1>7, <1>8, OnlyClaim, RowStep DEF Claiming, FINAL

LEMMA RecordKeeps ==
  ASSUME OrdersInv, TypeOK', NEW w \in Worker, NEW o, wk[w].order = o, RecordAttempt(w)
  PROVE  StateInv' /\ InventoryInv' /\ BudgetInv' /\ RowsStand
<1> USE DEF OrdersInv, StateInv
<1>1. /\ o \in Order /\ OrderInv(o) /\ LocalInv(wk[w]) /\ ClaimedAt(wk[w]) /\ wk[w] \in Local
      /\ wk[w].pc = "record"
  BY DEF RecordAttempt, At, LocalInv, ClaimedAt, TypeOK
<1>2. /\ UNCHANGED <<broker, budget>>
      /\ \A v \in Worker \ {w} : wk'[v] = wk[v]
      /\ \A p \in Order \ {o} : rows'[p] = rows[p]
  BY DEF RecordAttempt, TypeOK
<1>3. /\ rows'[o].status = rows[o].status /\ rows'[o].filled = rows[o].filled /\ rows'[o].qty = rows[o].qty
      /\ rows'[o].known = rows[o].known /\ rows'[o].attempted /\ rows'[o].released = rows[o].released
  BY <1>1 DEF RecordAttempt, TypeOK, Row
<1>4. /\ wk'[w].order = o /\ wk'[w].report = wk[w].report
      /\ wk[w].answer = "ok" => wk'[w].pc = "observe" /\ wk'[w].answer = "none"
      /\ wk[w].answer # "ok" => wk'[w].pc = "resolve" /\ wk'[w].answer = wk[w].answer
  BY <1>1 DEF RecordAttempt, TypeOK, Local
<1>5. rows[o].status \notin {"absent", "approved"}
  BY <1>1 DEF OrderInv, Claims
<1>6. LocalInv(wk[w])' /\ Claiming(w, o)
  <2>1. CASE wk[w].answer = "ok"
    <3>1. Visible(o) /\ wk[w].report = [state |-> "open", filled |-> 0] /\ broker[o].filled >= 0
      BY <1>1, <2>1, FillTypes DEF LocalInv
    <3>2. wk[w].report \in Report
      BY <3>1, QtyAssumption DEF Report
    <3> QED  BY <1>1, <1>2, <1>4, <2>1, <3>1, <3>2 DEF LocalInv, Claiming, ClaimedAt, Untaken, Visible
  <2>2. CASE wk[w].answer # "ok"
    BY <1>1, <1>2, <1>3, <1>4, <2>2 DEF LocalInv, Claiming, ClaimedAt, Untaken
  <2> QED  BY <2>1, <2>2
<1>7. OrderInv(o)'
  BY <1>1, <1>2, <1>3, <1>5 DEF OrderInv, Visible
<1>8. Finished(o) => Finished(o)'
  BY <1>2, <1>3 DEF Finished
<1> QED  BY <1>1, <1>2, <1>3, <1>6, <1>7, <1>8, OnlyClaim, RowStep

LEMMA ResolveKeeps ==
  ASSUME OrdersInv, TypeOK', NEW w \in Worker, NEW o, wk[w].order = o, Resolve(w)
  PROVE  StateInv' /\ InventoryInv' /\ BudgetInv' /\ RowsStand
<1> USE DEF OrdersInv, StateInv
<1>1. /\ o \in Order /\ OrderInv(o) /\ LocalInv(wk[w]) /\ ClaimedAt(wk[w]) /\ wk[w].pc = "resolve"
  BY DEF Resolve, At, LocalInv, ClaimedAt
<1>2. /\ UNCHANGED <<broker, budget>> /\ wk'[w] = Idle
      /\ \A v \in Worker \ {w} : wk'[v] = wk[v]
  BY DEF Resolve, Rest, TypeOK
<1>3. LocalInv(wk[w])' /\ ~ ClaimedAt(wk'[w])
  BY <1>2, IdleType, IdleInvPrime, IdleInv
<1>4. CASE wk[w].answer = "rejected"
  <2>1. rows[o].status = "reconciliation_required" /\ broker[o].state = "none"
    BY <1>1, <1>4 DEF LocalInv, Untaken
  <2>2. rows' = [rows EXCEPT ![o].status = "rejected"]
    BY <1>4 DEF Resolve
  <2>3. \A p \in Order \ {o} : rows'[p] = rows[p]
    BY <2>2 DEF TypeOK
  <2>4. /\ rows'[o].status = "rejected" /\ rows'[o].filled = rows[o].filled /\ rows'[o].qty = rows[o].qty
        /\ rows'[o].known = rows[o].known /\ rows'[o].attempted = rows[o].attempted
        /\ rows'[o].released = rows[o].released
    BY <1>1, <2>2 DEF TypeOK, Row
  <2>5. OrderInv(o)'
    BY <1>1, <1>2, <2>1, <2>4 DEF OrderInv, Visible
  <2>6. Finished(o) => Finished(o)'
    BY <2>4 DEF Finished
  <2> QED  BY <1>1, <1>2, <1>3, <2>1, <2>3, <2>4, <2>5, <2>6, OnlyClaim, RowStep DEF Claiming, FINAL
<1>5. CASE wk[w].answer # "rejected"
  <2>1. UNCHANGED rows
    BY <1>5 DEF Resolve
  <2>2. StateInv'
    BY <1>2, <1>3, <2>1, QuietStep
  <2> QED  BY <1>2, <2>1, <2>2, InventoryStays, FillTypes DEF Finished, BudgetInv, Counted, RowsStand
<1> QED  BY <1>4, <1>5

\* A new row: nothing was known of it and nobody works on it.
LEMMA NewRow ==
  ASSUME OrdersInv, TypeOK', NEW w \in Worker, NEW o \in Order, NEW qty \in 0..Qty,
         rows[o].status = "absent", qty > 0,
         rows' = [rows EXCEPT ![o] = Approved(qty)], UNCHANGED broker,
         wk[w].order = o, Goto(w, "dispatch"), ~ ClaimedAt(wk[w])
  PROVE  /\ StateInv' /\ RowsStand
         /\ rows[o].filled = 0 /\ rows'[o].filled = 0
         /\ rows'[o].status = "approved" /\ ~ rows'[o].released
         /\ \A p \in Order \ {o} : rows'[p] = rows[p]
<1> USE DEF OrdersInv, StateInv
<1>1. /\ OrderInv(o) /\ broker[o].state = "none" /\ \A v \in Worker : ~ Claims(v, o)
      /\ rows[o].filled = 0 /\ broker[o].filled = 0 /\ wk[w] \in Local
  <2>1. OrderInv(o)
    OBVIOUS
  <2>2. broker[o].state = "none" /\ (\A v \in Worker : ~ Claims(v, o)) /\ broker[o].filled = 0
        /\ rows[o].filled <= broker[o].filled
    BY <2>1 DEF OrderInv
  <2> QED  BY <2>1, <2>2, FillTypes DEF TypeOK
<1>2. /\ \A p \in Order \ {o} : rows'[p] = rows[p]
      /\ \A v \in Worker \ {w} : wk'[v] = wk[v]
      /\ wk'[w].pc = "dispatch" /\ wk'[w].order = o
  BY <1>1 DEF Goto, TypeOK, Local
<1>3. /\ rows'[o].status = "approved" /\ rows'[o].qty = qty /\ rows'[o].filled = 0
      /\ ~ rows'[o].known /\ ~ rows'[o].attempted /\ ~ rows'[o].released
  <2>1. rows'[o] = Approved(qty)
    BY DEF TypeOK
  <2> QED  BY <2>1 DEF Approved, NoRow
<1>4. LocalInv(wk[w])' /\ ~ ClaimedAt(wk'[w])
  BY <1>2, <1>3 DEF LocalInv, ClaimedAt, Untaken
<1>5. \A v \in Worker : ~ Claims(v, o)'
  BY <1>1, <1>2, <1>4 DEF Claims
<1>6. OrderInv(o)'
  <2>1. qty \in Int
    BY QtyAssumption
  <2>2. UNCHANGED broker[o]
    OBVIOUS
  <2> QED  BY <1>1, <1>3, <1>5, <2>1, <2>2 DEF OrderInv, Visible
<1>7. Grows(o, Worker \ {w})
  <2>1. \A v \in Worker : wk[v].order = o => ~ Untaken(wk[v]) /\ wk[v].pc \notin {"fence", "post"}
    BY DEF LocalInv, Untaken
  <2>2. UNCHANGED <<Visible(o), ReportOf(o), broker[o].filled>>
    BY DEF Visible, ReportOf
  <2> QED  BY <1>1, <2>1, <2>2 DEF Grows
<1>8. StateInv'
  BY <1>2, <1>4, <1>6, <1>7, OrderStep DEF Claiming
<1>9. RowsStand
  BY <1>1, <1>2, <1>3, FillTypes DEF RowsStand, FINAL
<1> QED  BY <1>1, <1>2, <1>3, <1>8, <1>9

LEMMA ReserveExitKeeps ==
  ASSUME OrdersInv, TypeOK', NEW w \in Worker, NEW o, wk[w].order = o, ReserveExit(w)
  PROVE  StateInv' /\ InventoryInv' /\ BudgetInv' /\ RowsStand
<1> USE DEF OrdersInv, StateInv
<1>1. /\ o \in Exit /\ o \in Order /\ wk[w].qty \in 0..Qty /\ wk[w].qty > 0 /\ ~ ClaimedAt(wk[w])
      /\ UNCHANGED <<broker, budget>>
  BY OrderKinds DEF ReserveExit, At, LocalInv, TypeOK, Local, ClaimedAt
<1>2. CASE UNCHANGED rows /\ (Rest(w) \/ Ends(w))
  <2>1. (wk'[w] = Idle \/ wk'[w] = Off) /\ \A v \in Worker \ {w} : wk'[v] = wk[v]
    BY <1>2 DEF Rest, Ends, TypeOK
  <2>2. LocalInv(wk[w])' /\ ~ ClaimedAt(wk'[w])
    BY <2>1, IdleType, IdleInvPrime, IdleInv
  <2>3. StateInv'
    BY <1>1, <1>2, <2>1, <2>2, QuietStep
  <2> QED  BY <1>1, <1>2, <2>3, InventoryStays, FillTypes DEF Finished, BudgetInv, Counted, RowsStand
<1>3. CASE rows[o].status = "absent" /\ rows' = [rows EXCEPT ![o] = Approved(wk[w].qty)] /\ Goto(w, "dispatch")
  <2>1. /\ StateInv' /\ RowsStand
        /\ rows[o].filled = 0 /\ rows'[o].filled = 0
        /\ \A p \in Order \ {o} : rows'[p] = rows[p]
    BY <1>1, <1>3, NewRow
  <2>2. \A e \in Entry : e \in Order \ {o}
    BY <1>1, OrderKinds
  <2>3. InventoryInv'
    <3>1. \A e \in Entry : Finished(e) => Finished(e)' /\ rows'[e].filled = rows[e].filled
      BY <1>1, <2>1, <2>2 DEF Finished
    <3> QED  BY <1>1, <2>1, <3>1, InventoryKeeps
  <2>4. Counted' = Counted
    BY <2>1, <2>2 DEF Counted
  <2> QED  BY <1>1, <2>1, <2>3, <2>4 DEF BudgetInv
<1> QED  BY <1>2, <1>3 DEF ReserveExit

\* An entry is reserved when every other order has ended and nothing is held.
LEMMA ReserveEntryKeeps ==
  ASSUME OrdersInv, TypeOK', NEW w \in Worker, NEW o, wk[w].order = o, ReserveEntry(w)
  PROVE  StateInv' /\ InventoryInv' /\ BudgetInv' /\ RowsStand
<1> USE DEF OrdersInv, StateInv
<1>1. o \in Entry /\ o \in Order /\ ~ ClaimedAt(wk[w]) /\ UNCHANGED broker
  BY OrderKinds DEF ReserveEntry, At, LocalInv, ClaimedAt
<1>2. CASE UNCHANGED <<rows, budget>> /\ Rest(w)
  <2>1. wk'[w] = Idle /\ \A v \in Worker \ {w} : wk'[v] = wk[v]
    BY <1>2 DEF Rest, TypeOK
  <2>2. LocalInv(wk[w])' /\ ~ ClaimedAt(wk'[w])
    BY <2>1, IdleType, IdleInvPrime, IdleInv
  <2>3. StateInv'
    BY <1>1, <1>2, <2>1, <2>2, QuietStep
  <2> QED  BY <1>1, <1>2, <2>3, InventoryStays, FillTypes DEF Finished, BudgetInv, Counted, RowsStand
<1>3. CASE /\ MayEnter(o) /\ rows' = [rows EXCEPT ![o] = Approved(Qty)]
           /\ budget' = budget + 1 /\ Goto(w, "dispatch")
  <2>1. rows[o].status = "absent" /\ Unresolved = {} /\ Inventory = 0
    BY <1>3 DEF MayEnter
  <2>2. /\ StateInv' /\ RowsStand
        /\ rows[o].filled = 0 /\ rows'[o].filled = 0
        /\ rows'[o].status = "approved" /\ ~ rows'[o].released
        /\ \A p \in Order \ {o} : rows'[p] = rows[p]
    <3>1. Qty \in 0..Qty /\ Qty > 0
      BY QtyAssumption
    <3> QED  BY <1>1, <1>3, <2>1, <3>1, NewRow
  <2>3. ASSUME NEW e \in Entry \ {o} PROVE Finished(e)'
    <3>1. e \in Order /\ rows[e].status \in FINAL \cup {"absent"} /\ OrderInv(e)
      BY <2>1, OrderKinds DEF Unresolved
    <3>2. Finished(e)
      BY <3>1 DEF Finished, OrderInv, FINAL
    <3> QED  BY <1>1, <2>2, <3>1, <3>2 DEF Finished
  <2>4. Inventory' <= rows'[o].filled
    <3>1. ASSUME NEW S \in {Entry, Exit} PROVE FilledSum(rows', S) = FilledSum(rows, S)
      <4>1. IsFiniteSet(S) /\ S \subseteq Order
        BY FiniteOrders, OrderKinds
      <4>2. \A x \in S : rows[x].filled \in Int /\ rows'[x].filled \in Int
        BY <4>1, <2>2, FillTypes
      <4>3. \A x \in S \ {o} : rows'[x].filled = rows[x].filled
        BY <2>2, <4>1
      <4>4. FilledSum(rows', S) = FilledSum(rows, S) + IF o \in S THEN rows'[o].filled - rows[o].filled ELSE 0
        BY <4>1, <4>2, <4>3, SumChange
      <4>5. FilledSum(rows, S) \in Int
        BY <4>1, <4>2, SumInt
      <4> QED  BY <2>2, <4>4, <4>5
    <3>2. Inventory = FilledSum(rows, Entry) - FilledSum(rows, Exit)
      BY InventoryType
    <3>3. Inventory' = FilledSum(rows', Entry) - FilledSum(rows', Exit)
      <4>1. (Inventory = FilledSum(rows, Entry) - FilledSum(rows, Exit))'
        BY InventoryType, PTL
      <4> QED  BY <4>1
    <3>4. Inventory' = Inventory
      BY <3>1, <3>2, <3>3
    <3> QED  BY <2>1, <2>2, <3>4
  <2>5. InventoryInv'
    BY <1>1, <2>3, <2>4 DEF InventoryInv
  <2>6. BudgetInv'
    <3>1. Counted' = Counted \cup {o} /\ o \notin Counted
      BY <1>1, <2>1, <2>2, OrderKinds DEF Counted
    <3>2. Cardinality(Counted') = Cardinality(Counted) + 1
      BY <3>1, CountedSize, FS_AddElement
    <3> QED  BY <1>3, <3>2 DEF BudgetInv
  <2> QED  BY <2>2, <2>5, <2>6
<1> QED  BY <1>2, <1>3 DEF ReserveEntry

LEMMA DeleteKeeps ==
  ASSUME OrdersInv, TypeOK', NEW w \in Worker, NEW o, wk[w].order = o, Delete(w)
  PROVE  StateInv' /\ InventoryInv' /\ BudgetInv' /\ RowsStand
<1> USE DEF OrdersInv, StateInv
<1>1. /\ o \in Order /\ Visible(o) /\ OrderInv(o) /\ wk[w] \in Local
      /\ UNCHANGED <<rows, budget>> /\ ~ ClaimedAt(wk[w])
  BY DEF Delete, At, LocalInv, ClaimedAt, TypeOK
<1>2. \A v \in Worker \ {w} : wk'[v] = wk[v]
  BY DEF Delete, Goto, TypeOK
<1>3. broker[o].filled \in Int
  BY <1>1, FillTypes
<1>4. CASE broker[o].state = "open"
  <2>1. broker' = [broker EXCEPT ![o].cancel = TRUE] /\ Goto(w, "mark")
    BY <1>4 DEF Delete
  <2>2. /\ \A p \in Order \ {o} : broker'[p] = broker[p]
        /\ broker'[o].state = broker[o].state /\ broker'[o].filled = broker[o].filled
    BY <1>1, <2>1 DEF TypeOK, BrokerOrder
  <2>3. wk'[w].pc = "mark" /\ wk'[w].order = o
    BY <1>1, <2>1 DEF Goto, TypeOK, Local
  <2>4. LocalInv(wk[w])' /\ ~ ClaimedAt(wk'[w])
    BY <1>1, <2>2, <2>3 DEF LocalInv, ClaimedAt, Untaken, Visible
  <2>5. /\ Visible(o) => Visible(o)'
        /\ ReportOf(o)' = ReportOf(o)
        /\ Finished(o) => Finished(o)'
    BY <1>1, <2>2 DEF Visible, ReportOf, Finished
  <2>6. \A v \in Worker : ~ Claims(v, o)' \/ Claims(v, o)
    BY <1>2, <2>4 DEF Claims, ClaimedAt
  <2>7. OrderInv(o)'
    BY <1>1, <2>2, <2>5, <2>6 DEF OrderInv
  <2> QED  BY <1>1, <1>2, <1>3, <2>2, <2>4, <2>5, <2>7, BrokerStep DEF Claiming
<1>5. CASE broker[o].state # "open"
  <2>1. UNCHANGED broker /\ wk' = [wk EXCEPT ![w].pc = "observe", ![w].goal = "plan", ![w].report = ReportOf(o)]
    BY <1>5 DEF Delete
  <2>2. wk'[w].pc = "observe" /\ wk'[w].order = o /\ wk'[w].report = ReportOf(o)
    BY <1>1, <2>1 DEF TypeOK, Local
  <2>3. ReportOf(o) \in Report /\ ReportOf(o).filled = broker[o].filled
    BY <1>1, ReportType DEF ReportOf
  <2>4. LocalInv(wk[w])' /\ ~ ClaimedAt(wk'[w])
    <3>1. LocalInv(wk'[w]) /\ ~ ClaimedAt(wk'[w])
      BY <1>1, <1>3, <2>2, <2>3 DEF LocalInv, ClaimedAt, Untaken
    <3> QED  BY <1>1, <2>1, <3>1 DEF LocalInv, Untaken, Visible, ReportOf
  <2>5. StateInv'
    BY <1>1, <1>2, <2>1, <2>4, QuietStep
  <2>6. InventoryInv' /\ BudgetInv'
    BY <1>1, <2>1, InventoryStays DEF Finished, BudgetInv, Counted
  <2> QED  BY <1>1, <2>5, <2>6, FillTypes DEF RowsStand
<1> QED  BY <1>4, <1>5

\* The POST: whatever comes of it, the order was claimed and not at the broker.
LEMMA PostKeeps ==
  ASSUME OrdersInv, TypeOK', NEW w \in Worker, NEW o, wk[w].order = o, PostAccepted(w) \/ PostUnanswered(w)
  PROVE  StateInv' /\ InventoryInv' /\ BudgetInv' /\ RowsStand
<1> USE DEF OrdersInv, StateInv
<1>1. /\ o \in Order /\ OrderInv(o) /\ ClaimedAt(wk[w]) /\ wk[w] \in Local
      /\ rows[o].status = "reconciliation_required" /\ broker[o].state = "none"
      /\ UNCHANGED <<rows, budget>>
  BY DEF PostAccepted, PostUnanswered, At, LocalInv, ClaimedAt, Untaken, TypeOK
<1>2. \A v \in Worker \ {w} : wk'[v] = wk[v]
  BY DEF PostAccepted, PostUnanswered, TypeOK
<1>3. /\ wk'[w].pc = "record" /\ wk'[w].order = o
      /\ \/ wk'[w].answer = "ok" /\ wk'[w].report = [state |-> "open", filled |-> 0]
         \/ wk'[w].answer = "unknown"
  BY <1>1 DEF PostAccepted, PostUnanswered, TypeOK, Local
<1>4. PICK s \in {"none", "coming", "open"} :
         broker' = [broker EXCEPT ![o].state = s] /\ (wk'[w].answer = "ok" => s = "open")
  <2>1. CASE PostAccepted(w)
    BY <2>1 DEF PostAccepted
  <2>2. CASE PostUnanswered(w)
    <3>1. wk'[w].answer = "unknown"
      BY <1>1, <2>2 DEF PostUnanswered, TypeOK, Local
    <3> QED  BY <2>2, <3>1 DEF PostUnanswered
  <2> QED  BY <2>1, <2>2
<1>5. /\ \A p \in Order \ {o} : broker'[p] = broker[p]
      /\ broker'[o].state = s /\ broker'[o].filled = broker[o].filled
  BY <1>1, <1>4 DEF TypeOK, BrokerOrder
<1>6. LocalInv(wk[w])' /\ Claiming(w, o)
  BY <1>1, <1>3, <1>4, <1>5 DEF LocalInv, Claiming, ClaimedAt, Untaken, Visible
<1>7. ~ Visible(o) /\ ~ Finished(o) /\ ~ rows[o].known
  BY <1>1 DEF Visible, Finished, OrderInv
<1>8. OrderInv(o)'
  <2>1. rows[o].qty \in Int /\ rows[o].qty > 0 /\ broker[o].filled = 0
    BY <1>1, QtyAssumption DEF OrderInv, TypeOK, Row
  <2> QED  BY <1>1, <1>5, <1>7, <2>1 DEF OrderInv
<1>9. \A v \in Worker \ {w} : wk[v].order = o => ~ Untaken(wk[v])
  BY <1>1, OnlyClaim
<1>10. broker'[o].filled >= broker[o].filled
  BY <1>1, <1>5, FillTypes
<1> QED  BY <1>1, <1>2, <1>5, <1>6, <1>7, <1>8, <1>9, <1>10, BrokerStep

\* The broker on its own.
LEMMA BrokerKeeps ==
  ASSUME OrdersInv, TypeOK', NEW o \in Order, Arrives(o) \/ Fills(o) \/ EndsUnfilled(o)
  PROVE  StateInv' /\ InventoryInv' /\ BudgetInv' /\ RowsStand
<1> USE DEF OrdersInv, StateInv
<1>1. /\ UNCHANGED <<rows, budget, wk>> /\ OrderInv(o) /\ rows[o] \in Row /\ broker[o] \in BrokerOrder
      /\ \A p \in Order \ {o} : broker'[p] = broker[p]
  BY DEF Arrives, Fills, EndsUnfilled, TypeOK
<1>2. /\ rows[o].qty \in Int /\ rows[o].filled \in Int /\ broker[o].filled \in Int
  BY <1>1 DEF Row, BrokerOrder
<1>3. broker[o].state \in {"coming", "open"} /\ broker'[o].state \in {"open", "closed"}
  BY <1>1 DEF Arrives, Fills, EndsUnfilled, TypeOK, BrokerOrder
<1>4. \/ broker[o].state = "coming" /\ broker'[o].state = "open" /\ broker'[o].filled = broker[o].filled
      \/ /\ broker[o].state = "open" /\ broker'[o].filled = broker[o].filled + 1
         /\ broker'[o].state = "closed" <=> broker[o].filled + 1 = rows[o].qty
      \/ broker[o].state = "open" /\ broker'[o].state = "closed" /\ broker'[o].filled = broker[o].filled
  BY <1>1 DEF Arrives, Fills, EndsUnfilled, TypeOK, BrokerOrder
<1>5. Visible(o)' /\ broker'[o].filled >= broker[o].filled
  BY <1>2, <1>3, <1>4 DEF Visible
<1>6. rows[o].status \notin {"absent", "approved", "expired", "rejected", "filled", "canceled"}
  BY <1>1, <1>3 DEF OrderInv
<1>7. OrderInv(o)'
  BY <1>1, <1>2, <1>3, <1>4, <1>5, <1>6 DEF OrderInv
<1>8. ~ Finished(o)
  BY <1>3, <1>6 DEF Finished
<1>9. \A v \in Worker : wk[v].order = o => ~ Untaken(wk[v])
  BY <1>3 DEF LocalInv
<1> QED  BY <1>1, <1>3, <1>5, <1>7, <1>8, <1>9, NoWorkerAssumption, BrokerStep

-----------------------------------------------------------------------------
(* The specification *)

LEMMA InvInit == Init => OrdersInv
<1> SUFFICES ASSUME Init PROVE OrdersInv
  OBVIOUS
<1>1. StateInv
  BY StateInit
<1>2. \A o \in Order : rows[o].filled = 0 /\ rows[o].status = "absent"
  BY DEF Init, NoRow
<1>3. InventoryInv
  <2>1. \A e \in Entry : Finished(e)
    BY <1>2, OrderKinds DEF Finished
  <2>2. FilledSum(rows, Entry) <= 0
    BY <1>2, FiniteOrders, OrderKinds, SumInt, SumPositive
  <2>3. FilledSum(rows, Exit) >= 0
    BY <1>2, FiniteOrders, OrderKinds, SumNonNegative
  <2>4. Inventory <= 0
    BY <1>1, <2>2, <2>3, InventoryType DEF StateInv
  <2>5. \A e \in Entry : rows[e].filled = 0
    BY <1>2, OrderKinds
  <2> QED  BY <2>1, <2>4, <2>5 DEF InventoryInv
<1>4. BudgetInv
  <2>1. Counted = {}
    BY <1>2, OrderKinds DEF Counted
  <2> QED  BY <2>1, FS_EmptySet DEF BudgetInv, Init
<1> QED  BY <1>1, <1>3, <1>4 DEF OrdersInv, StateInv

\* One step: the invariant goes on, and no row is taken back.
LEMMA OneStep ==
  ASSUME OrdersInv, [Next]_vars
  PROVE  OrdersInv' /\ RowsStand
<1>0. TypeOK'
  BY TypeStep
<1> SUFFICES StateInv' /\ InventoryInv' /\ BudgetInv' /\ RowsStand
  BY DEF OrdersInv, StateInv
<1>S. StateInv /\ InventoryInv /\ BudgetInv /\ TypeOK
  BY DEF OrdersInv, StateInv
<1>Q. ASSUME StateInv', UNCHANGED <<rows, broker, budget>> PROVE StateInv' /\ InventoryInv' /\ BudgetInv' /\ RowsStand
  <2>1. InventoryInv' /\ BudgetInv'
    BY <1>Q, <1>S, InventoryStays DEF Finished, BudgetInv, Counted
  <2> QED  BY <1>Q, <1>S, <2>1, FillTypes DEF RowsStand
<1>1. CASE UNCHANGED vars \/ Ages \/ TimePasses
  <2>1. UNCHANGED <<rows, broker, budget, wk>>
    BY <1>1 DEF vars, Ages, TimePasses
  <2>2. StateInv'
    BY <1>S, <1>0, <2>1, NoWorkerAssumption, QuietStep
  <2> QED  BY <1>Q, <2>1, <2>2
<1>2. CASE \E w \in Worker :
            \/ Start(w) \/ Crash(w) \/ RequestFails(w) \/ Supervise(w) \/ SubmitEntry(w) \/ StreamUpdate(w)
            \/ LookUp(w) \/ FinishReconcile(w) \/ ChooseCancel(w) \/ ChooseUnsent(w) \/ EndCancel(w)
            \/ Plan(w) \/ Check(w) \/ MarketClosed(w) \/ Assess(w) \/ Dispatch(w) \/ Fence(w) \/ PostRejected(w)
            \/ TickLosesLease(w) \/ DeleteLosesLease(w) \/ DispatchLosesLease(w)
  <2>1. StateInv' /\ UNCHANGED <<rows, broker, budget>>
    BY <1>S, <1>0, <1>2, QuietActions
  <2> QED  BY <1>Q, <2>1
<1>3. ASSUME NEW w \in Worker, Observe(w) PROVE StateInv' /\ InventoryInv' /\ BudgetInv' /\ RowsStand
  <2>1. PICK o, r : wk[w].order = o /\ wk[w].report = r
    OBVIOUS
  <2>2. /\ StateInv' /\ UNCHANGED <<broker, budget>>
        /\ o \in Order
        /\ \A p \in Order \ {o} : rows'[p] = rows[p]
        /\ rows'[o].filled >= rows[o].filled
        /\ rows[o].status \in FINAL => rows'[o].status = rows[o].status
        /\ rows[o].status # "absent" /\ rows'[o].status # "absent"
        /\ rows'[o].released = rows[o].released
        /\ Finished(o) => Finished(o)' /\ rows'[o].filled = rows[o].filled
    BY <1>S, <1>0, <1>3, <2>1, ObserveKeeps
  <2>3. InventoryInv'
    <3>1. ASSUME NEW e \in Entry, Finished(e) PROVE Finished(e)' /\ rows'[e].filled = rows[e].filled
      BY <2>2, <3>1, OrderKinds DEF Finished
    <3> QED  BY <1>S, <1>0, <2>2, <3>1, InventoryKeeps
  <2>4. Counted' = Counted
    BY <2>2, OrderKinds DEF Counted
  <2> QED  BY <1>S, <2>2, <2>3, <2>4, FillTypes DEF BudgetInv, RowsStand
<1>4. ASSUME NEW w \in Worker, ExpireBuy(w) \/ FenceRefusesEntry(w)
      PROVE  StateInv' /\ InventoryInv' /\ BudgetInv' /\ RowsStand
  <2>1. PICK o, expected :
           /\ o \in Entry /\ wk[w].order = o /\ ExpireUnsent(o, expected) /\ UNCHANGED broker
           /\ \/ expected = "approved"
              \/ expected = "reconciliation_required" /\ wk[w].pc = "fence"
    BY <1>4 DEF ExpireBuy, FenceRefusesEntry, At, OrdersInv, LocalInv
  <2>2. \A v \in Worker \ {w} : wk'[v] = wk[v]
    BY <1>4, <1>S DEF ExpireBuy, FenceRefusesEntry, Rest, TypeOK
  <2>3. wk'[w].pc \in {"idle", "cancel"}
    BY <1>4, <1>S, IdleType DEF ExpireBuy, FenceRefusesEntry, Rest, TypeOK, Local
  <2>4. /\ StateInv' /\ InventoryInv' /\ BudgetInv'
        /\ \A p \in Order :
              /\ rows'[p].filled >= rows[p].filled
              /\ rows[p].status \in FINAL => rows'[p].status = rows[p].status
    BY <1>0, <2>1, <2>2, <2>3, ExpireKeeps
  <2> QED  BY <2>4 DEF RowsStand
<1>5. ASSUME NEW w \in Worker,
             \/ MarkCancelPending(w) \/ Claim(w) \/ FenceRefusesExit(w) \/ RecordAttempt(w) \/ Resolve(w)
             \/ ReserveExit(w) \/ ReserveEntry(w) \/ Delete(w) \/ PostAccepted(w) \/ PostUnanswered(w)
      PROVE  StateInv' /\ InventoryInv' /\ BudgetInv' /\ RowsStand
  <2>1. PICK o : wk[w].order = o
    OBVIOUS
  <2> QED  BY <1>0, <1>5, <2>1, MarkKeeps, ClaimKeeps, RefuseExitKeeps, RecordKeeps, ResolveKeeps,
              ReserveExitKeeps, ReserveEntryKeeps, DeleteKeeps, PostKeeps
<1>6. ASSUME NEW o \in Order, Arrives(o) \/ Fills(o) \/ EndsUnfilled(o)
      PROVE  StateInv' /\ InventoryInv' /\ BudgetInv' /\ RowsStand
  BY <1>0, <1>6, BrokerKeeps
<1> QED  BY <1>1, <1>2, <1>3, <1>4, <1>5, <1>6 DEF Next, WorkerStep

\* The invariant that the properties below are read off.
THEOREM OrdersInvariant == Spec => []OrdersInv
<1>1. Init => OrdersInv
  BY InvInit
<1>2. OrdersInv /\ [Next]_vars => OrdersInv'
  BY OneStep
<1> QED  BY <1>1, <1>2, PTL DEF Spec

\* The variables of the order manager, its workers and the broker keep their
\* types (EventOrder, event_order_links, EventSessionBudget).
THEOREM TypeCorrect == Spec => []TypeOK
<1>1. OrdersInv => TypeOK
  BY DEF OrdersInv
<1> QED  BY <1>1, OrdersInvariant, PTL

\* A reservation that ended as unsent never reaches the broker, neither from
\* the worker that released it nor from one whose POST was about to leave
\* (_expire_unsent, _dispatch).
THEOREM ReleaseIsFinal == Spec => []ReleasedStaysUnsent
<1>1. OrdersInv => ReleasedStaysUnsent
  BY DEF OrdersInv, ReleasedStaysUnsent, MayReachBroker, OrderInv, LocalInv, Untaken, At
<1> QED  BY <1>1, OrdersInvariant, PTL

\* No more entries reach the broker than the session allows, however often
\* reservations are released and made again (locked_session_budget).
THEOREM SessionLimit == Spec => []EntriesWithinLimit
<1>1. ASSUME OrdersInv PROVE EntriesWithinLimit
  <2> DEFINE Sent == {e \in Entry : MayReachBroker(e)}
  <2>1. Sent \subseteq Counted
    <3> SUFFICES ASSUME NEW e \in Entry, MayReachBroker(e) PROVE e \in Counted
      OBVIOUS
    <3>1. OrderInv(e) /\ e \in Order
      BY <1>1, OrderKinds DEF OrdersInv
    <3>2. CASE broker[e].state # "none"
      BY <3>1, <3>2 DEF OrderInv, Counted
    <3>3. CASE \E w \in Worker : At(w, "post") /\ wk[w].order = e
      <4>1. rows[e].status = "reconciliation_required"
        BY <1>1, <3>3 DEF OrdersInv, LocalInv, Untaken, At
      <4> QED  BY <3>1, <4>1 DEF OrderInv, Counted
    <3> QED  BY <3>2, <3>3 DEF MayReachBroker
  <2>2. Cardinality(Sent) <= Cardinality(Counted) /\ Cardinality(Sent) \in Nat
    BY <2>1, CountedSize, FS_Subset, FS_CardinalityType
  <2>3. budget = Cardinality(Counted) /\ budget \in 0..EntryLimit
    BY <1>1 DEF OrdersInv, BudgetInv, TypeOK
  <2> QED  BY <2>2, <2>3, CountedSize, EntryLimitAssumption DEF EntriesWithinLimit, Counted
<1> QED  BY <1>1, OrdersInvariant, PTL

\* No report, however late, takes a recorded fill back, and a final row is
\* reopened by a cancellation in flight only (_observe, _cancel).
THEOREM FillsAreKept == Spec => FillsStand
<1>1. OrdersInv /\ [Next]_vars => [\A o \in Order :
          /\ rows'[o].filled >= rows[o].filled
          /\ rows[o].status \in FINAL => rows'[o].status \in {rows[o].status, "cancel_pending"}]_rows
  BY OneStep DEF RowsStand
<1> QED  BY <1>1, OrdersInvariant, PTL DEF Spec, FillsStand

-----------------------------------------------------------------------------
(* One worker *)

Sole == \A v, w \in Worker : v = w

\* What an order may have filled when its row ends.
Cap(o) == IF rows[o].status \in FINAL \cup {"absent"} THEN rows[o].filled ELSE rows[o].qty
Caps == [o \in Exit |-> Cap(o)]

\* What a worker read for an exit or a cancellation is still so when it acts.
SoleLocal(l) ==
    /\ l.pc \in {"check", "reserve_exit"} => l.qty = Inventory
    /\ l.pc \in {"delete", "mark"} => l.order \in Unresolved

\* With one worker the exits may never sell more than the entries bought.
SoleInv ==
    /\ SumOf(Caps, Exit) <= FilledSum(broker, Entry)
    /\ \A w \in Worker : SoleLocal(wk[w])

LEMMA CapTypes ==
  ASSUME TypeOK
  PROVE  /\ \A o \in Exit : Caps[o] = Cap(o) /\ Cap(o) \in Int
         /\ SumOf(Caps, Exit) \in Int
         /\ FilledSum(broker, Entry) \in Int
<1>1. ASSUME NEW o \in Exit PROVE Caps[o] = Cap(o) /\ Cap(o) \in Int
  BY OrderKinds, QtyAssumption DEF Caps, Cap, TypeOK, Row
<1>2. SumOf(Caps, Exit) \in Int
  BY <1>1, FiniteOrders, SumOfInts
<1>3. FilledSum(broker, Entry) \in Int
  BY FillTypes, FiniteOrders, OrderKinds, SumInt
<1> QED  BY <1>1, <1>2, <1>3

LEMMA CapTypesNext ==
  ASSUME TypeOK'
  PROVE  /\ \A o \in Exit : Caps'[o] = Cap(o)' /\ Cap(o)' \in Int
         /\ SumOf(Caps', Exit) \in Int
         /\ FilledSum(broker', Entry) \in Int
<1>1. (/\ \A o \in Exit : Caps[o] = Cap(o) /\ Cap(o) \in Int
       /\ SumOf(Caps, Exit) \in Int
       /\ FilledSum(broker, Entry) \in Int)'
  BY CapTypes, PTL
<1> QED  BY <1>1

\* The two sides of NoOversell.
LEMMA OversellSums ==
  ASSUME SumOf([o \in Exit |-> IF broker[o].state \in {"coming", "open"} THEN rows[o].qty ELSE broker[o].filled], Exit)
            <= FilledSum(broker, Entry)
  PROVE  NoOversell
<1> DEFINE CanFill(o) == IF broker[o].state \in {"coming", "open"} THEN rows[o].qty ELSE broker[o].filled
           F == [o \in Exit |-> CanFill(o)]
           Fill(h) == [s \in SUBSET Exit |-> IF s = {} THEN 0 ELSE CanFill(Chosen(s)) + h[s \ {Chosen(s)}]]
<1>1. ASSUME NEW h PROVE Fill(h) = SumStep(F, Exit, h)
  <2>1. \A s \in SUBSET Exit : s # {} => Chosen(s) \in Exit
    BY DEF Chosen
  <2> QED  BY <2>1 DEF SumStep
<1>2. Sum(CanFill, Exit) = (CHOOSE h : h = Fill(h))[Exit]
  BY DEF Sum, MapThenSumSet, MapThenFoldSet, Chosen
<1>3. Sum(AtBroker, Entry) = FilledSum(broker, Entry)
  BY DEF Sum, AtBroker, FilledSum, MapThenSumSet, MapThenFoldSet
<1>4. SumOf(F, Exit) <= FilledSum(broker, Entry)
  OBVIOUS
<1>5. NoOversell <=> Sum(CanFill, Exit) <= Sum(AtBroker, Entry)
  BY DEF NoOversell
<1> HIDE DEF F, Fill, CanFill
<1>6. (CHOOSE h : h = Fill(h)) = (CHOOSE h : h = SumStep(F, Exit, h))
  BY <1>1
<1> QED  BY <1>2, <1>3, <1>4, <1>5, <1>6, SumIsStep

\* An exit that is open at the broker fills its row's quantity at most, and one
\* that is not has filled what it will.
LEMMA CapsCover ==
  ASSUME OrdersInv, SoleInv
  PROVE  NoOversell
<1> DEFINE F == [o \in Exit |-> IF broker[o].state \in {"coming", "open"} THEN rows[o].qty ELSE broker[o].filled]
<1>0. TypeOK /\ \A o \in Order : OrderInv(o)
  BY DEF OrdersInv
<1>1. ASSUME NEW o \in Exit PROVE F[o] \in Int /\ Caps[o] \in Int /\ F[o] <= Caps[o]
  <2>1. OrderInv(o) /\ rows[o] \in Row /\ broker[o] \in BrokerOrder
    BY <1>0, OrderKinds DEF TypeOK
  <2>2. rows[o].qty \in Int /\ broker[o].filled \in Int /\ rows[o].filled \in Int
    BY <2>1, QtyAssumption DEF Row, BrokerOrder
  <2>3. CASE rows[o].status \in FINAL \cup {"absent"}
    <3>1. broker[o].state \notin {"coming", "open"} /\ broker[o].filled <= rows[o].filled
      BY <1>0, <2>1, <2>2, <2>3, FillTypes, OrderKinds DEF OrderInv, FINAL
    <3> QED  BY <2>2, <2>3, <3>1 DEF Caps, Cap
  <2>4. CASE rows[o].status \notin FINAL \cup {"absent"}
    <3>1. Caps[o] = rows[o].qty
      BY <2>4 DEF Caps, Cap
    <3>2. broker[o].filled <= rows[o].qty
      BY <2>1 DEF OrderInv
    <3> QED  BY <2>2, <3>1, <3>2
  <2> QED  BY <2>3, <2>4
<1> HIDE DEF F
<1>2. SumOf(F, Exit) <= SumOf(Caps, Exit) /\ SumOf(F, Exit) \in Int
  BY <1>1, FiniteOrders, GrowingSum, SumOfInts
<1>3. SumOf(F, Exit) <= FilledSum(broker, Entry)
  BY <1>0, <1>2, CapTypes DEF SoleInv
<1> QED  BY <1>3, OversellSums DEF F

\* The broker takes no fill back.
LEMMA BrokerFills ==
  ASSUME TypeOK, [Next]_vars, NEW o \in Order
  PROVE  broker'[o].filled >= broker[o].filled
<1>0. broker[o] \in BrokerOrder /\ broker[o].filled \in Int
  BY FillTypes DEF TypeOK
<1>1. CASE UNCHANGED broker
  BY <1>0, <1>1
<1>2. ASSUME NEW w \in Worker, Delete(w) \/ PostAccepted(w) \/ PostUnanswered(w)
      PROVE  broker'[o].filled = broker[o].filled
  BY <1>0, <1>2 DEF Delete, PostAccepted, PostUnanswered, TypeOK, BrokerOrder
<1>3. ASSUME NEW p \in Order, Arrives(p) \/ Fills(p) \/ EndsUnfilled(p)
      PROVE  broker'[o].filled >= broker[o].filled
  BY <1>0, <1>3 DEF Arrives, Fills, EndsUnfilled, TypeOK, BrokerOrder
<1>4. UNCHANGED broker \/ (\E w \in Worker : Delete(w) \/ PostAccepted(w) \/ PostUnanswered(w))
         \/ (\E p \in Order : Arrives(p) \/ Fills(p) \/ EndsUnfilled(p))
  BY DEF Next, WorkerStep, vars, Ages, TimePasses,
         Start, Crash, RequestFails, Supervise, SubmitEntry, StreamUpdate, Tick,
         LookUp, FinishReconcile, Observe, ChooseCancel, ChooseUnsent, ExpireBuy, EndCancel,
         MarkCancelPending, Plan, Check, ReserveExit, Assess, ReserveEntry, Dispatch, Claim, Fence,
         FenceRefusesEntry, RecordAttempt, Resolve, TickLosesLease, DeleteLosesLease,
         DispatchLosesLease, LeaseLost, MarketClosed, FenceRefusesExit, PostRejected
<1> QED  BY <1>0, <1>1, <1>2, <1>3, <1>4

\* The sum does not grow when no cap does.
LEMMA CapsStep ==
  ASSUME OrdersInv, OrdersInv', SoleInv, [Next]_vars, \A o \in Exit : Cap(o)' <= Cap(o)
  PROVE  (SumOf(Caps, Exit) <= FilledSum(broker, Entry))'
<1>0. TypeOK /\ TypeOK'
  BY DEF OrdersInv
<1>1. /\ \A o \in Exit : Caps'[o] = Cap(o)' /\ Cap(o)' \in Int
      /\ SumOf(Caps', Exit) \in Int
      /\ FilledSum(broker', Entry) \in Int
  BY <1>0, CapTypesNext
<1>2. SumOf(Caps', Exit) <= SumOf(Caps, Exit)
  <2>1. \A o \in Exit : Caps'[o] \in Int /\ Caps[o] \in Int /\ Caps'[o] <= Caps[o]
    BY <1>0, <1>1, CapTypes
  <2> HIDE DEF Caps
  <2> QED  BY <2>1, FiniteOrders, GrowingSum
<1>3. FilledSum(broker, Entry) <= FilledSum(broker', Entry)
  <2> DEFINE F == [o \in Entry |-> broker[o].filled]
             G == [o \in Entry |-> broker'[o].filled]
  <2>1. ASSUME NEW o \in Entry PROVE F[o] \in Int /\ G[o] \in Int /\ F[o] <= G[o]
    <3>1. o \in Order
      BY OrderKinds
    <3>2. broker[o].filled \in Int /\ broker'[o].filled \in Int
      BY <1>0, <3>1, QtyAssumption DEF TypeOK, BrokerOrder
    <3>3. broker'[o].filled >= broker[o].filled
      BY <1>0, <3>1, BrokerFills
    <3> QED  BY <3>2, <3>3
  <2>2. FilledSum(broker, Entry) = SumOf(F, Entry) /\ FilledSum(broker', Entry) = SumOf(G, Entry)
    BY FilledIsSum
  <2> HIDE DEF F, G
  <2> QED  BY <2>1, <2>2, FiniteOrders, GrowingSum
<1>4. SumOf(Caps, Exit) <= FilledSum(broker, Entry)
  BY DEF SoleInv
<1> QED  BY <1>0, <1>1, <1>2, <1>3, <1>4, CapTypes

\* A row that keeps its quantity, and its end, keeps its cap.
LEMMA CapKept ==
  ASSUME OrdersInv, TypeOK', NEW o \in Exit,
         rows'[o].qty = rows[o].qty,
         rows'[o].filled <= rows'[o].qty,
         rows[o].status \in FINAL \cup {"absent"} =>
             rows'[o].status \in FINAL \cup {"absent"} /\ rows'[o].filled = rows[o].filled
  PROVE  Cap(o)' <= Cap(o)
<1>1. /\ rows[o].qty \in Int /\ rows[o].filled \in Int
      /\ rows'[o].qty \in Int /\ rows'[o].filled \in Int
  BY OrderKinds, QtyAssumption DEF OrdersInv, TypeOK, Row
<1>2. CASE rows[o].status \in FINAL \cup {"absent"}
  BY <1>1, <1>2 DEF Cap
<1>3. CASE rows[o].status \notin FINAL \cup {"absent"}
  BY <1>1, <1>3 DEF Cap
<1> QED  BY <1>2, <1>3

\* Which steps change a row, and what the one worker does next.
LEMMA RowsOrNot ==
  ASSUME TypeOK, [Next]_vars
  PROVE  \/ UNCHANGED rows
         \/ \E w \in Worker :
               \/ Observe(w) \/ ExpireBuy(w) \/ FenceRefusesEntry(w)
               \/ MarkCancelPending(w) \/ Claim(w) \/ FenceRefusesExit(w) \/ RecordAttempt(w) \/ Resolve(w)
               \/ ReserveExit(w) \/ ReserveEntry(w)
BY DEF Next, WorkerStep, vars, Ages, TimePasses, Arrives, Fills, EndsUnfilled,
       Start, Crash, RequestFails, Supervise, SubmitEntry, StreamUpdate, Tick,
       LookUp, FinishReconcile, ChooseCancel, ChooseUnsent, EndCancel, Delete,
       Plan, Check, Assess, Dispatch, Fence, PostAccepted, PostUnanswered,
       TickLosesLease, DeleteLosesLease, DispatchLosesLease, LeaseLost, MarketClosed, PostRejected

\* A worker that acts on what it read has just read it, or acts on no row.
LEMMA ReadsFirst ==
  ASSUME OrdersInv, [Next]_vars, NEW w \in Worker, Sole
  PROVE  \/ wk'[w] = wk[w] /\ UNCHANGED rows
         \/ wk'[w].pc \notin {"check", "reserve_exit", "delete", "mark"}
         \/ Plan(w) \/ Check(w) \/ ChooseCancel(w) \/ Delete(w)
<1>0. /\ TypeOK /\ wk[w] \in Local /\ wk \in [Worker -> Local]
      /\ \A v \in Worker : v = w
  BY DEF OrdersInv, TypeOK, Sole
<1>I. /\ Off.pc = "off" /\ Idle.pc = "idle"
      /\ \A pc \in Pc : [Idle EXCEPT !.pc = pc].pc = pc
  BY DEF Idle, Off
<1> DEFINE Elsewhere == wk'[w].pc \notin {"check", "reserve_exit", "delete", "mark"}
<1>1. CASE UNCHANGED vars \/ Ages \/ TimePasses \/ \E o \in Order : Arrives(o) \/ Fills(o) \/ EndsUnfilled(o)
  BY <1>1 DEF vars, Ages, TimePasses, Arrives, Fills, EndsUnfilled
<1>2. CASE Start(w) \/ Crash(w) \/ RequestFails(w) \/ MarketClosed(w) \/ FenceRefusesExit(w)
  BY <1>0, <1>2 DEF Start, Crash, RequestFails, MarketClosed, FenceRefusesExit, Rest, Idle, Off, Local
<1>3. CASE Supervise(w) \/ SubmitEntry(w) \/ StreamUpdate(w) \/ EndCancel(w)
  <2>1. PICK goal \in {"none", "cancel", "plan", "assess"} : Reconcile(w, goal)
    BY <1>3 DEF Supervise, SubmitEntry, StreamUpdate, Tick, EndCancel
  <2> QED  BY <1>0, <2>1, ReconcileType
<1>4. CASE LookUp(w)
  <2>1. wk[w].pc = "reconcile"
    BY <1>4 DEF LookUp, At
  <2>2. wk'[w].pc \in {"observe", "reconcile"}
    BY <1>0, <1>4, <2>1 DEF LookUp, Local
  <2> QED  BY <2>2
<1>5. CASE FinishReconcile(w)
  <2>1. wk'[w] = Idle \/ wk'[w] = [Idle EXCEPT !.pc = wk[w].goal]
    BY <1>0, <1>5 DEF FinishReconcile
  <2>2. wk[w].goal \in {"none", "cancel", "plan", "assess"}
    BY <1>0 DEF Local
  <2> QED  BY <2>1, <2>2 DEF Idle, Off
<1>6. CASE Observe(w)
  <2>1. PICK o, r : wk[w].order = o /\ wk[w].report = r
    OBVIOUS
  <2>2. TypeOK'
    BY <1>0, TypeStep
  <2> QED  BY <1>6, <2>1, <2>2, ObserveKeeps DEF OrdersInv, StateInv
<1>7. CASE ChooseUnsent(w) \/ Assess(w) \/ Dispatch(w) \/ Fence(w)
  <2>1. CASE ChooseUnsent(w)
    BY <1>0, <2>1 DEF ChooseUnsent, Local
  <2>2. CASE Assess(w)
    BY <1>0, <1>I, <2>2 DEF Assess, Rest, Local
  <2>3. CASE Dispatch(w)
    BY <1>0, <2>3 DEF Dispatch, Local
  <2>4. CASE Fence(w)
    BY <1>0, <2>4 DEF Fence, Goto, Local
  <2> QED  BY <1>7, <2>1, <2>2, <2>3, <2>4
<1>8. CASE ExpireBuy(w) \/ MarkCancelPending(w) \/ FenceRefusesEntry(w) \/ Resolve(w)
  <2>1. wk'[w] = Idle \/ wk'[w] = [Idle EXCEPT !.pc = "cancel"]
    BY <1>0, <1>8 DEF ExpireBuy, MarkCancelPending, FenceRefusesEntry, Resolve, Rest
  <2> QED  BY <1>I, <2>1 DEF Pc
<1>9. CASE ReserveExit(w) \/ ReserveEntry(w) \/ Claim(w)
  BY <1>0, <1>9 DEF ReserveExit, ReserveEntry, Claim, Goto, Rest, Ends, Idle, Off, Local
<1>10. CASE PostAccepted(w) \/ PostRejected(w) \/ PostUnanswered(w) \/ RecordAttempt(w)
  BY <1>0, <1>10 DEF PostAccepted, PostRejected, PostUnanswered, RecordAttempt, Local
<1>11. CASE TickLosesLease(w) \/ DeleteLosesLease(w) \/ DispatchLosesLease(w)
  BY <1>0, <1>11 DEF TickLosesLease, DeleteLosesLease, DispatchLosesLease, LeaseLost, Ends, Off, Local
<1>12. CASE Plan(w) \/ Check(w) \/ ChooseCancel(w) \/ Delete(w)
  BY <1>12
<1> QED
  BY <1>0, <1>1, <1>2, <1>3, <1>4, <1>5, <1>6, <1>7, <1>8, <1>9, <1>10, <1>11, <1>12 DEF Next, WorkerStep

\* Nothing changes what the one worker read but the worker itself.
LEMMA SoleLocalStep ==
  ASSUME OrdersInv, SoleInv, Sole, [Next]_vars, NEW w \in Worker
  PROVE  SoleLocal(wk[w])'
<1>0. TypeOK /\ wk[w] \in Local /\ SoleLocal(wk[w])
  BY DEF OrdersInv, TypeOK, SoleInv
<1>1. UNCHANGED rows => Inventory' = Inventory /\ Unresolved' = Unresolved
  BY DEF Inventory, Sum, Filled, MapThenSumSet, MapThenFoldSet, Unresolved
<1>2. CASE wk'[w] = wk[w] /\ UNCHANGED rows
  BY <1>0, <1>1, <1>2 DEF SoleLocal
<1>3. CASE wk'[w].pc \notin {"check", "reserve_exit", "delete", "mark"}
  BY <1>3 DEF SoleLocal
<1>4. CASE Plan(w)
  <2>1. UNCHANGED rows
    BY <1>4 DEF Plan
  <2>2. \/ wk'[w] = Idle
        \/ wk'[w].pc = "check" /\ wk'[w].qty = Inventory
    BY <1>0, <1>4 DEF Plan, Rest, TypeOK, Local
  <2> QED  BY <1>1, <2>1, <2>2 DEF SoleLocal, Idle, Off
<1>5. CASE Check(w)
  <2>1. UNCHANGED rows /\ wk[w].pc = "check"
    BY <1>5 DEF Check, At
  <2>2. \/ wk'[w] = Idle
        \/ wk'[w].pc = "reserve_exit" /\ wk'[w].qty = wk[w].qty
    <3>1. CASE Rest(w)
      BY <1>0, <3>1 DEF Rest, TypeOK
    <3>2. CASE Goto(w, "reserve_exit")
      BY <1>0, <3>2 DEF Goto, TypeOK, Local
    <3> QED  BY <1>5, <3>1, <3>2 DEF Check
  <2> QED  BY <1>0, <1>1, <2>1, <2>2 DEF SoleLocal, Idle, Off
<1>6. CASE ChooseCancel(w)
  <2>1. UNCHANGED rows
    BY <1>6 DEF ChooseCancel
  <2>2. wk'[w].pc = "delete" /\ wk'[w].order \in Cancellable
    BY <1>0, <1>6 DEF ChooseCancel, TypeOK, Local
  <2> QED  BY <1>1, <2>1, <2>2 DEF SoleLocal, Cancellable
<1>7. CASE Delete(w)
  <2>1. UNCHANGED rows /\ wk[w].pc = "delete"
    BY <1>7 DEF Delete, At
  <2>2. wk'[w].pc \in {"mark", "observe"} /\ wk'[w].order = wk[w].order
    BY <1>0, <1>7 DEF Delete, Goto, TypeOK, Local
  <2> QED  BY <1>0, <1>1, <2>1, <2>2 DEF SoleLocal
<1> QED  BY <1>0, <1>2, <1>3, <1>4, <1>5, <1>6, <1>7, ReadsFirst

\* The one worker sells what the rows hold, when nothing else is on the way.
LEMMA ReserveSells ==
  ASSUME OrdersInv, OrdersInv', SoleInv, NEW w \in Worker, NEW o, wk[w].order = o, ReserveExit(w)
  PROVE  (SumOf(Caps, Exit) <= FilledSum(broker, Entry))'
<1>0. TypeOK /\ TypeOK' /\ wk[w] \in Local /\ wk[w].pc = "reserve_exit" /\ wk[w].qty = Inventory /\ o \in Exit
  BY DEF OrdersInv, TypeOK, SoleInv, SoleLocal, ReserveExit, At, LocalInv
<1>1. UNCHANGED broker
  BY DEF ReserveExit
<1>2. CASE UNCHANGED rows
  <2>1. Caps' = Caps
    BY <1>2 DEF Caps, Cap
  <2> QED  BY <1>1, <2>1 DEF SoleInv
<1>3. CASE Unresolved = {} /\ rows[o].status = "absent" /\ rows' = [rows EXCEPT ![o] = Approved(wk[w].qty)]
  <2> DEFINE F == [x \in Exit |-> rows[x].filled]
  <2>1. o \in Order /\ rows[o] \in Row /\ Exit \subseteq Order
    BY <1>0, OrderKinds DEF TypeOK
  <2>2. rows'[o].qty = Inventory /\ rows'[o].status = "approved"
    BY <1>0, <1>3, <2>1 DEF Approved, NoRow, TypeOK
  <2>3. \A x \in Exit \ {o} : rows'[x] = rows[x]
    BY <1>3, <2>1 DEF TypeOK
  <2>4. \A x \in Exit : rows[x].status \in FINAL \cup {"absent"}
    BY <1>3, <2>1 DEF Unresolved
  <2>5. \A x \in Exit : Caps[x] = rows[x].filled
    BY <2>4 DEF Caps, Cap
  <2>6. \A x \in Exit \ {o} : Caps'[x] = rows[x].filled
    BY <2>3, <2>4 DEF Caps, Cap
  <2>7. Caps'[o] = Inventory
    BY <1>0, <2>2 DEF Caps, Cap, FINAL
  <2>8. rows[o].filled = 0
    <3>1. OrderInv(o)
      BY <2>1 DEF OrdersInv
    <3> QED  BY <1>0, <1>3, <2>1, <3>1, FillTypes DEF OrderInv
  <2>9. ASSUME NEW x \in Exit PROVE F[x] \in Int /\ Caps'[x] \in Int /\ F[x] = rows[x].filled
    <3>1. Caps'[x] \in Int
      BY <1>0, CapTypesNext
    <3> QED  BY <1>0, <2>1, <3>1, FillTypes
  <2>10. FilledSum(rows, Exit) = SumOf(F, Exit)
    BY FilledIsSum
  <2> HIDE DEF F, Caps
  <2>11. SumOf(Caps', Exit) = SumOf(F, Exit) + (Inventory - 0)
    <3>1. \A x \in Exit \ {o} : Caps'[x] = F[x]
      BY <2>6, <2>9
    <3>2. SumOf(Caps', Exit) = SumOf(F, Exit) + IF o \in Exit THEN Caps'[o] - F[o] ELSE 0
      BY <2>9, <3>1, FiniteOrders, SumChanges
    <3> QED  BY <1>0, <2>7, <2>8, <2>9, <3>2
  <2>12. FilledSum(rows, Entry) <= FilledSum(broker, Entry)
    <3> DEFINE A == [x \in Entry |-> rows[x].filled]
               B == [x \in Entry |-> broker[x].filled]
    <3>1. ASSUME NEW x \in Entry PROVE A[x] \in Int /\ B[x] \in Int /\ A[x] <= B[x]
      <4>1. x \in Order /\ OrderInv(x)
        BY OrderKinds DEF OrdersInv
      <4> QED  BY <1>0, <4>1, FillTypes DEF OrderInv
    <3>2. FilledSum(rows, Entry) = SumOf(A, Entry) /\ FilledSum(broker, Entry) = SumOf(B, Entry)
      BY FilledIsSum
    <3> HIDE DEF A, B
    <3> QED  BY <3>1, <3>2, FiniteOrders, GrowingSum
  <2>13. SumOf(Caps', Exit) = FilledSum(rows, Entry)
    BY <1>0, <2>10, <2>11, InventoryType
  <2> QED  BY <1>1, <2>12, <2>13
<1> QED  BY <1>2, <1>3 DEF ReserveExit

\* No other step lets an exit fill more.
LEMMA CapsKept ==
  ASSUME OrdersInv, OrdersInv', SoleInv, NEW w \in Worker, NEW o, wk[w].order = o,
         \/ Observe(w) \/ ExpireBuy(w) \/ FenceRefusesEntry(w)
         \/ MarkCancelPending(w) \/ Claim(w) \/ FenceRefusesExit(w) \/ RecordAttempt(w) \/ Resolve(w)
         \/ ReserveEntry(w),
         NEW x \in Exit
  PROVE  Cap(x)' <= Cap(x)
<1>0. /\ TypeOK /\ TypeOK' /\ wk[w] \in Local /\ x \in Order
      /\ LocalInv(wk[w]) /\ SoleLocal(wk[w]) /\ OrderInv(x)
  BY OrderKinds DEF OrdersInv, TypeOK, SoleInv
<1>1. rows[x] \in Row /\ rows'[x].filled <= rows'[x].qty
  <2>1. OrderInv(x)' /\ rows'[x] \in Row /\ broker'[x] \in BrokerOrder
    BY <1>0 DEF OrdersInv, TypeOK
  <2> QED  BY <1>0, <2>1, QtyAssumption DEF OrderInv, TypeOK, Row, BrokerOrder
<1>2. CASE rows'[x] = rows[x]
  BY <1>0, <1>1, <1>2, CapKept
<1>3. CASE rows'[x] # rows[x] /\ (ExpireBuy(w) \/ FenceRefusesEntry(w) \/ ReserveEntry(w))
  <2>1. o \in Entry /\ x # o
    BY <1>0, <1>3, OrderKinds DEF ExpireBuy, FenceRefusesEntry, ReserveEntry, LocalInv, At
  <2>2. rows'[x] = rows[x]
    BY <1>0, <1>3, <2>1 DEF ExpireBuy, FenceRefusesEntry, ReserveEntry, ExpireUnsent, TypeOK
  <2> QED  BY <1>3, <2>2
<1>4. CASE Observe(w)
  <2>1. PICK r : wk[w].report = r
    OBVIOUS
  <2>2. x # o => rows'[x] = rows[x]
    BY <1>0, <1>4 DEF Observe, TypeOK
  <2>3. CASE x = o
    <3>1. /\ rows'[x].filled >= rows[x].filled
          /\ rows[x].status \in FINAL => rows'[x].status = rows[x].status
          /\ rows[x].status # "absent"
          /\ rows'[x].qty = rows[x].qty
      BY <1>0, <1>4, <2>1, <2>3, ObserveKeeps DEF OrdersInv, StateInv
    <3>3. rows[x].status \in FINAL => rows'[x].filled = rows[x].filled
      <4>1. UNCHANGED broker /\ OrderInv(x)' /\ Visible(x)
        BY <1>0, <1>4, <2>3 DEF Observe, OrdersInv, LocalInv, At
      <4>2. rows[x].status \in FINAL => rows[x].filled = broker[x].filled
        BY <1>0, <4>1 DEF OrderInv, FINAL, Visible
      <4>3. rows'[x].filled <= broker[x].filled
        BY <4>1 DEF OrderInv
      <4>4. rows'[x].filled \in Int /\ rows[x].filled \in Int
        BY <1>0, QtyAssumption DEF TypeOK, Row
      <4> QED  BY <3>1, <4>2, <4>3, <4>4
    <3> QED  BY <1>0, <1>1, <3>1, <3>3, CapKept
  <2> QED  BY <1>2, <2>2, <2>3
<1>5. CASE rows'[x] # rows[x] /\ (MarkCancelPending(w) \/ Claim(w) \/ FenceRefusesExit(w) \/ RecordAttempt(w) \/ Resolve(w))
  <2>1. x = o
    BY <1>0, <1>5 DEF MarkCancelPending, Claim, FenceRefusesExit, RecordAttempt, Resolve, TypeOK
  <2>2. rows'[x].qty = rows[x].qty /\ rows'[x].filled = rows[x].filled
    BY <1>0, <1>1, <1>5, <2>1 DEF MarkCancelPending, Claim, FenceRefusesExit, RecordAttempt, Resolve, TypeOK, Row
  <2>3. rows[x].status \in FINAL \cup {"absent"} => rows'[x].status = rows[x].status
    <3>1. CASE MarkCancelPending(w)
      BY <1>0, <2>1, <3>1 DEF MarkCancelPending, At, SoleLocal, Unresolved
    <3>2. CASE Claim(w)
      BY <1>0, <1>5, <2>1, <3>2 DEF Claim, FINAL
    <3>3. CASE FenceRefusesExit(w)
      BY <1>0, <1>1, <2>1, <3>3 DEF FenceRefusesExit, At, LocalInv, Untaken, FINAL
    <3>4. CASE RecordAttempt(w)
      BY <1>0, <1>1, <2>1, <3>4 DEF RecordAttempt, TypeOK, Row
    <3>5. CASE Resolve(w)
      BY <1>0, <1>1, <1>5, <2>1, <3>5 DEF Resolve, At, LocalInv, Untaken, FINAL
    <3> QED  BY <1>5, <3>1, <3>2, <3>3, <3>4, <3>5
  <2> QED  BY <1>0, <1>1, <2>2, <2>3, CapKept
<1> QED  BY <1>2, <1>3, <1>4, <1>5

LEMMA SoleStep ==
  ASSUME OrdersInv, SoleInv, Sole, [Next]_vars
  PROVE  SoleInv'
<1>0. OrdersInv' /\ TypeOK
  BY OneStep DEF OrdersInv
<1>1. \A w \in Worker : SoleLocal(wk[w])'
  BY SoleLocalStep
<1>2. CASE UNCHANGED rows
  <2>1. \A o \in Exit : Cap(o)' = Cap(o) /\ Cap(o) \in Int
    BY <1>0, <1>2, CapTypes DEF Cap
  <2>2. \A o \in Exit : Cap(o)' <= Cap(o)
    BY <2>1
  <2> QED  BY <1>0, <1>1, <2>2, CapsStep DEF SoleInv
<1>3. ASSUME NEW w \in Worker, ReserveExit(w) PROVE SoleInv'
  <2>1. PICK o : wk[w].order = o
    OBVIOUS
  <2> QED  BY <1>0, <1>1, <1>3, <2>1, ReserveSells DEF SoleInv
<1>4. ASSUME NEW w \in Worker,
             \/ Observe(w) \/ ExpireBuy(w) \/ FenceRefusesEntry(w)
             \/ MarkCancelPending(w) \/ Claim(w) \/ FenceRefusesExit(w) \/ RecordAttempt(w) \/ Resolve(w)
             \/ ReserveEntry(w)
      PROVE  SoleInv'
  <2>1. PICK o : wk[w].order = o
    OBVIOUS
  <2>2. \A x \in Exit : Cap(x)' <= Cap(x)
    BY <1>0, <1>4, <2>1, CapsKept
  <2> QED  BY <1>0, <1>1, <2>2, CapsStep DEF SoleInv
<1> QED  BY <1>0, <1>2, <1>3, <1>4, RowsOrNot

LEMMA SoleInit == Init => SoleInv
<1> SUFFICES ASSUME Init PROVE SoleInv
  OBVIOUS
<1>1. \A o \in Order : rows[o].filled = 0 /\ rows[o].status = "absent" /\ broker[o].filled = 0
  BY DEF Init, NoRow, NotThere
<1>2. \A o \in Exit : Caps[o] = 0
  BY <1>1, OrderKinds DEF Caps, Cap
<1>3. SumOf(Caps, Exit) <= 0
  <2>1. \A o \in Exit : Caps[o] \in Int
    BY <1>2
  <2>2. ~ (SumOf(Caps, Exit) > 0)
    BY <1>2, <2>1, FiniteOrders, PositiveSum
  <2> QED  BY <2>1, <2>2, FiniteOrders, SumOfInts
<1>4. FilledSum(broker, Entry) >= 0 /\ FilledSum(broker, Entry) \in Int
  BY <1>1, FiniteOrders, OrderKinds, SumNonNegative
<1>5. SumOf(Caps, Exit) \in Int
  BY <1>2, FiniteOrders, SumOfInts
<1>6. \A w \in Worker : SoleLocal(wk[w])
  BY DEF Init, Off, SoleLocal
<1> QED  BY <1>3, <1>4, <1>5, <1>6 DEF SoleInv

\* While there is one worker, however often it crashes, stops for its lease or
\* loses an answer, the sells that filled or may still fill never exceed what
\* was bought (supervise, _reserve, _dispatch).  A second worker breaks this:
\* EventOrdersOversell.cfg.
THEOREM SoleWorkerSellsOwn == (\A v, w \in Worker : v = w) => (Spec => []NoOversell)
<1> SUFFICES ASSUME \A v, w \in Worker : v = w PROVE Spec => []NoOversell
  OBVIOUS
<1>1. Sole
  BY DEF Sole
<1>2. Init => SoleInv
  BY SoleInit
<1>3. OrdersInv /\ SoleInv /\ [Next]_vars => SoleInv'
  BY <1>1, SoleStep
<1>4. OrdersInv /\ SoleInv => NoOversell
  BY CapsCover
<1> QED  BY <1>2, <1>3, <1>4, OrdersInvariant, PTL DEF Spec

=============================================================================
