------------------------ MODULE ScalpOwnershipProofs ------------------------
(***************************************************************************)
(* Proofs about which coins the scalper may call its own (ScalpOwnership    *)
(* and the ledger below it, OwnershipLedger).                               *)
(*                                                                         *)
(* The first pass of a refresh charges foreign disposals to the cycles one  *)
(* after the other and the second hands the balance out the same way; both  *)
(* are recursive functions over the cycles.  HandOut is their common form:  *)
(* that such a function exists and only dwindles is shown by induction over *)
(* a set of naturals (SetInduction, Sums), and from it that the shares are  *)
(* no more than what was handed out.  The rest bounds what one cycle takes  *)
(* (FactBounds, SettleBounds, RowAfterOK), bounds a refresh (RefreshBacks)  *)
(* and follows the invariant through the steps of the engine.               *)
(*                                                                         *)
(* That the engine sells no coin of the owner's is a second invariant,      *)
(* CoinsInv.  A sell is covered because what is protected covers the        *)
(* owner's coins (RefreshGuards) and what a cycle owns was in the balance   *)
(* beside them (RefreshOwned), at one moment: that of the positions in      *)
(* hand, up to which the evidence counts.  Books keeps this moment, the     *)
(* fees that the owner had paid by then and the coins that the engine had.  *)
(***************************************************************************)
EXTENDS ScalpOwnership, Sums

-----------------------------------------------------------------------------
(* Clamped quantities *)

LEMMA Clamps ==
  ASSUME NEW x \in Int, NEW y \in Int
  PROVE  /\ AtLeast0(x) \in Nat /\ AtLeast0(x) >= x
         /\ x >= 0 => AtLeast0(x) = x
         /\ x <= 0 => AtLeast0(x) = 0
         /\ Lesser(x, y) \in {x, y} /\ Lesser(x, y) <= x /\ Lesser(x, y) <= y
         /\ Greater(x, y) \in {x, y} /\ Greater(x, y) >= x /\ Greater(x, y) >= y
BY DEF AtLeast0, Lesser, Greater

LEMMA NatClamps ==
  ASSUME NEW x \in Nat, NEW y \in Nat
  PROVE  Lesser(x, y) \in Nat /\ Greater(x, y) \in Nat
BY DEF Lesser, Greater

-----------------------------------------------------------------------------
(* Quantities that are handed out cycle by cycle *)

\* g[c][x] is what is left after c of what was left before it.
Dwindles(g, N) == \A c \in 1..N, x \in Nat : g[c][x] \in Nat /\ g[c][x] <= x
HandOut(g, N, start, f) == [c \in 0..N |-> IF c = 0 THEN start ELSE g[c][f[c - 1]]]

\* There is such a function ...
LEMMA HandOutExists ==
  ASSUME NEW N \in Nat, NEW start \in Nat, NEW g, Dwindles(g, N)
  PROVE  \E f \in [0..N -> Nat] : f = HandOut(g, N, start, f)
<1> DEFINE Good(f, n) == f[0] = start /\ \A c \in 1..n : f[c] = g[c][f[c - 1]]
           T == {n \in Nat : n <= N => \E f \in [0..n -> Nat] : Good(f, n)}
<1>1. 0 \in T
  <2> DEFINE f == [c \in 0..0 |-> start]
  <2>1. f \in [0..0 -> Nat] /\ Good(f, 0)
    OBVIOUS
  <2> QED  BY <2>1
<1>2. ASSUME NEW n \in T PROVE n + 1 \in T
  <2>1. n \in Nat /\ n + 1 \in Nat
    OBVIOUS
  <2> SUFFICES ASSUME n + 1 <= N PROVE \E h \in [0..(n + 1) -> Nat] : Good(h, n + 1)
    BY <2>1
  <2>2. PICK f \in [0..n -> Nat] : Good(f, n)
    BY <2>1
  <2> DEFINE h == [c \in 0..(n + 1) |-> IF c = n + 1 THEN g[n + 1][f[n]] ELSE f[c]]
  <2>3. g[n + 1][f[n]] \in Nat
    BY <2>1, <2>2 DEF Dwindles
  <2>4. h \in [0..(n + 1) -> Nat]
    BY <2>1, <2>2, <2>3
  <2>5. h[0] = start
    BY <2>1, <2>2
  <2>6. ASSUME NEW c \in 1..(n + 1) PROVE h[c] = g[c][h[c - 1]]
    <3>1. c - 1 \in 0..n /\ h[c - 1] = f[c - 1]
      BY <2>1
    <3>2. CASE c = n + 1
      BY <2>1, <3>1, <3>2
    <3>3. CASE c # n + 1
      BY <2>1, <2>2, <3>1, <3>3
    <3> QED  BY <3>2, <3>3
  <2> QED  BY <2>4, <2>5, <2>6
<1> HIDE DEF T
<1>3. T = Nat
  <2>1. T \subseteq Nat
    BY DEF T
  <2> QED  BY <1>1, <1>2, <2>1, SetInduction
<1>4. PICK f \in [0..N -> Nat] : Good(f, N)
  BY <1>3 DEF T
<1>5. ASSUME NEW c \in 0..N PROVE f[c] = IF c = 0 THEN start ELSE g[c][f[c - 1]]
  BY <1>4
<1>6. f = HandOut(g, N, start, f)
  BY <1>5 DEF HandOut
<1> QED  BY <1>6

\* ... and it never hands out more than there is.
LEMMA HandOutDwindles ==
  ASSUME NEW N \in Nat, NEW start \in Nat, NEW g, Dwindles(g, N),
         NEW f, f[0] = start, \A c \in 1..N : f[c - 1] \in Nat => f[c] = g[c][f[c - 1]]
  PROVE  /\ \A c \in 0..N : f[c] \in Nat
         /\ \A c \in 1..N : f[c] = g[c][f[c - 1]] /\ f[c] <= f[c - 1]
<1> DEFINE T == {n \in Nat : n <= N => f[n] \in Nat}
<1>1. 0 \in T
  OBVIOUS
<1>2. ASSUME NEW n \in T PROVE n + 1 \in T
  <2>1. n \in Nat
    OBVIOUS
  <2>2. CASE n + 1 <= N
    <3>1. f[n] \in Nat /\ n + 1 \in 1..N /\ (n + 1) - 1 = n
      BY <2>1, <2>2
    <3>2. f[n + 1] = g[n + 1][f[n]]
      BY <3>1
    <3>3. g[n + 1][f[n]] \in Nat
      BY <3>1 DEF Dwindles
    <3> QED  BY <2>1, <3>2, <3>3
  <2> QED  BY <2>1, <2>2
<1> HIDE DEF T
<1>3. T = Nat
  <2>1. T \subseteq Nat
    BY DEF T
  <2> QED  BY <1>1, <1>2, <2>1, SetInduction
<1>4. \A c \in 0..N : f[c] \in Nat
  BY <1>3 DEF T
<1>5. ASSUME NEW c \in 1..N PROVE f[c] = g[c][f[c - 1]] /\ f[c] <= f[c - 1]
  <2>1. c - 1 \in 0..N
    OBVIOUS
  <2> QED  BY <1>4, <2>1 DEF Dwindles
<1> QED  BY <1>4, <1>5

-----------------------------------------------------------------------------
(* What is known of a cycle, and what follows from it *)

\* What order rows and fee activities say of a cycle.
Knowledge == [bought : Nat, sold : Nat, paid : Nat, awaited : Int, final : BOOLEAN]

FactRecord == [upper : Nat, claim : Nat, safe : Nat, pending : Nat, mixed : BOOLEAN,
               closed : BOOLEAN, recovery : BOOLEAN, fee : Nat, disposed : Nat,
               newBuys : Int, newSells : Int]

\* What the fills of a cycle leave after its fees and disposals.
NetOf(known, fact) == AtLeast0(known.bought - known.sold - fact.fee - fact.disposed)

\* A fact bounds what is safe by what is claimed, and that by the fills.
FactOK(known, fact) ==
    /\ fact \in FactRecord
    /\ fact.safe <= fact.claim /\ fact.claim <= fact.upper
    /\ fact.upper <= NetOf(known, fact)

\* What a cycle owned and has not sold since.
StillCovered(row, known) == AtLeast0(row.owned - (known.sold - row.sold))

LEMMA ShareIsPart ==
  ASSUME NEW row \in CycleRow, NEW known \in Knowledge, NEW left \in Nat
  PROVE  Share(row, known, left) \in Nat /\ Share(row, known, left) <= left
<1> DEFINE net == known.bought - known.sold - ProvenFee(row, known) - row.disposed
<1>1. /\ known.bought \in Nat /\ known.sold \in Nat /\ known.paid \in Nat
      /\ row.fee \in Nat /\ row.disposed \in Nat
  BY DEF CycleRow, Knowledge
<1>2. ProvenFee(row, known) \in Nat
  BY <1>1, NatClamps DEF ProvenFee
<1>3. net \in Int
  BY <1>1, <1>2
<1> HIDE DEF net
<1>4. AtLeast0(net) \in Nat
  BY <1>3, Clamps
<1>5. Lesser(left, AtLeast0(net)) \in Nat /\ Lesser(left, AtLeast0(net)) <= left
  BY <1>4 DEF Lesser
<1> QED  BY <1>5 DEF Share, net

\* What is left of a disposal never becomes negative.
LEMMA LeftIsLeft ==
  ASSUME NEW R, NEW rows \in [Cycle -> CycleRow], NEW known \in [Cycle -> Knowledge],
         NEW disposal \in Nat
  PROVE  \A c \in 0..MaxCycles : Left(R, rows, known, disposal)[c] \in Nat
<1> DEFINE Next1(c, x) == IF c \in R THEN x - Share(rows[c], known[c], x) ELSE x
           g == [c \in 1..MaxCycles |-> [x \in Nat |-> Next1(c, x)]]
           Body(f) == [c \in 0..MaxCycles |-> IF c = 0 THEN disposal
                          ELSE IF c \in R THEN f[c - 1] - Share(rows[c], known[c], f[c - 1])
                          ELSE f[c - 1]]
           left == CHOOSE f : f = Body(f)
<1>0. MaxCycles \in Nat /\ Cycle = 1..MaxCycles
  BY CyclesAssumption DEF Cycle
<1>1. Dwindles(g, MaxCycles)
  <2>1. ASSUME NEW c \in 1..MaxCycles, NEW x \in Nat
        PROVE  Next1(c, x) \in Nat /\ Next1(c, x) <= x
    <3>1. rows[c] \in CycleRow /\ known[c] \in Knowledge
      BY <1>0
    <3>2. Share(rows[c], known[c], x) \in Nat /\ Share(rows[c], known[c], x) <= x
      BY <3>1, ShareIsPart
    <3> QED  BY <3>2
  <2>2. ASSUME NEW c \in 1..MaxCycles, NEW x \in Nat PROVE g[c][x] = Next1(c, x)
    OBVIOUS
  <2> HIDE DEF g, Next1
  <2> QED  BY <2>1, <2>2 DEF Dwindles
<1>2. ASSUME NEW f, \A c \in 1..MaxCycles : f[c - 1] \in Nat
      PROVE  HandOut(g, MaxCycles, disposal, f) = Body(f)
  <2>1. ASSUME NEW c \in 0..MaxCycles
        PROVE  HandOut(g, MaxCycles, disposal, f)[c] = Body(f)[c]
    <3>1. CASE c = 0
      BY <3>1 DEF HandOut
    <3>2. CASE c # 0
      <4>1. c \in 1..MaxCycles
        BY <3>2
      <4>2. g[c][f[c - 1]] = Next1(c, f[c - 1])
        BY <1>2, <4>1
      <4> QED  BY <3>2, <4>2 DEF HandOut
    <3> QED  BY <3>1, <3>2
  <2> QED  BY <2>1 DEF HandOut
<1>3. PICK f \in [0..MaxCycles -> Nat] : f = HandOut(g, MaxCycles, disposal, f)
  BY <1>0, <1>1, HandOutExists
<1>4. f = Body(f)
  <2>1. \A c \in 1..MaxCycles : f[c - 1] \in Nat
    BY <1>0
  <2> QED  BY <1>2, <1>3, <2>1
<1>5. left = Body(left)
  <2> HIDE DEF Body
  <2> QED  BY <1>4
<1>6. Left(R, rows, known, disposal) = left
  BY DEF Left
<1> HIDE DEF left
<1>7. left[0] = disposal
  BY <1>0, <1>5
<1>8. ASSUME NEW c \in 1..MaxCycles, left[c - 1] \in Nat PROVE left[c] = g[c][left[c - 1]]
  <2>1. c \in 0..MaxCycles /\ c # 0
    OBVIOUS
  <2>2. left[c] = Next1(c, left[c - 1])
    BY <1>5, <2>1
  <2> QED  BY <1>8, <2>2
<1> HIDE DEF g
<1>9. \A c \in 0..MaxCycles : left[c] \in Nat
  BY <1>0, <1>1, <1>7, <1>8, HandOutDwindles
<1> QED  BY <1>6, <1>9

LEMMA FactBounds ==
  ASSUME NEW row \in CycleRow, NEW known \in Knowledge, NEW disposal \in Nat,
         NEW acquired \in BOOLEAN, row.bought <= known.bought
  PROVE  /\ FactOK(known, Fact(row, known, disposal, acquired))
         /\ Fact(row, known, disposal, acquired).safe <= StillCovered(row, known)
<1> DEFINE fee == ProvenFee(row, known)
           disposed == row.disposed + disposal
           net == AtLeast0(known.bought - known.sold - fee - disposed)
           closed == StaysClosed(row, known)
           recovery == closed /\ known.paid > 0 /\ net > 0
           lost == known.sold - row.sold + disposal
           carry == Carry(row.claim, net, lost)
           safe == Carry(row.owned, carry, lost)
           pending == IF closed THEN 0 ELSE row.pending + known.bought - row.bought
           fact == Fact(row, known, disposal, acquired)
<1>1. /\ known.bought \in Nat /\ known.sold \in Nat /\ known.paid \in Nat
      /\ row.fee \in Nat /\ row.disposed \in Nat /\ row.bought \in Nat /\ row.sold \in Nat
      /\ row.claim \in Nat /\ row.owned \in Nat /\ row.pending \in Nat /\ row.mixed \in BOOLEAN
  BY DEF CycleRow, Knowledge
<1>2. fee \in Nat /\ disposed \in Nat /\ closed \in BOOLEAN
  <2>1. fee \in Nat
    BY <1>1, NatClamps DEF ProvenFee
  <2>2. disposed \in Nat
    BY <1>1
  <2>3. closed \in BOOLEAN
    BY DEF StaysClosed
  <2> HIDE DEF fee, disposed, closed
  <2> QED  BY <2>1, <2>2, <2>3
<1>3. known.bought - known.sold - fee - disposed \in Int
  BY <1>1, <1>2
<1>4. net \in Nat
  BY <1>3, Clamps
<1>5. lost \in Int /\ pending \in Nat
  BY <1>1, <1>2
<1>6. ASSUME NEW x \in Nat, NEW y \in Nat
      PROVE  Carry(x, y, lost) \in Nat /\ Carry(x, y, lost) <= y
  <2>1. AtLeast0(x - lost) \in Nat
    BY <1>5, Clamps
  <2> QED  BY <2>1 DEF Lesser, Carry
<1>7. carry \in Nat /\ carry <= net /\ safe \in Nat /\ safe <= carry
  BY <1>1, <1>4, <1>6
<1>70. safe <= StillCovered(row, known) /\ StillCovered(row, known) \in Nat
  <2>1. /\ row.owned - lost \in Int /\ row.owned - (known.sold - row.sold) \in Int
        /\ row.owned - lost <= row.owned - (known.sold - row.sold)
    BY <1>1
  <2>2. safe <= AtLeast0(row.owned - lost)
    BY <1>7, <2>1, Clamps DEF Carry
  <2> HIDE DEF lost
  <2> QED  BY <1>7, <2>1, <2>2 DEF StillCovered, AtLeast0
<1>8. fact = [upper |-> IF closed /\ ~recovery THEN 0 ELSE net,
              claim |-> IF closed THEN 0 ELSE carry,
              safe |-> IF closed THEN 0 ELSE safe,
              pending |-> pending,
              mixed |-> row.mixed \/ (pending > 0 /\ acquired),
              closed |-> closed, recovery |-> recovery, fee |-> fee, disposed |-> disposed,
              newBuys |-> known.bought - row.bought, newSells |-> known.sold - row.sold]
  BY DEF Fact
<1>9. NetOf(known, fact) = net
  BY <1>8 DEF NetOf
<1>10. recovery \in BOOLEAN
  BY <1>2
<1> HIDE DEF net, fee, disposed, closed, carry, safe, pending, recovery, lost, fact
<1>11. fact \in FactRecord
  BY <1>1, <1>2, <1>4, <1>5, <1>7, <1>8, <1>10 DEF FactRecord
<1>12. fact.safe <= fact.claim /\ fact.claim <= fact.upper /\ fact.upper <= net
  <2>1. recovery => closed
    BY DEF recovery
  <2> QED  BY <1>4, <1>7, <1>8, <2>1
<1>13. fact.safe <= StillCovered(row, known)
  BY <1>8, <1>70
<1> QED  BY <1>9, <1>11, <1>12, <1>13 DEF FactOK, fact

-----------------------------------------------------------------------------
(* The settlement of a cycle *)

\* A cycle owns what is observed at most, and no more than it claims.
OutcomeOK(out, fact, observed) ==
    /\ out.owned \in Nat /\ out.owned <= observed /\ out.owned <= out.claim
    /\ out.claim \in Nat /\ out.claim <= fact.upper
    /\ out.pending \in Nat
    /\ out.mixed \in BOOLEAN /\ out.grow \in BOOLEAN

LEMMA SettleBounds ==
  ASSUME NEW row \in CycleRow, NEW known \in Knowledge, NEW fact \in FactRecord,
         fact.safe <= fact.claim, fact.claim <= fact.upper,
         NEW observed \in Nat, NEW ready \in BOOLEAN, NEW joint \in BOOLEAN,
         NEW acquired \in BOOLEAN
  PROVE  OutcomeOK(Settle(row, known, fact, observed, ready, joint, acquired), fact, observed)
<1> DEFINE feesKnown == known.bought > 0 /\ known.paid > 0
           carried == (row.grow \/ fact.newBuys > 0) /\ ~acquired /\ fact.newSells = 0
           grow == carried /\ ~fact.mixed
           keep == Lesser(fact.safe, observed)
           out == Settle(row, known, fact, observed, ready, joint, acquired)
           OK(x) == OutcomeOK(x, fact, observed)
<1>1. /\ fact.upper \in Nat /\ fact.claim \in Nat /\ fact.safe \in Nat /\ fact.pending \in Nat
      /\ fact.mixed \in BOOLEAN
      /\ known.bought \in Nat /\ known.sold \in Nat /\ known.paid \in Nat /\ known.awaited \in Int
  BY DEF FactRecord, Knowledge
<1>2. grow \in BOOLEAN /\ feesKnown \in BOOLEAN
  OBVIOUS
<1>3. keep \in Nat /\ keep <= observed /\ keep <= fact.claim
  BY <1>1 DEF Lesser
<1> HIDE DEF grow, feesKnown, keep
<1>4. \A t : OK(Outcome(0, 0, 0, fact.mixed, grow, t))
  BY <1>1, <1>2 DEF OutcomeOK, Outcome
<1>5. \A t : OK(Outcome(keep, fact.claim, fact.pending, fact.mixed, grow, t))
       /\ OK(Outcome(keep, fact.claim, fact.pending, TRUE, grow, t))
  BY <1>1, <1>2, <1>3 DEF OutcomeOK, Outcome
<1>6. OK(SettleByFees(fact, observed)) /\ OK(SettleJointly(fact, observed))
  BY <1>1 DEF OutcomeOK, Outcome, SettleByFees, SettleJointly, Lesser
<1>7. ASSUME observed <= fact.upper PROVE OK(GrowFromPosition(fact, observed, grow, feesKnown))
  <2> DEFINE claim == IF fact.pending > 0 /\ feesKnown THEN fact.upper
                      ELSE Greater(fact.claim, observed)
             owned == Lesser(claim, observed)
             pending == IF owned > 0 /\ (~feesKnown \/ owned = claim) THEN 0 ELSE fact.pending
  <2>1. claim \in Nat /\ claim <= fact.upper
    BY <1>1, <1>7 DEF Greater
  <2>2. owned \in Nat /\ owned <= claim /\ owned <= observed
    BY <2>1 DEF Lesser
  <2>3. pending \in Nat
    BY <1>1
  <2>4. PICK t : GrowFromPosition(fact, observed, grow, feesKnown)
                   = Outcome(owned, claim, pending, fact.mixed, grow, t)
    BY DEF GrowFromPosition
  <2> HIDE DEF claim, owned, pending
  <2> QED  BY <1>1, <1>2, <2>1, <2>2, <2>3, <2>4 DEF OutcomeOK, Outcome
<1>8. OK(SurplusInPosition(fact, observed, acquired, known.awaited))
  BY <1>1 DEF OutcomeOK, Outcome, SurplusInPosition, Lesser
<1>9. OK(HoldClaim(fact, known, observed))
  <2> DEFINE owned == Lesser(fact.claim, observed)
  <2>1. owned \in Nat /\ owned <= fact.claim /\ owned <= observed
    BY <1>1 DEF Lesser
  <2>2. \A t : OK(Outcome(owned, fact.claim, fact.pending, fact.mixed, FALSE, t))
    BY <1>1, <2>1 DEF OutcomeOK, Outcome
  <2>3. OK([Outcome(0, 0, fact.pending, fact.mixed, FALSE, "settled") EXCEPT !.dust = TRUE])
    BY <1>1 DEF OutcomeOK, Outcome
  <2> HIDE DEF OK, owned
  <2> QED  BY <2>2, <2>3 DEF HoldClaim, owned
<1> HIDE DEF OK
<1>10. OK(out)
  BY <1>4, <1>5, <1>6, <1>7, <1>8, <1>9 DEF Settle, grow, feesKnown, keep
<1> QED  BY <1>10 DEF OK

\* Without covered evidence a cycle owns only what is safe.
LEMMA UnreadyIsSafe ==
  ASSUME NEW row, NEW known, NEW fact \in FactRecord, NEW observed \in Nat,
         NEW ready \in BOOLEAN, NEW joint \in BOOLEAN, NEW acquired, ~ready
  PROVE  Settle(row, known, fact, observed, ready, joint, acquired).owned <= fact.safe
<1> DEFINE OK(x) == x.owned <= fact.safe
           feesKnown == known.bought > 0 /\ known.paid > 0
           carried == (row.grow \/ fact.newBuys > 0) /\ ~acquired /\ fact.newSells = 0
           grow == carried /\ ~fact.mixed
           keep == Lesser(fact.safe, observed)
<1>1. fact.safe \in Nat
  BY DEF FactRecord
<1>2. keep <= fact.safe
  BY <1>1 DEF Lesser
<1> HIDE DEF grow, feesKnown, keep
<1>3. OK(Outcome(0, 0, 0, fact.mixed, grow, "settled"))
  BY <1>1 DEF Outcome
<1>4. OK(Outcome(keep, fact.claim, fact.pending, fact.mixed, grow, "evidence_pending"))
  BY <1>2 DEF Outcome
<1> HIDE DEF OK
<1>5. OK(Settle(row, known, fact, observed, ready, joint, acquired))
  BY <1>3, <1>4 DEF Settle, grow, feesKnown, keep
<1> QED  BY <1>5 DEF OK

\* What a closed cycle, or one without orders, owns: nothing.
RowOK(row) ==
    /\ row.state \in CLOSED \cup {"absent"} => row.owned = 0
    /\ row.owned <= row.claim
    /\ row.claim <= AtLeast0(row.bought - row.sold - row.fee - row.disposed)

LEMMA RowAfterOK ==
  ASSUME NEW row \in CycleRow, NEW known \in Knowledge, NEW fact, FactOK(known, fact),
         NEW out, NEW observed \in Nat, OutcomeOK(out, fact, observed),
         NEW joint, NEW position, NEW protected1
  PROVE  LET after == RowAfter(row, known, fact, out, joint, position, protected1) IN
         /\ after \in CycleRow
         /\ after.state # "absent" /\ after.bought = known.bought /\ after.owned = out.owned
         /\ after.sold = known.sold
         /\ RowOK(after)
<1> DEFINE after == RowAfter(row, known, fact, out, joint, position, protected1)
           state == StateAfter(row, known, fact, out, joint, position, protected1)
<1>1. state \in CycleState \ {"absent"}
  BY DEF StateAfter, CycleState, CLOSED
<1>2. /\ known.bought \in Nat /\ known.sold \in Nat /\ row.exit \in BOOLEAN
      /\ fact.fee \in Nat /\ fact.disposed \in Nat /\ fact.upper \in Nat
      /\ fact.upper <= NetOf(known, fact)
  BY DEF Knowledge, FactOK, FactRecord, CycleRow
<1>3. /\ out.owned \in Nat /\ out.claim \in Nat /\ out.pending \in Nat
      /\ out.mixed \in BOOLEAN /\ out.grow \in BOOLEAN
      /\ out.owned <= out.claim /\ out.claim <= fact.upper
  BY DEF OutcomeOK
<1>4. after = [state |-> state, exit |-> row.exit, bought |-> known.bought, sold |-> known.sold,
               owned |-> out.owned, claim |-> out.claim, fee |-> fact.fee,
               disposed |-> fact.disposed, pending |-> out.pending, mixed |-> out.mixed,
               grow |-> out.grow]
  BY DEF RowAfter
<1>5. known.bought - known.sold - fact.fee - fact.disposed \in Int
  BY <1>2
<1>6. NetOf(known, fact) \in Nat
  BY <1>5, Clamps DEF NetOf
<1>7. out.claim <= NetOf(known, fact)
  BY <1>2, <1>3, <1>6
<1>8. state \in CLOSED => out.owned = 0
  <2>1. CASE known.final /\ known.bought = 0
    <3>1. NetOf(known, fact) = 0
      BY <1>2, <2>1 DEF NetOf, AtLeast0
    <3> QED  BY <1>3, <1>7, <3>1
  <2>2. CASE ~(known.final /\ known.bought = 0)
    BY <2>2 DEF StateAfter, CLOSED
  <2> QED  BY <2>1, <2>2
<1> HIDE DEF state, after
<1>9. after \in CycleRow
  BY <1>1, <1>2, <1>3, <1>4 DEF CycleRow
<1>10. RowOK(after)
  BY <1>1, <1>3, <1>4, <1>7, <1>8 DEF RowOK, NetOf
<1>11. after.state # "absent" /\ after.bought = known.bought /\ after.owned = out.owned
       /\ after.sold = known.sold
  BY <1>1, <1>4
<1> QED  BY <1>9, <1>10, <1>11 DEF after

-----------------------------------------------------------------------------
(* The division of a balance *)

\* The sum of what the cycles own, as a sum over the rows.
OwnedSum(rows) == SumOf([c \in Cycle |-> rows[c].owned], Cycle)

LEMMA CyclesAreFinite ==
  /\ MaxCycles \in Nat /\ Cycle = 1..MaxCycles /\ IsFiniteSet(Cycle)
BY CyclesAssumption, FS_Interval DEF Cycle

\* The facts of every cycle are bounds.
FactsOK(known, fact) == \A c \in Cycle : FactOK(known[c], fact[c])

\* Only the cycles R may own something.
OthersOwnNothing(R, rows) == \A c \in Cycle \ R : rows[c].owned = 0

\* The cycles R get new rows, which own no more than quantity together.
Divided(R, rows, known, new, quantity) ==
    /\ new \in [Cycle -> CycleRow]
    /\ \A c \in R : /\ new[c].state # "absent" /\ new[c].bought = known[c].bought
                    /\ new[c].sold = known[c].sold
                    /\ RowOK(new[c])
    /\ \A c \in Cycle \ R : new[c] = rows[c]
    /\ OwnedSum(new) <= quantity

\* Without covered evidence each of them owns no more than is safe.
Safely(ready, R, fact, new) == ~ready => \A c \in R : new[c].owned <= fact[c].safe

LEMMA DivideShares ==
  ASSUME NEW R \in SUBSET Cycle, NEW rows \in [Cycle -> CycleRow],
         NEW known \in [Cycle -> Knowledge], NEW fact,
         FactsOK(known, fact),
         NEW reserve \in Nat, NEW position \in Nat, NEW ready \in BOOLEAN,
         NEW acquired \in BOOLEAN,
         OthersOwnNothing(R, rows),
         NEW new, new = Divide(R, rows, known, fact, reserve, position, ready, acquired)
  PROVE  /\ Divided(R, rows, known, new, AtLeast0(position - reserve))
         /\ Safely(ready, R, fact, new)
<1> DEFINE joint == ready /\ position = reserve + Upper(R, fact)
           settled(c, x) == Settle(rows[c], known[c], fact[c], x, ready, joint, acquired)
           start == AtLeast0(position - reserve)
           Next1(c, x) == IF c \in R THEN x - settled(c, x).owned ELSE x
           g == [c \in 1..MaxCycles |-> [x \in Nat |-> Next1(c, x)]]
           Body(f) == [c \in 0..MaxCycles |-> IF c = 0 THEN start
                          ELSE IF c \in R THEN f[c - 1] - settled(c, f[c - 1]).owned
                          ELSE f[c - 1]]
           left == CHOOSE f : f = Body(f)
           after(c) == RowAfter(rows[c], known[c], fact[c], settled(c, left[c - 1]), joint,
                                position, reserve)
<1>0. MaxCycles \in Nat /\ Cycle = 1..MaxCycles
  BY CyclesAreFinite
<1>1. start \in Nat
  BY Clamps
<1>2. new = [c \in Cycle |-> IF c \in R THEN after(c) ELSE rows[c]]
  BY DEF Divide
<1>3. ASSUME NEW c \in Cycle, NEW x \in Nat
      PROVE  OutcomeOK(settled(c, x), fact[c], x)
  <2>1. rows[c] \in CycleRow /\ known[c] \in Knowledge /\ FactOK(known[c], fact[c])
    BY DEF FactsOK
  <2>2. fact[c] \in FactRecord /\ fact[c].safe <= fact[c].claim /\ fact[c].claim <= fact[c].upper
    BY <2>1 DEF FactOK
  <2>3. joint \in BOOLEAN
    OBVIOUS
  <2> HIDE DEF joint
  <2> QED  BY <2>1, <2>2, <2>3, SettleBounds
<1>30. ASSUME NEW c \in Cycle, NEW x \in Nat, ~ready
       PROVE  settled(c, x).owned <= fact[c].safe
  <2>1. fact[c] \in FactRecord
    BY DEF FactsOK, FactOK
  <2>2. ready = FALSE /\ joint = FALSE
    BY <1>30
  <2> HIDE DEF joint
  <2> QED  BY <2>1, <2>2, UnreadyIsSafe
<1>4. ASSUME NEW c \in Cycle, NEW x \in Nat
      PROVE  /\ settled(c, x).owned \in Nat
             /\ Next1(c, x) \in Nat /\ Next1(c, x) <= x
  <2>1. OutcomeOK(settled(c, x), fact[c], x)
    BY <1>3
  <2> HIDE DEF settled
  <2>2. settled(c, x).owned \in Nat /\ settled(c, x).owned <= x
    BY <2>1 DEF OutcomeOK
  <2> QED  BY <2>2
<1> HIDE DEF settled, start, after, joint
<1>5. Dwindles(g, MaxCycles)
  <2>1. ASSUME NEW c \in 1..MaxCycles, NEW x \in Nat PROVE g[c][x] = Next1(c, x)
    OBVIOUS
  <2> HIDE DEF g, Next1
  <2> QED  BY <1>0, <1>4, <2>1 DEF Dwindles
<1> HIDE DEF g
<1>50. \E f \in [0..MaxCycles -> Nat] : f = HandOut(g, MaxCycles, start, f)
  <2>1. MaxCycles \in Nat
    BY <1>0
  <2>2. start \in Nat
    BY <1>1
  <2>3. Dwindles(g, MaxCycles)
    BY <1>5
  <2>4. \A h : Dwindles(h, MaxCycles) => \E f \in [0..MaxCycles -> Nat] : f = HandOut(h, MaxCycles, start, f)
    BY <2>1, <2>2, HandOutExists
  <2> QED  BY <2>3, <2>4
<1> HIDE DEF left
<1>6. left = Body(left)
  <2>1. PICK f \in [0..MaxCycles -> Nat] : f = HandOut(g, MaxCycles, start, f)
    BY <1>50
  <2>2. ASSUME NEW c \in 0..MaxCycles PROVE f[c] = Body(f)[c]
    <3>1. f[c] = IF c = 0 THEN start ELSE g[c][f[c - 1]]
      BY <2>1 DEF HandOut
    <3>2. CASE c = 0
      BY <3>1, <3>2
    <3>3. CASE c # 0
      <4>1. c \in 1..MaxCycles /\ f[c - 1] \in Nat
        BY <1>0, <3>3
      <4>2. g[c][f[c - 1]] = Next1(c, f[c - 1])
        BY <4>1 DEF g
      <4> QED  BY <3>1, <3>3, <4>2
    <3> QED  BY <3>2, <3>3
  <2>3. f = Body(f)
    <3>1. DOMAIN f = 0..MaxCycles /\ f = [c \in 0..MaxCycles |-> f[c]]
      BY <2>1
    <3> QED  BY <2>2, <3>1
  <2> HIDE DEF Body
  <2> QED  BY <2>3 DEF left
<1>7. left[0] = start
  BY <1>0, <1>6
<1>8. ASSUME NEW c \in 1..MaxCycles PROVE left[c] = Next1(c, left[c - 1])
  <2>1. c \in 0..MaxCycles /\ c # 0
    OBVIOUS
  <2> QED  BY <1>6, <2>1
<1>9. \A c \in 0..MaxCycles : left[c] \in Nat
  <2>1. ASSUME NEW c \in 1..MaxCycles, left[c - 1] \in Nat PROVE left[c] = g[c][left[c - 1]]
    BY <1>8, <2>1 DEF g
  <2>2. MaxCycles \in Nat /\ start \in Nat
    BY <1>0, <1>1
  <2>3. \A h, f : /\ Dwindles(h, MaxCycles) /\ f[0] = start
                  /\ \A c \in 1..MaxCycles : f[c - 1] \in Nat => f[c] = h[c][f[c - 1]]
                  => \A c \in 0..MaxCycles : f[c] \in Nat
    BY <2>2, HandOutDwindles
  <2> QED  BY <1>5, <1>7, <2>1, <2>3
<1>10. ASSUME NEW c \in Cycle
       PROVE  /\ left[c - 1] \in Nat
              /\ settled(c, left[c - 1]).owned \in Nat
              /\ OutcomeOK(settled(c, left[c - 1]), fact[c], left[c - 1])
  <2>1. c - 1 \in 0..MaxCycles
    BY <1>0
  <2> QED  BY <1>3, <1>4, <1>9, <2>1
<1>11. ASSUME NEW c \in R
       PROVE  /\ new[c] \in CycleRow
              /\ new[c].state # "absent" /\ new[c].bought = known[c].bought
              /\ new[c].sold = known[c].sold
              /\ new[c].owned = settled(c, left[c - 1]).owned
              /\ RowOK(new[c])
  <2>1. c \in Cycle /\ rows[c] \in CycleRow /\ known[c] \in Knowledge /\ FactOK(known[c], fact[c])
    BY DEF FactsOK
  <2>2. OutcomeOK(settled(c, left[c - 1]), fact[c], left[c - 1]) /\ left[c - 1] \in Nat
    BY <1>10, <2>1
  <2>3. new[c] = after(c)
    BY <1>2, <2>1
  <2> QED  BY <2>1, <2>2, <2>3, RowAfterOK DEF after
<1>12. ASSUME NEW c \in Cycle \ R PROVE new[c] = rows[c]
  BY <1>2
<1>13. new \in [Cycle -> CycleRow]
  <2>1. \A c \in Cycle : new[c] \in CycleRow
    BY <1>11, <1>12
  <2>2. new = [c \in Cycle |-> new[c]]
    BY <1>2
  <2> QED  BY <2>1, <2>2
<1> DEFINE W == [c \in Cycle |-> new[c].owned]
           T == {n \in Nat : n <= MaxCycles => SumOf(W, 1..n) = start - left[n]}
<1>14. ASSUME NEW c \in Cycle PROVE W[c] = left[c - 1] - left[c] /\ W[c] \in Int
  <2>1. c \in 1..MaxCycles /\ left[c] = Next1(c, left[c - 1])
    BY <1>0, <1>8
  <2>2. CASE c \in R
    BY <1>10, <1>11, <2>1, <2>2
  <2>3. CASE c \notin R
    BY <1>10, <1>12, <2>1, <2>3 DEF OthersOwnNothing
  <2> QED  BY <2>2, <2>3
<1> HIDE DEF W
<1>15. 0 \in T
  <2>1. 1..0 = {}
    OBVIOUS
  <2> QED  BY <1>1, <1>7, <2>1, EmptySum
<1>16. ASSUME NEW n \in T PROVE n + 1 \in T
  <2>1. n \in Nat
    OBVIOUS
  <2>2. CASE n + 1 <= MaxCycles
    <3>1. /\ n + 1 \in Cycle /\ (n + 1) - 1 = n /\ n \in 0..MaxCycles /\ n + 1 \in 0..MaxCycles
          /\ 1..(n + 1) = (1..n) \cup {n + 1} /\ n + 1 \notin 1..n
          /\ SumOf(W, 1..n) = start - left[n]
      BY <1>0, <2>1, <2>2
    <3>2. W[n + 1] = left[n] - left[n + 1] /\ W[n + 1] \in Int
      BY <1>14, <3>1
    <3>3. IsFiniteSet(1..n) /\ \A y \in 1..n : W[y] \in Int
      <4>1. IsFiniteSet(1..n)
        BY <2>1, FS_Interval
      <4>2. \A y \in 1..n : y \in Cycle
        BY <1>0, <2>1, <2>2
      <4> QED  BY <1>14, <4>1, <4>2
    <3>4. SumOf(W, (1..n) \cup {n + 1}) = W[n + 1] + SumOf(W, 1..n)
      BY <3>1, <3>2, <3>3, SumAdds
    <3>5. left[n] \in Nat /\ left[n + 1] \in Nat /\ start \in Nat
      BY <1>1, <1>9, <3>1
    <3>6. SumOf(W, 1..(n + 1)) = W[n + 1] + SumOf(W, 1..n)
      BY <3>1, <3>4
    <3>7. SumOf(W, 1..(n + 1)) = (left[n] - left[n + 1]) + (start - left[n])
      BY <3>1, <3>2, <3>6
    <3>8. SumOf(W, 1..(n + 1)) = start - left[n + 1]
      BY <3>5, <3>7
    <3> QED  BY <2>1, <3>8
  <2> QED  BY <2>1, <2>2
<1> HIDE DEF T
<1>17. T = Nat
  <2>1. T \subseteq Nat
    BY DEF T
  <2> QED  BY <1>15, <1>16, <2>1, SetInduction
<1>18. SumOf(W, Cycle) = start - left[MaxCycles]
  BY <1>0, <1>17 DEF T
<1>19. OwnedSum(new) <= start
  BY <1>0, <1>1, <1>9, <1>18 DEF OwnedSum, W
<1>20. ASSUME ~ready, NEW c \in R PROVE new[c].owned <= fact[c].safe
  BY <1>10, <1>11, <1>20, <1>30
<1> QED  BY <1>11, <1>12, <1>13, <1>19, <1>20 DEF start, Divided, Safely

-----------------------------------------------------------------------------
(* The foreign flow and the protected quantity *)

FlowRecord == [protected : Nat, disposal : Nat, acquired : BOOLEAN, ev : Evidence]
FlowTotal == [buys : Nat, sells : Nat, fees : Nat]

LEMMA FlowType ==
  ASSUME NEW reserve \in Nat, NEW evidence \in Evidence, NEW total \in FlowTotal
  PROVE  ForeignFlow(reserve, evidence, total) \in FlowRecord
<1> DEFINE buys == AtLeast0(total.buys - evidence.buys)
           sells == AtLeast0(total.sells - evidence.sells)
           fees == AtLeast0(total.fees - evidence.fees)
           overlap == Lesser(evidence.provisional, fees)
           available == reserve + buys
           debit == sells + fees - overlap
           flowEv == [buys |-> Greater(evidence.buys, total.buys),
                      sells |-> Greater(evidence.sells, total.sells),
                      fees |-> Greater(evidence.fees, total.fees),
                      provisional |-> evidence.provisional - overlap,
                      unsettled |-> evidence.unsettled \/ (fees > 0 /\ evidence.provisional > overlap)]
<1>1. /\ evidence.buys \in Nat /\ evidence.sells \in Nat /\ evidence.fees \in Nat
      /\ evidence.provisional \in Nat /\ evidence.unsettled \in BOOLEAN
      /\ total.buys \in Nat /\ total.sells \in Nat /\ total.fees \in Nat
  BY DEF Evidence, FlowTotal
<1>2. buys \in Nat /\ sells \in Nat /\ fees \in Nat
  BY <1>1, Clamps
<1>3. /\ Greater(evidence.buys, total.buys) \in Nat
      /\ Greater(evidence.sells, total.sells) \in Nat
      /\ Greater(evidence.fees, total.fees) \in Nat
  BY <1>1, NatClamps
<1> HIDE DEF buys, sells, fees
<1>4. overlap \in Nat /\ overlap <= evidence.provisional
  BY <1>1, <1>2 DEF Lesser
<1> HIDE DEF overlap
<1>5. available \in Nat /\ debit \in Int
  BY <1>1, <1>2, <1>4
<1> HIDE DEF available, debit
<1>6. AtLeast0(available - debit) \in Nat /\ AtLeast0(debit - available) \in Nat
  BY <1>5, Clamps
<1>7. flowEv \in Evidence
  <2>1. evidence.provisional - overlap \in Nat
    BY <1>1, <1>4
  <2>2. (evidence.unsettled \/ (fees > 0 /\ evidence.provisional > overlap)) \in BOOLEAN
    BY <1>1
  <2> QED  BY <1>3, <2>1, <2>2 DEF Evidence
<1> HIDE DEF flowEv
<1>8. (buys > 0) \in BOOLEAN
  OBVIOUS
<1>9. ForeignFlow(reserve, evidence, total) =
         [protected |-> AtLeast0(available - debit), disposal |-> AtLeast0(debit - available),
          acquired |-> buys > 0, ev |-> flowEv]
  BY DEF ForeignFlow, buys, sells, fees, overlap, available, debit, flowEv
<1> QED  BY <1>6, <1>7, <1>8, <1>9 DEF FlowRecord

LEMMA RestoreType ==
  ASSUME NEW flow \in FlowRecord, NEW position \in Nat, NEW safe \in Int
  PROVE  RestoreCredit(flow, position, safe) \in FlowRecord
<1>1. flow.ev \in Evidence /\ flow.protected \in Nat
  BY DEF FlowRecord
<1>2. flow.protected + flow.ev.provisional \in Nat
  BY <1>1 DEF Evidence
<1>3. [flow.ev EXCEPT !.provisional = 0, !.unsettled = FALSE] \in Evidence
  BY <1>1 DEF Evidence
<1>4. [flow EXCEPT !.protected = @ + flow.ev.provisional, !.ev.provisional = 0, !.ev.unsettled = FALSE]
        = [flow EXCEPT !.protected = flow.protected + flow.ev.provisional,
                       !.ev = [flow.ev EXCEPT !.provisional = 0, !.unsettled = FALSE]]
  BY DEF FlowRecord
<1> QED  BY <1>2, <1>3, <1>4 DEF RestoreCredit, FlowRecord

LEMMA SegregateType ==
  ASSUME NEW flow \in FlowRecord, NEW position \in Nat, NEW safe \in Int, NEW upper \in Int,
         NEW pending \in BOOLEAN, NEW before \in Nat, NEW buying \in BOOLEAN
  PROVE  Segregate(flow, position, safe, upper, pending, before, buying) \in FlowRecord
<1> DEFINE observed == position - safe
           bounded == IF upper > safe THEN Lesser(observed, flow.protected) ELSE observed
           target == IF pending THEN Lesser(observed, flow.protected) ELSE bounded
           extra == AtLeast0(flow.protected - target)
           applies == /\ flow.acquired \/ buying
                      /\ observed >= 0
                      /\ pending \/ buying \/ observed > before
           new == [flow EXCEPT !.protected = target, !.ev.provisional = @ + extra]
<1>1. flow.ev \in Evidence /\ flow.protected \in Nat
  BY DEF FlowRecord
<1>2. ASSUME observed >= 0 PROVE target \in Nat
  <2>1. observed \in Nat
    BY <1>2
  <2> HIDE DEF observed
  <2> QED  BY <1>1, <2>1 DEF Lesser
<1>3. ASSUME target \in Nat PROVE new \in FlowRecord
  <2> HIDE DEF target
  <2>1. extra \in Nat
    BY <1>1, <1>3, Clamps
  <2> HIDE DEF extra
  <2>2. [flow.ev EXCEPT !.provisional = flow.ev.provisional + extra] \in Evidence
    BY <1>1, <2>1 DEF Evidence
  <2>3. new = [flow EXCEPT !.protected = target,
                           !.ev = [flow.ev EXCEPT !.provisional = flow.ev.provisional + extra]]
    BY DEF FlowRecord
  <2> HIDE DEF new
  <2> QED  BY <1>3, <2>2, <2>3 DEF FlowRecord
<1>4. Segregate(flow, position, safe, upper, pending, before, buying)
        = IF applies THEN new ELSE flow
  BY DEF Segregate
<1> HIDE DEF new, target
<1> QED  BY <1>2, <1>3, <1>4

-----------------------------------------------------------------------------
(* One refresh *)

LEMMA TotalIsSum == ASSUME NEW f, NEW S PROVE Total(f, S) = SumOf(f, S)
BY DEF Total, SumOf, MapThenSumSet, MapThenFoldSet

LEMMA FactsAreBounds ==
  ASSUME NEW R, NEW rows \in [Cycle -> CycleRow], NEW known \in [Cycle -> Knowledge],
         NEW flow \in FlowRecord, \A c \in Cycle : rows[c].bought <= known[c].bought
  PROVE  \A c \in Cycle :
            /\ FactOK(known[c], Facts(R, rows, known, flow)[c])
            /\ Facts(R, rows, known, flow)[c].safe <= StillCovered(rows[c], known[c])
<1> DEFINE fact == Facts(R, rows, known, flow)
<1>1. flow.disposal \in Nat /\ flow.acquired \in BOOLEAN
  BY DEF FlowRecord
<1>2. ASSUME NEW c \in Cycle
      PROVE  FactOK(known[c], fact[c]) /\ fact[c].safe <= StillCovered(rows[c], known[c])
  <2> DEFINE left == Left(R, rows, known, flow.disposal)
             share == Share(rows[c], known[c], left[c - 1])
  <2>1. rows[c] \in CycleRow /\ known[c] \in Knowledge /\ rows[c].bought <= known[c].bought
    OBVIOUS
  <2>2. c - 1 \in 0..MaxCycles
    BY CyclesAreFinite
  <2>3. left[c - 1] \in Nat
    BY <1>1, <2>2, LeftIsLeft
  <2>4. fact[c] = Fact(rows[c], known[c], share, flow.acquired)
    BY DEF Facts
  <2> HIDE DEF left
  <2>5. share \in Nat
    BY <2>1, <2>3, ShareIsPart
  <2> HIDE DEF share, fact
  <2> QED  BY <1>1, <2>1, <2>4, <2>5, FactBounds
<1> QED  BY <1>2

\* Whatever is known and however the owner traded, a refresh leaves rows that
\* are backed by the balance beside what is protected.
LEMMA RefreshBacks ==
  ASSUME NEW R \in SUBSET Cycle, NEW rows \in [Cycle -> CycleRow],
         NEW known \in [Cycle -> Knowledge], NEW reserve \in Nat, NEW evidence \in Evidence,
         NEW total \in FlowTotal, NEW position \in Nat, NEW ready \in BOOLEAN,
         NEW buying \in BOOLEAN,
         \A c \in Cycle : rows[c].bought <= known[c].bought,
         OthersOwnNothing(R, rows),
         NEW new, new = Refresh(R, rows, known, reserve, evidence, total, position, ready, buying)
  PROVE  /\ new.protected \in Nat /\ new.ev \in Evidence
         /\ Divided(R, rows, known, new.cycle, AtLeast0(position - new.protected))
         /\ ~ready => \A c \in R : new.cycle[c].owned <= StillCovered(rows[c], known[c])
<1> DEFINE flow == ForeignFlow(reserve, evidence, total)
           fact == Facts(R, rows, known, flow)
           final == IF ready THEN Protect(R, known, fact, flow, reserve, position, buying) ELSE flow
<1>1. flow \in FlowRecord
  BY FlowType
<1>2. new = [cycle |-> Divide(R, rows, known, fact, final.protected, position, ready, flow.acquired),
             protected |-> final.protected, ev |-> final.ev]
  BY DEF Refresh
<1> HIDE DEF flow
<1>3. flow.disposal \in Nat /\ flow.acquired \in BOOLEAN /\ flow.protected \in Nat
  BY <1>1 DEF FlowRecord
<1>4. \A c \in Cycle : FactOK(known[c], fact[c]) /\ fact[c].safe <= StillCovered(rows[c], known[c])
  BY <1>1, FactsAreBounds
<1> HIDE DEF fact
<1>5. ASSUME NEW c \in Cycle PROVE fact[c].safe \in Int /\ fact[c].upper \in Int
  BY <1>4 DEF FactOK, FactRecord
<1>6. final \in FlowRecord
  <2> DEFINE U == [c \in Cycle |-> fact[c].upper]
             V == [c \in Cycle |-> fact[c].safe]
             safe == Total(V, R)
             pending == \E c \in R : fact[c].pending > 0 \/ fact[c].mixed \/ known[c].awaited > 0
  <2>1. IsFiniteSet(R) /\ \A c \in R : U[c] \in Int /\ V[c] \in Int
    BY <1>5, CyclesAreFinite, FS_Subset
  <2>2. Upper(R, fact) = Total(U, R)
    BY DEF Upper
  <2>3. Protect(R, known, fact, flow, reserve, position, buying)
          = Segregate(RestoreCredit(flow, position, safe), position, safe, Upper(R, fact), pending,
                      reserve, buying)
    BY DEF Protect
  <2> HIDE DEF U, V
  <2>4. safe \in Int /\ Upper(R, fact) \in Int
    BY <2>1, <2>2, TotalIsSum, SumOfInts
  <2>5. pending \in BOOLEAN
    OBVIOUS
  <2> HIDE DEF safe, pending
  <2>6. RestoreCredit(flow, position, safe) \in FlowRecord
    BY <1>1, <2>4, RestoreType
  <2>7. Protect(R, known, fact, flow, reserve, position, buying) \in FlowRecord
    BY <2>3, <2>4, <2>5, <2>6, SegregateType
  <2> QED  BY <1>1, <2>7
<1> HIDE DEF final
<1>7. final.protected \in Nat /\ final.ev \in Evidence
  BY <1>6 DEF FlowRecord
<1>8. new.protected = final.protected /\ new.ev = final.ev
      /\ new.cycle = Divide(R, rows, known, fact, final.protected, position, ready, flow.acquired)
  BY <1>2
<1>9. FactsOK(known, fact)
  BY <1>4 DEF FactsOK
<1>10. /\ Divided(R, rows, known, new.cycle, AtLeast0(position - final.protected))
       /\ Safely(ready, R, fact, new.cycle)
  BY <1>3, <1>7, <1>8, <1>9, DivideShares
<1>11. ASSUME ~ready, NEW c \in R PROVE new.cycle[c].owned <= StillCovered(rows[c], known[c])
  <2>1. new.cycle[c].owned <= fact[c].safe /\ fact[c].safe <= StillCovered(rows[c], known[c])
    BY <1>4, <1>10, <1>11 DEF Safely
  <2>2. new.cycle[c].owned \in Nat /\ fact[c].safe \in Nat
    BY <1>4, <1>10 DEF Divided, CycleRow, FactOK, FactRecord
  <2>3. rows[c].owned \in Nat /\ known[c].sold \in Nat /\ rows[c].sold \in Nat
    BY DEF CycleRow, Knowledge
  <2>4. StillCovered(rows[c], known[c]) \in Nat
    BY <2>3, Clamps DEF StillCovered
  <2> QED  BY <2>1, <2>2, <2>4
<1> QED  BY <1>7, <1>8, <1>10, <1>11

-----------------------------------------------------------------------------
(* What a refresh leaves protected                                          *)
(*                                                                         *)
(* e counts the owner's trades that are accounted for, start the coins of   *)
(* the owner before them, k fees that the owner has paid.                   *)

\* No coin of the owner's is left unprotected, and none whose fee is known
\* after what the balance did not show is given back.
Guarded(p, e, start, k) ==
    /\ p >= start + e.buys - e.sells - k
    /\ p + e.provisional >= start + e.buys - e.sells - e.fees

\* The evidence counts what total says.
Counts(e, total) == e.buys = total.buys /\ e.sells = total.sells /\ e.fees = total.fees

LEMMA FlowGuards ==
  ASSUME NEW reserve \in Nat, NEW evidence \in Evidence, NEW total \in FlowTotal,
         evidence.buys <= total.buys, evidence.sells <= total.sells, evidence.fees <= total.fees,
         NEW start \in Int, NEW k0 \in Nat, NEW k \in Nat, k0 <= k, total.fees <= k
  PROVE  LET flow == ForeignFlow(reserve, evidence, total) IN
         /\ Counts(flow.ev, total)
         /\ flow.acquired => total.buys > evidence.buys
         /\ Guarded(reserve, evidence, start, k0) => Guarded(flow.protected, flow.ev, start, k)
<1> DEFINE flow == ForeignFlow(reserve, evidence, total)
           buys == total.buys - evidence.buys
           sells == total.sells - evidence.sells
           fees == total.fees - evidence.fees
           overlap == Lesser(evidence.provisional, fees)
           rest == reserve + buys - (sells + fees - overlap)
<1>1. /\ evidence.buys \in Nat /\ evidence.sells \in Nat /\ evidence.fees \in Nat
      /\ evidence.provisional \in Nat
      /\ total.buys \in Nat /\ total.sells \in Nat /\ total.fees \in Nat
  BY DEF Evidence, FlowTotal
<1>2. /\ buys \in Nat /\ sells \in Nat /\ fees \in Nat
      /\ AtLeast0(buys) = buys /\ AtLeast0(sells) = sells /\ AtLeast0(fees) = fees
  BY <1>1, Clamps
<1>3. /\ Greater(evidence.buys, total.buys) = total.buys
      /\ Greater(evidence.sells, total.sells) = total.sells
      /\ Greater(evidence.fees, total.fees) = total.fees
  BY <1>1 DEF Greater
<1>4. /\ flow.protected = AtLeast0(rest)
      /\ flow.ev.provisional = evidence.provisional - overlap
      /\ flow.ev.buys = Greater(evidence.buys, total.buys)
      /\ flow.ev.sells = Greater(evidence.sells, total.sells)
      /\ flow.ev.fees = Greater(evidence.fees, total.fees)
      /\ flow.acquired = (buys > 0)
  <2> DEFINE b == AtLeast0(total.buys - evidence.buys)
             s == AtLeast0(total.sells - evidence.sells)
             f == AtLeast0(total.fees - evidence.fees)
             o == Lesser(evidence.provisional, f)
             available == reserve + b
             debit == s + f - o
             unsettled == evidence.unsettled \/ (f > 0 /\ evidence.provisional > o)
  <2> HIDE DEF b, s, f, o, available, debit
  <2>1. flow = [protected |-> AtLeast0(available - debit), disposal |-> AtLeast0(debit - available),
                acquired |-> b > 0,
                ev |-> [buys |-> Greater(evidence.buys, total.buys),
                        sells |-> Greater(evidence.sells, total.sells),
                        fees |-> Greater(evidence.fees, total.fees),
                        provisional |-> evidence.provisional - o,
                        unsettled |-> unsettled]]
    BY DEF ForeignFlow, b, s, f, o, available, debit
  <2>2. b = buys /\ s = sells /\ f = fees /\ o = overlap /\ available - debit = rest
    <3>1. b = buys /\ s = sells /\ f = fees
      BY <1>2 DEF b, s, f
    <3> HIDE DEF buys, sells, fees
    <3>2. o = overlap
      BY <3>1 DEF o
    <3> HIDE DEF overlap
    <3>3. available = reserve + buys /\ debit = sells + fees - overlap
      BY <3>1, <3>2 DEF available, debit
    <3>4. available - debit = rest
      <4>1. buys \in Int /\ sells \in Int /\ fees \in Int /\ overlap \in Int
        BY <1>1, <1>2 DEF overlap, Lesser
      <4> QED  BY <3>3, <4>1
    <3> HIDE DEF rest, available, debit
    <3> QED  BY <3>1, <3>2, <3>4
  <2> HIDE DEF flow, unsettled, buys, sells, fees, overlap, rest
  <2>3. /\ flow.protected = AtLeast0(available - debit)
        /\ flow.ev.provisional = evidence.provisional - o
        /\ flow.ev.buys = Greater(evidence.buys, total.buys)
        /\ flow.ev.sells = Greater(evidence.sells, total.sells)
        /\ flow.ev.fees = Greater(evidence.fees, total.fees)
        /\ flow.acquired = (b > 0)
    BY <2>1
  <2> QED  BY <2>2, <2>3
<1>6. \/ overlap = fees /\ fees <= evidence.provisional
      \/ overlap = evidence.provisional /\ evidence.provisional < fees
  BY <1>1, <1>2 DEF Lesser
<1>7. overlap \in Nat /\ rest \in Int /\ AtLeast0(rest) \in Nat /\ AtLeast0(rest) >= rest
  <2>1. overlap \in Nat
    BY <1>1, <1>2, <1>6
  <2>2. rest \in Int
    BY <1>2, <2>1
  <2> HIDE DEF rest
  <2> QED  BY <2>1, <2>2, Clamps
<1> HIDE DEF flow, overlap
<1>8. Counts(flow.ev, total)
  BY <1>3, <1>4 DEF Counts
<1>9. flow.acquired => total.buys > evidence.buys
  <2>1. flow.acquired => buys > 0
    BY <1>4, Zenon
  <2>2. buys > 0 => total.buys > evidence.buys
    BY <1>1
  <2> QED  BY <2>1, <2>2, Zenon
<1>10. ASSUME Guarded(reserve, evidence, start, k0) PROVE Guarded(flow.protected, flow.ev, start, k)
  <2>1. /\ reserve >= start + evidence.buys - evidence.sells - k0
        /\ reserve + evidence.provisional >= start + evidence.buys - evidence.sells - evidence.fees
    BY <1>10 DEF Guarded
  <2>2. rest >= start + total.buys - total.sells - k
    BY <1>1, <1>6, <2>1
  <2>3. rest + (evidence.provisional - overlap) >= start + total.buys - total.sells - total.fees
    BY <1>1, <1>6, <1>7, <2>1
  <2> HIDE DEF rest
  <2> QED  BY <1>1, <1>4, <1>7, <1>8, <2>2, <2>3 DEF Guarded, Counts
<1> QED  BY <1>8, <1>9, <1>10 DEF flow

LEMMA RestoreGuards ==
  ASSUME NEW flow \in FlowRecord, NEW position \in Nat, NEW safe \in Int,
         NEW start \in Int, NEW k \in Nat
  PROVE  LET new == RestoreCredit(flow, position, safe) IN
         /\ Counts(new.ev, flow.ev) /\ new.acquired = flow.acquired
         /\ Guarded(flow.protected, flow.ev, start, k) => Guarded(new.protected, new.ev, start, k)
<1> DEFINE new == RestoreCredit(flow, position, safe)
<1>1. /\ flow.ev \in Evidence /\ flow.protected \in Nat /\ flow.ev.provisional \in Nat
      /\ flow.ev.buys \in Nat /\ flow.ev.sells \in Nat /\ flow.ev.fees \in Nat
  BY DEF FlowRecord, Evidence
<1>2. CASE new = flow
  BY <1>2 DEF Counts
<1>3. CASE new # flow
  <2>1. new = [flow EXCEPT !.protected = @ + flow.ev.provisional, !.ev.provisional = 0,
                           !.ev.unsettled = FALSE]
    BY <1>3 DEF RestoreCredit
  <2> HIDE DEF new
  <2>2. /\ new.protected = flow.protected + flow.ev.provisional /\ new.ev.provisional = 0
        /\ new.ev.buys = flow.ev.buys /\ new.ev.sells = flow.ev.sells
        /\ new.ev.fees = flow.ev.fees /\ new.acquired = flow.acquired
    BY <2>1 DEF FlowRecord, Evidence
  <2>3. Counts(new.ev, flow.ev)
    BY <2>2 DEF Counts
  <2>4. Guarded(flow.protected, flow.ev, start, k) => Guarded(new.protected, new.ev, start, k)
    BY <1>1, <2>2 DEF Guarded
  <2> QED  BY <2>2, <2>3, <2>4 DEF new
<1> QED  BY <1>2, <1>3

LEMMA SegregateGuards ==
  ASSUME NEW flow \in FlowRecord, NEW position \in Nat, NEW safe \in Int, NEW upper \in Int,
         NEW pending \in BOOLEAN, NEW before \in Nat, NEW buying \in BOOLEAN,
         NEW start \in Int, NEW k \in Nat, Guarded(flow.protected, flow.ev, start, k),
         flow.acquired \/ buying => position - safe >= start + flow.ev.buys - flow.ev.sells - k
  PROVE  LET new == Segregate(flow, position, safe, upper, pending, before, buying) IN
         Counts(new.ev, flow.ev) /\ Guarded(new.protected, new.ev, start, k)
<1> DEFINE new == Segregate(flow, position, safe, upper, pending, before, buying)
           observed == position - safe
           lesser == Lesser(observed, flow.protected)
<1>1. /\ flow.ev \in Evidence /\ flow.protected \in Nat /\ flow.ev.provisional \in Nat
      /\ flow.ev.buys \in Nat /\ flow.ev.sells \in Nat /\ flow.ev.fees \in Nat
  BY DEF FlowRecord, Evidence
<1>2. CASE new = flow
  BY <1>2 DEF Counts
<1>3. CASE new # flow
  <2>1. flow.acquired \/ buying
    BY <1>3 DEF Segregate
  <2>2. PICK target \in {observed, lesser} :
           new = [flow EXCEPT !.protected = target,
                              !.ev.provisional = @ + AtLeast0(flow.protected - target)]
    BY <1>3 DEF Segregate
  <2>3. observed \in Int /\ lesser \in {observed, flow.protected}
    BY DEF Lesser
  <2> HIDE DEF new, lesser
  <2>4. target \in Int /\ target >= start + flow.ev.buys - flow.ev.sells - k
    BY <1>1, <2>1, <2>2, <2>3 DEF Guarded
  <2>5. /\ AtLeast0(flow.protected - target) \in Nat
        /\ AtLeast0(flow.protected - target) >= flow.protected - target
    BY <1>1, <2>4, Clamps
  <2>6. /\ new.protected = target
        /\ new.ev.provisional = flow.ev.provisional + AtLeast0(flow.protected - target)
        /\ new.ev.buys = flow.ev.buys /\ new.ev.sells = flow.ev.sells
        /\ new.ev.fees = flow.ev.fees
    BY <2>2 DEF FlowRecord, Evidence
  <2> QED  BY <1>1, <2>4, <2>5, <2>6 DEF Counts, Guarded, new
<1> QED  BY <1>2, <1>3

\* Before the first buy the whole balance becomes protected.
LEMMA SegregateFirst ==
  ASSUME NEW flow \in FlowRecord, NEW position \in Nat, NEW before \in Nat
  PROVE  LET new == Segregate(flow, position, 0, 0, FALSE, before, TRUE) IN
         new.protected = position /\ Counts(new.ev, flow.ev) /\ new.ev.provisional \in Nat
<1> DEFINE new == Segregate(flow, position, 0, 0, FALSE, before, TRUE)
           extra == AtLeast0(flow.protected - position)
<1>1. flow.ev \in Evidence /\ flow.protected \in Nat /\ flow.ev.provisional \in Nat
  BY DEF FlowRecord, Evidence
<1>2. new = [flow EXCEPT !.protected = position, !.ev.provisional = @ + extra]
  <2>1. position - 0 = position /\ position >= 0 /\ ~(0 > 0)
    OBVIOUS
  <2>2. new = IF position - 0 >= 0
              THEN [flow EXCEPT !.protected = IF 0 > 0 THEN Lesser(position - 0, flow.protected)
                                              ELSE position - 0,
                                !.ev.provisional = @ + AtLeast0(flow.protected -
                                     IF 0 > 0 THEN Lesser(position - 0, flow.protected)
                                     ELSE position - 0)]
              ELSE flow
    BY DEF Segregate
  <2> HIDE DEF new
  <2> QED  BY <2>1, <2>2
<1>3. extra \in Nat
  BY <1>1, Clamps
<1> HIDE DEF extra, new
<1>4. /\ new.protected = position /\ new.ev.provisional = flow.ev.provisional + extra
      /\ new.ev.buys = flow.ev.buys /\ new.ev.sells = flow.ev.sells
      /\ new.ev.fees = flow.ev.fees
  BY <1>2 DEF FlowRecord, Evidence
<1>5. new.ev.provisional \in Nat
  BY <1>1, <1>3, <1>4
<1>6. Counts(new.ev, flow.ev)
  BY <1>4 DEF Counts
<1> QED  BY <1>4, <1>5, <1>6 DEF new

\* Of the cycles R only the first has coins, n at most.
OwnedWithin(R, rows, known, n) ==
    \A c \in R : StillCovered(rows[c], known[c]) <= IF c = 1 THEN n ELSE 0

LEMMA SafeSum ==
  ASSUME NEW R \in SUBSET Cycle, NEW fact, NEW n \in Nat,
         \A c \in R : fact[c].safe \in Nat /\ fact[c].safe <= IF c = 1 THEN n ELSE 0
  PROVE  /\ Total([c \in Cycle |-> fact[c].safe], R) \in Nat
         /\ Total([c \in Cycle |-> fact[c].safe], R) <= n
<1> DEFINE V == [c \in Cycle |-> fact[c].safe]
           Z == [c \in Cycle |-> 0]
           D == [c \in Cycle |-> IF c = 1 THEN n ELSE 0]
<1>1. IsFiniteSet(R)
  BY CyclesAreFinite, FS_Subset
<1>2. \A c \in R : /\ V[c] \in Int /\ V[c] >= 0 /\ V[c] <= D[c]
                   /\ D[c] \in Int /\ Z[c] = 0
  OBVIOUS
<1>3. \A c \in R \ {1} : D[c] = Z[c]
  OBVIOUS
<1>4. 1 \in R => D[1] = n /\ Z[1] = 0
  OBVIOUS
<1>5. Total(V, R) = SumOf(V, R)
  BY TotalIsSum
<1> HIDE DEF V, Z, D
<1>6. SumOf(V, R) \in Int /\ SumOf(V, R) >= 0
  BY <1>1, <1>2, NonNegativeSum
<1>7. SumOf(V, R) <= SumOf(D, R)
  BY <1>1, <1>2, GrowingSum
<1>8. SumOf(D, R) = SumOf(Z, R) + IF 1 \in R THEN D[1] - Z[1] ELSE 0
  BY <1>1, <1>2, <1>3, SumChanges
<1>9. SumOf(Z, R) \in Int /\ SumOf(Z, R) >= 0 /\ ~(SumOf(Z, R) > 0)
  BY <1>1, <1>2, NonNegativeSum, PositiveSum
<1>10. SumOf(D, R) <= n
  BY <1>4, <1>8, <1>9
<1> QED  BY <1>4, <1>5, <1>6, <1>7, <1>8, <1>9 DEF V

\* The protected quantity between the passes is guarded ...
LEMMA ProtectGuards ==
  ASSUME NEW R \in SUBSET Cycle, NEW known, NEW fact, NEW flow \in FlowRecord,
         \A c \in Cycle : fact[c].safe \in Nat /\ fact[c].upper \in Nat,
         NEW before \in Nat, NEW position \in Nat, NEW buying \in BOOLEAN,
         NEW start \in Int, NEW k \in Nat, NEW n \in Nat,
         Guarded(flow.protected, flow.ev, start, k),
         flow.acquired \/ buying =>
            /\ \A c \in R : fact[c].safe <= IF c = 1 THEN n ELSE 0
            /\ position >= start + flow.ev.buys - flow.ev.sells - k + n
  PROVE  LET new == Protect(R, known, fact, flow, before, position, buying) IN
         Counts(new.ev, flow.ev) /\ Guarded(new.protected, new.ev, start, k)
<1> DEFINE U == [c \in Cycle |-> fact[c].upper]
           V == [c \in Cycle |-> fact[c].safe]
           safe == Total(V, R)
           pending == \E c \in R : fact[c].pending > 0 \/ fact[c].mixed \/ known[c].awaited > 0
           back == RestoreCredit(flow, position, safe)
           new == Protect(R, known, fact, flow, before, position, buying)
<1>1. IsFiniteSet(R) /\ \A c \in R : U[c] \in Int /\ V[c] \in Int
  <2>1. IsFiniteSet(R)
    BY CyclesAreFinite, FS_Subset
  <2>2. ASSUME NEW c \in R PROVE U[c] \in Int /\ V[c] \in Int
    <3>1. U[c] = fact[c].upper /\ V[c] = fact[c].safe
      OBVIOUS
    <3> QED  BY <3>1
  <2> QED  BY <2>1, <2>2
<1>2. Upper(R, fact) = Total(U, R)
  BY DEF Upper
<1>3. new = Segregate(back, position, safe, Upper(R, fact), pending, before, buying)
  BY DEF Protect
<1>4. ASSUME flow.acquired \/ buying PROVE safe <= n
  <2>1. \A c \in R : fact[c].safe \in Nat /\ fact[c].safe <= IF c = 1 THEN n ELSE 0
    BY <1>4
  <2>2. Total(V, R) <= n
    BY <2>1, SafeSum
  <2> QED  BY <2>2
<1> HIDE DEF U, V
<1>5. safe \in Int /\ Upper(R, fact) \in Int
  BY <1>1, <1>2, TotalIsSum, SumOfInts
<1>6. pending \in BOOLEAN
  OBVIOUS
<1> HIDE DEF safe, pending, new
<1>7. back \in FlowRecord
  BY <1>5, RestoreType
<1>8. /\ Counts(back.ev, flow.ev) /\ back.acquired = flow.acquired
      /\ Guarded(back.protected, back.ev, start, k)
  BY <1>5, RestoreGuards
<1> HIDE DEF back
<1>9. /\ flow.ev.buys \in Nat /\ flow.ev.sells \in Nat
      /\ back.ev.buys = flow.ev.buys /\ back.ev.sells = flow.ev.sells
  BY <1>8 DEF FlowRecord, Evidence, Counts
<1>10. flow.acquired \/ buying => position - safe >= start + back.ev.buys - back.ev.sells - k
  <2> SUFFICES ASSUME flow.acquired \/ buying
               PROVE  position - safe >= start + back.ev.buys - back.ev.sells - k
    OBVIOUS
  <2>1. safe <= n /\ position >= start + flow.ev.buys - flow.ev.sells - k + n
    BY <1>4
  <2> QED  BY <1>5, <1>9, <2>1
<1>11. back.acquired \/ buying => position - safe >= start + back.ev.buys - back.ev.sells - k
  BY <1>8, <1>10
<1>12. Counts(new.ev, back.ev) /\ Guarded(new.protected, new.ev, start, k)
  BY <1>3, <1>5, <1>6, <1>7, <1>8, <1>11, SegregateGuards
<1>13. Counts(new.ev, flow.ev)
  BY <1>8, <1>12 DEF Counts
<1> QED  BY <1>12, <1>13 DEF new

\* ... and so is what a refresh leaves protected, whether it is ready or not.
LEMMA RefreshGuards ==
  ASSUME NEW R \in SUBSET Cycle, NEW rows \in [Cycle -> CycleRow],
         NEW known \in [Cycle -> Knowledge], NEW reserve \in Nat, NEW evidence \in Evidence,
         NEW total \in FlowTotal, NEW position \in Nat, NEW ready \in BOOLEAN,
         NEW buying \in BOOLEAN,
         \A c \in Cycle : rows[c].bought <= known[c].bought,
         evidence.buys <= total.buys, evidence.sells <= total.sells, evidence.fees <= total.fees,
         NEW start \in Int, NEW k0 \in Nat, NEW k \in Nat, k0 <= k, total.fees <= k, NEW n \in Nat,
         Guarded(reserve, evidence, start, k0),
         ready /\ (total.buys > evidence.buys \/ buying) =>
            OwnedWithin(R, rows, known, n) /\ position >= start + total.buys - total.sells - k + n,
         NEW new, new = Refresh(R, rows, known, reserve, evidence, total, position, ready, buying)
  PROVE  Counts(new.ev, total) /\ Guarded(new.protected, new.ev, start, k)
<1> DEFINE flow == ForeignFlow(reserve, evidence, total)
           fact == Facts(R, rows, known, flow)
           final == IF ready THEN Protect(R, known, fact, flow, reserve, position, buying) ELSE flow
<1>1. flow \in FlowRecord
  BY FlowType
<1>2. /\ Counts(flow.ev, total)
      /\ flow.acquired => total.buys > evidence.buys
      /\ Guarded(flow.protected, flow.ev, start, k)
  BY FlowGuards
<1>3. new.protected = final.protected /\ new.ev = final.ev
  BY DEF Refresh
<1> HIDE DEF flow
<1>4. \A c \in Cycle : FactOK(known[c], fact[c]) /\ fact[c].safe <= StillCovered(rows[c], known[c])
  BY <1>1, FactsAreBounds
<1> HIDE DEF fact
<1>5. CASE ~ready
  <2>1. final = flow
    BY <1>5
  <2> HIDE DEF final
  <2> QED  BY <1>2, <1>3, <2>1
<1>6. CASE ready
  <2>1. \A c \in Cycle : fact[c].safe \in Nat /\ fact[c].upper \in Nat
    BY <1>4 DEF FactOK, FactRecord
  <2>2. flow.acquired \/ buying =>
           /\ \A c \in R : fact[c].safe <= IF c = 1 THEN n ELSE 0
           /\ position >= start + flow.ev.buys - flow.ev.sells - k + n
    <3> SUFFICES ASSUME flow.acquired \/ buying
                 PROVE  /\ \A c \in R : fact[c].safe <= IF c = 1 THEN n ELSE 0
                        /\ position >= start + flow.ev.buys - flow.ev.sells - k + n
      OBVIOUS
    <3>1. total.buys > evidence.buys \/ buying
      BY <1>2
    <3>2. OwnedWithin(R, rows, known, n) /\ position >= start + total.buys - total.sells - k + n
      BY <1>6, <3>1
    <3>3. flow.ev.buys = total.buys /\ flow.ev.sells = total.sells
      BY <1>2 DEF Counts
    <3>4. ASSUME NEW c \in R PROVE fact[c].safe <= IF c = 1 THEN n ELSE 0
      <4>1. /\ fact[c].safe \in Nat /\ fact[c].safe <= StillCovered(rows[c], known[c])
            /\ StillCovered(rows[c], known[c]) <= IF c = 1 THEN n ELSE 0
        BY <1>4, <2>1, <3>2 DEF OwnedWithin
      <4>2. rows[c].owned \in Nat /\ known[c].sold \in Nat /\ rows[c].sold \in Nat
        BY DEF CycleRow, Knowledge
      <4>3. StillCovered(rows[c], known[c]) \in Nat
        BY <4>2, Clamps DEF StillCovered
      <4> QED  BY <4>1, <4>3
    <3> QED  BY <3>2, <3>3, <3>4
  <2>3. final = Protect(R, known, fact, flow, reserve, position, buying)
    BY <1>6
  <2> HIDE DEF final
  <2>4. Counts(final.ev, flow.ev) /\ Guarded(final.protected, final.ev, start, k)
    BY <1>1, <1>2, <2>1, <2>2, <2>3, ProtectGuards
  <2>5. Counts(final.ev, total)
    BY <1>2, <2>4 DEF Counts
  <2> QED  BY <1>3, <2>4, <2>5
<1> QED  BY <1>5, <1>6

LEMMA ZeroTotal ==
  ASSUME NEW R \in SUBSET Cycle, NEW f, \A c \in R : f[c] = 0
  PROVE  Total(f, R) = 0
<1>1. IsFiniteSet(R)
  BY CyclesAreFinite, FS_Subset
<1>2. \A c \in R : f[c] \in Int /\ f[c] >= 0 /\ ~(f[c] > 0)
  OBVIOUS
<1>3. SumOf(f, R) \in Int /\ SumOf(f, R) >= 0
  BY <1>1, <1>2, NonNegativeSum
<1>4. ~(SumOf(f, R) > 0)
  BY <1>1, <1>2, PositiveSum
<1> QED  BY <1>3, <1>4, TotalIsSum

\* A cycle without fills has nothing pending and claims nothing.
LEMMA NoFillsNoFacts ==
  ASSUME NEW R, NEW rows \in [Cycle -> CycleRow], NEW known \in [Cycle -> Knowledge],
         NEW flow \in FlowRecord, \A c \in Cycle : rows[c].bought <= known[c].bought,
         NEW c \in Cycle, known[c].bought = 0, rows[c].pending = 0, ~rows[c].mixed
  PROVE  LET fact == Facts(R, rows, known, flow)[c] IN
         fact.upper = 0 /\ fact.safe = 0 /\ fact.pending = 0 /\ ~fact.mixed
<1> DEFINE fact == Facts(R, rows, known, flow)[c]
           share == Share(rows[c], known[c], Left(R, rows, known, flow.disposal)[c - 1])
           closed == StaysClosed(rows[c], known[c])
           pending == IF closed THEN 0 ELSE rows[c].pending + known[c].bought - rows[c].bought
<1>1. FactOK(known[c], fact)
  BY FactsAreBounds
<1>2. fact = Fact(rows[c], known[c], share, flow.acquired)
  BY DEF Facts
<1> HIDE DEF share, closed
<1>3. pending = 0
  <2>1. rows[c].bought \in Nat /\ rows[c].bought <= 0
    BY DEF CycleRow
  <2> QED  BY <2>1
<1>4. fact.pending = pending /\ fact.mixed = (rows[c].mixed \/ (pending > 0 /\ flow.acquired))
  BY <1>2 DEF Fact, closed
<1> HIDE DEF fact, pending
<1>5. fact.pending = 0 /\ ~fact.mixed
  <2>1. ~(pending > 0)
    BY <1>3
  <2>2. ~fact.mixed
    BY <1>4, <2>1, Zenon
  <2> QED  BY <1>3, <1>4, <2>2
<1>6. fact.upper = 0 /\ fact.safe = 0
  <2>1. /\ fact.upper \in Nat /\ fact.safe \in Nat /\ fact.claim \in Nat /\ fact.fee \in Nat
        /\ fact.disposed \in Nat /\ fact.safe <= fact.claim /\ fact.claim <= fact.upper
        /\ fact.upper <= NetOf(known[c], fact)
    BY <1>1 DEF FactOK, FactRecord
  <2>2. known[c].sold \in Nat
    BY DEF Knowledge
  <2>3. NetOf(known[c], fact) = 0
    BY <2>1, <2>2 DEF NetOf, AtLeast0
  <2> QED  BY <2>1, <2>3
<1> QED  BY <1>5, <1>6 DEF fact

\* None of the cycles R has fills or waits for any.
Untouched(R, rows, known) ==
    \A c \in R : /\ known[c].bought = 0 /\ known[c].awaited = 0
                 /\ rows[c].pending = 0 /\ rows[c].mixed = FALSE

\* The whole balance is the owner's.
WhollyProtected(new, position, total) ==
    new.protected = position /\ Counts(new.ev, total) /\ new.ev.provisional \in Nat

\* Before the first buy a refresh makes the whole balance the owner's.
LEMMA RefreshFirst ==
  ASSUME NEW R \in SUBSET Cycle, NEW rows \in [Cycle -> CycleRow],
         NEW known \in [Cycle -> Knowledge], NEW reserve \in Nat, NEW evidence \in Evidence,
         NEW total \in FlowTotal, NEW position \in Nat, NEW ready \in BOOLEAN,
         NEW buying \in BOOLEAN, ready, buying,
         \A c \in Cycle : rows[c].bought <= known[c].bought,
         evidence.buys <= total.buys, evidence.sells <= total.sells, evidence.fees <= total.fees,
         Untouched(R, rows, known), NEW new, new = Refresh(R, rows, known, reserve, evidence, total, position, ready, buying)
  PROVE  WhollyProtected(new, position, total)
<1> DEFINE flow == ForeignFlow(reserve, evidence, total)
           fact == Facts(R, rows, known, flow)
           U == [c \in Cycle |-> fact[c].upper]
           V == [c \in Cycle |-> fact[c].safe]
           safe == Total(V, R)
           pending == \E c \in R : fact[c].pending > 0 \/ fact[c].mixed \/ known[c].awaited > 0
           back == RestoreCredit(flow, position, safe)
           final == Protect(R, known, fact, flow, reserve, position, TRUE)
           either == IF ready THEN Protect(R, known, fact, flow, reserve, position, buying) ELSE flow
<1>1. flow \in FlowRecord
  BY FlowType
<1>2. Counts(flow.ev, total)
  <2>1. total.fees \in Nat
    BY DEF FlowTotal
  <2>2. 0 \in Int /\ 0 \in Nat /\ 0 <= total.fees /\ total.fees <= total.fees
    BY <2>1
  <2> HIDE DEF flow
  <2> QED  BY <2>1, <2>2, FlowGuards DEF flow
<1>3. new.protected = final.protected /\ new.ev = final.ev
  <2>1. new.protected = either.protected /\ new.ev = either.ev
    BY DEF Refresh
  <2>2. buying = TRUE
    OBVIOUS
  <2>3. either = final
    BY <2>2
  <2> QED  BY <2>1, <2>3
<1> HIDE DEF flow
<1>4. ASSUME NEW c \in R
      PROVE  fact[c].upper = 0 /\ fact[c].safe = 0 /\ fact[c].pending = 0 /\ ~fact[c].mixed
             /\ ~(known[c].awaited > 0)
  <2>1. known[c].bought = 0 /\ rows[c].pending = 0 /\ ~rows[c].mixed /\ known[c].awaited = 0
    BY DEF Untouched
  <2> QED  BY <1>1, <2>1, NoFillsNoFacts
<1>5. final = Segregate(back, position, safe, Total(U, R), pending, reserve, TRUE)
  BY DEF Protect, Upper
<1> HIDE DEF fact
<1>6. pending = FALSE
  <2>1. ASSUME NEW c \in R PROVE ~(fact[c].pending > 0)
    BY <1>4
  <2>2. ~pending
    BY <1>4, <2>1
  <2> QED  BY <2>2, Zenon
<1>7. safe = 0 /\ Total(U, R) = 0
  <2>1. \A c \in R : U[c] = 0 /\ V[c] = 0
    BY <1>4
  <2> HIDE DEF U, V
  <2> QED  BY <2>1, ZeroTotal
<1> HIDE DEF safe, pending, U, final, back
<1>8. final = Segregate(back, position, 0, 0, FALSE, reserve, TRUE)
  BY <1>5, <1>6, <1>7
<1>9. back = RestoreCredit(flow, position, 0)
  BY <1>7 DEF back
<1>10. back \in FlowRecord /\ Counts(back.ev, flow.ev)
  BY <1>1, <1>9, RestoreType, RestoreGuards
<1>11. /\ final.protected = position /\ Counts(final.ev, back.ev) /\ final.ev.provisional \in Nat
  BY <1>8, <1>10, SegregateFirst
<1>12. Counts(final.ev, total)
  BY <1>2, <1>10, <1>11 DEF Counts
<1> QED  BY <1>3, <1>11, <1>12 DEF WhollyProtected

LEMMA SegregateCounts ==
  ASSUME NEW flow \in FlowRecord, NEW position \in Nat, NEW safe \in Int, NEW upper \in Int,
         NEW pending \in BOOLEAN, NEW before \in Nat, NEW buying \in BOOLEAN
  PROVE  Counts(Segregate(flow, position, safe, upper, pending, before, buying).ev, flow.ev)
<1> DEFINE new == Segregate(flow, position, safe, upper, pending, before, buying)
           observed == position - safe
           lesser == Lesser(observed, flow.protected)
<1>1. flow.ev \in Evidence
  BY DEF FlowRecord
<1>2. CASE new = flow
  BY <1>2 DEF Counts
<1>3. CASE new # flow
  <2>1. PICK target \in {observed, lesser} :
           new = [flow EXCEPT !.protected = target,
                              !.ev.provisional = @ + AtLeast0(flow.protected - target)]
    BY <1>3 DEF Segregate
  <2> HIDE DEF new
  <2>2. new.ev.buys = flow.ev.buys /\ new.ev.sells = flow.ev.sells /\ new.ev.fees = flow.ev.fees
    BY <1>1, <2>1 DEF FlowRecord, Evidence
  <2> QED  BY <2>2 DEF Counts, new
<1> QED  BY <1>2, <1>3

\* Whatever a refresh decides, its evidence counts the flow it was given.
LEMMA RefreshCounts ==
  ASSUME NEW R \in SUBSET Cycle, NEW rows \in [Cycle -> CycleRow],
         NEW known \in [Cycle -> Knowledge], NEW reserve \in Nat, NEW evidence \in Evidence,
         NEW total \in FlowTotal, NEW position \in Nat, NEW ready \in BOOLEAN,
         NEW buying \in BOOLEAN,
         \A c \in Cycle : rows[c].bought <= known[c].bought,
         evidence.buys <= total.buys, evidence.sells <= total.sells, evidence.fees <= total.fees,
         NEW new, new = Refresh(R, rows, known, reserve, evidence, total, position, ready, buying)
  PROVE  Counts(new.ev, total)
<1> DEFINE flow == ForeignFlow(reserve, evidence, total)
           fact == Facts(R, rows, known, flow)
           final == IF ready THEN Protect(R, known, fact, flow, reserve, position, buying) ELSE flow
<1>1. flow \in FlowRecord
  BY FlowType
<1>2. Counts(flow.ev, total)
  <2>1. total.fees \in Nat /\ total.fees <= total.fees /\ 0 \in Int
    BY DEF FlowTotal
  <2> QED  BY <2>1, FlowGuards
<1>3. new.ev = final.ev
  BY DEF Refresh
<1> HIDE DEF flow
<1>4. \A c \in Cycle : FactOK(known[c], fact[c])
  BY <1>1, FactsAreBounds
<1> HIDE DEF fact
<1>5. CASE ~ready
  <2>1. final = flow
    BY <1>5
  <2> HIDE DEF final
  <2> QED  BY <1>2, <1>3, <2>1
<1>6. CASE ready
  <2> DEFINE U == [c \in Cycle |-> fact[c].upper]
             V == [c \in Cycle |-> fact[c].safe]
             safe == Total(V, R)
             pending == \E c \in R : fact[c].pending > 0 \/ fact[c].mixed \/ known[c].awaited > 0
             back == RestoreCredit(flow, position, safe)
  <2>1. IsFiniteSet(R) /\ \A c \in R : U[c] \in Int /\ V[c] \in Int
    <3>1. \A c \in R : fact[c].safe \in Int /\ fact[c].upper \in Int
      BY <1>4 DEF FactOK, FactRecord
    <3> QED  BY <3>1, CyclesAreFinite, FS_Subset
  <2>2. Upper(R, fact) = Total(U, R)
    BY DEF Upper
  <2>3. final = Segregate(back, position, safe, Upper(R, fact), pending, reserve, buying)
    BY <1>6 DEF Protect
  <2> HIDE DEF U, V, final
  <2>4. safe \in Int /\ Upper(R, fact) \in Int
    BY <2>1, <2>2, TotalIsSum, SumOfInts
  <2>5. pending \in BOOLEAN
    OBVIOUS
  <2> HIDE DEF safe, pending
  <2>6. back \in FlowRecord
    BY <1>1, <2>4, RestoreType
  <2>7. Counts(back.ev, flow.ev)
    <3>1. 0 \in Int /\ 0 \in Nat
      OBVIOUS
    <3> QED  BY <1>1, <2>4, <3>1, RestoreGuards
  <2> HIDE DEF back
  <2>8. Counts(final.ev, back.ev)
    BY <2>3, <2>4, <2>5, <2>6, SegregateCounts
  <2> QED  BY <1>2, <1>3, <2>7, <2>8 DEF Counts
<1> QED  BY <1>5, <1>6

-----------------------------------------------------------------------------
(* The inductive invariant *)

\* An exit in hand is that of a cycle.
InHand == eng.purpose = "exit" \/ eng.pc = "exiting" => eng.c \in Cycle

\* A cycle's ledger has no fill that its order lacks, nor that one a fill
\* that the broker lacks.
FillsInOrder ==
    \A c \in Cycle : cycle[c].bought <= order[c].bought /\ order[c].bought <= world.bought[c]

\* Cycles are created in the order of their numbers.
CreatedInOrder ==
    \A c, d \in Cycle : d < c /\ cycle[d].state = "absent" => cycle[c].state = "absent"

RowsOK == \A c \in Cycle : RowOK(cycle[c])

Backed == OwnedSum(cycle) <= AtLeast0(shown - protected)

OwnershipInv ==
    TypeOK /\ InHand /\ FillsInOrder /\ CreatedInOrder /\ RowsOK /\ Backed

\* What the cycles own together, as a sum.
LEMMA OwnedIsSum == Owned = OwnedSum(cycle)
<1> DEFINE F == [c \in Cycle |-> cycle[c].owned]
           Fill(h) == [s \in SUBSET Cycle |-> IF s = {} THEN 0 ELSE cycle[Chosen(s)].owned + h[s \ {Chosen(s)}]]
<1>1. ASSUME NEW h PROVE Fill(h) = SumStep(F, Cycle, h)
  <2>1. \A s \in SUBSET Cycle : s # {} => F[Chosen(s)] = cycle[Chosen(s)].owned
    BY DEF Chosen
  <2> QED  BY <2>1 DEF SumStep
<1>2. Owned = (CHOOSE h : h = Fill(h))[Cycle]
  BY DEF Owned, MapThenSumSet, MapThenFoldSet, Chosen
<1>3. OwnedSum(cycle) = SumOf(F, Cycle)
  BY DEF OwnedSum
<1> HIDE DEF Fill, F
<1>4. (CHOOSE h : h = Fill(h)) = (CHOOSE h : h = SumStep(F, Cycle, h))
  BY <1>1
<1> QED  BY <1>2, <1>3, <1>4, SumIsStep

LEMMA InvBacks == OwnershipInv => TypeOK /\ OwnedIsBacked
BY OwnedIsSum DEF OwnershipInv, RowsOK, RowOK, Backed, OwnedIsBacked

\* A division into rows that own nothing is backed by any quantity.
LEMMA NothingOwned ==
  ASSUME NEW rows, \A c \in Cycle : rows[c].owned = 0
  PROVE  OwnedSum(rows) = 0
<1> DEFINE F == [c \in Cycle |-> rows[c].owned]
<1>1. \A c \in Cycle : F[c] \in Int /\ F[c] >= 0 /\ ~(F[c] > 0)
  OBVIOUS
<1>2. OwnedSum(rows) = SumOf(F, Cycle)
  BY DEF OwnedSum
<1>3. IsFiniteSet(Cycle)
  BY CyclesAreFinite
<1> HIDE DEF F
<1>4. SumOf(F, Cycle) \in Int /\ SumOf(F, Cycle) >= 0
  BY <1>1, <1>3, NonNegativeSum
<1>5. ~(SumOf(F, Cycle) > 0)
  BY <1>1, <1>3, PositiveSum
<1>6. SumOf(F, Cycle) = 0
  BY <1>4, <1>5
<1> QED  BY <1>2, <1>6

LEMMA SameOwned ==
  ASSUME NEW rows, NEW new, \A c \in Cycle : new[c].owned = rows[c].owned
  PROVE  OwnedSum(new) = OwnedSum(rows)
<1>1. [c \in Cycle |-> new[c].owned] = [c \in Cycle |-> rows[c].owned]
  OBVIOUS
<1> QED  BY <1>1 DEF OwnedSum

LEMMA RecordsAreTyped ==
  /\ Zero \in [Cycle -> Nat] /\ NoFeed \in FeedRecord /\ NoEvidence \in Evidence
  /\ NoCycle \in CycleRow /\ NoOrders \in OrderRow /\ Off \in Engine
<1>1. Zero \in [Cycle -> Nat]
  BY DEF Zero
<1>2. NoFeed \in FeedRecord
  BY <1>1 DEF NoFeed, FeedRecord
<1>3. NoEvidence \in Evidence
  BY DEF NoEvidence, Evidence
<1>4. NoCycle \in CycleRow
  BY DEF NoCycle, CycleRow, CycleState
<1>5. NoOrders \in OrderRow
  BY DEF NoOrders, OrderRow
<1>6. Off \in Engine
  BY <1>2 DEF Off, Engine, Pc, Purpose
<1> QED  BY <1>1, <1>2, <1>3, <1>4, <1>5, <1>6

LEMMA TradableType ==
  ASSUME NEW q \in Int, NEW balance \in Int
  PROVE  /\ Tradable(q, balance) \in Int
         /\ Tradable(balance, balance) \in Nat
BY MinOrderAssumption DEF Tradable

\* The balance is a sum over the cycles.
LEMMA BalanceType ==
  ASSUME TypeOK
  PROVE  Balance \in Int /\ Held \in Int
<1>0. world \in World /\ scene.start \in Nat
  BY ScenesAssumption DEF TypeOK, Scene
<1> DEFINE F == [c \in Cycle |-> OurNet(c)]
           Fill(h) == [s \in SUBSET Cycle |-> IF s = {} THEN 0 ELSE OurNet(Chosen(s)) + h[s \ {Chosen(s)}]]
<1>1. ASSUME NEW h PROVE Fill(h) = SumStep(F, Cycle, h)
  <2>1. \A s \in SUBSET Cycle : s # {} => F[Chosen(s)] = OurNet(Chosen(s))
    BY DEF Chosen
  <2> QED  BY <2>1 DEF SumStep
<1>2. Ours = (CHOOSE h : h = Fill(h))[Cycle]
  BY DEF Ours, MapThenSumSet, MapThenFoldSet, Chosen
<1>3. \A c \in Cycle : F[c] \in Int
  BY <1>0 DEF World, OurNet
<1> HIDE DEF Fill, F
<1>4. (CHOOSE h : h = Fill(h)) = (CHOOSE h : h = SumStep(F, Cycle, h))
  BY <1>1
<1>5. Ours \in Int
  <2>1. Ours = SumOf(F, Cycle)
    BY <1>2, <1>4, SumIsStep
  <2> QED  BY <1>3, <2>1, CyclesAreFinite, SumOfInts
<1>6. OwnersNet \in Int
  BY <1>0 DEF OwnersNet, World
<1>7. Held \in Int
  <2>1. \A c \in Cycle : world.selling[c] \in Int
    BY <1>0 DEF World
  <2>2. SumOf(world.selling, Cycle) \in Int
    BY <2>1, CyclesAreFinite, SumOfInts
  <2> QED  BY <2>2, TotalIsSum DEF Held
<1> QED  BY <1>5, <1>6, <1>7 DEF Balance

LEMMA FeedType == ASSUME TypeOK PROVE Feed \in FeedRecord
BY DEF TypeOK, Feed, FeedRecord, World

LEMMA CommonType ==
  ASSUME NEW f \in FeedRecord, NEW g \in FeedRecord
  PROVE  Common(f, g) \in FeedRecord
<1>1. /\ Lesser(f.buys, g.buys) \in Nat /\ Lesser(f.sells, g.sells) \in Nat
      /\ Lesser(f.fees, g.fees) \in Nat
  BY NatClamps DEF FeedRecord
<1>2. \A c \in Cycle : /\ Lesser(f.bought[c], g.bought[c]) \in Nat
                       /\ Lesser(f.sold[c], g.sold[c]) \in Nat
                       /\ Lesser(f.posted[c], g.posted[c]) \in Nat
  BY NatClamps DEF FeedRecord
<1> QED  BY <1>1, <1>2 DEF Common, FeedRecord

\* Activities of orders that the engine cannot name add to the owner's.
LEMMA StrangeType ==
  ASSUME TypeOK, NEW f \in FeedRecord
  PROVE  Strange(f) \in FlowTotal
<1> DEFINE A == {c \in Cycle : ~order[c].buyId}
           S == {c \in Cycle : order[c].sell = "sent" /\ ~order[c].sellId}
           G == [c \in S |-> AtLeast0(f.sold[c] - order[c].sold)]
           Fill(h) == [s \in SUBSET S |-> IF s = {} THEN 0
                          ELSE AtLeast0(f.sold[Chosen(s)] - order[Chosen(s)].sold) + h[s \ {Chosen(s)}]]
           more == MapThenSumSet(LAMBDA c : AtLeast0(f.sold[c] - order[c].sold), S)
<1>0. order \in [Cycle -> OrderRow]
  BY DEF TypeOK
<1>1. IsFiniteSet(A) /\ IsFiniteSet(S)
  BY CyclesAreFinite, FS_Subset
<1>2. /\ f.buys \in Nat /\ f.sells \in Nat /\ f.fees \in Nat
      /\ \A c \in Cycle : f.bought[c] \in Nat /\ f.posted[c] \in Nat /\ f.sold[c] \in Nat
  BY DEF FeedRecord
<1>3. Total(f.bought, A) \in Nat /\ Total(f.posted, A) \in Nat
  <2>1. \A c \in A : f.bought[c] \in Int /\ f.bought[c] >= 0 /\ f.posted[c] \in Int /\ f.posted[c] >= 0
    BY <1>2
  <2> HIDE DEF A
  <2>2. /\ SumOf(f.bought, A) \in Int /\ SumOf(f.bought, A) >= 0
        /\ SumOf(f.posted, A) \in Int /\ SumOf(f.posted, A) >= 0
    BY <1>1, <2>1, NonNegativeSum
  <2> QED  BY <2>2, TotalIsSum
<1>4. more \in Nat
  <2>1. ASSUME NEW h PROVE Fill(h) = SumStep(G, S, h)
    <3>1. \A s \in SUBSET S : s # {} => G[Chosen(s)] = AtLeast0(f.sold[Chosen(s)] - order[Chosen(s)].sold)
      BY DEF Chosen
    <3> QED  BY <3>1 DEF SumStep
  <2>2. more = (CHOOSE h : h = Fill(h))[S]
    BY DEF MapThenSumSet, MapThenFoldSet, Chosen
  <2>3. ASSUME NEW c \in S PROVE G[c] \in Int /\ G[c] >= 0
    <3>1. c \in Cycle
      OBVIOUS
    <3>2. f.sold[c] - order[c].sold \in Int
      BY <1>0, <1>2, <3>1 DEF OrderRow
    <3>3. AtLeast0(f.sold[c] - order[c].sold) \in Nat
      BY <3>2, Clamps
    <3> QED  BY <3>3
  <2> HIDE DEF Fill, G, S, more
  <2>4. (CHOOSE h : h = Fill(h)) = (CHOOSE h : h = SumStep(G, S, h))
    BY <2>1
  <2>5. more = SumOf(G, S)
    BY <2>2, <2>4, SumIsStep
  <2>6. SumOf(G, S) \in Int /\ SumOf(G, S) >= 0
    BY <1>1, <2>3, NonNegativeSum
  <2> QED  BY <2>5, <2>6
<1>5. Strange(f) = [buys |-> f.buys + Total(f.bought, A), sells |-> f.sells + more,
                    fees |-> f.fees + Total(f.posted, A)]
  BY DEF Strange
<1> HIDE DEF A, more
<1>6. /\ f.buys + Total(f.bought, A) \in Nat /\ f.sells + more \in Nat
      /\ f.fees + Total(f.posted, A) \in Nat
  BY <1>2, <1>3, <1>4
<1> QED  BY <1>5, <1>6 DEF FlowTotal

LEMMA KnownType ==
  ASSUME TypeOK
  PROVE  [c \in Cycle |-> KnownOf(c)] \in [Cycle -> Knowledge]
<1>1. ASSUME NEW c \in Cycle PROVE KnownOf(c) \in Knowledge
  <2>1. order[c] \in OrderRow /\ paid[c] \in Nat /\ EntryQty \in Nat
    BY EntryAssumption DEF TypeOK
  <2> QED  BY <2>1 DEF KnownOf, Knowledge, OrderRow, AllFinal
<1> QED  BY <1>1

-----------------------------------------------------------------------------
(* Every step keeps the invariant *)

LEMMA InitInv == Init => OwnershipInv
<1> SUFFICES ASSUME Init PROVE OwnershipInv
  OBVIOUS
<1>0. scene \in Scene
  BY ScenesAssumption DEF Init
<1>1. world \in World
  BY RecordsAreTyped DEF Init, World
<1>2. order \in [Cycle -> OrderRow] /\ cycle \in [Cycle -> CycleRow]
  BY RecordsAreTyped DEF Init
<1>3. cursor \in Cursor
  BY RecordsAreTyped DEF Init, Cursor
<1>4. protected \in Nat
  <2>1. scene.start \in Int
    BY <1>0 DEF Scene
  <2> QED  BY <2>1, TradableType DEF Init
<1>5. faults \in 0..scene.faults
  BY <1>0 DEF Init, Scene
<1>6. TypeOK
  BY <1>1, <1>2, <1>3, <1>4, <1>5, RecordsAreTyped DEF Init, TypeOK
<1>7. \A c \in Cycle : cycle[c] = NoCycle /\ order[c] = NoOrders /\ world.bought[c] = 0
  BY DEF Init, Zero
<1>8. FillsInOrder /\ CreatedInOrder
  BY <1>7 DEF FillsInOrder, CreatedInOrder, NoCycle, NoOrders
<1>9. RowsOK
  <2>1. RowOK(NoCycle)
    BY DEF RowOK, NoCycle, AtLeast0
  <2> QED  BY <1>7, <2>1 DEF RowsOK
<1>10. Backed
  <2>1. OwnedSum(cycle) = 0
    BY <1>7, NothingOwned DEF NoCycle
  <2>2. shown - protected \in Int
    BY <1>4 DEF Init
  <2>3. AtLeast0(shown - protected) \in Nat
    BY <2>2, Clamps
  <2> QED  BY <2>1, <2>3 DEF Backed
<1>11. InHand
  BY DEF Init, InHand, Off
<1> QED  BY <1>6, <1>8, <1>9, <1>10, <1>11 DEF OwnershipInv

\* A step that leaves the ledger alone.
LEMMA LedgerFrame ==
  ASSUME OwnershipInv, TypeOK', InHand', UNCHANGED <<cycle, shown, protected>>,
         \A c \in Cycle : order'[c].bought >= order[c].bought /\ order'[c].bought <= world'.bought[c]
  PROVE  OwnershipInv'
<1>1. FillsInOrder'
  <2>1. ASSUME NEW c \in Cycle PROVE cycle'[c].bought <= order'[c].bought
    <3>1. cycle'[c].bought = cycle[c].bought /\ cycle[c].bought \in Nat /\ order[c].bought \in Nat
          /\ order'[c].bought \in Nat /\ cycle[c].bought <= order[c].bought
      BY DEF OwnershipInv, TypeOK, FillsInOrder, CycleRow, OrderRow
    <3> QED  BY <3>1
  <2> QED  BY <2>1 DEF FillsInOrder
<1>2. CreatedInOrder' /\ RowsOK' /\ Backed'
  BY DEF OwnershipInv, CreatedInOrder, RowsOK, Backed, OwnedSum
<1> QED  BY <1>1, <1>2 DEF OwnershipInv

\* The account moves: fills only add up.
LEMMA AccountStep ==
  ASSUME OwnershipInv, Account
  PROVE  OwnershipInv'
<1>0. world \in World
  BY DEF OwnershipInv, TypeOK
<1>1. UNCHANGED <<durable, eng, scene, faults>>
  BY DEF Account, BuyFills, SellFills, OrderEnds, FeePosted, Accepted, OwnerBuys, OwnerSells,
         OwnersFeePosted
<1>2. ASSUME NEW c \in Cycle, BuyFills(c)
      PROVE  world' \in World /\ \A d \in Cycle : world'.bought[d] >= world.bought[d]
  <2>1. PICK n \in 1..world.buying[c], x \in {0, 1} :
           world' = [world EXCEPT !.bought[c] = @ + n, !.buying[c] = @ - n, !.fee[c] = @ + x]
    BY <1>2 DEF BuyFills
  <2>2. world.bought[c] \in Nat /\ world.buying[c] \in Nat /\ world.fee[c] \in Nat
    BY <1>0 DEF World
  <2>3. n \in Nat /\ world.bought[c] + n \in Nat /\ world.buying[c] - n \in Nat /\ world.fee[c] + x \in Nat
    BY <2>2
  <2>4. world' = [world EXCEPT !.bought = [world.bought EXCEPT ![c] = world.bought[c] + n],
                               !.buying = [world.buying EXCEPT ![c] = world.buying[c] - n],
                               !.fee = [world.fee EXCEPT ![c] = world.fee[c] + x]]
    BY <1>0, <2>1 DEF World
  <2>5. /\ [world.bought EXCEPT ![c] = world.bought[c] + n] \in [Cycle -> Nat]
        /\ [world.buying EXCEPT ![c] = world.buying[c] - n] \in [Cycle -> Nat]
        /\ [world.fee EXCEPT ![c] = world.fee[c] + x] \in [Cycle -> Nat]
    BY <1>0, <2>3 DEF World
  <2>6. world' \in World
    BY <1>0, <2>4, <2>5 DEF World
  <2>7. world'.bought = [world.bought EXCEPT ![c] = world.bought[c] + n]
    BY <1>0, <2>4 DEF World
  <2>8. \A d \in Cycle : world'.bought[d] >= world.bought[d]
    BY <1>0, <2>2, <2>3, <2>7 DEF World
  <2> QED  BY <2>6, <2>8
<1>3. ASSUME NEW c \in Cycle, SellFills(c) PROVE world' \in World /\ world'.bought = world.bought
  <2>1. PICK n \in 1..world.selling[c] :
           world' = [world EXCEPT !.sold[c] = @ + n, !.selling[c] = @ - n]
    BY <1>3 DEF SellFills
  <2>2. world.sold[c] \in Nat /\ world.selling[c] \in Nat
    BY <1>0 DEF World
  <2>3. world.sold[c] + n \in Nat /\ world.selling[c] - n \in Nat
    BY <2>2
  <2>4. world' = [world EXCEPT !.sold = [world.sold EXCEPT ![c] = world.sold[c] + n],
                               !.selling = [world.selling EXCEPT ![c] = world.selling[c] - n]]
    BY <1>0, <2>1 DEF World
  <2>5. /\ [world.sold EXCEPT ![c] = world.sold[c] + n] \in [Cycle -> Nat]
        /\ [world.selling EXCEPT ![c] = world.selling[c] - n] \in [Cycle -> Nat]
    BY <1>0, <2>3 DEF World
  <2> QED  BY <1>0, <2>4, <2>5 DEF World
<1>4. ASSUME NEW c \in Cycle, OrderEnds(c) \/ FeePosted(c)
      PROVE  world' \in World /\ world'.bought = world.bought
  <2>1. CASE OrderEnds(c)
    <3>1. world' = [world EXCEPT !.buying = [world.buying EXCEPT ![c] = 0],
                                 !.selling = [world.selling EXCEPT ![c] = 0]]
      BY <1>0, <2>1 DEF OrderEnds, World
    <3> QED  BY <1>0, <3>1 DEF World
  <2>2. CASE FeePosted(c)
    <3>1. world' = [world EXCEPT !.posted = [world.posted EXCEPT ![c] = world.fee[c]]]
      BY <1>0, <2>2 DEF FeePosted, World
    <3> QED  BY <1>0, <3>1 DEF World
  <2> QED  BY <1>4, <2>1, <2>2
<1>5. ASSUME NEW c \in Cycle, Accepted(c) PROVE world' \in World /\ world'.bought = world.bought
  <2>1. world.flying[c] \in Nat
    BY <1>0 DEF World
  <2> QED  BY <1>0, <1>5, <2>1 DEF Accepted, World
<1>6. ASSUME OwnerBuys \/ OwnerSells \/ OwnersFeePosted
      PROVE  world' \in World /\ world'.bought = world.bought
  <2>0. scene.buys \in Nat /\ scene.sells \in Nat
    BY ScenesAssumption DEF OwnershipInv, TypeOK, Scene
  <2>1. CASE OwnerBuys
    <3>1. PICK n \in 1..(scene.buys - world.buys), x \in {0, 1} :
             world' = [world EXCEPT !.buys = @ + n, !.fees = @ + x]
      BY <2>1 DEF OwnerBuys
    <3>2. world.buys \in Nat /\ world.fees \in Nat
      BY <1>0 DEF World
    <3>3. world.buys + n \in Nat /\ world.fees + x \in Nat
      BY <2>0, <3>2
    <3>4. world' = [world EXCEPT !.buys = world.buys + n, !.fees = world.fees + x]
      BY <3>1
    <3> QED  BY <1>0, <3>3, <3>4 DEF World
  <2>2. CASE OwnerSells
    <3>1. PICK n \in 1..(scene.sells - world.sells) : world' = [world EXCEPT !.sells = @ + n]
      BY <2>2 DEF OwnerSells
    <3> QED  BY <1>0, <2>0, <3>1 DEF World
  <2>3. CASE OwnersFeePosted
    BY <1>0, <2>3 DEF OwnersFeePosted, World
  <2> QED  BY <1>6, <2>1, <2>2, <2>3
<1>7. world' \in World /\ \A d \in Cycle : world'.bought[d] >= world.bought[d]
  <2>1. \A d \in Cycle : world.bought[d] \in Nat
    BY <1>0 DEF World
  <2> QED  BY <1>2, <1>3, <1>4, <1>5, <1>6, <2>1 DEF Account
<1>8. TypeOK' /\ InHand'
  BY <1>1, <1>7 DEF durable, OwnershipInv, TypeOK, InHand
<1>9. ASSUME NEW c \in Cycle
      PROVE  order'[c].bought >= order[c].bought /\ order'[c].bought <= world'.bought[c]
  <2>1. /\ order'[c].bought = order[c].bought /\ order[c].bought \in Nat
        /\ world.bought[c] \in Nat /\ world'.bought[c] \in Nat
        /\ order[c].bought <= world.bought[c]
    BY <1>0, <1>1, <1>7 DEF durable, OwnershipInv, TypeOK, FillsInOrder, OrderRow, World
  <2> QED  BY <1>7, <2>1
<1> QED  BY <1>1, <1>8, <1>9, LedgerFrame DEF durable

\* A read of positions, whatever it is for.
LEMMA ReadType ==
  ASSUME TypeOK, NEW purpose \in Purpose, NEW c \in Cycle \cup {NoOne}, Read(purpose, c)
  PROVE  /\ eng' \in Engine /\ eng'.pc = "reading" /\ eng'.purpose = purpose /\ eng'.c = c
<1>1. Balance \in Int /\ Held \in Int
  BY BalanceType
<1> DEFINE p == Tradable(Balance, Balance)
           a == Tradable(Balance - Held, Balance)
<1>2. p \in Nat /\ a \in Int
  BY <1>1, TradableType
<1>3. eng' = [eng EXCEPT !.pc = "reading", !.purpose = purpose, !.c = c, !.positions = p,
                         !.available = a]
  BY DEF Read
<1>4. eng \in Engine
  BY DEF TypeOK
<1> HIDE DEF p, a
<1> QED  BY <1>2, <1>3, <1>4 DEF Engine, Pc

LEMMA ReturnType ==
  ASSUME eng \in Engine
  PROVE  Return \in Engine /\ Return.pc = "idle" /\ Return.purpose = "step"
BY DEF Return, Engine, Pc, Purpose

\* Steps of the engine that only move its memory.
LEMMA MemoryStep ==
  ASSUME OwnershipInv,
         \/ Restart \/ Crash \/ BeginStep \/ BeginReconcile \/ BeginWithoutRead \/ Stamp
         \/ NextStep \/ ReadAgain \/ BeginSync \/ ReserveExit \/ RefuseSell
         \/ \E c \in Cycle : BeginExit(c)
  PROVE  OwnershipInv'
<1>0. TypeOK /\ InHand /\ eng \in Engine /\ scene \in Scene /\ faults \in 0..scene.faults
  BY ScenesAssumption DEF OwnershipInv, TypeOK
<1>1. UNCHANGED <<world, order, acts, paid, protected, ev, shown, cycle, scene>>
  BY DEF Restart, Crash, BeginStep, BeginReconcile, BeginWithoutRead, Stamp, NextStep, ReadAgain,
         BeginSync, ReserveExit, RefuseSell, BeginExit, durable
<1>2. cursor' \in Cursor
  BY <1>0 DEF Restart, Crash, BeginStep, BeginReconcile, BeginWithoutRead, Stamp, NextStep,
              ReadAgain, BeginSync, ReserveExit, RefuseSell, BeginExit, durable, TypeOK, Cursor
<1>3. faults' \in 0..scene'.faults
  <2>1. CASE Crash
    BY <1>0, <1>1, <2>1 DEF Crash, Scene
  <2>2. CASE faults' = faults
    BY <1>0, <1>1, <2>2
  <2> QED  BY <2>1, <2>2 DEF Restart, BeginStep, BeginReconcile, BeginWithoutRead, Stamp, NextStep,
              ReadAgain, BeginSync, ReserveExit, RefuseSell, BeginExit
<1>4. eng' \in Engine /\ InHand'
  <2>1. CASE Crash
    BY <2>1, RecordsAreTyped DEF Crash, InHand, Off
  <2>2. CASE Restart \/ BeginWithoutRead \/ NextStep \/ BeginSync
    BY <1>0, <2>2 DEF Restart, BeginWithoutRead, NextStep, BeginSync, Engine, Pc, InHand
  <2>3. CASE Stamp
    <3>1. Feed \in FeedRecord
      BY <1>0, FeedType
    <3>2. PICK pc \in {"syncing", "posting", "refresh"} :
             eng' = [eng EXCEPT !.pc = pc, !.seen = Feed, !.dirty = FALSE]
      BY <2>3 DEF Stamp
    <3> QED  BY <1>0, <3>1, <3>2 DEF Engine, Pc, InHand
  <2>4. CASE BeginStep \/ BeginReconcile
    BY <1>0, <2>4, ReadType DEF BeginStep, BeginReconcile, Purpose, InHand
  <2>5. ASSUME NEW c \in Cycle, BeginExit(c) PROVE eng' \in Engine /\ InHand'
    BY <1>0, <2>5, ReadType DEF BeginExit, Purpose, InHand
  <2>6. CASE ReadAgain
    <3>1. eng.purpose \in Purpose /\ eng.c \in Cycle \cup {NoOne}
      BY <1>0 DEF Engine
    <3>2. Read(eng.purpose, eng.c)
      BY <2>6 DEF ReadAgain
    <3> QED  BY <1>0, <3>1, <3>2, ReadType DEF InHand
  <2>7. CASE RefuseSell
    BY <1>0, <2>7, ReturnType DEF RefuseSell, InHand
  <2>8. CASE ReserveExit
    <3> DEFINE q == Lesser(cycle[eng.c].owned, AtLeast0(eng.available - protected))
               p == Tradable(Balance, Balance)
               a == Tradable(Balance - Held, Balance)
    <3>1. eng.c \in Cycle /\ cycle[eng.c].owned \in Nat /\ eng.available - protected \in Int
      BY <1>0, <2>8 DEF ReserveExit, InHand, TypeOK, Engine, CycleRow
    <3>2. AtLeast0(eng.available - protected) \in Nat
      BY <3>1, Clamps
    <3>3. q \in Nat
      BY <3>1, <3>2 DEF Lesser
    <3>4. Balance \in Int /\ Held \in Int
      BY <1>0, BalanceType
    <3>5. p \in Nat /\ a \in Int
      BY <3>4, TradableType
    <3>6. \/ eng' = [eng EXCEPT !.pc = "reading", !.purpose = "fence", !.quantity = q,
                                !.positions = p, !.available = a]
          \/ eng' = Return
      BY <2>8 DEF ReserveExit
    <3> HIDE DEF q, p, a
    <3>7. CASE eng' = Return
      BY <1>0, <3>7, ReturnType DEF InHand
    <3>8. CASE eng' = [eng EXCEPT !.pc = "reading", !.purpose = "fence", !.quantity = q,
                                  !.positions = p, !.available = a]
      BY <1>0, <3>3, <3>5, <3>8 DEF Engine, Pc, Purpose, InHand
    <3> QED  BY <3>6, <3>7, <3>8
  <2> QED  BY <2>1, <2>2, <2>3, <2>4, <2>5, <2>6, <2>7, <2>8
<1>5. TypeOK'
  BY <1>0, <1>1, <1>2, <1>3, <1>4 DEF TypeOK
<1>6. ASSUME NEW c \in Cycle
      PROVE  order'[c].bought >= order[c].bought /\ order'[c].bought <= world'.bought[c]
  <2>1. order[c].bought \in Nat /\ order[c].bought <= world.bought[c]
    BY <1>0 DEF OwnershipInv, FillsInOrder, TypeOK, OrderRow
  <2> QED  BY <1>1, <2>1
<1> QED  BY <1>1, <1>4, <1>5, <1>6, LedgerFrame

\* What the engine learns of its orders, or sends: its rows never say more
\* than the broker filled.
LEMMA OrderStep ==
  ASSUME OwnershipInv,
         \/ SendBuy \/ RefuseBuy \/ SendSell
         \/ \E c \in Cycle : LearnBuy(c) \/ LearnSell(c) \/ ExpireIntent(c)
  PROVE  OwnershipInv'
<1>0. /\ TypeOK /\ InHand /\ eng \in Engine /\ order \in [Cycle -> OrderRow] /\ world \in World
      /\ \A c \in Cycle : /\ order[c].bought \in Nat /\ order[c].sold \in Nat
                          /\ world.bought[c] \in Nat /\ world.sold[c] \in Nat
                          /\ order[c].bought <= world.bought[c]
  BY DEF OwnershipInv, FillsInOrder, TypeOK, OrderRow, World
<1>1. UNCHANGED <<acts, paid, cursor, protected, ev, shown, cycle, scene, faults>>
  BY DEF SendBuy, RefuseBuy, SendSell, LearnBuy, LearnSell, ExpireIntent
<1> DEFINE Good == /\ order' \in [Cycle -> OrderRow] /\ world' \in World /\ eng' \in Engine /\ InHand'
                   /\ world'.bought = world.bought
                   /\ \A c \in Cycle : /\ order'[c].bought >= order[c].bought
                                       /\ order'[c].bought <= world.bought[c]
<1>2. ASSUME NEW c \in Cycle, LearnBuy(c) PROVE Good
  <2>1. PICK q \in order[c].bought..world.bought[c] :
           order' = [order EXCEPT
                ![c].buyId = TRUE, ![c].bought = q,
                ![c].buy = IF world.buying[c] = 0 /\ q = world.bought[c] THEN "final" ELSE "sent"]
    BY <1>2 DEF LearnBuy
  <2>2. q \in Nat /\ q >= order[c].bought /\ q <= world.bought[c]
    BY <1>0
  <2>3. order' \in [Cycle -> OrderRow] /\ order'[c].bought = q
        /\ \A d \in Cycle \ {c} : order'[d] = order[d]
    <3>1. PICK st \in {"final", "sent"} :
             order' = [order EXCEPT ![c].buyId = TRUE, ![c].bought = q, ![c].buy = st]
      BY <2>1
    <3> DEFINE row == [order[c] EXCEPT !.buyId = TRUE, !.bought = q, !.buy = st]
    <3>2. order' = [order EXCEPT ![c] = row]
      BY <1>0, <3>1
    <3>3. row \in OrderRow /\ row.bought = q
      BY <1>0, <2>2 DEF OrderRow
    <3> HIDE DEF row
    <3> QED  BY <1>0, <3>2, <3>3
  <2>4. eng' \in Engine /\ InHand'
    <3>1. PICK b \in BOOLEAN : eng' = [eng EXCEPT !.dirty = b]
      BY <1>0, <1>2 DEF LearnBuy, Engine
    <3> QED  BY <1>0, <3>1 DEF Engine, InHand
  <2>5. world' = world
    BY <1>2 DEF LearnBuy
  <2> QED  BY <1>0, <2>2, <2>3, <2>4, <2>5
<1>3. ASSUME NEW c \in Cycle, LearnSell(c) PROVE Good
  <2>1. PICK q \in order[c].sold..world.sold[c] :
           order' = [order EXCEPT
                ![c].sellId = TRUE, ![c].sold = q,
                ![c].sell = IF world.selling[c] = 0 /\ q = world.sold[c] THEN "none" ELSE "sent"]
    BY <1>3 DEF LearnSell
  <2>2. q \in Nat
    BY <1>0
  <2>3. order' \in [Cycle -> OrderRow] /\ \A d \in Cycle : order'[d].bought = order[d].bought
    <3>1. PICK st \in {"none", "sent"} :
             order' = [order EXCEPT ![c].sellId = TRUE, ![c].sold = q, ![c].sell = st]
      BY <2>1
    <3> DEFINE row == [order[c] EXCEPT !.sellId = TRUE, !.sold = q, !.sell = st]
    <3>2. order' = [order EXCEPT ![c] = row]
      BY <1>0, <3>1
    <3>3. row \in OrderRow /\ row.bought = order[c].bought
      BY <1>0, <2>2 DEF OrderRow
    <3> HIDE DEF row
    <3> QED  BY <1>0, <3>2, <3>3
  <2>4. eng' \in Engine /\ InHand'
    <3>1. PICK b \in BOOLEAN : eng' = [eng EXCEPT !.dirty = b]
      BY <1>0, <1>3 DEF LearnSell, Engine
    <3> QED  BY <1>0, <3>1 DEF Engine, InHand
  <2>5. world' = world
    BY <1>3 DEF LearnSell
  <2> QED  BY <1>0, <2>3, <2>4, <2>5
<1>4. ASSUME NEW c \in Cycle, ExpireIntent(c) PROVE Good
  BY <1>0, <1>4 DEF ExpireIntent, OrderRow, InHand
<1>5. ASSUME SendBuy \/ RefuseBuy \/ SendSell PROVE Good
  <2>1. eng' \in Engine /\ InHand'
    BY <1>0, <1>5, ReturnType DEF SendBuy, RefuseBuy, SendSell, InHand
  <2>2. order' \in [Cycle -> OrderRow] /\ \A d \in Cycle : order'[d].bought = order[d].bought
    BY <1>0, <1>5 DEF SendBuy, RefuseBuy, SendSell, OrderRow
  <2>3. world' \in World /\ world'.bought = world.bought
    <3>1. EntryQty \in Nat /\ eng.quantity \in Nat
      BY <1>0, EntryAssumption DEF Engine
    <3>2. CASE RefuseBuy
      BY <1>0, <3>2 DEF RefuseBuy
    <3>3. CASE SendBuy
      <4> DEFINE buying == [world.buying EXCEPT ![eng.c] = EntryQty]
                 flying == [world.flying EXCEPT ![eng.c] = EntryQty]
      <4>1. buying \in [Cycle -> Nat] /\ flying \in [Cycle -> Nat]
        BY <1>0, <3>1 DEF World
      <4>2. \/ world' = [world EXCEPT !.buying = buying]
            \/ world' = [world EXCEPT !.flying = flying]
        BY <1>0, <3>3 DEF SendBuy, World
      <4> HIDE DEF buying, flying
      <4> QED  BY <1>0, <4>1, <4>2 DEF World
    <3>4. CASE SendSell
      <4> DEFINE selling == [world.selling EXCEPT ![eng.c] = eng.quantity]
                 flying == [world.flying EXCEPT ![eng.c] = eng.quantity]
      <4>1. selling \in [Cycle -> Nat] /\ flying \in [Cycle -> Nat]
        BY <1>0, <3>1 DEF World
      <4>2. \/ world' = [world EXCEPT !.selling = selling]
            \/ world' = [world EXCEPT !.flying = flying]
        BY <1>0, <3>4 DEF SendSell, World
      <4> HIDE DEF selling, flying
      <4> QED  BY <1>0, <4>1, <4>2 DEF World
    <3> QED  BY <1>5, <3>2, <3>3, <3>4
  <2> QED  BY <1>0, <2>1, <2>2, <2>3
<1>6. Good
  BY <1>2, <1>3, <1>4, <1>5
<1>7. TypeOK'
  BY <1>0, <1>1, <1>6 DEF TypeOK
<1> QED  BY <1>1, <1>6, <1>7, LedgerFrame

\* The end of a sync's window is an activity feed, whoever opened it.
LEMMA WindowType ==
  ASSUME TypeOK
  PROVE  /\ Window \in FeedRecord /\ WindowCovers \in BOOLEAN
         /\ \A f \in FeedRecord : Attributed(f) \in [Cycle -> Nat]
<1>1. cursor \in Cursor /\ Feed \in FeedRecord /\ paid \in [Cycle -> Nat]
  BY FeedType DEF TypeOK
<1>2. ASSUME NEW f \in FeedRecord PROVE Attributed(f) \in [Cycle -> Nat]
  BY <1>1 DEF Attributed, FeedRecord
<1> QED  BY <1>1, <1>2 DEF Window, WindowCovers, Cursor

\* A sync looks the orders up whose fills it saw: what they then say is what
\* the broker filled by now.
LEMMA RecheckBounds ==
  ASSUME OwnershipInv, NEW f \in FeedRecord, Recheck(f)
  PROVE  /\ order' \in [Cycle -> OrderRow]
         /\ \A c \in Cycle : order'[c].bought >= order[c].bought
                             /\ order'[c].bought <= world.bought[c]
<1>1. ASSUME NEW c \in Cycle
      PROVE  /\ order'[c] \in OrderRow /\ order'[c].bought >= order[c].bought
             /\ order'[c].bought <= world.bought[c]
  <2> DEFINE row == IF c \in BuysBehind(f) THEN BuyRechecked(order[c], c) ELSE order[c]
  <2>1. /\ order[c] \in OrderRow /\ order[c].bought \in Nat /\ world.bought[c] \in Nat
        /\ world.sold[c] \in Nat /\ order[c].bought <= world.bought[c]
    BY DEF OwnershipInv, FillsInOrder, TypeOK, OrderRow, World
  <2>2. row \in OrderRow /\ row.bought >= order[c].bought /\ row.bought <= world.bought[c]
    <3>1. PICK st \in {"none", "approved", "sent", "final"} :
             BuyRechecked(order[c], c) = [order[c] EXCEPT !.bought = world.bought[c], !.buy = st]
      BY <2>1 DEF BuyRechecked, OrderRow
    <3>2. CASE c \in BuysBehind(f)
      <4>1. PICK r \in OrderRow : r = order[c]
        BY <2>1
      <4>2. row = [r EXCEPT !.bought = world.bought[c], !.buy = st]
        BY <3>1, <3>2, <4>1
      <4> HIDE DEF row
      <4>3. row \in OrderRow
        BY <2>1, <4>1, <4>2 DEF OrderRow
      <4>4. row.bought = world.bought[c]
        BY <4>1, <4>2 DEF OrderRow
      <4> QED  BY <2>1, <4>3, <4>4
    <3>3. CASE c \notin BuysBehind(f)
      <4>1. row = order[c]
        BY <3>3
      <4> HIDE DEF row
      <4> QED  BY <2>1, <4>1
    <3> HIDE DEF row
    <3> QED  BY <3>2, <3>3
  <2>3. order'[c] = IF c \in SellsBehind(f) THEN SellRechecked(row, c) ELSE row
    BY DEF Recheck
  <2> HIDE DEF row
  <2>4. CASE c \in SellsBehind(f)
    <3>1. PICK st \in {"none", "sent"} :
             order'[c] = [row EXCEPT !.sold = world.sold[c], !.sell = st]
      BY <2>2, <2>3, <2>4 DEF SellRechecked, OrderRow
    <3> QED  BY <2>1, <2>2, <3>1 DEF OrderRow
  <2> QED  BY <2>2, <2>3, <2>4
<1>2. order' = [c \in Cycle |-> order'[c]]
  BY DEF Recheck
<1> QED  BY <1>1, <1>2

\* A sync, whether it reaches the end of its window, stops before it or fails.
LEMMA SyncStep ==
  ASSUME OwnershipInv, SyncCompletes \/ SyncStops \/ StepFails
  PROVE  OwnershipInv'
<1>0. /\ TypeOK /\ InHand /\ eng \in Engine /\ scene \in Scene /\ cursor \in Cursor
      /\ acts \in FeedRecord /\ paid \in [Cycle -> Nat] /\ order \in [Cycle -> OrderRow]
  BY ScenesAssumption DEF OwnershipInv, TypeOK
<1>1. UNCHANGED <<world, protected, ev, shown, cycle, scene>>
  BY DEF SyncCompletes, SyncStops, StepFails
<1>2. /\ Window \in FeedRecord /\ WindowCovers \in BOOLEAN
      /\ \A f \in FeedRecord : Attributed(f) \in [Cycle -> Nat]
  BY <1>0, WindowType
<1> DEFINE open == [cursor EXCEPT !.open = TRUE, !.until = Window, !.willCover = WindowCovers]
           done == [open |-> FALSE, until |-> NoFeed, covers |-> WindowCovers,
                    willCover |-> FALSE, complete |-> TRUE]
<1>3. open \in Cursor /\ done \in Cursor
  BY <1>0, <1>2, RecordsAreTyped DEF Cursor
<1> DEFINE NextEng(f) == [eng EXCEPT !.pc = "refresh", !.affected = @ \cup AffectedBy(f),
                                     !.current = eng.purpose # "reconcile",
                                     !.purpose = IF @ = "reconcile" THEN "step" ELSE @,
                                     !.dirty = @ \/ Behind(f) # {}]
<1>4. ASSUME NEW f, eng' = NextEng(f) PROVE eng' \in Engine /\ InHand'
  <2>1. PICK b \in BOOLEAN, d \in BOOLEAN, a \in SUBSET Cycle, p \in Purpose :
           /\ eng' = [eng EXCEPT !.pc = "refresh", !.affected = a, !.current = b, !.purpose = p,
                                 !.dirty = d]
           /\ p = eng.purpose \/ p = "step"
    <3>1. eng.affected \cup AffectedBy(f) \in SUBSET Cycle
      BY <1>0 DEF Engine, AffectedBy
    <3>2. (eng.dirty \/ Behind(f) # {}) \in BOOLEAN /\ (eng.purpose # "reconcile") \in BOOLEAN
      BY <1>0 DEF Engine
    <3>3. /\ (IF eng.purpose = "reconcile" THEN "step" ELSE eng.purpose) \in Purpose
          /\ (IF eng.purpose = "reconcile" THEN "step" ELSE eng.purpose) \in {eng.purpose, "step"}
      BY <1>0 DEF Engine, Purpose
    <3>4. eng' = [eng EXCEPT !.pc = "refresh", !.affected = eng.affected \cup AffectedBy(f),
                             !.current = (eng.purpose # "reconcile"),
                             !.purpose = IF eng.purpose = "reconcile" THEN "step" ELSE eng.purpose,
                             !.dirty = (eng.dirty \/ Behind(f) # {})]
      BY <1>4
    <3> QED  BY <3>1, <3>2, <3>3, <3>4
  <2> QED  BY <1>0, <2>1 DEF Engine, Pc, InHand
<1> DEFINE Good == /\ order' \in [Cycle -> OrderRow] /\ eng' \in Engine /\ InHand'
                   /\ acts' \in FeedRecord /\ paid' \in [Cycle -> Nat] /\ cursor' \in Cursor
                   /\ faults' \in 0..scene'.faults
                   /\ \A c \in Cycle : /\ order'[c].bought >= order[c].bought
                                       /\ order'[c].bought <= world'.bought[c]
<1>5. ASSUME SyncCompletes PROVE Good
  <2>1. Recheck(Window) /\ Stored /\ eng' = NextEng(Window) /\ UNCHANGED faults
    BY <1>5 DEF SyncCompletes
  <2>2. eng' \in Engine /\ InHand'
    BY <1>4, <2>1
  <2>3. acts' \in FeedRecord /\ paid' \in [Cycle -> Nat] /\ cursor' \in Cursor
    BY <1>2, <1>3, <2>1 DEF Stored
  <2>4. faults' \in 0..scene'.faults
    BY <1>0, <1>1, <2>1 DEF TypeOK
  <2> HIDE DEF NextEng
  <2>5. Good
    BY <1>1, <1>2, <2>1, <2>2, <2>3, <2>4, RecheckBounds
  <2> QED  BY <2>5
<1>6. ASSUME SyncStops PROVE Good
  <2>1. PICK read \in {acts, Window} :
           /\ acts' = read /\ paid' = Attributed(read) /\ Recheck(read) /\ eng' = NextEng(read)
    BY <1>6 DEF SyncStops
  <2>2. cursor' = open /\ UNCHANGED faults
    BY <1>6 DEF SyncStops
  <2>3. read \in FeedRecord
    BY <1>0, <1>2
  <2>4. eng' \in Engine /\ InHand'
    BY <1>4, <2>1
  <2>5. faults' \in 0..scene'.faults
    BY <1>0, <1>1, <2>2 DEF TypeOK
  <2> HIDE DEF NextEng, open
  <2>6. Good
    BY <1>1, <1>2, <1>3, <2>1, <2>2, <2>3, <2>4, <2>5, RecheckBounds
  <2> QED  BY <2>6
<1>7. ASSUME StepFails PROVE Good
  <2>1. eng' = [Return EXCEPT !.tried = {}, !.fresh = FALSE] /\ faults' = faults + 1
        /\ faults < scene.faults /\ order' = order
    BY <1>7 DEF StepFails
  <2>2. eng' \in Engine /\ InHand'
    <3>1. Return \in Engine /\ Return.purpose = "step" /\ Return.pc = "idle"
      BY <1>0, ReturnType
    <3> QED  BY <2>1, <3>1 DEF Engine, InHand
  <2>3. acts' \in FeedRecord /\ paid' \in [Cycle -> Nat] /\ cursor' \in Cursor
    BY <1>0, <1>2, <1>3, <1>7 DEF StepFails, Stored
  <2>4. faults' \in 0..scene'.faults
    BY <1>0, <1>1, <2>1 DEF TypeOK, Scene
  <2>5. ASSUME NEW c \in Cycle
        PROVE  order'[c].bought >= order[c].bought /\ order'[c].bought <= world'.bought[c]
    <3>1. order[c].bought \in Nat /\ order[c].bought <= world.bought[c]
      BY <1>0 DEF OwnershipInv, FillsInOrder, OrderRow
    <3> QED  BY <1>1, <2>1, <3>1
  <2> QED  BY <1>0, <2>1, <2>2, <2>3, <2>4, <2>5
<1> HIDE DEF NextEng, open, done
<1>8. Good
  BY <1>5, <1>6, <1>7
<1>9. TypeOK'
  BY <1>0, <1>1, <1>8 DEF TypeOK
<1> QED  BY <1>1, <1>8, <1>9, LedgerFrame

\* A refresh: whatever it decides on, its cycles are backed by the balance.
LEMMA RefreshStep ==
  ASSUME OwnershipInv, RefreshCycles
  PROVE  OwnershipInv'
<1>0. /\ TypeOK /\ InHand /\ eng \in Engine /\ cycle \in [Cycle -> CycleRow]
      /\ protected \in Nat /\ ev \in Evidence /\ cursor \in Cursor /\ acts \in FeedRecord
      /\ order \in [Cycle -> OrderRow] /\ RowsOK
  BY DEF OwnershipInv, TypeOK
<1> DEFINE known == [c \in Cycle |-> KnownOf(c)]
           total == Strange(Common(acts, eng.seen))
           buying == eng.purpose = "buy"
           new == Refresh(Refreshed, cycle, known, protected, ev, total, eng.positions,
                          EvidenceReady, buying)
<1>1. /\ cycle' = new.cycle /\ protected' = new.protected /\ ev' = new.ev
      /\ shown' = eng.positions /\ UNCHANGED <<world, order, acts, paid, cursor, scene, faults>>
  BY DEF RefreshCycles
<1>2. /\ Refreshed \in SUBSET Cycle
      /\ \A c \in Refreshed : cycle[c].state # "absent"
      /\ \A c \in Cycle \ Refreshed : cycle[c].state \in CLOSED \cup {"absent"}
  BY <1>0 DEF Refreshed, Active, Engine
<1>3. OthersOwnNothing(Refreshed, cycle)
  BY <1>0, <1>2 DEF OthersOwnNothing, RowsOK, RowOK
<1>4. known \in [Cycle -> Knowledge]
  BY <1>0, KnownType
<1>5. \A c \in Cycle : known[c].bought = order[c].bought
  BY DEF KnownOf
<1>6. \A c \in Cycle : cycle[c].bought <= known[c].bought
  BY <1>5 DEF OwnershipInv, FillsInOrder
<1>7. eng.seen \in FeedRecord /\ eng.positions \in Nat
  BY <1>0 DEF Engine
<1>8. Common(acts, eng.seen) \in FeedRecord
  BY <1>0, <1>7, CommonType
<1>9. total \in FlowTotal
  BY <1>0, <1>8, StrangeType
<1>10. EvidenceReady \in BOOLEAN /\ buying \in BOOLEAN
  BY <1>0 DEF EvidenceReady, Cursor
<1> HIDE DEF known, total, buying
<1>11. /\ new.protected \in Nat /\ new.ev \in Evidence
       /\ Divided(Refreshed, cycle, known, new.cycle, AtLeast0(eng.positions - new.protected))
  BY <1>0, <1>2, <1>3, <1>4, <1>6, <1>7, <1>9, <1>10, RefreshBacks
<1> HIDE DEF new
<1>12. /\ cycle' \in [Cycle -> CycleRow]
       /\ \A c \in Refreshed : /\ cycle'[c].state # "absent" /\ cycle'[c].bought = order[c].bought
                               /\ RowOK(cycle'[c])
       /\ \A c \in Cycle \ Refreshed : cycle'[c] = cycle[c]
       /\ OwnedSum(cycle') <= AtLeast0(eng.positions - new.protected)
  BY <1>1, <1>2, <1>5, <1>11 DEF Divided
<1>13. eng' \in Engine /\ InHand'
  <2>1. Return \in Engine /\ Return.purpose = "step" /\ Return.pc = "idle"
    BY <1>0, ReturnType
  <2>2. CASE eng.purpose = "buy"
    <3>1. eng' = [eng EXCEPT !.pc = "armed"]
      BY <2>2 DEF RefreshCycles
    <3> QED  BY <1>0, <2>2, <3>1 DEF Engine, Pc, InHand
  <2>3. CASE eng.purpose = "exit"
    <3>1. eng' = [eng EXCEPT !.pc = "exiting", !.current = FALSE, !.affected = {},
                             !.tried = eng.tried \cup {eng.c}]
      BY <2>3 DEF RefreshCycles
    <3>2. eng.c \in Cycle
      BY <1>0, <2>3 DEF InHand
    <3>3. eng.tried \cup {eng.c} \in SUBSET Cycle
      BY <1>0, <3>2 DEF Engine
    <3> QED  BY <1>0, <3>1, <3>2, <3>3 DEF Engine, Pc, InHand
  <2>4. CASE eng.purpose \notin {"buy", "exit"}
    <3>1. eng' = [Return EXCEPT !.fresh = TRUE]
      BY <2>4 DEF RefreshCycles
    <3> QED  BY <2>1, <3>1 DEF Engine, InHand
  <2> QED  BY <2>2, <2>3, <2>4
<1>14. TypeOK'
  BY <1>0, <1>1, <1>7, <1>11, <1>12, <1>13 DEF TypeOK
<1>15. FillsInOrder'
  <2>1. ASSUME NEW c \in Cycle
        PROVE  cycle'[c].bought <= order'[c].bought /\ order'[c].bought <= world'.bought[c]
    <3>1. order'[c].bought = order[c].bought /\ order[c].bought \in Nat
          /\ world'.bought[c] = world.bought[c]
          /\ cycle[c].bought <= order[c].bought /\ order[c].bought <= world.bought[c]
      BY <1>0, <1>1 DEF OwnershipInv, FillsInOrder, OrderRow
    <3> QED  BY <1>12, <3>1
  <2> QED  BY <2>1 DEF FillsInOrder
<1>16. CreatedInOrder'
  <2>1. \A c \in Cycle : cycle'[c].state = "absent" <=> cycle[c].state = "absent"
    BY <1>2, <1>12
  <2> QED  BY <2>1 DEF OwnershipInv, CreatedInOrder
<1>17. RowsOK'
  BY <1>0, <1>12 DEF RowsOK
<1>18. Backed'
  BY <1>1, <1>12 DEF Backed
<1> QED  BY <1>13, <1>14, <1>15, <1>16, <1>17, <1>18 DEF OwnershipInv

\* A new cycle owns nothing.  The first one makes the whole balance the
\* owner's; as cycles are created in order, none owns anything by then.
LEMMA NewCycleStep ==
  ASSUME OwnershipInv, NEW c \in Cycle, NewCycle(c)
  PROVE  OwnershipInv'
<1>0. /\ TypeOK /\ eng \in Engine /\ cycle \in [Cycle -> CycleRow] /\ protected \in Nat
      /\ order \in [Cycle -> OrderRow] /\ RowsOK /\ shown \in Nat
  BY DEF OwnershipInv, TypeOK
<1>1. /\ UNCHANGED <<world, acts, paid, cursor, ev, shown, scene, faults>>
      /\ cycle' = [cycle EXCEPT ![c] = [cycle[c] EXCEPT !.state = "entry_pending"]]
      /\ order' = [order EXCEPT ![c] = [order[c] EXCEPT !.buy = "approved"]]
      /\ protected' = IF c = 1 THEN Tradable(Balance, Balance) ELSE protected
      /\ \A d \in Cycle : d < c => cycle[d].state # "absent"
      /\ cycle[c].state = "absent"
  BY <1>0 DEF NewCycle
<1>2. /\ cycle' \in [Cycle -> CycleRow]
      /\ \A d \in Cycle : /\ cycle'[d].bought = cycle[d].bought /\ cycle'[d].owned = cycle[d].owned
                          /\ RowOK(cycle'[d])
      /\ cycle'[c].state = "entry_pending" /\ \A d \in Cycle \ {c} : cycle'[d] = cycle[d]
  <2> DEFINE row == [cycle[c] EXCEPT !.state = "entry_pending"]
  <2>1. /\ row \in CycleRow /\ row.bought = cycle[c].bought /\ row.owned = cycle[c].owned
        /\ row.state = "entry_pending"
    BY <1>0 DEF CycleRow, CycleState
  <2>2. RowOK(row)
    BY <1>0 DEF RowsOK, RowOK, CycleRow, CLOSED
  <2> HIDE DEF row
  <2>3. cycle' = [cycle EXCEPT ![c] = row]
    BY <1>1 DEF row
  <2> QED  BY <1>0, <2>1, <2>2, <2>3 DEF RowsOK
<1>3. order' \in [Cycle -> OrderRow] /\ \A d \in Cycle : order'[d].bought = order[d].bought
  <2> DEFINE row == [order[c] EXCEPT !.buy = "approved"]
  <2>1. row \in OrderRow /\ row.bought = order[c].bought
    BY <1>0 DEF OrderRow
  <2> HIDE DEF row
  <2>2. order' = [order EXCEPT ![c] = row]
    BY <1>1 DEF row
  <2> QED  BY <1>0, <2>1, <2>2
<1>4. Tradable(Balance, Balance) \in Nat
  BY <1>0, BalanceType, TradableType
<1>5. protected' \in Nat
  BY <1>0, <1>1, <1>4
<1>6. eng' \in Engine /\ InHand'
  <2>1. Read("buy", c)
    BY DEF NewCycle
  <2>2. eng' \in Engine /\ eng'.pc = "reading" /\ eng'.purpose = "buy"
    BY <1>0, <2>1, ReadType DEF Purpose
  <2> QED  BY <2>2 DEF InHand
<1>7. TypeOK'
  BY <1>0, <1>1, <1>2, <1>3, <1>5, <1>6 DEF TypeOK
<1>8. FillsInOrder'
  BY <1>1, <1>2, <1>3 DEF OwnershipInv, FillsInOrder
<1>9. CreatedInOrder'
  <2>1. ASSUME NEW a \in Cycle, NEW b \in Cycle, b < a, cycle'[b].state = "absent"
        PROVE  cycle'[a].state = "absent"
    <3>1. b # c /\ cycle'[b] = cycle[b]
      BY <1>2, <2>1
    <3>2. a # c
      BY <1>1, <2>1, <3>1
    <3>3. cycle'[a] = cycle[a]
      BY <1>2, <3>2
    <3> QED  BY <2>1, <3>1, <3>3 DEF OwnershipInv, CreatedInOrder
  <2> QED  BY <2>1 DEF CreatedInOrder
<1>10. Backed'
  <2>1. OwnedSum(cycle') = OwnedSum(cycle)
    BY <1>2, SameOwned
  <2>2. CASE c = 1
    <3>1. ASSUME NEW d \in Cycle PROVE cycle[d].owned = 0
      <4>1. d = c \/ c < d
        BY <2>2 DEF Cycle
      <4>2. cycle[d].state = "absent"
        BY <1>1, <4>1 DEF OwnershipInv, CreatedInOrder
      <4> QED  BY <1>0, <4>2 DEF RowsOK, RowOK
    <3>2. OwnedSum(cycle) = 0
      BY <3>1, NothingOwned
    <3>3. shown' - protected' \in Int
      BY <1>0, <1>1, <1>5
    <3>4. AtLeast0(shown' - protected') \in Nat
      BY <3>3, Clamps
    <3> QED  BY <2>1, <3>2, <3>4 DEF Backed
  <2>3. CASE c # 1
    BY <1>1, <2>1, <2>3 DEF OwnershipInv, Backed
  <2> QED  BY <2>2, <2>3
<1> QED  BY <1>2, <1>6, <1>7, <1>8, <1>9, <1>10 DEF OwnershipInv, RowsOK

LEMMA RequestExitStep ==
  ASSUME OwnershipInv, NEW c \in Cycle, RequestExit(c)
  PROVE  OwnershipInv'
<1>0. TypeOK /\ InHand /\ cycle \in [Cycle -> CycleRow] /\ RowsOK
  BY DEF OwnershipInv, TypeOK
<1> DEFINE row == [cycle[c] EXCEPT !.exit = TRUE]
<1>1. /\ UNCHANGED <<world, order, acts, paid, cursor, protected, ev, shown, eng, scene, faults>>
      /\ cycle' = [cycle EXCEPT ![c] = row]
  BY <1>0 DEF RequestExit
<1>2. /\ row \in CycleRow /\ row.bought = cycle[c].bought /\ row.owned = cycle[c].owned
      /\ row.state = cycle[c].state
  BY <1>0 DEF CycleRow
<1>3. RowOK(row)
  BY <1>0 DEF RowsOK, RowOK, CycleRow
<1> HIDE DEF row
<1>4. /\ cycle' \in [Cycle -> CycleRow]
      /\ \A d \in Cycle : /\ cycle'[d].bought = cycle[d].bought /\ cycle'[d].owned = cycle[d].owned
                          /\ cycle'[d].state = cycle[d].state /\ RowOK(cycle'[d])
  BY <1>0, <1>1, <1>2, <1>3 DEF RowsOK
<1>5. OwnedSum(cycle') = OwnedSum(cycle)
  BY <1>4, SameOwned
<1>6. TypeOK' /\ InHand'
  BY <1>0, <1>1, <1>4 DEF TypeOK, InHand
<1>7. FillsInOrder' /\ CreatedInOrder'
  BY <1>1, <1>4 DEF OwnershipInv, FillsInOrder, CreatedInOrder
<1>8. Backed'
  BY <1>1, <1>5 DEF OwnershipInv, Backed
<1> QED  BY <1>4, <1>6, <1>7, <1>8 DEF OwnershipInv, RowsOK

LEMMA NextInv == OwnershipInv /\ [Next]_vars => OwnershipInv'
<1> SUFFICES ASSUME OwnershipInv, [Next]_vars PROVE OwnershipInv'
  OBVIOUS
<1>1. CASE Account
  BY <1>1, AccountStep
<1>2. CASE \/ Restart \/ Crash \/ BeginStep \/ BeginReconcile \/ BeginWithoutRead \/ Stamp
           \/ NextStep \/ ReadAgain \/ BeginSync \/ ReserveExit \/ RefuseSell
           \/ \E c \in Cycle : BeginExit(c)
  BY <1>2, MemoryStep
<1>3. CASE \/ SendBuy \/ RefuseBuy \/ SendSell
           \/ \E c \in Cycle : LearnBuy(c) \/ LearnSell(c) \/ ExpireIntent(c)
  BY <1>3, OrderStep
<1>4. CASE SyncCompletes \/ SyncStops \/ StepFails
  BY <1>4, SyncStep
<1>5. CASE RefreshCycles
  BY <1>5, RefreshStep
<1>6. CASE \E c \in Cycle : NewCycle(c)
  BY <1>6, NewCycleStep
<1>7. CASE \E c \in Cycle : RequestExit(c)
  BY <1>7, RequestExitStep
<1>8. CASE UNCHANGED vars
  <2>1. UNCHANGED <<world, order, acts, paid, cursor, protected, ev, shown, cycle, eng, scene, faults>>
    BY <1>8 DEF vars
  <2>2. OwnedSum(cycle') = OwnedSum(cycle)
    BY <2>1
  <2> QED  BY <2>1, <2>2 DEF OwnershipInv, TypeOK, InHand, FillsInOrder, CreatedInOrder, RowsOK,
              Backed
<1> QED
  BY <1>1, <1>2, <1>3, <1>4, <1>5, <1>6, <1>7, <1>8 DEF Next

-----------------------------------------------------------------------------
(* Whose coins the engine sells: the invariant *)

\* The coins of the engine in an account w, and those in its open sells.
OurCoins(w) == SumOf([c \in Cycle |-> w.bought[c] - w.fee[c] - w.sold[c]], Cycle)
HeldCoins(w) == SumOf(w.selling, Cycle)

Single == scene.cycles = 1

\* The scenes without a trouble that costs the owner coins, in which the owner
\* trades beside one cycle or sells beside any number of them.
PlainScene ==
    /\ scene.troubles \subseteq {"unseen_trade"}
    /\ Single \/ scene.buys = 0

\* Coins of the engine are at the broker, or a buy is about to be sent: from
\* here on unowned_positions is kept, before it is only a first guess.
Covered == eng.pc = "armed" \/ \E c \in Cycle : order[c].buy = "sent" \/ world.bought[c] > 0

\* The positions read last are not outdated.
Fresh == eng.pc \notin {"down", "reading"} /\ ~eng.dirty

\* Both are prefixes of the feed, f of g.
UpTo(f, g) ==
    /\ f.buys <= g.buys /\ f.sells <= g.sells /\ f.fees <= g.fees
    /\ \A c \in Cycle :
          f.bought[c] <= g.bought[c] /\ f.sold[c] <= g.sold[c] /\ f.posted[c] <= g.posted[c]

\* No request is under way, fees come with what they are paid on, and the
\* owner sells no more than the owner has.
AccountOK ==
    /\ \A c \in Cycle : /\ world.flying[c] = 0 /\ world.posted[c] <= world.fee[c]
                        /\ world.fee[c] <= world.bought[c]
    /\ world.postedFees <= world.fees /\ world.fees <= world.buys /\ world.buys <= scene.buys
    /\ OwnersNet >= 0

Solvent == HeldCoins(world) <= OurCoins(world)

\* What the broker holds for the engine, its order rows say, with the fills of
\* an ended order; an order without a broker id has no fills that the engine
\* acts on; a cycle that has not begun has no orders.
OrderOK(c) ==
    /\ world.selling[c] > 0 => order[c].sell = "sent"
    /\ world.buying[c] > 0 => order[c].buy = "sent"
    /\ order[c].sold <= world.sold[c] /\ cycle[c].sold <= order[c].sold
    /\ order[c].sell = "none" => order[c].sold = world.sold[c]
    /\ order[c].buy # "sent" => order[c].bought = world.bought[c]
    /\ order[c].buy \in {"none", "approved"} => world.bought[c] = 0
    /\ ~order[c].buyId => world.bought[c] = 0 \/ order[c].buy = "sent"
    /\ order[c].sell = "sent" \/ world.sold[c] > 0 => world.bought[c] > 0
    /\ cycle[c].state = "absent" => order[c].buy = "none" /\ cycle[c] = NoCycle
    /\ Single /\ c # 1 => cycle[c].state = "absent"

OrdersOK == \A c \in Cycle : OrderOK(c)

\* A step has looked its orders up.
NamedOK ==
    eng.pc \notin {"idle", "down"} =>
        \A c \in Cycle : /\ order[c].buy = "sent" => order[c].buyId
                         /\ order[c].sell = "sent" => order[c].sellId

\* Activities, the window of a sync and the evidence follow the feed.
FeedsOK ==
    /\ UpTo(acts, Feed)
    /\ cursor.open => UpTo(acts, cursor.until) /\ UpTo(cursor.until, Feed)
    /\ ev.buys <= acts.buys /\ ev.sells <= acts.sells /\ ev.fees <= acts.fees
    /\ \A c \in Cycle : acts.sold[c] <= order[c].sold /\ paid[c] <= world.posted[c]

\* What is covered reaches the positions.
SeenOK ==
    /\ UpTo(eng.seen, Feed)
    /\ cursor.covers => UpTo(eng.seen, acts)
    /\ cursor.open /\ cursor.willCover => UpTo(eng.seen, cursor.until)

FreshOK ==
    Fresh => /\ ev.buys <= eng.seen.buys /\ ev.sells <= eng.seen.sells /\ ev.fees <= eng.seen.fees
             /\ \A c \in Cycle : order[c].sold <= eng.seen.sold[c]

\* What the engine has in hand.
PurposeOK ==
    /\ eng.pc \in {"idle", "down"} => ~eng.current /\ eng.affected = {} /\ eng.purpose = "step"
    /\ eng.pc = "down" => eng.dirty
    /\ eng.pc = "armed" => eng.purpose = "buy"
    /\ eng.pc = "exiting" => eng.purpose = "exit"
    /\ eng.pc = "posting" => eng.purpose = "fence" /\ ~eng.dirty
    /\ eng.purpose = "fence" => eng.pc \in {"reading", "posting"}

\* Until the refresh for a buy the symbol has no open order and its new cycle
\* is the only active one.
BuyingOK ==
    eng.purpose = "buy" =>
        /\ eng.c \in Cycle /\ order[eng.c].buy = "approved" /\ cycle[eng.c].state # "absent"
        /\ ~cursor.open /\ cursor.complete
        /\ \A c \in Cycle : order[c].buy # "sent" /\ order[c].sell = "none"
        /\ eng.pc # "reading" => ~eng.dirty
        /\ eng.pc # "armed" => /\ Active = {eng.c}
                               /\ cycle[eng.c] = [NoCycle EXCEPT !.state = "entry_pending"]
        /\ eng.pc = "reading" => ~eng.current
        /\ eng.pc = "refresh" /\ eng.current => cursor.covers
        /\ ~Covered => eng.affected = {}
        /\ ~Covered /\ eng.pc = "reading" => world.postedFees = world.fees

\* An exit is that of an active cycle; from its refresh to its POST no order
\* is known or sent.
ExitOK ==
    eng.purpose \in {"exit", "fence"} =>
        /\ eng.c \in Cycle
        /\ eng.purpose = "exit" /\ eng.pc # "exiting" => eng.c \in Active
        /\ eng.purpose = "fence" \/ eng.pc = "exiting" => cycle[eng.c].sold = order[eng.c].sold
        /\ eng.purpose = "fence" => ~SymbolPending /\ eng.quantity >= 1
        /\ eng.pc = "posting" =>
              eng.available <= scene.start + eng.seen.buys - eng.seen.sells + OurCoins(world)

ReadingOK ==
    eng.pc = "reading" => /\ eng.positions = OwnersNet + OurCoins(world)
                          /\ eng.available <= OwnersNet + OurCoins(world)

\* The owner had paid k0 of fees at the last refresh; at the read of the
\* positions the owner had paid k, and the engine had n coins.
BooksOK(k0, k, n) ==
    /\ k0 <= world.fees
    /\ Covered => Guarded(protected, ev, scene.start, k0)
    /\ Fresh => /\ k0 <= k /\ k <= world.fees /\ eng.seen.fees <= k
                /\ eng.positions = scene.start + eng.seen.buys - eng.seen.sells - k + n
    /\ Fresh /\ ~Covered /\ eng.purpose = "buy" => k = eng.seen.fees
    /\ Fresh /\ Single => /\ cycle[1].owned + cycle[1].sold <= n + eng.seen.sold[1]
                          /\ n + eng.seen.sold[1] <= world.bought[1] - world.fee[1]
    /\ Single => cycle[1].owned + cycle[1].sold <= world.bought[1] - world.fee[1]

Books == \E k0, k, n \in Nat : BooksOK(k0, k, n)

CoinsOK ==
    /\ AccountOK /\ Solvent /\ OrdersOK /\ NamedOK /\ FeedsOK /\ SeenOK /\ FreshOK /\ PurposeOK
    /\ BuyingOK /\ ExitOK /\ ReadingOK /\ Books

CoinsInv == OwnershipInv /\ (PlainScene => CoinsOK)

-----------------------------------------------------------------------------
(* The coins of the engine *)

\* The quantities of one cycle are natural numbers.
LEMMA Quantities ==
  ASSUME TypeOK
  PROVE  /\ \A c \in Cycle :
              /\ world.bought[c] \in Nat /\ world.fee[c] \in Nat /\ world.sold[c] \in Nat
              /\ world.posted[c] \in Nat /\ world.buying[c] \in Nat /\ world.selling[c] \in Nat
              /\ world.flying[c] \in Nat
              /\ order[c].bought \in Nat /\ order[c].sold \in Nat
              /\ order[c].buy \in {"none", "approved", "sent", "final"}
              /\ order[c].sell \in {"none", "sent"}
              /\ order[c].buyId \in BOOLEAN /\ order[c].sellId \in BOOLEAN
              /\ cycle[c].bought \in Nat /\ cycle[c].sold \in Nat /\ cycle[c].owned \in Nat
              /\ cycle[c].claim \in Nat
              /\ paid[c] \in Nat
         /\ world.buys \in Nat /\ world.sells \in Nat /\ world.fees \in Nat /\ world.postedFees \in Nat
         /\ scene.start \in Nat /\ scene.buys \in Nat
         /\ protected \in Nat
         /\ ev.buys \in Nat /\ ev.sells \in Nat /\ ev.fees \in Nat /\ ev.provisional \in Nat
         /\ eng.positions \in Nat /\ eng.available \in Int
<1>1. /\ world \in World /\ order \in [Cycle -> OrderRow] /\ cycle \in [Cycle -> CycleRow]
      /\ paid \in [Cycle -> Nat] /\ protected \in Nat /\ ev \in Evidence /\ eng \in Engine
      /\ scene \in Scene
  BY ScenesAssumption DEF TypeOK
<1>2. ASSUME NEW c \in Cycle
      PROVE  order[c] \in OrderRow /\ cycle[c] \in CycleRow /\ paid[c] \in Nat
  BY <1>1
<1>3. \A c \in Cycle :
              /\ world.bought[c] \in Nat /\ world.fee[c] \in Nat /\ world.sold[c] \in Nat
              /\ world.posted[c] \in Nat /\ world.buying[c] \in Nat /\ world.selling[c] \in Nat
              /\ world.flying[c] \in Nat
  BY <1>1 DEF World
<1>4. \A c \in Cycle :
              /\ order[c].bought \in Nat /\ order[c].sold \in Nat
              /\ order[c].buy \in {"none", "approved", "sent", "final"}
              /\ order[c].sell \in {"none", "sent"}
              /\ order[c].buyId \in BOOLEAN /\ order[c].sellId \in BOOLEAN
  BY <1>2 DEF OrderRow
<1>5. \A c \in Cycle :
              /\ cycle[c].bought \in Nat /\ cycle[c].sold \in Nat /\ cycle[c].owned \in Nat
              /\ cycle[c].claim \in Nat /\ paid[c] \in Nat
  BY <1>2 DEF CycleRow
<1>6. /\ world.buys \in Nat /\ world.sells \in Nat /\ world.fees \in Nat
      /\ world.postedFees \in Nat /\ scene.start \in Nat /\ scene.buys \in Nat
  BY <1>1 DEF World, Scene
<1>7. /\ ev.buys \in Nat /\ ev.sells \in Nat /\ ev.fees \in Nat /\ ev.provisional \in Nat
      /\ eng.positions \in Nat /\ eng.available \in Int
  BY <1>1 DEF Evidence, Engine
<1> QED  BY <1>1, <1>3, <1>4, <1>5, <1>6, <1>7

\* They add up to what the model calls Ours and Held.
LEMMA CoinsAreSums ==
  /\ Ours = OurCoins(world) /\ Held = HeldCoins(world)
  /\ Balance = OwnersNet + OurCoins(world)
<1> DEFINE F == [c \in Cycle |-> world.bought[c] - world.fee[c] - world.sold[c]]
           Fill(h) == [s \in SUBSET Cycle |-> IF s = {} THEN 0 ELSE OurNet(Chosen(s)) + h[s \ {Chosen(s)}]]
<1>1. ASSUME NEW h PROVE Fill(h) = SumStep(F, Cycle, h)
  <2>1. \A s \in SUBSET Cycle : s # {} => F[Chosen(s)] = OurNet(Chosen(s))
    BY DEF Chosen, OurNet
  <2> QED  BY <2>1 DEF SumStep
<1>2. Ours = (CHOOSE h : h = Fill(h))[Cycle]
  BY DEF Ours, MapThenSumSet, MapThenFoldSet, Chosen
<1>3. OurCoins(world) = SumOf(F, Cycle)
  BY DEF OurCoins
<1> HIDE DEF Fill, F
<1>4. (CHOOSE h : h = Fill(h)) = (CHOOSE h : h = SumStep(F, Cycle, h))
  BY <1>1
<1>5. Ours = OurCoins(world)
  BY <1>2, <1>3, <1>4, SumIsStep
<1>6. Held = HeldCoins(world)
  BY TotalIsSum DEF Held, HeldCoins
<1> QED  BY <1>5, <1>6 DEF Balance

LEMMA SolventSells == Solvent => SellsOnlyOwn
BY CoinsAreSums DEF Solvent, SellsOnlyOwn

LEMMA CoinsTypes ==
  ASSUME TypeOK
  PROVE  OurCoins(world) \in Int /\ HeldCoins(world) \in Nat /\ OwnersNet \in Int
<1> DEFINE F == [c \in Cycle |-> world.bought[c] - world.fee[c] - world.sold[c]]
<1>1. \A c \in Cycle : F[c] \in Int /\ world.selling[c] \in Int /\ world.selling[c] >= 0
  BY Quantities
<1>2. OurCoins(world) = SumOf(F, Cycle)
  BY DEF OurCoins
<1> HIDE DEF F
<1>3. OurCoins(world) \in Int
  BY <1>1, <1>2, CyclesAreFinite, SumOfInts
<1>4. HeldCoins(world) \in Int /\ HeldCoins(world) >= 0
  BY <1>1, CyclesAreFinite, NonNegativeSum DEF HeldCoins
<1>5. OwnersNet \in Int
  BY Quantities DEF OwnersNet
<1> QED  BY <1>3, <1>4, <1>5

\* With one cycle they are that cycle's.
LEMMA SingleCoins ==
  ASSUME TypeOK, AccountOK, OrdersOK, Single
  PROVE  /\ 1 \in Cycle
         /\ OurCoins(world) = world.bought[1] - world.fee[1] - world.sold[1]
<1> DEFINE F == [c \in Cycle |-> world.bought[c] - world.fee[c] - world.sold[c]]
           Z == [c \in Cycle |-> 0]
<1>1. 1 \in Cycle
  <2>1. scene \in Scene
    BY ScenesAssumption DEF TypeOK
  <2> QED  BY <2>1 DEF Single, Scene
<1>2. \A c \in Cycle : F[c] \in Int /\ Z[c] \in Int /\ Z[c] = 0
  BY Quantities
<1>3. ASSUME NEW c \in Cycle \ {1} PROVE F[c] = Z[c]
  <2>1. cycle[c].state = "absent" /\ order[c].buy = "none" /\ world.bought[c] = 0
    BY DEF Single, OrdersOK, OrderOK
  <2>2. world.fee[c] \in Nat /\ world.fee[c] <= world.bought[c] /\ world.sold[c] \in Nat
        /\ world.bought[c] \in Nat
    BY Quantities DEF AccountOK
  <2>3. ~(world.sold[c] > 0)
    BY <2>1 DEF OrdersOK, OrderOK
  <2> QED  BY <2>1, <2>2, <2>3
<1>4. F[1] = world.bought[1] - world.fee[1] - world.sold[1] /\ Z[1] = 0
  BY <1>1
<1>5. OurCoins(world) = SumOf(F, Cycle)
  BY DEF OurCoins
<1> HIDE DEF F, Z
<1>6. SumOf(F, Cycle) = SumOf(Z, Cycle) + IF 1 \in Cycle THEN F[1] - Z[1] ELSE 0
  BY <1>2, <1>3, CyclesAreFinite, SumChanges
<1>7. SumOf(Z, Cycle) = 0
  BY <1>2, ZeroTotal, TotalIsSum
<1>8. F[1] \in Int
  BY <1>1, <1>2
<1> QED  BY <1>1, <1>4, <1>5, <1>6, <1>7, <1>8

\* No open order, no coins in one.
LEMMA NothingHeld ==
  ASSUME TypeOK, OrdersOK, ~SymbolPending
  PROVE  /\ \A c \in Cycle : /\ world.selling[c] = 0 /\ world.buying[c] = 0
                             /\ order[c].sell = "none" /\ order[c].sold = world.sold[c]
         /\ HeldCoins(world) = 0
<1>1. ASSUME NEW c \in Cycle
      PROVE  world.selling[c] = 0 /\ world.buying[c] = 0 /\ order[c].sell = "none"
             /\ order[c].sold = world.sold[c]
  <2>1. order[c].sell \in {"none", "sent"} /\ world.selling[c] \in Nat /\ world.buying[c] \in Nat
    BY Quantities
  <2>2. order[c].sell = "none" /\ order[c].buy # "sent"
    BY <2>1 DEF SymbolPending
  <2>3. OrderOK(c)
    BY DEF OrdersOK
  <2> QED  BY <2>1, <2>2, <2>3 DEF OrderOK
<1>2. HeldCoins(world) = 0
  BY <1>1, ZeroTotal, TotalIsSum DEF HeldCoins
<1> QED  BY <1>1, <1>2

\* Before the first buy is sent nothing was filled.
LEMMA NothingBought ==
  ASSUME TypeOK, AccountOK, OrdersOK, ~Covered
  PROVE  /\ eng.pc # "armed"
         /\ \A c \in Cycle : /\ world.bought[c] = 0 /\ world.fee[c] = 0 /\ world.posted[c] = 0
                             /\ world.sold[c] = 0 /\ order[c].buy # "sent"
<1>1. ASSUME NEW c \in Cycle
      PROVE  /\ world.bought[c] = 0 /\ world.fee[c] = 0 /\ world.posted[c] = 0
             /\ world.sold[c] = 0 /\ order[c].buy # "sent"
  <2>1. /\ world.bought[c] \in Nat /\ world.fee[c] \in Nat /\ world.posted[c] \in Nat
        /\ world.sold[c] \in Nat
    BY Quantities
  <2>2. ~(world.bought[c] > 0) /\ order[c].buy # "sent"
    BY DEF Covered
  <2>3. world.posted[c] <= world.fee[c] /\ world.fee[c] <= world.bought[c]
    BY DEF AccountOK
  <2>4. ~(world.sold[c] > 0)
    BY <2>2 DEF OrdersOK, OrderOK
  <2> QED  BY <2>1, <2>2, <2>3, <2>4
<1> QED  BY <1>1 DEF Covered

-----------------------------------------------------------------------------
(* The account moves *)

\* The quantities of cycle c after and before a move of the account.
CycleMoved(c) ==
    /\ world'.bought[c] >= world.bought[c] /\ world'.sold[c] >= world.sold[c]
    /\ world'.posted[c] >= world.posted[c]
    /\ world'.posted[c] <= world'.fee[c] /\ world'.fee[c] <= world'.bought[c]
    /\ world'.bought[c] - world'.fee[c] >= world.bought[c] - world.fee[c]
    /\ world'.flying[c] = 0
    /\ world'.selling[c] <= world.selling[c] /\ world'.buying[c] <= world.buying[c]
    /\ world'.sold[c] + world'.selling[c] <= world.sold[c] + world.selling[c]
    /\ world'.bought[c] # world.bought[c] => world.buying[c] > 0
    /\ world'.sold[c] # world.sold[c] => world.selling[c] > 0

OwnerMoved ==
    /\ world'.buys >= world.buys /\ world'.sells >= world.sells /\ world'.fees >= world.fees
    /\ world'.postedFees >= world.postedFees /\ world'.postedFees <= world'.fees
    /\ world'.fees <= world'.buys /\ world'.buys <= scene.buys
    /\ scene.start + world'.buys - world'.sells - world'.fees >= 0

SameCoins ==
    /\ world'.bought = world.bought /\ world'.fee = world.fee /\ world'.sold = world.sold
    /\ world'.posted = world.posted

SameOwner ==
    /\ world'.buys = world.buys /\ world'.sells = world.sells /\ world'.fees = world.fees
    /\ world'.postedFees = world.postedFees

LEMMA StillMoved ==
  ASSUME TypeOK, AccountOK
  PROVE  /\ SameOwner => OwnerMoved
         /\ \A c \in Cycle :
               SameCoins /\ world'.flying[c] = 0 /\ world'.buying[c] \in {0, world.buying[c]}
                  /\ world'.selling[c] \in {0, world.selling[c]}
               => CycleMoved(c)
<1>1. SameOwner => OwnerMoved
  BY Quantities DEF SameOwner, OwnerMoved, AccountOK, OwnersNet
<1>2. ASSUME NEW c \in Cycle, SameCoins, world'.flying[c] = 0,
             world'.buying[c] \in {0, world.buying[c]},
             world'.selling[c] \in {0, world.selling[c]}
      PROVE  CycleMoved(c)
  <2>1. /\ world.bought[c] \in Nat /\ world.fee[c] \in Nat /\ world.sold[c] \in Nat
        /\ world.posted[c] \in Nat /\ world.buying[c] \in Nat /\ world.selling[c] \in Nat
        /\ world.posted[c] <= world.fee[c] /\ world.fee[c] <= world.bought[c]
    BY Quantities DEF AccountOK
  <2> QED  BY <1>2, <2>1 DEF CycleMoved, SameCoins
<1> QED  BY <1>1, <1>2

LEMMA BuyMoves ==
  ASSUME TypeOK, AccountOK, NEW c \in Cycle, BuyFills(c)
  PROVE  SameOwner /\ \A d \in Cycle : CycleMoved(d)
<1>0. world \in World
  BY DEF TypeOK
<1>1. PICK n \in 1..world.buying[c], x \in {0, 1} :
         /\ x <= 1 - world.fee[c] /\ x < n
         /\ world' = [world EXCEPT !.bought[c] = @ + n, !.buying[c] = @ - n, !.fee[c] = @ + x]
  BY DEF BuyFills
<1>2. /\ world.bought[c] \in Nat /\ world.fee[c] \in Nat /\ world.sold[c] \in Nat
      /\ world.posted[c] \in Nat /\ world.buying[c] \in Nat /\ world.selling[c] \in Nat
      /\ world.posted[c] <= world.fee[c] /\ world.fee[c] <= world.bought[c] /\ world.flying[c] = 0
  BY Quantities DEF AccountOK
<1>3. /\ world'.bought = [world.bought EXCEPT ![c] = world.bought[c] + n]
      /\ world'.buying = [world.buying EXCEPT ![c] = world.buying[c] - n]
      /\ world'.fee = [world.fee EXCEPT ![c] = world.fee[c] + x]
      /\ world'.posted = world.posted /\ world'.sold = world.sold
      /\ world'.selling = world.selling /\ world'.flying = world.flying
      /\ SameOwner
  BY <1>0, <1>1 DEF World, SameOwner
<1>4. CycleMoved(c)
  <2>1. /\ world'.bought[c] = world.bought[c] + n /\ world'.buying[c] = world.buying[c] - n
        /\ world'.fee[c] = world.fee[c] + x
    BY <1>0, <1>3 DEF World
  <2> QED  BY <1>1, <1>2, <1>3, <2>1 DEF CycleMoved
<1>5. ASSUME NEW d \in Cycle, d # c PROVE CycleMoved(d)
  <2>1. /\ world.bought[d] \in Nat /\ world.fee[d] \in Nat /\ world.sold[d] \in Nat
        /\ world.posted[d] \in Nat /\ world.buying[d] \in Nat /\ world.selling[d] \in Nat
        /\ world.posted[d] <= world.fee[d] /\ world.fee[d] <= world.bought[d] /\ world.flying[d] = 0
    BY Quantities DEF AccountOK
  <2>2. /\ world'.bought[d] = world.bought[d] /\ world'.buying[d] = world.buying[d]
        /\ world'.fee[d] = world.fee[d]
    BY <1>0, <1>3, <1>5 DEF World
  <2> QED  BY <1>3, <2>1, <2>2 DEF CycleMoved
<1> QED  BY <1>3, <1>4, <1>5

LEMMA SellMoves ==
  ASSUME TypeOK, AccountOK, NEW c \in Cycle, SellFills(c)
  PROVE  SameOwner /\ \A d \in Cycle : CycleMoved(d)
<1>0. world \in World
  BY DEF TypeOK
<1>1. PICK n \in 1..world.selling[c] :
         world' = [world EXCEPT !.sold[c] = @ + n, !.selling[c] = @ - n]
  BY DEF SellFills
<1>2. /\ world'.sold = [world.sold EXCEPT ![c] = world.sold[c] + n]
      /\ world'.selling = [world.selling EXCEPT ![c] = world.selling[c] - n]
      /\ world'.posted = world.posted /\ world'.bought = world.bought /\ world'.fee = world.fee
      /\ world'.buying = world.buying /\ world'.flying = world.flying
      /\ SameOwner
  BY <1>0, <1>1 DEF World, SameOwner
<1>3. ASSUME NEW d \in Cycle PROVE CycleMoved(d)
  <2>1. /\ world.bought[d] \in Nat /\ world.fee[d] \in Nat /\ world.sold[d] \in Nat
        /\ world.posted[d] \in Nat /\ world.buying[d] \in Nat /\ world.selling[d] \in Nat
        /\ world.posted[d] <= world.fee[d] /\ world.fee[d] <= world.bought[d] /\ world.flying[d] = 0
    BY Quantities DEF AccountOK
  <2>2. CASE d = c
    <3>1. world'.sold[d] = world.sold[d] + n /\ world'.selling[d] = world.selling[d] - n
      BY <1>0, <1>2, <2>2 DEF World
    <3> QED  BY <1>1, <1>2, <2>1, <2>2, <3>1 DEF CycleMoved
  <2>3. CASE d # c
    <3>1. world'.sold[d] = world.sold[d] /\ world'.selling[d] = world.selling[d]
      BY <1>0, <1>2, <2>3 DEF World
    <3> QED  BY <1>1, <1>2, <2>1, <2>3, <3>1 DEF CycleMoved
  <2> QED  BY <2>2, <2>3
<1> QED  BY <1>2, <1>3

LEMMA FeeMoves ==
  ASSUME TypeOK, AccountOK, NEW c \in Cycle, FeePosted(c)
  PROVE  SameOwner /\ \A d \in Cycle : CycleMoved(d)
<1>0. world \in World
  BY DEF TypeOK
<1>1. /\ world'.posted = [world.posted EXCEPT ![c] = world.fee[c]]
      /\ world'.sold = world.sold /\ world'.bought = world.bought /\ world'.fee = world.fee
      /\ world'.buying = world.buying /\ world'.flying = world.flying
      /\ world'.selling = world.selling
      /\ SameOwner
  BY <1>0 DEF World, SameOwner, FeePosted
<1>2. ASSUME NEW d \in Cycle PROVE CycleMoved(d)
  <2>1. /\ world.bought[d] \in Nat /\ world.fee[d] \in Nat /\ world.sold[d] \in Nat
        /\ world.posted[d] \in Nat /\ world.buying[d] \in Nat /\ world.selling[d] \in Nat
        /\ world.posted[d] <= world.fee[d] /\ world.fee[d] <= world.bought[d] /\ world.flying[d] = 0
    BY Quantities DEF AccountOK
  <2>2. world'.posted[d] \in {world.posted[d], world.fee[d]}
    BY <1>0, <1>1 DEF World
  <2> QED  BY <1>1, <2>1, <2>2 DEF CycleMoved
<1> QED  BY <1>1, <1>2

LEMMA EndMoves ==
  ASSUME TypeOK, AccountOK, NEW c \in Cycle, OrderEnds(c)
  PROVE  SameOwner /\ SameCoins /\ \A d \in Cycle : CycleMoved(d)
<1>0. world \in World
  BY DEF TypeOK
<1>1. /\ world'.selling = [world.selling EXCEPT ![c] = 0]
      /\ world'.buying = [world.buying EXCEPT ![c] = 0]
      /\ world'.flying = world.flying /\ SameCoins /\ SameOwner
  BY <1>0 DEF World, SameOwner, SameCoins, OrderEnds
<1>2. ASSUME NEW d \in Cycle PROVE CycleMoved(d)
  <2>1. /\ world'.selling[d] \in {0, world.selling[d]} /\ world'.buying[d] \in {0, world.buying[d]}
        /\ world'.flying[d] = 0
    BY <1>0, <1>1 DEF World, AccountOK
  <2> QED  BY <1>1, <2>1, StillMoved
<1> QED  BY <1>1, <1>2

LEMMA OwnerMoves ==
  ASSUME TypeOK, AccountOK, OwnerBuys \/ OwnerSells \/ OwnersFeePosted
  PROVE  OwnerMoved /\ SameCoins /\ \A d \in Cycle : CycleMoved(d)
<1>0. world \in World
  BY DEF TypeOK
<1>1. /\ world.buys \in Nat /\ world.sells \in Nat /\ world.fees \in Nat
      /\ world.postedFees \in Nat /\ scene.buys \in Nat /\ scene.start \in Nat
      /\ world.postedFees <= world.fees /\ world.fees <= world.buys /\ world.buys <= scene.buys
      /\ scene.start + world.buys - world.sells - world.fees >= 0
  BY Quantities DEF AccountOK, OwnersNet
<1>2. SameCoins /\ world'.flying = world.flying /\ world'.buying = world.buying
      /\ world'.selling = world.selling
  BY <1>0 DEF World, SameCoins, OwnerBuys, OwnerSells, OwnersFeePosted
<1>3. \A d \in Cycle : CycleMoved(d)
  BY <1>2, StillMoved DEF AccountOK
<1>4. CASE OwnerBuys
  <2>1. PICK n \in 1..(scene.buys - world.buys), x \in {0, 1} :
           x < n /\ world' = [world EXCEPT !.buys = @ + n, !.fees = @ + x]
    BY <1>4 DEF OwnerBuys
  <2>2. /\ world'.buys = world.buys + n /\ world'.fees = world.fees + x
        /\ world'.sells = world.sells /\ world'.postedFees = world.postedFees
    BY <1>0, <2>1 DEF World
  <2> QED  BY <1>1, <1>2, <1>3, <2>1, <2>2 DEF OwnerMoved
<1>5. CASE OwnerSells
  <2>1. PICK n \in 1..(scene.sells - world.sells) :
           n <= OwnersNet /\ world' = [world EXCEPT !.sells = @ + n]
    BY <1>5 DEF OwnerSells
  <2>2. /\ world'.buys = world.buys /\ world'.fees = world.fees
        /\ world'.sells = world.sells + n /\ world'.postedFees = world.postedFees
    BY <1>0, <2>1 DEF World
  <2>3. scene.sells \in Nat
    BY ScenesAssumption DEF TypeOK, Scene
  <2> QED  BY <1>1, <1>2, <1>3, <2>1, <2>2, <2>3 DEF OwnerMoved, OwnersNet
<1>6. CASE OwnersFeePosted
  <2>1. /\ world'.buys = world.buys /\ world'.fees = world.fees
        /\ world'.sells = world.sells /\ world'.postedFees = world.fees
    BY <1>0, <1>6 DEF World, OwnersFeePosted
  <2> QED  BY <1>1, <1>2, <1>3, <2>1 DEF OwnerMoved
<1> QED  BY <1>4, <1>5, <1>6

\* Quantities only grow, what is sold comes out of open sells, and while the
\* engine reads, balances stand still.
LEMMA AccountMoves ==
  ASSUME TypeOK, AccountOK, PlainScene, Account
  PROVE  /\ \A d \in Cycle : CycleMoved(d)
         /\ OwnerMoved
         /\ eng.pc = "reading" => SameCoins /\ SameOwner
<1>1. CASE \E c \in Cycle : BuyFills(c) \/ SellFills(c) \/ FeePosted(c)
  <2>1. eng.pc # "reading"
    BY <1>1 DEF PlainScene, Resting, BuyFills, SellFills, FeePosted
  <2> QED  BY <1>1, <2>1, BuyMoves, SellMoves, FeeMoves, StillMoved
<1>2. CASE \E c \in Cycle : OrderEnds(c)
  BY <1>2, EndMoves, StillMoved
<1>3. CASE \E c \in Cycle : Accepted(c)
  <2>1. PICK c \in Cycle : world.flying[c] > 0
    BY <1>3 DEF Accepted
  <2> QED  BY <2>1 DEF AccountOK
<1>4. CASE OwnerBuys \/ OwnerSells \/ OwnersFeePosted
  <2>1. eng.pc # "reading"
    BY <1>4 DEF PlainScene, Resting, OwnerBuys, OwnerSells, OwnersFeePosted
  <2> QED  BY <1>4, <2>1, OwnerMoves
<1> QED  BY <1>1, <1>2, <1>3, <1>4 DEF Account

\* The coins of the engine beside those in its open sells do not shrink.
LEMMA MovedCoins ==
  ASSUME TypeOK, TypeOK', AccountOK, \A c \in Cycle : CycleMoved(c)
  PROVE  /\ Solvent => Solvent'
         /\ (\A c \in Cycle : world.selling[c] = 0) => OurCoins(world') >= OurCoins(world)
         /\ SameCoins => OurCoins(world') = OurCoins(world)
<1> DEFINE F == [c \in Cycle |-> world.bought[c] - world.fee[c] - world.sold[c]]
           G == [c \in Cycle |-> world'.bought[c] - world'.fee[c] - world'.sold[c]]
           H == world.selling
           K == world'.selling
           FK == [c \in Cycle |-> F[c] + K[c]]
           GH == [c \in Cycle |-> G[c] + H[c]]
<1>0. \A c \in Cycle :
         /\ world.bought[c] \in Nat /\ world.fee[c] \in Nat /\ world.sold[c] \in Nat
         /\ world'.bought[c] \in Nat /\ world'.fee[c] \in Nat /\ world'.sold[c] \in Nat
         /\ world.selling[c] \in Nat /\ world'.selling[c] \in Nat
  <2>1. world \in World /\ world' \in World
    BY DEF TypeOK
  <2> QED  BY <2>1 DEF World
<1>1. ASSUME NEW c \in Cycle
      PROVE  /\ F[c] \in Int /\ G[c] \in Int /\ H[c] \in Int /\ K[c] \in Int
             /\ FK[c] \in Int /\ GH[c] \in Int
             /\ FK[c] = F[c] + K[c] /\ GH[c] = G[c] + H[c] /\ FK[c] <= GH[c]
  <2>1. CycleMoved(c)
    OBVIOUS
  <2>2. /\ F[c] = world.bought[c] - world.fee[c] - world.sold[c]
        /\ G[c] = world'.bought[c] - world'.fee[c] - world'.sold[c]
        /\ H[c] = world.selling[c] /\ K[c] = world'.selling[c]
    OBVIOUS
  <2>3. FK[c] = F[c] + K[c] /\ GH[c] = G[c] + H[c]
    OBVIOUS
  <2> HIDE DEF F, G, H, K, FK, GH
  <2> QED  BY <1>0, <2>1, <2>2, <2>3 DEF CycleMoved
<1>2. /\ OurCoins(world) = SumOf(F, Cycle) /\ OurCoins(world') = SumOf(G, Cycle)
      /\ HeldCoins(world) = SumOf(H, Cycle) /\ HeldCoins(world') = SumOf(K, Cycle)
  BY DEF OurCoins, HeldCoins
<1>3. ASSUME \A c \in Cycle : world.selling[c] = 0 PROVE OurCoins(world') >= OurCoins(world)
  <2>1. ASSUME NEW c \in Cycle PROVE F[c] <= G[c]
    <3>1. world.selling[c] = 0 /\ CycleMoved(c)
      BY <1>3
    <3>2. world'.sold[c] = world.sold[c]
      BY <3>1 DEF CycleMoved
    <3> QED  BY <1>0, <3>1, <3>2 DEF CycleMoved
  <2> HIDE DEF F, G, H, K, FK, GH
  <2>2. SumOf(F, Cycle) <= SumOf(G, Cycle)
    BY <1>1, <2>1, CyclesAreFinite, GrowingSum
  <2>3. SumOf(F, Cycle) \in Int /\ SumOf(G, Cycle) \in Int
    BY <1>1, CyclesAreFinite, SumOfInts
  <2> QED  BY <1>2, <2>2, <2>3
<1>4. SameCoins => OurCoins(world') = OurCoins(world)
  BY DEF SameCoins, OurCoins
<1> HIDE DEF F, G, H, K, FK, GH
<1>5. /\ SumOf(FK, Cycle) = SumOf(F, Cycle) + SumOf(K, Cycle)
      /\ SumOf(GH, Cycle) = SumOf(G, Cycle) + SumOf(H, Cycle)
      /\ SumOf(FK, Cycle) <= SumOf(GH, Cycle)
  <2>0. IsFiniteSet(Cycle)
    BY CyclesAreFinite
  <2>1. \A x \in Cycle : F[x] \in Int /\ K[x] \in Int /\ FK[x] = F[x] + K[x]
    BY <1>1
  <2>2. SumOf(FK, Cycle) = SumOf(F, Cycle) + SumOf(K, Cycle)
    BY <2>0, <2>1, SumsAdd
  <2>3. \A x \in Cycle : G[x] \in Int /\ H[x] \in Int /\ GH[x] = G[x] + H[x]
    BY <1>1
  <2>4. SumOf(GH, Cycle) = SumOf(G, Cycle) + SumOf(H, Cycle)
    BY <2>0, <2>3, SumsAdd
  <2>5. SumOf(FK, Cycle) <= SumOf(GH, Cycle)
    BY <1>1, <2>0, GrowingSum
  <2> QED  BY <2>2, <2>4, <2>5
<1>6. /\ SumOf(F, Cycle) \in Int /\ SumOf(G, Cycle) \in Int
      /\ SumOf(H, Cycle) \in Int /\ SumOf(K, Cycle) \in Int
  BY <1>1, CyclesAreFinite, SumOfInts
<1>7. Solvent => Solvent'
  BY <1>2, <1>5, <1>6 DEF Solvent
<1> QED  BY <1>3, <1>4, <1>7

LEMMA AccountCoins ==
  ASSUME OwnershipInv, PlainScene, CoinsOK, Account, TypeOK'
  PROVE  CoinsOK'
<1>0. TypeOK /\ AccountOK /\ OrdersOK /\ Solvent
  BY DEF OwnershipInv, CoinsOK
<1>1. UNCHANGED <<order, acts, paid, cursor, protected, ev, shown, cycle, eng, scene, faults>>
  BY DEF Account, BuyFills, SellFills, OrderEnds, FeePosted, Accepted, OwnerBuys, OwnerSells,
         OwnersFeePosted, durable
<1>2. /\ \A c \in Cycle : CycleMoved(c)
      /\ OwnerMoved
      /\ eng.pc = "reading" => SameCoins /\ SameOwner
  BY <1>0, AccountMoves
<1>3. \A c \in Cycle :
         /\ world.bought[c] \in Nat /\ world.fee[c] \in Nat /\ world.sold[c] \in Nat
         /\ world.posted[c] \in Nat /\ world.buying[c] \in Nat /\ world.selling[c] \in Nat
         /\ world'.bought[c] \in Nat /\ world'.fee[c] \in Nat /\ world'.sold[c] \in Nat
         /\ world'.posted[c] \in Nat /\ world'.buying[c] \in Nat /\ world'.selling[c] \in Nat
         /\ order[c].bought \in Nat /\ order[c].sold \in Nat /\ paid[c] \in Nat
         /\ order[c].sell \in {"none", "sent"}
  <2>1. world' \in World
    BY DEF TypeOK
  <2> QED  BY <1>0, <2>1, Quantities DEF World
<1>4. /\ world.buys \in Nat /\ world.sells \in Nat /\ world.fees \in Nat /\ world.postedFees \in Nat
      /\ world'.buys \in Nat /\ world'.sells \in Nat /\ world'.fees \in Nat
      /\ world'.postedFees \in Nat
  <2>1. world' \in World
    BY DEF TypeOK
  <2> QED  BY <1>0, <2>1, Quantities DEF World
<1>5. AccountOK'
  BY <1>1, <1>2 DEF AccountOK, OwnersNet, CycleMoved, OwnerMoved
<1>6. /\ Solvent'
      /\ (\A c \in Cycle : world.selling[c] = 0) => OurCoins(world') >= OurCoins(world)
      /\ SameCoins => OurCoins(world') = OurCoins(world)
  BY <1>0, <1>2, MovedCoins
<1>7. OrdersOK'
  <2>1. ASSUME NEW c \in Cycle PROVE OrderOK(c)'
    <3>1. OrderOK(c) /\ CycleMoved(c)
      BY <1>0, <1>2 DEF OrdersOK
    <3>2. order[c].sell = "none" => world'.sold[c] = world.sold[c]
      BY <1>3, <3>1 DEF OrderOK, CycleMoved
    <3>3. order[c].buy # "sent" => world'.bought[c] = world.bought[c]
      BY <1>3, <3>1 DEF OrderOK, CycleMoved
    <3>4. world'.sold[c] > 0 => world.sold[c] > 0 \/ order[c].sell = "sent"
      BY <1>3, <3>1 DEF OrderOK, CycleMoved
    <3>5. /\ world'.selling[c] > 0 => order[c].sell = "sent"
          /\ world'.buying[c] > 0 => order[c].buy = "sent"
          /\ order[c].sold <= world'.sold[c]
          /\ world.bought[c] > 0 => world'.bought[c] > 0
      BY <1>3, <3>1 DEF OrderOK, CycleMoved
    <3> QED  BY <1>1, <3>1, <3>2, <3>3, <3>4, <3>5 DEF OrderOK, Single
  <2> QED  BY <2>1 DEF OrdersOK
<1>8. NamedOK' /\ FreshOK' /\ PurposeOK'
  BY <1>1 DEF CoinsOK, NamedOK, FreshOK, PurposeOK, Fresh
<1>9. ASSUME NEW f \in FeedRecord, UpTo(f, Feed) PROVE UpTo(f, Feed')
  <2>1. /\ f.buys \in Nat /\ f.sells \in Nat /\ f.fees \in Nat
        /\ \A c \in Cycle : f.bought[c] \in Nat /\ f.sold[c] \in Nat /\ f.posted[c] \in Nat
    BY DEF FeedRecord
  <2>2. /\ f.buys <= world'.buys /\ f.sells <= world'.sells /\ f.fees <= world'.postedFees
    BY <1>2, <1>4, <1>9, <2>1 DEF UpTo, Feed, OwnerMoved
  <2>3. ASSUME NEW c \in Cycle
        PROVE  f.bought[c] <= world'.bought[c] /\ f.sold[c] <= world'.sold[c]
               /\ f.posted[c] <= world'.posted[c]
    <3>1. CycleMoved(c) /\ f.bought[c] <= world.bought[c] /\ f.sold[c] <= world.sold[c]
          /\ f.posted[c] <= world.posted[c]
      BY <1>2, <1>9 DEF UpTo, Feed
    <3> QED  BY <1>3, <2>1, <3>1 DEF CycleMoved
  <2> QED  BY <2>2, <2>3 DEF UpTo, Feed
<1>10. FeedsOK' /\ SeenOK'
  <2>1. acts \in FeedRecord /\ eng.seen \in FeedRecord /\ cursor.until \in FeedRecord
    BY <1>0 DEF TypeOK, Engine, Cursor
  <2>2. UpTo(acts, Feed') /\ UpTo(eng.seen, Feed') /\ (cursor.open => UpTo(cursor.until, Feed'))
    BY <1>9, <2>1 DEF CoinsOK, FeedsOK, SeenOK
  <2>3. ASSUME NEW c \in Cycle PROVE paid[c] <= world'.posted[c]
    <3>1. CycleMoved(c) /\ paid[c] <= world.posted[c]
      BY <1>2 DEF CoinsOK, FeedsOK
    <3> QED  BY <1>3, <3>1 DEF CycleMoved
  <2>4. SeenOK'
    BY <1>1, <2>2 DEF CoinsOK, SeenOK
  <2>5. FeedsOK'
    BY <1>1, <2>2, <2>3 DEF CoinsOK, FeedsOK
  <2> QED  BY <2>4, <2>5
<1>11. (Covered' <=> Covered)
  <2>1. ASSUME NEW c \in Cycle
        PROVE  order[c].buy = "sent" \/ world'.bought[c] > 0
               <=> order[c].buy = "sent" \/ world.bought[c] > 0
    <3>1. CycleMoved(c) /\ OrderOK(c)
      BY <1>0, <1>2 DEF OrdersOK
    <3> QED  BY <1>3, <3>1 DEF CycleMoved, OrderOK
  <2> QED  BY <1>1, <2>1 DEF Covered
<1>12. BuyingOK'
  BY <1>1, <1>2, <1>11 DEF CoinsOK, BuyingOK, SameOwner, Active
<1>13. ExitOK'
  <2>1. eng.purpose = "fence" => OurCoins(world') >= OurCoins(world)
    <3>1. ASSUME eng.purpose = "fence" PROVE \A c \in Cycle : world.selling[c] = 0
      <4>1. ~SymbolPending
        BY <3>1 DEF CoinsOK, ExitOK
      <4> QED  BY <1>0, <4>1, NothingHeld
    <3> QED  BY <1>6, <3>1
  <2>2. OurCoins(world) \in Int /\ OurCoins(world') \in Int
    <3>1. \A c \in Cycle : /\ world.bought[c] - world.fee[c] - world.sold[c] \in Int
                           /\ world'.bought[c] - world'.fee[c] - world'.sold[c] \in Int
      BY <1>3
    <3> DEFINE F == [c \in Cycle |-> world.bought[c] - world.fee[c] - world.sold[c]]
               G == [c \in Cycle |-> world'.bought[c] - world'.fee[c] - world'.sold[c]]
    <3>2. \A c \in Cycle : F[c] \in Int /\ G[c] \in Int
      BY <3>1
    <3>3. OurCoins(world) = SumOf(F, Cycle) /\ OurCoins(world') = SumOf(G, Cycle)
      BY DEF OurCoins
    <3> HIDE DEF F, G
    <3> QED  BY <3>2, <3>3, CyclesAreFinite, SumOfInts
  <2>3. /\ eng.available \in Int /\ scene.start + eng.seen.buys - eng.seen.sells \in Int
    <3>1. eng.seen \in FeedRecord
      BY <1>0 DEF TypeOK, Engine
    <3> QED  BY <1>0, <3>1, Quantities DEF FeedRecord
  <2>4. ASSUME eng.pc = "posting"
        PROVE  eng.available <= scene.start + eng.seen.buys - eng.seen.sells + OurCoins(world')
    <3>1. /\ eng.available <= scene.start + eng.seen.buys - eng.seen.sells + OurCoins(world)
          /\ OurCoins(world') >= OurCoins(world)
      BY <2>1, <2>4 DEF CoinsOK, PurposeOK, ExitOK
    <3> QED  BY <2>2, <2>3, <3>1
  <2>5. (SymbolPending' <=> SymbolPending) /\ Active' = Active
    BY <1>1 DEF SymbolPending, Active
  <2> QED  BY <1>1, <2>4, <2>5 DEF CoinsOK, ExitOK
<1>14. ReadingOK'
  BY <1>1, <1>2, <1>6 DEF CoinsOK, ReadingOK, OwnersNet, SameOwner
<1>15. Books'
  <2>1. PICK k0 \in Nat, k \in Nat, n \in Nat : BooksOK(k0, k, n)
    BY DEF CoinsOK, Books
  <2>2. world.fees <= world'.fees /\ (Fresh' <=> Fresh)
    BY <1>1, <1>2, <1>4 DEF OwnerMoved, Fresh
  <2>3. Single => world'.bought[1] - world'.fee[1] >= world.bought[1] - world.fee[1]
    <3>1. Single => 1 \in Cycle
      BY <1>0, SingleCoins
    <3> QED  BY <1>2, <3>1 DEF CycleMoved
  <2>4. BooksOK(k0, k, n)'
    <3>1. k0 <= world'.fees /\ (Fresh => k <= world'.fees)
      BY <1>4, <2>1, <2>2 DEF BooksOK
    <3>2. Single => /\ 1 \in Cycle /\ cycle[1].owned \in Nat /\ cycle[1].sold \in Nat
                    /\ eng.seen.sold[1] \in Nat
                    /\ world'.bought[1] \in Nat /\ world'.fee[1] \in Nat
                    /\ world.bought[1] \in Nat /\ world.fee[1] \in Nat
      <4>1. Single => 1 \in Cycle
        BY <1>0, SingleCoins
      <4>2. eng.seen \in FeedRecord
        BY <1>0 DEF TypeOK, Engine
      <4> QED  BY <1>0, <1>3, <4>1, <4>2, Quantities DEF FeedRecord
    <3>3. Single => cycle[1].owned + cycle[1].sold <= world'.bought[1] - world'.fee[1]
      BY <2>1, <2>3, <3>2 DEF BooksOK
    <3>4. Fresh /\ Single => n + eng.seen.sold[1] <= world'.bought[1] - world'.fee[1]
      BY <2>1, <2>3, <3>2 DEF BooksOK
    <3> QED  BY <1>1, <1>11, <2>1, <2>2, <3>1, <3>3, <3>4 DEF BooksOK, Single
  <2> QED  BY <2>4 DEF Books
<1> QED  BY <1>5, <1>6, <1>7, <1>8, <1>10, <1>12, <1>13, <1>14, <1>15 DEF CoinsOK

-----------------------------------------------------------------------------
(* The memory of the engine *)

\* Nothing was read, and the coins are as they were.
LEMMA BooksStay ==
  ASSUME Books, world'.fees = world.fees, world'.bought = world.bought, world'.fee = world.fee,
         UNCHANGED <<protected, ev, scene>>,
         Single => cycle'[1].owned = cycle[1].owned /\ cycle'[1].sold = cycle[1].sold,
         Fresh' => Fresh /\ eng'.positions = eng.positions /\ eng'.seen = eng.seen,
         Covered' => Covered,
         Fresh' /\ ~Covered' /\ eng'.purpose = "buy" => ~Covered /\ eng.purpose = "buy"
  PROVE  Books'
<1>1. PICK k0 \in Nat, k \in Nat, n \in Nat : BooksOK(k0, k, n)
  BY DEF Books
<1>2. BooksOK(k0, k, n)'
  BY <1>1 DEF BooksOK, Single
<1> QED  BY <1>2 DEF Books

\* A read of positions is one of the owner's coins and the engine's.
LEMMA ReadCoins ==
  ASSUME MinOrder = 1, TypeOK, CoinsOK
  PROVE  /\ Tradable(Balance, Balance) = OwnersNet + OurCoins(world)
         /\ Tradable(Balance - Held, Balance) <= OwnersNet + OurCoins(world)
<1>1. /\ Balance = OwnersNet + OurCoins(world) /\ Held = HeldCoins(world)
      /\ OurCoins(world) \in Int /\ HeldCoins(world) \in Nat /\ OwnersNet \in Int
  BY CoinsAreSums, CoinsTypes
<1>2. OwnersNet >= 0 /\ HeldCoins(world) <= OurCoins(world)
  BY DEF CoinsOK, AccountOK, Solvent
<1> QED  BY <1>1, <1>2 DEF Tradable

LEMMA BeginRead ==
  ASSUME MinOrder = 1, TypeOK, CoinsOK, NEW purpose, NEW c, Read(purpose, c)
  PROVE  /\ eng'.pc = "reading" /\ eng'.purpose = purpose /\ eng'.c = c
         /\ eng'.seen = eng.seen /\ eng'.dirty = eng.dirty /\ eng'.current = eng.current
         /\ eng'.affected = eng.affected /\ eng'.quantity = eng.quantity
         /\ eng'.positions = OwnersNet + OurCoins(world)
         /\ eng'.available <= OwnersNet + OurCoins(world)
<1> DEFINE p == Tradable(Balance, Balance)
           a == Tradable(Balance - Held, Balance)
<1>1. p = OwnersNet + OurCoins(world) /\ a <= OwnersNet + OurCoins(world)
  BY ReadCoins
<1>2. eng' = [eng EXCEPT !.pc = "reading", !.purpose = purpose, !.c = c, !.positions = p,
                         !.available = a]
  BY DEF Read
<1>3. eng \in Engine
  BY DEF TypeOK
<1> HIDE DEF p, a
<1> QED  BY <1>1, <1>2, <1>3 DEF Engine

LEMMA ReturnFields ==
  ASSUME eng \in Engine
  PROVE  /\ Return.pc = "idle" /\ Return.purpose = "step" /\ Return.c = NoOne
         /\ Return.current = FALSE /\ Return.affected = {} /\ Return.quantity = 0
         /\ Return.positions = eng.positions /\ Return.available = eng.available
         /\ Return.seen = eng.seen /\ Return.dirty = eng.dirty
BY DEF Return, Engine

\* The engine looks its orders up before it reads.
LEMMA LookedUpNames ==
  ASSUME PlainScene, AccountOK, LookedUp, TypeOK
  PROVE  \A c \in Cycle : /\ order[c].buy = "sent" => order[c].buyId
                          /\ order[c].sell = "sent" => order[c].sellId
<1>1. "late_answer" \notin scene.troubles
  BY DEF PlainScene
<1>2. \A c \in Cycle : ~(world.flying[c] > 0)
  BY DEF AccountOK
<1> QED  BY <1>1, <1>2 DEF LookedUp

\* What does not depend on the memory of the engine stays.
LEMMA MemoryFrame ==
  ASSUME CoinsOK,
         UNCHANGED <<world, order, acts, paid, cursor, protected, ev, shown, cycle, scene>>,
         NamedOK', SeenOK', FreshOK', PurposeOK', BuyingOK', ExitOK', ReadingOK', Books'
  PROVE  CoinsOK'
<1>1. AccountOK' /\ Solvent'
  BY DEF CoinsOK, AccountOK, Solvent, OwnersNet
<1>2. OrdersOK'
  BY DEF CoinsOK, OrdersOK, OrderOK, Single
<1>3. Feed' = Feed
  BY DEF Feed
<1>4. FeedsOK'
  BY <1>3 DEF CoinsOK, FeedsOK
<1> QED  BY <1>1, <1>2, <1>4 DEF CoinsOK

\* Steps that read nothing and go on with what was read.
LEMMA GoOnCoins ==
  ASSUME OwnershipInv, PlainScene, CoinsOK,
         UNCHANGED <<world, order, acts, paid, cursor, protected, ev, shown, cycle, scene>>,
         eng'.seen = eng.seen, eng'.positions = eng.positions,
         Fresh' => Fresh, Covered' => Covered,
         Fresh' /\ ~Covered' /\ eng'.purpose = "buy" => ~Covered /\ eng.purpose = "buy",
         NamedOK', PurposeOK', BuyingOK', ExitOK', ReadingOK'
  PROVE  CoinsOK'
<1>1. Feed' = Feed
  BY DEF Feed
<1>2. SeenOK'
  BY <1>1 DEF CoinsOK, SeenOK
<1>3. FreshOK'
  BY DEF CoinsOK, FreshOK
<1>4. Books'
  BY BooksStay DEF CoinsOK
<1> QED  BY <1>2, <1>3, <1>4, MemoryFrame

LEMMA RestartCoins ==
  ASSUME OwnershipInv, PlainScene, CoinsOK, Restart
  PROVE  CoinsOK'
<1>0. eng \in Engine
  BY DEF OwnershipInv, TypeOK
<1>1. /\ UNCHANGED <<world, order, acts, paid, cursor, protected, ev, shown, cycle, scene>>
      /\ eng' = [eng EXCEPT !.pc = "idle"] /\ eng.pc = "down"
  BY DEF Restart, durable
<1>2. /\ eng'.pc = "idle" /\ eng'.seen = eng.seen /\ eng'.positions = eng.positions
      /\ eng'.dirty = eng.dirty /\ eng'.purpose = eng.purpose /\ eng'.current = eng.current
      /\ eng'.affected = eng.affected
  BY <1>0, <1>1 DEF Engine
<1>3. eng.dirty /\ ~eng.current /\ eng.affected = {} /\ eng.purpose = "step"
  BY <1>1 DEF CoinsOK, PurposeOK
<1>4. ~Fresh' /\ (Covered' => Covered)
  BY <1>1, <1>2, <1>3 DEF Fresh, Covered
<1>5. NamedOK' /\ PurposeOK' /\ BuyingOK' /\ ExitOK' /\ ReadingOK'
  BY <1>2, <1>3 DEF NamedOK, PurposeOK, BuyingOK, ExitOK, ReadingOK
<1> QED  BY <1>1, <1>2, <1>4, <1>5, GoOnCoins

LEMMA CrashCoins ==
  ASSUME OwnershipInv, PlainScene, CoinsOK, Crash
  PROVE  CoinsOK'
<1>0. TypeOK /\ acts \in FeedRecord /\ cursor.until \in FeedRecord /\ Feed \in FeedRecord
  BY FeedType DEF OwnershipInv, TypeOK, Cursor
<1>1. /\ UNCHANGED <<world, order, acts, paid, cursor, protected, ev, shown, cycle, scene>>
      /\ eng' = Off
  BY DEF Crash, durable
<1>2. /\ eng'.pc = "down" /\ eng'.seen = NoFeed /\ eng'.dirty = TRUE /\ eng'.purpose = "step"
      /\ eng'.current = FALSE /\ eng'.affected = {}
  BY <1>1 DEF Off
<1>3. ~Fresh' /\ (Covered' => Covered)
  BY <1>1, <1>2 DEF Fresh, Covered
<1>4. NamedOK' /\ PurposeOK' /\ BuyingOK' /\ ExitOK' /\ ReadingOK' /\ FreshOK'
  BY <1>2, <1>3 DEF NamedOK, PurposeOK, BuyingOK, ExitOK, ReadingOK, FreshOK
<1>5. \A f \in FeedRecord : UpTo(NoFeed, f)
  <2>1. /\ NoFeed.buys = 0 /\ NoFeed.sells = 0 /\ NoFeed.fees = 0
        /\ \A c \in Cycle : NoFeed.bought[c] = 0 /\ NoFeed.sold[c] = 0 /\ NoFeed.posted[c] = 0
    BY DEF NoFeed, Zero
  <2> QED  BY <2>1 DEF UpTo, FeedRecord
<1>6. SeenOK'
  <2>1. Feed' = Feed
    BY <1>1 DEF Feed
  <2> QED  BY <1>0, <1>1, <1>2, <1>5, <2>1 DEF SeenOK
<1>7. Books'
  BY <1>1, <1>3, BooksStay DEF CoinsOK
<1> QED  BY <1>1, <1>4, <1>6, <1>7, MemoryFrame

\* A step, a reconciliation or an exit begins with a read.
LEMMA BeginCoins ==
  ASSUME MinOrder = 1, OwnershipInv, PlainScene, CoinsOK,
         BeginStep \/ BeginReconcile \/ \E c \in Cycle : BeginExit(c)
  PROVE  CoinsOK'
<1>0. TypeOK /\ eng \in Engine
  BY DEF OwnershipInv, TypeOK
<1>1. /\ UNCHANGED <<world, order, acts, paid, cursor, protected, ev, shown, cycle, scene>>
      /\ eng.pc = "idle" /\ LookedUp
  BY DEF BeginStep, BeginReconcile, BeginExit, durable, Idle
<1>2. /\ eng'.pc = "reading" /\ eng'.purpose \in {"step", "reconcile", "exit"}
      /\ eng'.purpose = "exit" => eng'.c \in Active
      /\ eng'.seen = eng.seen /\ eng'.dirty = eng.dirty /\ eng'.current = eng.current
      /\ eng'.affected = eng.affected
      /\ eng'.positions = OwnersNet + OurCoins(world)
      /\ eng'.available <= OwnersNet + OurCoins(world)
  <2>1. CASE BeginStep
    <3>1. Read("step", NoOne)
      BY <2>1 DEF BeginStep
    <3> QED  BY <1>0, <3>1, BeginRead
  <2>2. CASE BeginReconcile
    <3>1. Read("reconcile", NoOne)
      BY <2>2 DEF BeginReconcile
    <3> QED  BY <1>0, <3>1, BeginRead
  <2>3. ASSUME NEW c \in Cycle, BeginExit(c)
        PROVE  /\ Read("exit", c) /\ c \in Active
    BY <2>3 DEF BeginExit
  <2> QED  BY <1>0, <2>1, <2>2, <2>3, BeginRead
<1>3. ~Fresh' /\ (Covered' => Covered)
  BY <1>1, <1>2 DEF Fresh, Covered
<1>4. NamedOK'
  BY <1>0, <1>1, LookedUpNames DEF CoinsOK, NamedOK
<1>5. PurposeOK' /\ BuyingOK'
  BY <1>1, <1>2 DEF CoinsOK, PurposeOK, BuyingOK
<1>6. ExitOK'
  <2>1. Active' = Active
    BY <1>1 DEF Active
  <2>2. eng'.purpose = "exit" => eng'.c \in Cycle
    BY <1>2 DEF Active
  <2> QED  BY <1>1, <1>2, <2>1, <2>2 DEF ExitOK
<1>7. ReadingOK'
  BY <1>1, <1>2 DEF ReadingOK, OwnersNet
<1>8. FreshOK' /\ SeenOK'
  <2>1. Feed' = Feed
    BY <1>1 DEF Feed
  <2> QED  BY <1>1, <1>2, <1>3, <2>1 DEF CoinsOK, FreshOK, SeenOK
<1>9. Books'
  BY <1>1, <1>3, BooksStay DEF CoinsOK
<1> QED  BY <1>1, <1>4, <1>5, <1>6, <1>7, <1>8, <1>9, MemoryFrame

LEMMA GoesOnCoins ==
  ASSUME OwnershipInv, PlainScene, CoinsOK, BeginWithoutRead \/ BeginSync \/ NextStep \/ RefuseSell
  PROVE  CoinsOK'
<1>0. TypeOK /\ eng \in Engine
  BY DEF OwnershipInv, TypeOK
<1>1. UNCHANGED <<world, order, acts, paid, cursor, protected, ev, shown, cycle, scene>>
  BY DEF BeginWithoutRead, BeginSync, NextStep, RefuseSell, durable
<1>a. CASE BeginWithoutRead
  <2>1. /\ eng.pc = "idle" /\ LookedUp /\ eng'.pc = "refresh" /\ eng'.seen = eng.seen
        /\ eng'.positions = eng.positions /\ eng'.dirty = eng.dirty /\ eng'.purpose = eng.purpose
        /\ eng'.current = eng.current /\ eng'.affected = eng.affected
    BY <1>0, <1>a DEF BeginWithoutRead, Idle, Engine
  <2>2. (Fresh' => Fresh) /\ (Covered' => Covered) /\ eng.purpose = "step"
    BY <1>1, <2>1 DEF Fresh, Covered, CoinsOK, PurposeOK
  <2>3. NamedOK'
    BY <1>0, <1>1, <2>1, LookedUpNames DEF CoinsOK, NamedOK
  <2>4. PurposeOK' /\ BuyingOK' /\ ExitOK' /\ ReadingOK'
    BY <2>1, <2>2 DEF PurposeOK, BuyingOK, ExitOK, ReadingOK
  <2> QED  BY <1>1, <2>1, <2>2, <2>3, <2>4, GoOnCoins
<1>b. CASE BeginSync
  <2>1. /\ eng.pc = "refresh" /\ eng'.pc = "syncing" /\ eng'.seen = eng.seen
        /\ eng'.positions = eng.positions /\ eng'.dirty = eng.dirty /\ eng'.purpose = eng.purpose
        /\ eng'.current = eng.current /\ eng'.affected = eng.affected /\ eng'.c = eng.c
    BY <1>0, <1>b DEF BeginSync, Engine
  <2>2. (Fresh' => Fresh) /\ (Covered' <=> Covered) /\ Active' = Active
    BY <1>1, <2>1 DEF Fresh, Covered, Active
  <2>3. NamedOK' /\ PurposeOK' /\ ReadingOK'
    BY <1>1, <2>1 DEF CoinsOK, NamedOK, PurposeOK, ReadingOK
  <2>4. BuyingOK'
    BY <1>1, <2>1, <2>2 DEF CoinsOK, BuyingOK
  <2>5. ExitOK'
    BY <1>1, <2>1, <2>2 DEF CoinsOK, PurposeOK, ExitOK
  <2> QED  BY <1>1, <2>1, <2>2, <2>3, <2>4, <2>5, GoOnCoins
<1>c. CASE NextStep \/ RefuseSell
  <2>1. /\ eng'.pc = "idle" /\ eng'.seen = eng.seen /\ eng'.positions = eng.positions
        /\ eng'.dirty = eng.dirty /\ eng'.purpose = "step" /\ eng'.current = FALSE
        /\ eng'.affected = {} /\ eng.pc \in {"idle", "posting"}
    <3>1. CASE NextStep
      <4>1. /\ eng.pc = "idle" /\ eng'.pc = eng.pc /\ eng'.seen = eng.seen
            /\ eng'.positions = eng.positions
            /\ eng'.dirty = eng.dirty /\ eng'.purpose = eng.purpose /\ eng'.current = eng.current
            /\ eng'.affected = eng.affected
        BY <1>0, <3>1 DEF NextStep, Idle, Engine
      <4>2. ~eng.current /\ eng.current \in BOOLEAN
        BY <1>0, <4>1 DEF CoinsOK, PurposeOK, Engine
      <4> QED  BY <4>1, <4>2 DEF CoinsOK, PurposeOK
    <3>2. CASE RefuseSell
      BY <1>0, <3>2, ReturnFields DEF RefuseSell
    <3> QED  BY <1>c, <3>1, <3>2
  <2>2. (Fresh' => Fresh) /\ (Covered' => Covered)
    BY <1>1, <2>1 DEF Fresh, Covered
  <2>3. NamedOK' /\ PurposeOK' /\ BuyingOK' /\ ExitOK' /\ ReadingOK'
    BY <2>1 DEF NamedOK, PurposeOK, BuyingOK, ExitOK, ReadingOK
  <2> QED  BY <1>1, <2>1, <2>2, <2>3, GoOnCoins
<1> QED  BY <1>a, <1>b, <1>c

\* Outdated positions are read again.
LEMMA ReadAgainCoins ==
  ASSUME MinOrder = 1, OwnershipInv, PlainScene, CoinsOK, ReadAgain
  PROVE  CoinsOK'
<1>0. TypeOK /\ eng \in Engine
  BY DEF OwnershipInv, TypeOK
<1>1. /\ UNCHANGED <<world, order, acts, paid, cursor, protected, ev, shown, cycle, scene>>
      /\ eng.pc = "refresh" /\ eng.dirty /\ Read(eng.purpose, eng.c)
  BY DEF ReadAgain, durable
<1>2. /\ eng'.pc = "reading" /\ eng'.purpose = eng.purpose /\ eng'.c = eng.c
      /\ eng'.seen = eng.seen /\ eng'.dirty = eng.dirty
      /\ eng'.positions = OwnersNet + OurCoins(world)
      /\ eng'.available <= OwnersNet + OurCoins(world)
  BY <1>0, <1>1, BeginRead
<1>3. eng.purpose \notin {"buy", "fence"}
  BY <1>1 DEF CoinsOK, BuyingOK, PurposeOK
<1>4. ~Fresh' /\ (Covered' => Covered) /\ Active' = Active
  BY <1>1, <1>2 DEF Fresh, Covered, Active
<1>5. NamedOK' /\ PurposeOK' /\ BuyingOK' /\ ReadingOK'
  BY <1>1, <1>2, <1>3 DEF CoinsOK, NamedOK, PurposeOK, BuyingOK, ReadingOK, OwnersNet
<1>6. ExitOK'
  BY <1>1, <1>2, <1>3, <1>4 DEF CoinsOK, ExitOK
<1>7. FreshOK' /\ SeenOK'
  <2>1. Feed' = Feed
    BY <1>1 DEF Feed
  <2> QED  BY <1>1, <1>2, <1>4, <2>1 DEF CoinsOK, FreshOK, SeenOK
<1>8. Books'
  BY <1>1, <1>4, BooksStay DEF CoinsOK
<1> QED  BY <1>1, <1>5, <1>6, <1>7, <1>8, MemoryFrame

\* The quantity of an exit is decided, and its fence reads once more.
LEMMA ReserveCoins ==
  ASSUME MinOrder = 1, OwnershipInv, PlainScene, CoinsOK, ReserveExit
  PROVE  CoinsOK'
<1>0. TypeOK /\ eng \in Engine
  BY DEF OwnershipInv, TypeOK
<1> DEFINE q == Lesser(cycle[eng.c].owned, AtLeast0(eng.available - protected))
           p == Tradable(Balance, Balance)
           a == Tradable(Balance - Held, Balance)
<1>1. /\ UNCHANGED <<world, order, acts, paid, cursor, protected, ev, shown, cycle, scene>>
      /\ eng.pc = "exiting"
      /\ \/ /\ q >= MinOrder /\ ~SymbolPending
            /\ eng' = [eng EXCEPT !.pc = "reading", !.purpose = "fence", !.quantity = q,
                                  !.positions = p, !.available = a]
         \/ eng' = Return
  BY DEF ReserveExit, durable
<1>2. p = OwnersNet + OurCoins(world) /\ a <= OwnersNet + OurCoins(world)
  BY <1>0, ReadCoins
<1> HIDE DEF q, p, a
<1>3. eng.purpose = "exit"
  BY <1>1 DEF CoinsOK, PurposeOK
<1>4. CASE eng' = Return
  <2>1. /\ eng'.pc = "idle" /\ eng'.seen = eng.seen /\ eng'.positions = eng.positions
        /\ eng'.dirty = eng.dirty /\ eng'.purpose = "step" /\ eng'.current = FALSE
        /\ eng'.affected = {}
    BY <1>0, <1>4, ReturnFields
  <2>2. (Fresh' => Fresh) /\ (Covered' => Covered)
    BY <1>1, <2>1 DEF Fresh, Covered
  <2>3. NamedOK' /\ PurposeOK' /\ BuyingOK' /\ ExitOK' /\ ReadingOK'
    BY <2>1 DEF NamedOK, PurposeOK, BuyingOK, ExitOK, ReadingOK
  <2> QED  BY <1>1, <2>1, <2>2, <2>3, GoOnCoins
<1>5. CASE /\ q >= MinOrder /\ ~SymbolPending
           /\ eng' = [eng EXCEPT !.pc = "reading", !.purpose = "fence", !.quantity = q,
                                 !.positions = p, !.available = a]
  <2>1. /\ eng'.pc = "reading" /\ eng'.purpose = "fence" /\ eng'.quantity = q
        /\ eng'.positions = p /\ eng'.available = a /\ eng'.seen = eng.seen
        /\ eng'.dirty = eng.dirty /\ eng'.c = eng.c
    BY <1>0, <1>5 DEF Engine
  <2>2. ~Fresh' /\ (Covered' => Covered) /\ (SymbolPending' <=> SymbolPending)
    BY <1>1, <2>1 DEF Fresh, Covered, SymbolPending
  <2>3. NamedOK' /\ PurposeOK' /\ BuyingOK' /\ ReadingOK'
    BY <1>1, <1>2, <2>1 DEF CoinsOK, NamedOK, PurposeOK, BuyingOK, ReadingOK, OwnersNet
  <2>4. ExitOK'
    BY <1>1, <1>3, <1>5, <2>1, <2>2 DEF CoinsOK, ExitOK
  <2>5. FreshOK' /\ SeenOK'
    <3>1. Feed' = Feed
      BY <1>1 DEF Feed
    <3> QED  BY <1>1, <2>1, <2>2, <3>1 DEF CoinsOK, FreshOK, SeenOK
  <2>6. Books'
    BY <1>1, <2>2, BooksStay DEF CoinsOK
  <2> QED  BY <1>1, <2>3, <2>4, <2>5, <2>6, MemoryFrame
<1> QED  BY <1>1, <1>4, <1>5

\* The time of the positions: from here on the feed says what they show.
LEMMA StampCoins ==
  ASSUME OwnershipInv, PlainScene, CoinsOK, Stamp
  PROVE  CoinsOK'
<1>0. /\ TypeOK /\ eng \in Engine /\ cursor \in Cursor /\ acts \in FeedRecord /\ Feed \in FeedRecord
      /\ AccountOK /\ OrdersOK
  BY FeedType DEF OwnershipInv, TypeOK, CoinsOK
<1>1. /\ UNCHANGED <<world, order, acts, paid, protected, ev, shown, cycle, scene>>
      /\ eng.pc = "reading"
      /\ cursor' = [cursor EXCEPT !.covers = FALSE, !.willCover = FALSE]
  BY DEF Stamp
<1>2. /\ eng'.pc = (IF eng.purpose = "reconcile" THEN "syncing"
                    ELSE IF eng.purpose = "fence" THEN "posting" ELSE "refresh")
      /\ eng'.seen = Feed /\ eng'.dirty = FALSE /\ eng'.purpose = eng.purpose
      /\ eng'.current = eng.current /\ eng'.affected = eng.affected /\ eng'.c = eng.c
      /\ eng'.positions = eng.positions /\ eng'.available = eng.available
      /\ eng'.quantity = eng.quantity
  <2> DEFINE pc == CASE eng.purpose = "reconcile" -> "syncing"
                     [] eng.purpose = "fence" -> "posting"
                     [] OTHER -> "refresh"
  <2>1. pc = IF eng.purpose = "reconcile" THEN "syncing"
             ELSE IF eng.purpose = "fence" THEN "posting" ELSE "refresh"
    OBVIOUS
  <2>2. eng' = [eng EXCEPT !.pc = pc, !.seen = Feed, !.dirty = FALSE]
    BY DEF Stamp
  <2> HIDE DEF pc
  <2> QED  BY <1>0, <2>1, <2>2 DEF Engine
<1>3. /\ cursor'.open = cursor.open /\ cursor'.until = cursor.until
      /\ cursor'.complete = cursor.complete /\ cursor'.covers = FALSE /\ cursor'.willCover = FALSE
  BY <1>0, <1>1 DEF Cursor
<1>4. Feed' = Feed /\ Active' = Active /\ (SymbolPending' <=> SymbolPending)
  BY <1>1 DEF Feed, Active, SymbolPending
<1>5. (Covered' <=> Covered)
  BY <1>1, <1>2 DEF Covered
<1>6. AccountOK' /\ Solvent'
  BY <1>1 DEF CoinsOK, AccountOK, Solvent, OwnersNet
<1>7. OrdersOK'
  BY <1>1 DEF CoinsOK, OrdersOK, OrderOK, Single
<1>8. NamedOK'
  BY <1>1 DEF CoinsOK, NamedOK
<1>9. FeedsOK'
  BY <1>1, <1>3, <1>4 DEF CoinsOK, FeedsOK
<1>10. UpTo(Feed, Feed)
  BY <1>0 DEF UpTo, FeedRecord
<1>11. SeenOK'
  BY <1>2, <1>3, <1>4, <1>10 DEF SeenOK
<1>12. FreshOK'
  <2>1. ev.buys <= Feed.buys /\ ev.sells <= Feed.sells /\ ev.fees <= Feed.fees
    <3>1. /\ ev.buys \in Nat /\ ev.sells \in Nat /\ ev.fees \in Nat
          /\ acts.buys \in Nat /\ acts.sells \in Nat /\ acts.fees \in Nat
          /\ Feed.buys \in Nat /\ Feed.sells \in Nat /\ Feed.fees \in Nat
      BY <1>0, Quantities DEF FeedRecord
    <3>2. /\ ev.buys <= acts.buys /\ ev.sells <= acts.sells /\ ev.fees <= acts.fees
          /\ acts.buys <= Feed.buys /\ acts.sells <= Feed.sells /\ acts.fees <= Feed.fees
      BY DEF CoinsOK, FeedsOK, UpTo
    <3> QED  BY <3>1, <3>2
  <2>2. \A c \in Cycle : order[c].sold <= Feed.sold[c]
    BY <1>0 DEF OrdersOK, OrderOK, Feed
  <2> QED  BY <1>1, <1>2, <2>1, <2>2 DEF FreshOK
<1>13. PurposeOK'
  <2>1. eng'.pc \notin {"idle", "down", "armed", "exiting"}
    BY <1>2
  <2>2. eng'.pc = "posting" <=> eng.purpose = "fence"
    BY <1>2
  <2> QED  BY <1>2, <2>1, <2>2 DEF PurposeOK
<1>14. BuyingOK'
  <2> SUFFICES ASSUME eng.purpose = "buy" PROVE BuyingOK'
    BY <1>2 DEF BuyingOK
  <2>1. /\ eng.c \in Cycle /\ order[eng.c].buy = "approved" /\ cycle[eng.c].state # "absent"
        /\ ~cursor.open /\ cursor.complete
        /\ \A c \in Cycle : order[c].buy # "sent" /\ order[c].sell = "none"
        /\ Active = {eng.c} /\ cycle[eng.c] = [NoCycle EXCEPT !.state = "entry_pending"]
        /\ ~eng.current
        /\ ~Covered => eng.affected = {}
    BY <1>1 DEF CoinsOK, BuyingOK
  <2>2. eng'.pc = "refresh"
    BY <1>2
  <2> QED  BY <1>1, <1>2, <1>3, <1>4, <1>5, <2>1, <2>2 DEF BuyingOK
<1>15. ExitOK'
  <2> SUFFICES ASSUME eng.purpose \in {"exit", "fence"} PROVE ExitOK'
    BY <1>2 DEF ExitOK
  <2>1. /\ eng.c \in Cycle
        /\ eng.purpose = "exit" => eng.c \in Active
        /\ eng.purpose = "fence" => /\ cycle[eng.c].sold = order[eng.c].sold
                                    /\ ~SymbolPending /\ eng.quantity >= 1
    BY <1>1 DEF CoinsOK, ExitOK
  <2>2. eng'.pc # "exiting"
    BY <1>2
  <2>3. eng.available <= scene.start + Feed.buys - Feed.sells + OurCoins(world)
    <3>1. eng.available <= OwnersNet + OurCoins(world)
      BY <1>1 DEF CoinsOK, ReadingOK
    <3>2. /\ eng.available \in Int /\ OurCoins(world) \in Int
          /\ scene.start \in Nat /\ world.buys \in Nat /\ world.sells \in Nat /\ world.fees \in Nat
      BY <1>0, CoinsTypes, Quantities
    <3> QED  BY <3>1, <3>2 DEF OwnersNet, Feed
  <2> QED  BY <1>1, <1>2, <1>4, <2>1, <2>2, <2>3 DEF ExitOK
<1>16. ReadingOK'
  <2>1. eng'.pc # "reading"
    BY <1>2
  <2> QED  BY <2>1 DEF ReadingOK
<1>17. Books'
  <2> DEFINE n == OurCoins(world)
  <2>1. PICK k0 \in Nat, k1 \in Nat, n1 \in Nat : BooksOK(k0, k1, n1)
    BY DEF CoinsOK, Books
  <2>2. /\ n \in Nat /\ world.fees \in Nat /\ OwnersNet \in Int
        /\ scene.start \in Nat /\ world.buys \in Nat /\ world.sells \in Nat
        /\ world.postedFees \in Nat /\ world.postedFees <= world.fees
    <3>1. n \in Int /\ HeldCoins(world) \in Nat /\ HeldCoins(world) <= n
      BY <1>0, CoinsTypes DEF CoinsOK, Solvent
    <3> QED  BY <1>0, <3>1, CoinsTypes, Quantities DEF AccountOK
  <2>3. eng.positions = scene.start + world.buys - world.sells - world.fees + n
    BY <1>1 DEF CoinsOK, ReadingOK, OwnersNet
  <2>4. Single => /\ 1 \in Cycle /\ n = world.bought[1] - world.fee[1] - world.sold[1]
    BY <1>0, SingleCoins
  <2>5. Single => /\ world.bought[1] \in Nat /\ world.fee[1] \in Nat /\ world.sold[1] \in Nat
    BY <1>0, <2>4, Quantities
  <2> HIDE DEF n
  <2>6. Single => n + world.sold[1] = world.bought[1] - world.fee[1]
    BY <2>4, <2>5
  <2>7. Single => /\ cycle[1].owned + cycle[1].sold <= n + Feed.sold[1]
                  /\ n + Feed.sold[1] <= world.bought[1] - world.fee[1]
    <3>1. Single => cycle[1].owned + cycle[1].sold <= world.bought[1] - world.fee[1]
      BY <2>1 DEF BooksOK
    <3>2. Single => world.bought[1] - world.fee[1] \in Int
      BY <2>5
    <3> QED  BY <2>6, <3>1, <3>2 DEF Feed
  <2>8. ~Covered /\ eng.purpose = "buy" => world.fees = Feed.fees
    BY <1>1 DEF CoinsOK, BuyingOK, Feed
  <2>9. BooksOK(k0, world.fees, n)'
    <3>1. k0 <= world.fees /\ (Covered => Guarded(protected, ev, scene.start, k0))
          /\ (Single => cycle[1].owned + cycle[1].sold <= world.bought[1] - world.fee[1])
      BY <2>1 DEF BooksOK
    <3>2. Feed.fees <= world.fees /\ world.fees <= world.fees
      BY <2>2 DEF Feed
    <3>3. eng.positions = scene.start + Feed.buys - Feed.sells - world.fees + n
      BY <2>3 DEF Feed
    <3>4. n' = n
      BY <1>1 DEF n
    <3>5. eng'.positions = scene'.start + eng'.seen.buys - eng'.seen.sells - world'.fees + n'
      BY <1>1, <1>2, <3>3, <3>4
    <3>6. (Single' <=> Single)
      BY <1>1 DEF Single
    <3>7. Single' => /\ cycle'[1].owned + cycle'[1].sold <= n' + eng'.seen.sold[1]
                     /\ n' + eng'.seen.sold[1] <= world'.bought[1] - world'.fee[1]
                     /\ cycle'[1].owned + cycle'[1].sold <= world'.bought[1] - world'.fee[1]
      BY <1>1, <1>2, <2>7, <3>1, <3>4, <3>6
    <3>8. ~Covered' /\ eng'.purpose = "buy" => world'.fees = eng'.seen.fees
      BY <1>1, <1>2, <1>5, <2>8
    <3>9. Covered' => Guarded(protected, ev, scene.start, k0)'
      BY <1>1, <1>5, <3>1 DEF Guarded
    <3> QED  BY <1>1, <1>2, <3>1, <3>2, <3>5, <3>7, <3>8, <3>9 DEF BooksOK
  <2>10. world'.fees \in Nat /\ n' \in Nat
    BY <1>1, <2>2 DEF n
  <2> QED  BY <2>9, <2>10 DEF Books
<1> QED  BY <1>6, <1>7, <1>8, <1>9, <1>11, <1>12, <1>13, <1>14, <1>15, <1>16, <1>17 DEF CoinsOK

-----------------------------------------------------------------------------
(* What the engine learns of its orders *)

LEMMA LearnedCoins ==
  ASSUME OwnershipInv, PlainScene, CoinsOK,
         UNCHANGED <<world, acts, paid, cursor, protected, ev, shown, cycle, scene>>,
         eng.pc = "idle", eng'.pc = "idle", eng'.seen = eng.seen,
         eng'.positions = eng.positions, eng'.purpose = eng.purpose,
         eng'.current = eng.current, eng'.affected = eng.affected,
         ~eng'.dirty => ~eng.dirty /\ \A c \in Cycle : order'[c].sold = order[c].sold,
         \A c \in Cycle : order[c].sold <= order'[c].sold /\ order'[c].sold \in Nat
                          /\ (order'[c].buy = "sent" => order[c].buy = "sent"),
         OrdersOK'
  PROVE  CoinsOK'
<1>0. TypeOK /\ acts \in FeedRecord
  BY DEF OwnershipInv, TypeOK
<1>1. (Fresh' => Fresh) /\ (Covered' => Covered)
  BY DEF Fresh, Covered
<1>2. Feed' = Feed
  BY DEF Feed
<1>3. AccountOK' /\ Solvent'
  BY DEF CoinsOK, AccountOK, Solvent, OwnersNet
<1>4. \A c \in Cycle : acts.sold[c] <= order'[c].sold
  <2>1. ASSUME NEW c \in Cycle PROVE acts.sold[c] <= order'[c].sold
    <3>1. acts.sold[c] <= order[c].sold
      BY DEF CoinsOK, FeedsOK
    <3>2. acts.sold[c] \in Nat /\ order[c].sold \in Nat
      BY <1>0, Quantities DEF FeedRecord
    <3>3. order[c].sold <= order'[c].sold /\ order'[c].sold \in Nat
      OBVIOUS
    <3> QED  BY <3>1, <3>2, <3>3
  <2> QED  BY <2>1
<1>5. FeedsOK'
  BY <1>2, <1>4 DEF CoinsOK, FeedsOK
<1>6. SeenOK'
  BY <1>2 DEF CoinsOK, SeenOK
<1>7. FreshOK'
  <2> SUFFICES ASSUME Fresh' PROVE FreshOK'
    BY DEF FreshOK
  <2>1. Fresh /\ \A c \in Cycle : order'[c].sold = order[c].sold
    BY <1>1 DEF Fresh
  <2>2. /\ ev.buys <= eng.seen.buys /\ ev.sells <= eng.seen.sells /\ ev.fees <= eng.seen.fees
        /\ \A c \in Cycle : order[c].sold <= eng.seen.sold[c]
    BY <2>1 DEF CoinsOK, FreshOK
  <2> QED  BY <2>1, <2>2 DEF FreshOK
<1>8. ~eng.current /\ eng.affected = {} /\ eng.purpose = "step"
  BY DEF CoinsOK, PurposeOK
<1>9. NamedOK' /\ PurposeOK' /\ BuyingOK' /\ ExitOK' /\ ReadingOK'
  BY <1>8 DEF NamedOK, PurposeOK, BuyingOK, ExitOK, ReadingOK
<1>10. Books'
  <2>1. world'.fees = world.fees /\ world'.bought = world.bought /\ world'.fee = world.fee
    OBVIOUS
  <2>2. UNCHANGED <<protected, ev, scene>>
    OBVIOUS
  <2>3. Single => cycle'[1].owned = cycle[1].owned /\ cycle'[1].sold = cycle[1].sold
    OBVIOUS
  <2>4. Fresh' => Fresh /\ eng'.positions = eng.positions /\ eng'.seen = eng.seen
    BY <1>1
  <2>5. Fresh' /\ ~Covered' /\ eng'.purpose = "buy" => ~Covered /\ eng.purpose = "buy"
    BY <1>8
  <2> QED  BY <1>1, <2>1, <2>2, <2>3, <2>4, <2>5, BooksStay DEF CoinsOK
<1> QED  BY <1>3, <1>5, <1>6, <1>7, <1>9, <1>10 DEF CoinsOK

LEMMA LearnBuyCoins ==
  ASSUME OwnershipInv, PlainScene, CoinsOK, NEW c \in Cycle, LearnBuy(c)
  PROVE  CoinsOK'
<1>0. TypeOK /\ eng \in Engine /\ order \in [Cycle -> OrderRow] /\ OrdersOK
  BY DEF OwnershipInv, TypeOK, CoinsOK
<1>1. PICK q \in order[c].bought..world.bought[c] :
         /\ order' = [order EXCEPT
               ![c].buyId = TRUE, ![c].bought = q,
               ![c].buy = IF world.buying[c] = 0 /\ q = world.bought[c] THEN "final" ELSE "sent"]
         /\ eng' = [eng EXCEPT !.dirty = @ \/ q # order[c].bought]
  BY DEF LearnBuy
<1>2. /\ UNCHANGED <<world, acts, paid, cursor, protected, ev, shown, cycle, scene>>
      /\ eng.pc = "idle" /\ order[c].buy = "sent"
  BY DEF LearnBuy, Idle
<1>3. /\ eng'.pc = "idle" /\ eng'.seen = eng.seen /\ eng'.positions = eng.positions
      /\ eng'.purpose = eng.purpose /\ eng'.current = eng.current /\ eng'.affected = eng.affected
  BY <1>0, <1>1, <1>2 DEF Engine
<1>4. ~eng'.dirty => ~eng.dirty
  <2>1. eng'.dirty = (eng.dirty \/ q # order[c].bought)
    BY <1>0, <1>1 DEF Engine
  <2> QED  BY <2>1, Zenon
<1>5. PICK r \in OrderRow : r = order[c]
  BY <1>0
<1>6. q \in Nat /\ r.bought \in Nat /\ world.bought[c] \in Nat /\ q <= world.bought[c]
  <2>1. world.bought[c] \in Nat /\ r.bought \in Nat
    BY <1>0, <1>5, Quantities
  <2> QED  BY <1>1, <1>5, <2>1
<1> DEFINE b == IF world.buying[c] = 0 /\ q = world.bought[c] THEN "final" ELSE "sent"
<1>7. order'[c] = [r EXCEPT !.buyId = TRUE, !.bought = q, !.buy = b]
  BY <1>0, <1>1, <1>5
<1>8. \A d \in Cycle \ {c} : order'[d] = order[d]
  BY <1>0, <1>1
<1>9. b \in {"final", "sent"} /\ (b = "final" => world.buying[c] = 0 /\ q = world.bought[c])
  OBVIOUS
<1> HIDE DEF b
<1>10. /\ order'[c].buyId = TRUE /\ order'[c].bought = q /\ order'[c].buy = b
       /\ order'[c].sell = order[c].sell /\ order'[c].sellId = order[c].sellId
       /\ order'[c].sold = order[c].sold
  BY <1>5, <1>7 DEF OrderRow
<1>11. \A d \in Cycle : /\ order'[d].sold = order[d].sold
                        /\ order'[d].buy = "sent" => order[d].buy = "sent"
  BY <1>2, <1>8, <1>10
<1>12. OrdersOK'
  <2>1. ASSUME NEW d \in Cycle PROVE OrderOK(d)'
    <3>1. OrderOK(d)
      BY <1>0 DEF OrdersOK
    <3>2. CASE d # c
      BY <1>2, <1>8, <3>1, <3>2 DEF OrderOK, Single
    <3>3. CASE d = c
      <4>1. world.buying[c] \in Nat
        BY <1>0, Quantities
      <4>2. cycle[c].state # "absent"
        BY <1>2, <3>1, <3>3 DEF OrderOK
      <4> QED  BY <1>2, <1>9, <1>10, <3>1, <3>3, <4>1, <4>2 DEF OrderOK, Single
    <3> QED  BY <3>2, <3>3
  <2> QED  BY <2>1 DEF OrdersOK
<1>13. \A d \in Cycle : order[d].sold \in Nat /\ order[d].sold <= order[d].sold
  BY <1>0, Quantities
<1> QED  BY <1>2, <1>3, <1>4, <1>11, <1>12, <1>13, LearnedCoins

LEMMA LearnSellCoins ==
  ASSUME OwnershipInv, PlainScene, CoinsOK, NEW c \in Cycle, LearnSell(c)
  PROVE  CoinsOK'
<1>0. TypeOK /\ eng \in Engine /\ order \in [Cycle -> OrderRow] /\ OrdersOK
  BY DEF OwnershipInv, TypeOK, CoinsOK
<1>1. PICK q \in order[c].sold..world.sold[c] :
         /\ order' = [order EXCEPT
               ![c].sellId = TRUE, ![c].sold = q,
               ![c].sell = IF world.selling[c] = 0 /\ q = world.sold[c] THEN "none" ELSE "sent"]
         /\ eng' = [eng EXCEPT !.dirty = @ \/ order' # order]
  BY DEF LearnSell
<1>2. /\ UNCHANGED <<world, acts, paid, cursor, protected, ev, shown, cycle, scene>>
      /\ eng.pc = "idle" /\ order[c].sell = "sent"
  BY DEF LearnSell, Idle
<1>3. /\ eng'.pc = "idle" /\ eng'.seen = eng.seen /\ eng'.positions = eng.positions
      /\ eng'.purpose = eng.purpose /\ eng'.current = eng.current /\ eng'.affected = eng.affected
  BY <1>0, <1>1, <1>2 DEF Engine
<1>4. ~eng'.dirty => ~eng.dirty /\ order' = order
  <2>1. eng'.dirty = (eng.dirty \/ order' # order)
    BY <1>0, <1>1 DEF Engine
  <2> QED  BY <2>1, Zenon
<1>5. PICK r \in OrderRow : r = order[c]
  BY <1>0
<1>6. q \in Nat /\ r.sold \in Nat /\ world.sold[c] \in Nat /\ q <= world.sold[c] /\ r.sold <= q
  <2>1. world.sold[c] \in Nat /\ r.sold \in Nat
    BY <1>0, <1>5, Quantities
  <2> QED  BY <1>1, <1>5, <2>1
<1> DEFINE b == IF world.selling[c] = 0 /\ q = world.sold[c] THEN "none" ELSE "sent"
<1>7. order'[c] = [r EXCEPT !.sellId = TRUE, !.sold = q, !.sell = b]
  BY <1>0, <1>1, <1>5
<1>8. \A d \in Cycle \ {c} : order'[d] = order[d]
  BY <1>0, <1>1
<1>9. b \in {"none", "sent"} /\ (b = "none" => world.selling[c] = 0 /\ q = world.sold[c])
  OBVIOUS
<1> HIDE DEF b
<1>10. /\ order'[c].buyId = order[c].buyId /\ order'[c].bought = order[c].bought
       /\ order'[c].buy = order[c].buy
       /\ order'[c].sell = b /\ order'[c].sellId = TRUE /\ order'[c].sold = q
  BY <1>5, <1>7 DEF OrderRow
<1>11. \A d \in Cycle : /\ order[d].sold <= order'[d].sold /\ order'[d].sold \in Nat
                        /\ order'[d].buy = "sent" => order[d].buy = "sent"
  <2>1. ASSUME NEW d \in Cycle PROVE order[d].sold \in Nat /\ order[d].sold <= order[d].sold
    BY <1>0, Quantities
  <2> QED  BY <1>5, <1>6, <1>8, <1>10, <2>1
<1>12. OrdersOK'
  <2>1. ASSUME NEW d \in Cycle PROVE OrderOK(d)'
    <3>1. OrderOK(d)
      BY <1>0 DEF OrdersOK
    <3>2. CASE d # c
      BY <1>2, <1>8, <3>1, <3>2 DEF OrderOK, Single
    <3>3. CASE d = c
      <4>1. world.selling[c] \in Nat /\ cycle[c].sold \in Nat /\ order[c].sold = r.sold
        BY <1>0, <1>5, Quantities
      <4>2. cycle[c].sold <= q
        BY <1>6, <3>1, <3>3, <4>1 DEF OrderOK
      <4>3. world.bought[c] > 0
        BY <1>2, <3>1, <3>3 DEF OrderOK
      <4> QED  BY <1>2, <1>6, <1>9, <1>10, <3>1, <3>3, <4>1, <4>2, <4>3 DEF OrderOK, Single
    <3> QED  BY <3>2, <3>3
  <2> QED  BY <2>1 DEF OrdersOK
<1> QED  BY <1>2, <1>3, <1>4, <1>11, <1>12, LearnedCoins

LEMMA ExpireCoins ==
  ASSUME OwnershipInv, PlainScene, CoinsOK, NEW c \in Cycle, ExpireIntent(c)
  PROVE  CoinsOK'
<1>0. TypeOK /\ order \in [Cycle -> OrderRow] /\ OrdersOK
  BY DEF OwnershipInv, TypeOK, CoinsOK
<1>1. /\ UNCHANGED <<world, acts, paid, cursor, protected, ev, shown, cycle, scene, eng>>
      /\ eng.pc = "idle" /\ order[c].buy = "approved"
      /\ order' = [order EXCEPT ![c].buy = "final"]
  BY DEF ExpireIntent, Idle
<1>2. PICK r \in OrderRow : r = order[c]
  BY <1>0
<1>3. order'[c] = [r EXCEPT !.buy = "final"] /\ \A d \in Cycle \ {c} : order'[d] = order[d]
  BY <1>0, <1>1, <1>2
<1>4. /\ order'[c].buyId = order[c].buyId /\ order'[c].bought = order[c].bought
      /\ order'[c].buy = "final" /\ order'[c].sell = order[c].sell
      /\ order'[c].sellId = order[c].sellId /\ order'[c].sold = order[c].sold
  BY <1>2, <1>3 DEF OrderRow
<1>5. \A d \in Cycle : /\ order'[d].sold = order[d].sold
                       /\ order'[d].buy = "sent" => order[d].buy = "sent"
  BY <1>3, <1>4
<1>6. OrdersOK'
  <2>1. ASSUME NEW d \in Cycle PROVE OrderOK(d)'
    <3>1. OrderOK(d)
      BY <1>0 DEF OrdersOK
    <3>2. CASE d # c
      BY <1>1, <1>3, <3>1, <3>2 DEF OrderOK, Single
    <3>3. CASE d = c
      <4>1. cycle[c].state # "absent"
        BY <1>1, <3>1, <3>3 DEF OrderOK
      <4> QED  BY <1>1, <1>4, <3>1, <3>3, <4>1 DEF OrderOK, Single
    <3> QED  BY <3>2, <3>3
  <2> QED  BY <2>1 DEF OrdersOK
<1>7. \A d \in Cycle : order[d].sold \in Nat /\ order[d].sold <= order[d].sold
  BY <1>0, Quantities
<1> QED  BY <1>1, <1>5, <1>6, <1>7, LearnedCoins

-----------------------------------------------------------------------------
(* A sync *)

LEMMA WindowKept ==
  ASSUME TypeOK, FeedsOK, SeenOK
  PROVE  UpTo(acts, Window) /\ UpTo(Window, Feed) /\ (WindowCovers => UpTo(eng.seen, Window))
<1>1. Feed \in FeedRecord
  BY FeedType
<1>2. UpTo(Feed, Feed)
  BY <1>1 DEF UpTo, FeedRecord
<1> QED  BY <1>2 DEF FeedsOK, SeenOK, Window, WindowCovers

\* What an order looked up by a sync may become.
LEMMA RecheckedRows ==
  ASSUME TypeOK, NEW f, Recheck(f), NEW c \in Cycle
  PROVE  /\ order'[c].buyId = order[c].buyId /\ order'[c].sellId = order[c].sellId
         /\ c \notin BuysBehind(f)
              => order'[c].bought = order[c].bought /\ order'[c].buy = order[c].buy
         /\ c \in BuysBehind(f)
              => /\ order'[c].bought = world.bought[c]
                 /\ order'[c].buy = IF world.buying[c] = 0 THEN "final" ELSE order[c].buy
         /\ c \notin SellsBehind(f)
              => order'[c].sold = order[c].sold /\ order'[c].sell = order[c].sell
         /\ c \in SellsBehind(f)
              => /\ order'[c].sold = world.sold[c]
                 /\ order'[c].sell = IF world.selling[c] = 0 THEN "none" ELSE order[c].sell
<1>1. PICK r \in OrderRow : r = order[c]
  BY DEF TypeOK
<1> DEFINE b == IF world.buying[c] = 0 THEN "final" ELSE r.buy
           s == IF world.selling[c] = 0 THEN "none" ELSE r.sell
           row == IF c \in BuysBehind(f) THEN BuyRechecked(order[c], c) ELSE order[c]
<1>2. order'[c] = IF c \in SellsBehind(f) THEN SellRechecked(row, c) ELSE row
  BY DEF Recheck
<1>3. row = IF c \in BuysBehind(f) THEN [r EXCEPT !.bought = world.bought[c], !.buy = b] ELSE r
  BY <1>1 DEF BuyRechecked
<1> HIDE DEF row, b
<1>4. /\ row.buyId = r.buyId /\ row.sellId = r.sellId /\ row.sold = r.sold /\ row.sell = r.sell
      /\ c \notin BuysBehind(f) => row.bought = r.bought /\ row.buy = r.buy
      /\ c \in BuysBehind(f) => row.bought = world.bought[c] /\ row.buy = b
  BY <1>1, <1>3 DEF OrderRow
<1>5. PICK B, S, N, M, I, J :
         row \in [buy : B, buyId : I, bought : N, sell : S, sellId : J, sold : M]
  <2>1. r \in [buy : {r.buy}, buyId : {r.buyId}, bought : {r.bought}, sell : {r.sell},
               sellId : {r.sellId}, sold : {r.sold}]
    BY <1>1 DEF OrderRow
  <2>2. row \in [buy : {r.buy, b}, buyId : {r.buyId}, bought : {r.bought, world.bought[c]},
                 sell : {r.sell}, sellId : {r.sellId}, sold : {r.sold}]
    BY <1>3, <2>1
  <2> QED  BY <2>2
<1>6. c \in SellsBehind(f) => order'[c] = [row EXCEPT !.sold = world.sold[c], !.sell = s]
  <2>1. SellRechecked(row, c) = [row EXCEPT !.sold = world.sold[c], !.sell = s]
    BY <1>4 DEF SellRechecked
  <2> QED  BY <1>2, <2>1
<1> HIDE DEF s
<1>7. /\ order'[c].buyId = row.buyId /\ order'[c].sellId = row.sellId
      /\ order'[c].bought = row.bought /\ order'[c].buy = row.buy
      /\ c \notin SellsBehind(f) => order'[c].sold = row.sold /\ order'[c].sell = row.sell
      /\ c \in SellsBehind(f) => order'[c].sold = world.sold[c] /\ order'[c].sell = s
  <2>1. CASE c \in SellsBehind(f)
    <3>1. order'[c] = [row EXCEPT !.sold = world.sold[c], !.sell = s]
      BY <1>6, <2>1
    <3> QED  BY <1>5, <2>1, <3>1
  <2>2. CASE c \notin SellsBehind(f)
    BY <1>2, <2>2
  <2> QED  BY <2>1, <2>2
<1> QED  BY <1>1, <1>4, <1>7 DEF b, s

\* A step is given up.
LEMMA StepFailsCoins ==
  ASSUME OwnershipInv, PlainScene, CoinsOK, SyncStops \/ StepFails
  PROVE  CoinsOK'
<1>0. TypeOK /\ eng \in Engine /\ cursor \in Cursor /\ FeedsOK /\ SeenOK
  BY DEF OwnershipInv, TypeOK, CoinsOK
<1>1. StepFails
  BY DEF PlainScene, SyncStops
<1>2. /\ UNCHANGED <<world, order, protected, ev, shown, cycle, scene>>
      /\ UNCHANGED <<acts, paid>>
      /\ \/ cursor' = cursor
         \/ cursor' = [cursor EXCEPT !.open = TRUE, !.until = Window, !.willCover = WindowCovers]
      /\ eng' = [Return EXCEPT !.tried = {}, !.fresh = FALSE]
  BY <1>1 DEF PlainScene, StepFails
<1>3. /\ eng'.pc = "idle" /\ eng'.seen = eng.seen /\ eng'.positions = eng.positions
      /\ eng'.dirty = eng.dirty /\ eng'.purpose = "step" /\ eng'.current = FALSE
      /\ eng'.affected = {}
  <2>1. Return \in Engine
    BY <1>0, ReturnType
  <2> HIDE DEF Return
  <2>2. /\ eng'.pc = Return.pc /\ eng'.seen = Return.seen /\ eng'.positions = Return.positions
        /\ eng'.dirty = Return.dirty /\ eng'.purpose = Return.purpose
        /\ eng'.current = Return.current /\ eng'.affected = Return.affected
    BY <1>2, <2>1 DEF Engine
  <2> QED  BY <1>0, <2>2, ReturnFields
<1>4. (Fresh' => Fresh) /\ (Covered' => Covered)
  <2>1. eng.pc \in {"refresh", "syncing"}
    BY <1>1 DEF StepFails
  <2> QED  BY <1>2, <1>3, <2>1 DEF Fresh, Covered
<1>5. NamedOK' /\ PurposeOK' /\ BuyingOK' /\ ExitOK' /\ ReadingOK'
  BY <1>3 DEF NamedOK, PurposeOK, BuyingOK, ExitOK, ReadingOK
<1>6. CASE cursor' = cursor
  BY <1>2, <1>3, <1>4, <1>5, <1>6, GoOnCoins
<1>7. CASE cursor' = [cursor EXCEPT !.open = TRUE, !.until = Window, !.willCover = WindowCovers]
  <2>1. /\ cursor'.open = TRUE /\ cursor'.until = Window /\ cursor'.willCover = WindowCovers
        /\ cursor'.covers = cursor.covers
    BY <1>0, <1>7 DEF Cursor
  <2>2. UpTo(acts, Window) /\ UpTo(Window, Feed) /\ (WindowCovers => UpTo(eng.seen, Window))
    BY <1>0, WindowKept
  <2>3. Feed' = Feed
    BY <1>2 DEF Feed
  <2>4. FeedsOK'
    BY <1>2, <2>1, <2>2, <2>3 DEF CoinsOK, FeedsOK
  <2>5. SeenOK'
    BY <1>2, <1>3, <2>1, <2>2, <2>3 DEF CoinsOK, SeenOK
  <2>6. FreshOK'
    BY <1>2, <1>3, <1>4 DEF CoinsOK, FreshOK
  <2>7. AccountOK' /\ Solvent'
    BY <1>2 DEF CoinsOK, AccountOK, Solvent, OwnersNet
  <2>8. OrdersOK'
    BY <1>2 DEF CoinsOK, OrdersOK, OrderOK, Single
  <2>9. Books'
    BY <1>2, <1>3, <1>4, BooksStay DEF CoinsOK
  <2> QED  BY <1>5, <2>4, <2>5, <2>6, <2>7, <2>8, <2>9 DEF CoinsOK
<1> QED  BY <1>2, <1>6, <1>7

\* A sync reaches the end of its window and looks orders up.
LEMMA SyncCoins ==
  ASSUME OwnershipInv, PlainScene, CoinsOK, SyncCompletes
  PROVE  CoinsOK'
<1> DEFINE f == Window
<1>0. /\ TypeOK /\ eng \in Engine /\ cursor \in Cursor /\ FeedsOK /\ SeenOK /\ OrdersOK /\ AccountOK
      /\ Window \in FeedRecord /\ acts \in FeedRecord /\ order \in [Cycle -> OrderRow]
  BY WindowType DEF OwnershipInv, TypeOK, CoinsOK
<1>1. /\ UNCHANGED <<world, protected, ev, shown, cycle, scene>>
      /\ eng.pc = "syncing" /\ Recheck(Window)
      /\ acts' = Window /\ paid' = Attributed(Window)
      /\ cursor' = [open |-> FALSE, until |-> NoFeed, covers |-> WindowCovers,
                    willCover |-> FALSE, complete |-> TRUE]
  BY DEF SyncCompletes, Stored
<1>2. /\ eng'.pc = "refresh" /\ eng'.seen = eng.seen /\ eng'.positions = eng.positions
      /\ eng'.c = eng.c
      /\ eng'.affected = eng.affected \cup AffectedBy(Window)
      /\ eng'.purpose = (IF eng.purpose = "reconcile" THEN "step" ELSE eng.purpose)
      /\ ~eng'.dirty => ~eng.dirty /\ Behind(Window) = {}
  <2> DEFINE a == eng.affected \cup AffectedBy(Window)
             u == eng.purpose # "reconcile"
             p == IF eng.purpose = "reconcile" THEN "step" ELSE eng.purpose
             d == eng.dirty \/ Behind(Window) # {}
  <2>1. eng' = [eng EXCEPT !.pc = "refresh", !.affected = a, !.current = u, !.purpose = p,
                           !.dirty = d]
    BY DEF SyncCompletes
  <2>2. ~d => ~eng.dirty /\ Behind(Window) = {}
    OBVIOUS
  <2> HIDE DEF a, u, p, d
  <2>3. /\ eng'.pc = "refresh" /\ eng'.seen = eng.seen /\ eng'.positions = eng.positions
        /\ eng'.c = eng.c /\ eng'.affected = a /\ eng'.purpose = p /\ eng'.dirty = d
    BY <1>0, <2>1 DEF Engine
  <2> QED  BY <2>2, <2>3 DEF a, p
<1>3. UpTo(acts, Window) /\ UpTo(Window, Feed) /\ (WindowCovers => UpTo(eng.seen, Window))
  BY <1>0, WindowKept
<1>4. /\ Feed' = Feed /\ Active' = Active
      /\ \A c \in Cycle : /\ Feed.bought[c] = world.bought[c] /\ Feed.sold[c] = world.sold[c]
                          /\ Feed.posted[c] = world.posted[c]
  BY <1>1 DEF Feed, Active
<1>5. \A c \in Cycle : /\ Window.sold[c] \in Nat /\ Window.bought[c] \in Nat
                       /\ Window.posted[c] \in Nat
                       /\ acts.sold[c] \in Nat /\ acts.bought[c] \in Nat
                       /\ Window.sold[c] <= world.sold[c] /\ Window.bought[c] <= world.bought[c]
                       /\ Window.posted[c] <= world.posted[c]
                       /\ acts.sold[c] <= Window.sold[c] /\ acts.bought[c] <= Window.bought[c]
  BY <1>0, <1>3, <1>4 DEF FeedRecord, UpTo
<1>6. ASSUME NEW c \in Cycle
      PROVE  /\ OrderOK(c)
             /\ order[c].bought \in Nat /\ order[c].sold \in Nat
             /\ world.bought[c] \in Nat /\ world.sold[c] \in Nat
             /\ world.buying[c] \in Nat /\ world.selling[c] \in Nat
             /\ order[c].buy = "sent" => order[c].buyId
             /\ order[c].sell = "sent" => order[c].sellId
             /\ order[c].sell \in {"none", "sent"}
             /\ acts.sold[c] <= order[c].sold
             /\ cycle[c].sold \in Nat
  BY <1>0, <1>1, Quantities DEF OrdersOK, CoinsOK, NamedOK, FeedsOK
<1>7. ASSUME NEW c \in BuysBehind(Window) PROVE c \in Cycle /\ order[c].buy = "sent"
  <2>1. c \in Cycle /\ Window.bought[c] > order[c].bought
    BY DEF BuysBehind
  <2>2. order[c].bought # world.bought[c]
    BY <1>5, <1>6, <2>1
  <2> QED  BY <1>6, <2>1, <2>2 DEF OrderOK
<1>8. ASSUME NEW c \in SellsBehind(Window)
      PROVE  c \in Cycle /\ order[c].sell = "sent"
  BY DEF SellsBehind
<1>9. ASSUME NEW c \in Cycle
      PROVE  /\ order'[c].buyId = order[c].buyId /\ order'[c].sellId = order[c].sellId
             /\ order'[c].buy = "sent" => order[c].buy = "sent"
             /\ order'[c].sell = "sent" => order[c].sell = "sent"
             /\ order[c].sold <= order'[c].sold /\ order'[c].sold \in Nat
             /\ order'[c].sold <= world.sold[c]
             /\ acts'.sold[c] <= order'[c].sold
  <2>1. /\ order'[c].buyId = order[c].buyId /\ order'[c].sellId = order[c].sellId
        /\ c \notin BuysBehind(Window) => order'[c].buy = order[c].buy
        /\ c \notin SellsBehind(Window)
             => order'[c].sold = order[c].sold /\ order'[c].sell = order[c].sell
        /\ c \in SellsBehind(Window) => order'[c].sold = world.sold[c]
    BY <1>0, <1>1, RecheckedRows
  <2>2. order[c].sold <= world.sold[c]
    BY <1>6 DEF OrderOK
  <2>3. acts'.sold[c] <= order'[c].sold
    <3>1. CASE c \in SellsBehind(Window)
      BY <1>1, <1>5, <2>1, <3>1
    <3>2. CASE c \notin SellsBehind(Window)
      <4>1. CASE Window.sold[c] = acts.sold[c]
        BY <1>1, <1>6, <2>1, <3>2, <4>1
      <4>2. CASE Window.sold[c] # acts.sold[c] /\ order[c].sell = "sent"
        <5>1. ~(Window.sold[c] > order[c].sold)
          BY <1>6, <3>2, <4>2 DEF SellsBehind
        <5> QED  BY <1>1, <1>5, <1>6, <2>1, <3>2, <5>1
      <4>3. CASE order[c].sell = "none"
        <5>1. order[c].sold = world.sold[c]
          BY <1>6, <4>3 DEF OrderOK
        <5> QED  BY <1>1, <1>5, <2>1, <3>2, <5>1
      <4> QED  BY <1>6, <4>1, <4>2, <4>3
    <3> QED  BY <3>1, <3>2
  <2>4. order[c].sold <= order'[c].sold /\ order'[c].sold \in Nat /\ order'[c].sold <= world.sold[c]
    BY <1>6, <2>1, <2>2
  <2> QED  BY <1>7, <1>8, <2>1, <2>3, <2>4
<1>10. Behind(Window) = {} => order' = order
  <2> SUFFICES ASSUME Behind(Window) = {} PROVE order' = order
    OBVIOUS
  <2>1. BuysBehind(Window) = {} /\ SellsBehind(Window) = {}
    BY DEF Behind
  <2>2. order' = [c \in Cycle |-> order[c]]
    BY <1>1, <2>1 DEF Recheck
  <2> QED  BY <1>0, <2>2
<1>11. /\ Fresh' => Fresh /\ order' = order
       /\ Covered' => Covered
       /\ order' = order => (Covered' <=> Covered)
  <2>1. Fresh' => Fresh /\ order' = order
    BY <1>1, <1>2, <1>10 DEF Fresh
  <2>2. Covered' => Covered
    BY <1>1, <1>2, <1>9 DEF Covered
  <2>3. order' = order => (Covered' <=> Covered)
    BY <1>1, <1>2 DEF Covered
  <2> QED  BY <2>1, <2>2, <2>3
<1>12. AccountOK' /\ Solvent'
  BY <1>1 DEF CoinsOK, AccountOK, Solvent, OwnersNet
<1>13. OrdersOK'
  <2>1. ASSUME NEW c \in Cycle PROVE OrderOK(c)'
    <3>1. OrderOK(c) /\ cycle[c].sold <= order[c].sold
      BY <1>6 DEF OrderOK
    <3>2. /\ order'[c].sold <= world.sold[c] /\ cycle[c].sold <= order'[c].sold
          /\ ~order'[c].buyId => ~order[c].buyId
      BY <1>6, <1>9, <3>1
    <3>3. /\ world.selling[c] > 0 => order'[c].sell = "sent"
          /\ order'[c].sell = "none" => order'[c].sold = world.sold[c]
          /\ order'[c].sell = "sent" => order[c].sell = "sent"
      <4>1. CASE c \in SellsBehind(Window)
        <5>1. /\ order'[c].sold = world.sold[c]
              /\ order'[c].sell = IF world.selling[c] = 0 THEN "none" ELSE order[c].sell
          BY <1>0, <1>1, <4>1, RecheckedRows
        <5>2. order[c].sell = "sent"
          BY <1>8, <4>1
        <5> QED  BY <1>6, <5>1, <5>2
      <4>2. CASE c \notin SellsBehind(Window)
        <5>1. order'[c].sold = order[c].sold /\ order'[c].sell = order[c].sell
          BY <1>0, <1>1, <4>2, RecheckedRows
        <5> QED  BY <3>1, <5>1 DEF OrderOK
      <4> QED  BY <4>1, <4>2
    <3>4. /\ world.buying[c] > 0 => order'[c].buy = "sent"
          /\ order'[c].buy # "sent" => order'[c].bought = world.bought[c]
          /\ order'[c].buy \in {"none", "approved"} => world.bought[c] = 0
          /\ ~order'[c].buyId => world.bought[c] = 0 \/ order'[c].buy = "sent"
          /\ cycle[c].state = "absent" => order'[c].buy = "none"
      <4>1. CASE c \in BuysBehind(Window)
        <5>1. /\ order'[c].bought = world.bought[c]
              /\ order'[c].buy = IF world.buying[c] = 0 THEN "final" ELSE order[c].buy
          BY <1>0, <1>1, <4>1, RecheckedRows
        <5>2. order[c].buy = "sent" /\ order[c].buyId
          BY <1>6, <1>7, <4>1
        <5>3. cycle[c].state # "absent"
          BY <3>1, <5>2 DEF OrderOK
        <5> QED  BY <1>6, <1>9, <5>1, <5>2, <5>3
      <4>2. CASE c \notin BuysBehind(Window)
        <5>1. order'[c].bought = order[c].bought /\ order'[c].buy = order[c].buy
          BY <1>0, <1>1, <4>2, RecheckedRows
        <5> QED  BY <1>9, <3>1, <5>1 DEF OrderOK
      <4> QED  BY <4>1, <4>2
    <3>5. order'[c].sell = "sent" \/ world.sold[c] > 0 => world.bought[c] > 0
      BY <3>1, <3>3 DEF OrderOK
    <3>6. /\ cycle[c].state = "absent" => cycle[c] = NoCycle
          /\ Single /\ c # 1 => cycle[c].state = "absent"
      BY <3>1 DEF OrderOK
    <3> QED  BY <1>1, <3>2, <3>3, <3>4, <3>5, <3>6 DEF OrderOK, Single
  <2> QED  BY <2>1 DEF OrdersOK
<1>14. NamedOK'
  <2>1. ASSUME NEW c \in Cycle
        PROVE  /\ order'[c].buy = "sent" => order'[c].buyId
               /\ order'[c].sell = "sent" => order'[c].sellId
    BY <1>6, <1>9
  <2> QED  BY <2>1 DEF NamedOK
<1>15. FeedsOK'
  <2>1. UpTo(acts, Feed)'
    BY <1>1, <1>3, <1>4 DEF UpTo
  <2>2. ev.buys <= acts'.buys /\ ev.sells <= acts'.sells /\ ev.fees <= acts'.fees
    <3>1. /\ ev.buys <= acts.buys /\ ev.sells <= acts.sells /\ ev.fees <= acts.fees
      BY DEF CoinsOK, FeedsOK
    <3>2. /\ acts.buys <= Window.buys /\ acts.sells <= Window.sells /\ acts.fees <= Window.fees
      BY <1>3 DEF UpTo
    <3>3. /\ ev.buys \in Nat /\ ev.sells \in Nat /\ ev.fees \in Nat
          /\ acts.buys \in Nat /\ acts.sells \in Nat /\ acts.fees \in Nat
          /\ Window.buys \in Nat /\ Window.sells \in Nat /\ Window.fees \in Nat
      BY <1>0, Quantities DEF FeedRecord
    <3> QED  BY <1>1, <3>1, <3>2, <3>3
  <2>3. ASSUME NEW c \in Cycle
        PROVE  acts'.sold[c] <= order'[c].sold /\ paid'[c] <= world.posted[c]
    <3>1. paid[c] <= world.posted[c]
      BY DEF CoinsOK, FeedsOK
    <3>2. paid'[c] = IF order[c].buyId THEN Window.posted[c] ELSE paid[c]
      BY <1>1 DEF Attributed
    <3> QED  BY <1>5, <1>9, <3>1, <3>2
  <2>4. ~cursor'.open
    BY <1>1
  <2> QED  BY <1>1, <2>1, <2>2, <2>3, <2>4 DEF FeedsOK
<1>16. SeenOK'
  <2>1. cursor'.covers = WindowCovers /\ ~cursor'.open
    BY <1>1
  <2>2. UpTo(eng.seen, Feed)
    BY <1>0 DEF SeenOK
  <2> QED  BY <1>1, <1>2, <1>3, <1>4, <2>1, <2>2 DEF SeenOK
<1>17. FreshOK'
  BY <1>1, <1>2, <1>11 DEF CoinsOK, FreshOK
<1>18. eng.purpose # "fence"
  BY <1>1 DEF CoinsOK, PurposeOK
<1>19. PurposeOK'
  BY <1>2, <1>18 DEF PurposeOK
<1>20. BuyingOK'
  <2> SUFFICES ASSUME eng'.purpose = "buy" PROVE BuyingOK'
    BY DEF BuyingOK
  <2>1. eng.purpose = "buy"
    BY <1>2
  <2>2. /\ eng.c \in Cycle /\ order[eng.c].buy = "approved" /\ cycle[eng.c].state # "absent"
        /\ ~cursor.open
        /\ \A c \in Cycle : order[c].buy # "sent" /\ order[c].sell = "none"
        /\ ~eng.dirty
        /\ Active = {eng.c} /\ cycle[eng.c] = [NoCycle EXCEPT !.state = "entry_pending"]
        /\ ~Covered => eng.affected = {}
    BY <1>1, <2>1 DEF CoinsOK, BuyingOK
  <2>3. Behind(Window) = {}
    <3>1. BuysBehind(Window) = {}
      BY <1>7, <2>2
    <3>2. SellsBehind(Window) = {}
      <4>1. ASSUME NEW c \in SellsBehind(Window) PROVE FALSE
        <5>1. c \in Cycle /\ order[c].sell = "sent"
          BY <1>8
        <5>2. order[c].sell = "none"
          BY <2>2, <5>1
        <5> QED  BY <5>1, <5>2
      <4> QED  BY <4>1
    <3> QED  BY <3>1, <3>2 DEF Behind
  <2>4. order' = order
    BY <1>10, <2>3
  <2>5. ~eng'.dirty
    <3>1. eng' = [eng EXCEPT !.pc = "refresh", !.affected = @ \cup AffectedBy(Window),
                          !.current = eng.purpose # "reconcile",
                          !.purpose = IF @ = "reconcile" THEN "step" ELSE @,
                          !.dirty = @ \/ Behind(Window) # {}]
      BY DEF SyncCompletes
    <3>2. eng'.dirty = (eng.dirty \/ Behind(Window) # {})
      BY <1>0, <3>1 DEF Engine
    <3>3. ~(eng.dirty \/ Behind(Window) # {})
      BY <2>2, <2>3
    <3> QED  BY <3>2, <3>3, Zenon
  <2>6. WindowCovers = TRUE
    BY <2>2 DEF WindowCovers
  <2>7. ASSUME ~Covered' PROVE eng'.affected = {}
    <3>1. ~Covered
      BY <1>11, <2>4, <2>7
    <3>2. \A c \in Cycle : world.bought[c] = 0 /\ world.posted[c] = 0 /\ world.sold[c] = 0
      BY <1>0, <3>1, NothingBought
    <3>3. ASSUME NEW c \in AffectedBy(Window) PROVE FALSE
      <4>1. c \in Cycle
        BY DEF AffectedBy
      <4>2. /\ Window.bought[c] = acts.bought[c] /\ Window.sold[c] = acts.sold[c]
            /\ Window.posted[c] = 0
        BY <1>5, <3>2, <4>1
      <4>3. paid[c] = 0
        <5>1. paid[c] <= world.posted[c] /\ paid[c] \in Nat
          BY <1>0, <4>1, Quantities DEF FeedsOK
        <5> QED  BY <3>2, <4>1, <5>1
      <4>4. Attributed(Window)[c] = paid[c]
        BY <4>1, <4>2, <4>3 DEF Attributed
      <4> QED  BY <4>2, <4>4 DEF AffectedBy
    <3>4. AffectedBy(Window) = {}
      BY <3>3
    <3> QED  BY <1>2, <2>2, <3>1, <3>4
  <2>8. /\ ~cursor'.open /\ cursor'.complete /\ cursor'.covers
    BY <1>1, <2>6
  <2> QED  BY <1>1, <1>2, <1>4, <2>2, <2>4, <2>5, <2>7, <2>8 DEF BuyingOK
<1>21. ExitOK'
  BY <1>1, <1>2, <1>4, <1>18 DEF CoinsOK, ExitOK
<1>22. ReadingOK'
  BY <1>2 DEF ReadingOK
<1>23. Books'
  <2>1. world'.fees = world.fees /\ world'.bought = world.bought /\ world'.fee = world.fee
    BY <1>1
  <2>2. Fresh' => Fresh /\ eng'.positions = eng.positions /\ eng'.seen = eng.seen
    BY <1>2, <1>11
  <2>3. Fresh' /\ ~Covered' /\ eng'.purpose = "buy" => ~Covered /\ eng.purpose = "buy"
    BY <1>2, <1>11
  <2> QED  BY <1>1, <1>11, <2>1, <2>2, <2>3, BooksStay DEF CoinsOK
<1> QED  BY <1>12, <1>13, <1>14, <1>15, <1>16, <1>17, <1>19, <1>20, <1>21, <1>22, <1>23 DEF CoinsOK

-----------------------------------------------------------------------------
(* Entries and exits *)

LEMMA RequestExitCoins ==
  ASSUME OwnershipInv, PlainScene, CoinsOK, NEW c \in Cycle, RequestExit(c)
  PROVE  CoinsOK'
<1>0. TypeOK /\ cycle \in [Cycle -> CycleRow] /\ OrdersOK
  BY DEF OwnershipInv, TypeOK, CoinsOK
<1> DEFINE row == [cycle[c] EXCEPT !.exit = TRUE]
<1>1. /\ UNCHANGED <<world, order, acts, paid, cursor, protected, ev, shown, eng, scene>>
      /\ cycle' = [cycle EXCEPT ![c] = row]
      /\ eng.pc = "idle" /\ cycle[c].state # "absent"
  BY <1>0 DEF RequestExit, Idle, Active
<1>2. /\ row.owned = cycle[c].owned /\ row.sold = cycle[c].sold /\ row.state = cycle[c].state
  BY <1>0 DEF CycleRow
<1> HIDE DEF row
<1>3. /\ \A d \in Cycle : /\ cycle'[d].sold = cycle[d].sold /\ cycle'[d].owned = cycle[d].owned
                          /\ cycle'[d].state = cycle[d].state
      /\ \A d \in Cycle \ {c} : cycle'[d] = cycle[d]
  BY <1>0, <1>1, <1>2
<1>4. Feed' = Feed /\ (Fresh' <=> Fresh) /\ (Covered' <=> Covered)
  BY <1>1 DEF Feed, Fresh, Covered
<1>5. AccountOK' /\ Solvent'
  BY <1>1 DEF CoinsOK, AccountOK, Solvent, OwnersNet
<1>6. OrdersOK'
  <2>1. ASSUME NEW d \in Cycle PROVE OrderOK(d)'
    <3>1. OrderOK(d) /\ (cycle'[d].state = "absent" => cycle'[d] = cycle[d])
      BY <1>0, <1>1, <1>3 DEF OrdersOK
    <3>2. cycle'[d].sold = cycle[d].sold /\ cycle'[d].state = cycle[d].state
      BY <1>3
    <3> QED  BY <1>1, <3>1, <3>2 DEF OrderOK, Single
  <2> QED  BY <2>1 DEF OrdersOK
<1>7. FeedsOK' /\ SeenOK' /\ FreshOK'
  BY <1>1, <1>4 DEF CoinsOK, FeedsOK, SeenOK, FreshOK
<1>8. NamedOK' /\ PurposeOK' /\ BuyingOK' /\ ExitOK' /\ ReadingOK'
  BY <1>1 DEF CoinsOK, NamedOK, PurposeOK, BuyingOK, ExitOK, ReadingOK
<1>9. Books'
  <2>1. Single => 1 \in Cycle
    BY <1>0, SingleCoins DEF CoinsOK
  <2>2. Single => cycle'[1].owned = cycle[1].owned /\ cycle'[1].sold = cycle[1].sold
    BY <1>3, <2>1
  <2> QED  BY <1>1, <1>4, <2>2, BooksStay DEF CoinsOK
<1> QED  BY <1>5, <1>6, <1>7, <1>8, <1>9 DEF CoinsOK

\* A step ends with a POST or without one.
LEMMA ReturnCoins ==
  ASSUME OwnershipInv, PlainScene, CoinsOK,
         UNCHANGED <<acts, paid, cursor, protected, ev, shown, cycle, scene>>,
         eng' = Return, eng.pc \notin {"down", "reading"},
         Feed' = Feed, world'.fees = world.fees, world'.bought = world.bought,
         world'.fee = world.fee,
         \A c \in Cycle : order'[c].sold = order[c].sold,
         Covered' => Covered, AccountOK', Solvent', OrdersOK'
  PROVE  CoinsOK'
<1>0. eng \in Engine
  BY DEF OwnershipInv, TypeOK
<1>1. /\ eng'.pc = "idle" /\ eng'.seen = eng.seen /\ eng'.positions = eng.positions
      /\ eng'.dirty = eng.dirty /\ eng'.purpose = "step" /\ eng'.current = FALSE
      /\ eng'.affected = {}
  BY <1>0, ReturnFields
<1>2. Fresh' => Fresh
  BY <1>1 DEF Fresh
<1>3. FeedsOK'
  <2>1. \A c \in Cycle : world'.posted[c] = world.posted[c]
    BY DEF Feed
  <2> QED  BY <2>1 DEF CoinsOK, FeedsOK
<1>4. SeenOK'
  BY <1>1 DEF CoinsOK, SeenOK
<1>5. FreshOK'
  BY <1>1, <1>2 DEF CoinsOK, FreshOK
<1>6. NamedOK' /\ PurposeOK' /\ BuyingOK' /\ ExitOK' /\ ReadingOK'
  BY <1>1 DEF NamedOK, PurposeOK, BuyingOK, ExitOK, ReadingOK
<1>7. Books'
  BY <1>1, <1>2, BooksStay DEF CoinsOK
<1> QED  BY <1>3, <1>4, <1>5, <1>6, <1>7 DEF CoinsOK

LEMMA BuyCoins ==
  ASSUME OwnershipInv, PlainScene, CoinsOK, SendBuy \/ RefuseBuy
  PROVE  CoinsOK'
<1>0. /\ TypeOK /\ world \in World /\ order \in [Cycle -> OrderRow] /\ OrdersOK
      /\ "late_answer" \notin scene.troubles
  BY DEF OwnershipInv, TypeOK, CoinsOK, PlainScene
<1>1. PICK st \in {"sent", "final"} :
         /\ UNCHANGED <<acts, paid, cursor, protected, ev, shown, cycle, scene>>
         /\ eng.pc = "armed" /\ eng' = Return
         /\ order' = [order EXCEPT ![eng.c].buy = st]
         /\ \/ st = "sent" /\ world' = [world EXCEPT !.buying[eng.c] = EntryQty]
            \/ st = "final" /\ world' = world
  <2>1. SendBuy =>
         /\ UNCHANGED <<acts, paid, cursor, protected, ev, shown, cycle, scene>>
         /\ eng.pc = "armed" /\ eng' = Return
         /\ order' = [order EXCEPT ![eng.c].buy = "sent"]
         /\ world' = [world EXCEPT !.buying[eng.c] = EntryQty]
    BY <1>0 DEF SendBuy
  <2>2. RefuseBuy =>
         /\ UNCHANGED <<acts, paid, cursor, protected, ev, shown, cycle, scene>>
         /\ eng.pc = "armed" /\ eng' = Return
         /\ order' = [order EXCEPT ![eng.c].buy = "final"]
         /\ world' = world
    BY DEF RefuseBuy
  <2> QED  BY <2>1, <2>2
<1>2. PICK c \in Cycle : /\ c = eng.c /\ order[c].buy = "approved" /\ cycle[c].state # "absent"
                         /\ order[c].sell = "none"
  BY <1>1 DEF CoinsOK, PurposeOK, BuyingOK
<1>3. PICK r \in OrderRow : r = order[c]
  BY <1>0
<1>4. order'[c] = [r EXCEPT !.buy = st] /\ \A d \in Cycle \ {c} : order'[d] = order[d]
  BY <1>0, <1>1, <1>2, <1>3
<1>5. /\ order'[c].buy = st /\ order'[c].buyId = order[c].buyId
      /\ order'[c].bought = order[c].bought /\ order'[c].sell = order[c].sell
      /\ order'[c].sold = order[c].sold
  BY <1>3, <1>4 DEF OrderRow
<1>6. /\ \A d \in Cycle : order'[d].sold = order[d].sold
  BY <1>4, <1>5
<1>7. /\ world'.bought = world.bought /\ world'.fee = world.fee /\ world'.posted = world.posted
      /\ world'.sold = world.sold /\ world'.selling = world.selling /\ world'.flying = world.flying
      /\ world'.buys = world.buys /\ world'.sells = world.sells /\ world'.fees = world.fees
      /\ world'.postedFees = world.postedFees
      /\ st = "final" => world'.buying = world.buying
      /\ \A d \in Cycle \ {c} : world'.buying[d] = world.buying[d]
  BY <1>0, <1>1, <1>2 DEF World
<1>8. Feed' = Feed /\ Covered
  BY <1>1, <1>7 DEF Feed, Covered
<1>9. AccountOK'
  BY <1>1, <1>7 DEF CoinsOK, AccountOK, OwnersNet
<1>10. Solvent'
  BY <1>7 DEF CoinsOK, Solvent, OurCoins, HeldCoins
<1>11. OrdersOK'
  <2>1. ASSUME NEW d \in Cycle PROVE OrderOK(d)'
    <3>1. OrderOK(d)
      BY <1>0 DEF OrdersOK
    <3>2. CASE d # c
      <4>1. order'[d] = order[d] /\ world'.buying[d] = world.buying[d]
        BY <1>4, <1>7, <3>2
      <4> QED  BY <1>1, <1>7, <3>1, <4>1 DEF OrderOK, Single
    <3>3. CASE d = c
      <4>1. st = "final" => ~(world'.buying[c] > 0)
        BY <1>2, <1>7, <3>1, <3>3 DEF OrderOK
      <4> QED  BY <1>1, <1>2, <1>5, <1>7, <3>1, <3>3, <4>1 DEF OrderOK, Single
    <3> QED  BY <3>2, <3>3
  <2> QED  BY <2>1 DEF OrdersOK
<1> QED  BY <1>1, <1>6, <1>7, <1>8, <1>9, <1>10, <1>11, ReturnCoins

\* The quantity of a sell is covered by what the engine has left.
LEMMA QuantityCovered ==
  ASSUME OwnershipInv, PlainScene, CoinsOK, eng.pc = "posting", eng.quantity <= Permitted
  PROVE  /\ eng.c \in Cycle /\ eng.quantity \in Nat /\ ~SymbolPending
         /\ eng.quantity <= OurCoins(world) /\ world.bought[eng.c] > 0
<1>0. /\ TypeOK /\ eng \in Engine /\ OrdersOK /\ AccountOK /\ acts \in FeedRecord
      /\ eng.seen \in FeedRecord
  BY DEF OwnershipInv, TypeOK, CoinsOK, Engine
<1>1. eng.purpose = "fence" /\ ~eng.dirty
  BY DEF CoinsOK, PurposeOK
<1>2. PICK c \in Cycle : /\ c = eng.c /\ cycle[c].sold = order[c].sold
                         /\ ~SymbolPending /\ eng.quantity >= 1
                         /\ eng.available <= scene.start + eng.seen.buys - eng.seen.sells
                                             + OurCoins(world)
  BY <1>1 DEF CoinsOK, ExitOK
<1>3. /\ eng.quantity \in Nat /\ cycle[c].owned \in Nat /\ cycle[c].sold \in Nat
      /\ cycle[c].claim \in Nat /\ cycle[c].bought \in Nat
      /\ protected \in Nat /\ eng.available \in Int /\ OurCoins(world) \in Int
      /\ world.bought[c] \in Nat /\ world.sold[c] \in Nat /\ world.fee[c] \in Nat
      /\ order[c].bought \in Nat
  BY <1>0, Quantities, CoinsTypes DEF Engine
<1>4. eng.quantity <= cycle[c].owned /\ eng.quantity <= eng.available - protected
  <2> DEFINE room == AtLeast0(eng.available - protected)
  <2>1. eng.quantity <= Lesser(cycle[c].owned, room)
    BY <1>2 DEF Permitted
  <2>2. room \in Nat /\ (room = 0 \/ room = eng.available - protected)
    BY <1>3 DEF AtLeast0
  <2> HIDE DEF room
  <2>3. eng.quantity <= cycle[c].owned /\ eng.quantity <= room
    BY <1>3, <2>1, <2>2 DEF Lesser
  <2> QED  BY <1>2, <1>3, <2>2, <2>3
<1>5. world.bought[c] > 0
  <2>1. /\ cycle[c].owned <= cycle[c].claim
        /\ cycle[c].claim <= AtLeast0(cycle[c].bought - cycle[c].sold - cycle[c].fee
                                      - cycle[c].disposed)
        /\ cycle[c].bought <= order[c].bought /\ order[c].bought <= world.bought[c]
        /\ cycle[c] \in CycleRow
    BY <1>0 DEF OwnershipInv, TypeOK, RowsOK, RowOK, FillsInOrder
  <2>2. cycle[c].fee \in Nat /\ cycle[c].disposed \in Nat
    BY <2>1 DEF CycleRow
  <2>3. AtLeast0(cycle[c].bought - cycle[c].sold - cycle[c].fee - cycle[c].disposed)
          <= cycle[c].bought
    BY <1>3, <2>2 DEF AtLeast0
  <2>4. AtLeast0(cycle[c].bought - cycle[c].sold - cycle[c].fee - cycle[c].disposed) \in Nat
    BY <1>3, <2>2 DEF AtLeast0
  <2> QED  BY <1>2, <1>3, <1>4, <2>1, <2>3, <2>4
<1>6. Covered /\ Fresh
  BY <1>1, <1>5 DEF Covered, Fresh
<1>7. PICK k0 \in Nat, k \in Nat, n \in Nat : BooksOK(k0, k, n)
  BY DEF CoinsOK, Books
<1>8. order[c].sold = world.sold[c]
  BY <1>0, <1>2, NothingHeld
<1>9. CASE Single
  <2>1. c = 1
    <3>1. cycle[c].state # "absent"
      <4>1. cycle[c].state = "absent" => cycle[c].owned = 0
        BY <1>2 DEF OwnershipInv, RowsOK, RowOK
      <4> QED  BY <1>2, <1>3, <1>4, <4>1
    <3> QED  BY <1>0, <1>9, <3>1 DEF OrdersOK, OrderOK
  <2>2. cycle[c].owned + cycle[c].sold <= world.bought[c] - world.fee[c]
    BY <1>7, <1>9, <2>1 DEF BooksOK
  <2>3. OurCoins(world) = world.bought[c] - world.fee[c] - world.sold[c]
    BY <1>0, <1>9, <2>1, SingleCoins
  <2> QED  BY <1>2, <1>3, <1>4, <1>5, <1>8, <2>2, <2>3
<1>10. CASE scene.buys = 0
  <2>1. /\ world.buys \in Nat /\ world.fees \in Nat /\ scene.start \in Nat /\ scene.buys \in Nat
        /\ ev.buys \in Nat /\ ev.sells \in Nat
        /\ eng.seen.buys \in Nat /\ eng.seen.sells \in Nat
    BY <1>0, Quantities DEF FeedRecord
  <2>2. world.fees <= world.buys /\ world.buys <= scene.buys
    BY <1>0 DEF AccountOK
  <2>3. k0 = 0
    <3>1. k0 <= world.fees
      BY <1>7 DEF BooksOK
    <3> QED  BY <1>7, <1>10, <2>1, <2>2, <3>1
  <2>4. protected >= scene.start + ev.buys - ev.sells - k0
    BY <1>6, <1>7 DEF BooksOK, Guarded
  <2>5. ev.sells <= eng.seen.sells
    BY <1>6 DEF CoinsOK, FreshOK
  <2>6. eng.seen.buys <= world.buys
    BY DEF CoinsOK, SeenOK, UpTo, Feed
  <2>7. eng.seen.buys = 0
    BY <1>10, <2>1, <2>2, <2>6
  <2>8. eng.available - protected <= OurCoins(world)
    BY <1>2, <1>3, <2>1, <2>3, <2>4, <2>5, <2>7
  <2> QED  BY <1>2, <1>3, <1>4, <1>5, <2>8
<1> QED  BY <1>9, <1>10 DEF PlainScene

LEMMA SellCoins ==
  ASSUME OwnershipInv, PlainScene, CoinsOK, SendSell
  PROVE  CoinsOK'
<1>0. /\ TypeOK /\ world \in World /\ order \in [Cycle -> OrderRow] /\ OrdersOK
      /\ "late_answer" \notin scene.troubles
  BY DEF OwnershipInv, TypeOK, CoinsOK, PlainScene
<1>1. /\ UNCHANGED <<acts, paid, cursor, protected, ev, shown, cycle, scene>>
      /\ eng.pc = "posting" /\ eng' = Return /\ eng.quantity <= Permitted
      /\ order' = [order EXCEPT ![eng.c].sell = "sent", ![eng.c].sellId = FALSE]
      /\ world' = [world EXCEPT !.selling[eng.c] = eng.quantity]
  BY <1>0 DEF SendSell
<1>2. PICK c \in Cycle : /\ c = eng.c /\ eng.quantity \in Nat /\ ~SymbolPending
                         /\ eng.quantity <= OurCoins(world) /\ world.bought[c] > 0
  BY <1>1, QuantityCovered
<1>3. PICK r \in OrderRow : r = order[c]
  BY <1>0
<1>4. /\ order'[c] = [r EXCEPT !.sell = "sent", !.sellId = FALSE]
      /\ \A d \in Cycle \ {c} : order'[d] = order[d]
  BY <1>0, <1>1, <1>2, <1>3
<1>5. /\ order'[c].buy = order[c].buy /\ order'[c].buyId = order[c].buyId
      /\ order'[c].bought = order[c].bought /\ order'[c].sell = "sent"
      /\ order'[c].sold = order[c].sold
  BY <1>3, <1>4 DEF OrderRow
<1>6. /\ \A d \in Cycle : /\ order'[d].sold = order[d].sold /\ order'[d].buy = order[d].buy
  BY <1>4, <1>5
<1>7. /\ world'.bought = world.bought /\ world'.fee = world.fee /\ world'.posted = world.posted
      /\ world'.sold = world.sold /\ world'.buying = world.buying /\ world'.flying = world.flying
      /\ world'.buys = world.buys /\ world'.sells = world.sells /\ world'.fees = world.fees
      /\ world'.postedFees = world.postedFees
      /\ world'.selling[c] = eng.quantity
      /\ \A d \in Cycle \ {c} : world'.selling[d] = world.selling[d]
  BY <1>0, <1>1, <1>2 DEF World
<1>8. Feed' = Feed
  BY <1>7 DEF Feed
<1>9. Covered' => Covered
  <2>1. eng'.pc # "armed"
    BY <1>1, ReturnFields DEF OwnershipInv, TypeOK
  <2> QED  BY <1>6, <1>7, <2>1 DEF Covered
<1>10. AccountOK'
  BY <1>1, <1>7 DEF CoinsOK, AccountOK, OwnersNet
<1>11. Solvent'
  <2> DEFINE H == world.selling
             K == world'.selling
  <2>1. /\ \A d \in Cycle : H[d] \in Int /\ K[d] \in Int
        /\ \A d \in Cycle \ {c} : K[d] = H[d]
        /\ K[c] = eng.quantity /\ H[c] = 0
    <3>1. \A d \in Cycle : H[d] = 0
      BY <1>0, <1>2, NothingHeld
    <3> QED  BY <1>2, <1>7, <3>1
  <2>2. SumOf(H, Cycle) = 0
    BY <1>0, <1>2, NothingHeld DEF HeldCoins
  <2>3. IsFiniteSet(Cycle)
    BY CyclesAreFinite
  <2>4. HeldCoins(world') = SumOf(K, Cycle)
    BY DEF HeldCoins
  <2> HIDE DEF H, K
  <2>5. SumOf(K, Cycle) = SumOf(H, Cycle) + IF c \in Cycle THEN K[c] - H[c] ELSE 0
    BY <2>1, <2>3, SumChanges
  <2>6. HeldCoins(world') = eng.quantity
    BY <1>2, <2>1, <2>2, <2>4, <2>5
  <2>7. OurCoins(world') = OurCoins(world)
    BY <1>7 DEF OurCoins
  <2> QED  BY <1>2, <2>6, <2>7 DEF Solvent
<1>12. OrdersOK'
  <2>1. ASSUME NEW d \in Cycle PROVE OrderOK(d)'
    <3>1. OrderOK(d)
      BY <1>0 DEF OrdersOK
    <3>2. CASE d # c
      <4>1. order'[d] = order[d] /\ world'.selling[d] = world.selling[d]
        BY <1>4, <1>7, <3>2
      <4> QED  BY <1>1, <1>7, <3>1, <4>1 DEF OrderOK, Single
    <3>3. CASE d = c
      BY <1>1, <1>2, <1>5, <1>7, <3>1, <3>3 DEF OrderOK, Single
    <3> QED  BY <3>2, <3>3
  <2> QED  BY <2>1 DEF OrdersOK
<1> QED  BY <1>1, <1>6, <1>7, <1>8, <1>9, <1>10, <1>11, <1>12, ReturnCoins

\* A cycle begins; before the first one the whole account is the owner's.
LEMMA NewCycleCoins ==
  ASSUME MinOrder = 1, OwnershipInv, PlainScene, CoinsOK, NEW c \in Cycle, NewCycle(c)
  PROVE  CoinsOK'
<1>0. /\ TypeOK /\ cycle \in [Cycle -> CycleRow] /\ order \in [Cycle -> OrderRow]
      /\ OrdersOK /\ AccountOK
  BY DEF OwnershipInv, TypeOK, CoinsOK
<1>1. /\ UNCHANGED <<world, acts, paid, cursor, ev, shown, scene>>
      /\ eng.pc = "idle" /\ LookedUp /\ ~SymbolPending /\ cursor.complete
      /\ c <= scene.cycles /\ cycle[c].state = "absent"
      /\ cycle' = [cycle EXCEPT ![c].state = "entry_pending"]
      /\ order' = [order EXCEPT ![c].buy = "approved"]
      /\ protected' = IF c = 1 THEN Tradable(Balance, Balance) ELSE protected
      /\ Read("buy", c)
  BY DEF NewCycle, Idle
<1>2. /\ ~cursor.open /\ Active = {} /\ (c = 1 => world.postedFees = world.fees)
  <2>1. /\ "long_window" \notin scene.troubles /\ "overlap" \notin scene.troubles
        /\ "owed_fee" \notin scene.troubles
    BY DEF PlainScene
  <2> QED  BY <2>1 DEF NewCycle
<1>3. OrderOK(c) /\ cycle[c] = NoCycle /\ order[c].buy = "none" /\ world.bought[c] = 0
  BY <1>0, <1>1 DEF OrdersOK, OrderOK
<1>4. PICK r \in OrderRow : r = order[c]
  BY <1>0
<1>5. order'[c] = [r EXCEPT !.buy = "approved"] /\ \A d \in Cycle \ {c} : order'[d] = order[d]
  BY <1>0, <1>1, <1>4
<1>6. /\ order'[c].buy = "approved" /\ order'[c].buyId = order[c].buyId
      /\ order'[c].bought = order[c].bought /\ order'[c].sell = order[c].sell
      /\ order'[c].sellId = order[c].sellId /\ order'[c].sold = order[c].sold
  BY <1>4, <1>5 DEF OrderRow
<1> DEFINE row == [NoCycle EXCEPT !.state = "entry_pending"]
<1>7. cycle'[c] = row /\ \A d \in Cycle \ {c} : cycle'[d] = cycle[d]
  BY <1>0, <1>1, <1>3
<1>8. row.state = "entry_pending" /\ row.sold = 0 /\ row.owned = 0
      /\ cycle[c].sold = 0 /\ cycle[c].owned = 0
  BY <1>3 DEF NoCycle
<1> HIDE DEF row
<1>9. \A d \in Cycle : cycle'[d].sold = cycle[d].sold /\ cycle'[d].owned = cycle[d].owned
  BY <1>7, <1>8
<1>10. /\ eng'.pc = "reading" /\ eng'.purpose = "buy" /\ eng'.c = c
       /\ eng'.seen = eng.seen /\ eng'.dirty = eng.dirty /\ eng'.current = eng.current
       /\ eng'.affected = eng.affected
       /\ eng'.positions = OwnersNet + OurCoins(world)
       /\ eng'.available <= OwnersNet + OurCoins(world)
  BY <1>0, <1>1, BeginRead
<1>11. Feed' = Feed /\ ~Fresh'
  BY <1>1, <1>10 DEF Feed, Fresh
<1>12. Covered' => Covered
  BY <1>1, <1>5, <1>6, <1>10 DEF Covered
<1>13. ~Single \/ c = 1
  <2>1. Single => c <= 1
    BY <1>1 DEF Single
  <2> QED  BY <2>1 DEF Cycle
<1>14. AccountOK' /\ Solvent'
  BY <1>1 DEF CoinsOK, AccountOK, Solvent, OwnersNet
<1>15. OrdersOK'
  <2>1. ASSUME NEW d \in Cycle PROVE OrderOK(d)'
    <3>1. OrderOK(d)
      BY <1>0 DEF OrdersOK
    <3>2. CASE d # c
      <4>1. order'[d] = order[d] /\ cycle'[d] = cycle[d]
        BY <1>5, <1>7, <3>2
      <4> QED  BY <1>1, <3>1, <4>1 DEF OrderOK, Single
    <3>3. CASE d = c
      <4>1. cycle'[c].state = "entry_pending" /\ cycle'[c].sold = cycle[c].sold
        BY <1>7, <1>8
      <4>2. ~(world.buying[c] > 0)
        BY <1>3 DEF OrderOK
      <4>3. (Single' <=> Single)
        BY <1>1 DEF Single
      <4> QED  BY <1>1, <1>3, <1>6, <1>13, <3>1, <3>3, <4>1, <4>2, <4>3 DEF OrderOK
    <3> QED  BY <3>2, <3>3
  <2> QED  BY <2>1 DEF OrdersOK
<1>16. NamedOK'
  <2>1. \A d \in Cycle : /\ order[d].buy = "sent" => order[d].buyId
                         /\ order[d].sell = "sent" => order[d].sellId
    BY <1>0, <1>1, LookedUpNames
  <2> QED  BY <1>5, <1>6, <2>1 DEF NamedOK
<1>17. FeedsOK'
  <2>1. \A d \in Cycle : order'[d].sold = order[d].sold
    BY <1>5, <1>6
  <2> QED  BY <1>1, <1>11, <2>1 DEF CoinsOK, FeedsOK
<1>18. SeenOK' /\ FreshOK'
  BY <1>1, <1>10, <1>11 DEF CoinsOK, SeenOK, FreshOK
<1>19. PurposeOK' /\ ExitOK'
  BY <1>10 DEF PurposeOK, ExitOK
<1>20. BuyingOK'
  <2>1. ~eng.current /\ eng.affected = {}
    BY <1>1 DEF CoinsOK, PurposeOK
  <2>2. \A d \in Cycle : order'[d].buy # "sent" /\ order'[d].sell = "none"
    <3>1. ASSUME NEW d \in Cycle PROVE order[d].buy # "sent" /\ order[d].sell = "none"
      BY <1>0, <1>1, NothingHeld DEF SymbolPending
    <3> QED  BY <1>5, <1>6, <3>1
  <2>3. Active' = {c}
    <3>1. c \in Active'
      BY <1>7, <1>8 DEF Active, CLOSED
    <3>2. ASSUME NEW d \in Cycle, d # c PROVE d \notin Active'
      <4>1. d \notin Active /\ cycle'[d] = cycle[d]
        BY <1>2, <1>7, <3>2
      <4> QED  BY <4>1 DEF Active
    <3> QED  BY <3>1, <3>2 DEF Active
  <2>4. world.postedFees = world.fees
    <3>1. CASE c = 1
      BY <1>2, <3>1
    <3>2. CASE c # 1
      <4>1. scene.buys = 0
        BY <1>13, <3>2 DEF PlainScene
      <4>2. /\ world.buys \in Nat /\ world.fees \in Nat /\ world.postedFees \in Nat
            /\ world.postedFees <= world.fees /\ world.fees <= world.buys
            /\ world.buys <= scene.buys
        BY <1>0, Quantities DEF AccountOK
      <4> QED  BY <4>1, <4>2
    <3> QED  BY <3>1, <3>2
  <2>5. cycle'[c] = [NoCycle EXCEPT !.state = "entry_pending"] /\ cycle'[c].state # "absent"
    BY <1>7, <1>8 DEF row
  <2>6. /\ ~cursor'.open /\ cursor'.complete /\ world'.postedFees = world'.fees
    BY <1>1, <1>2, <2>4
  <2> QED  BY <1>6, <1>10, <2>1, <2>2, <2>3, <2>5, <2>6 DEF BuyingOK
<1>21. ReadingOK'
  BY <1>1, <1>10 DEF ReadingOK, OwnersNet
<1>22. Books'
  <2>1. PICK k0 \in Nat, k \in Nat, n \in Nat : BooksOK(k0, k, n)
    BY DEF CoinsOK, Books
  <2>2. Covered' => Guarded(protected, ev, scene.start, k0)'
    <3>1. CASE c = 1
      <4>1. ASSUME NEW d \in Cycle PROVE order[d].buy = "none" /\ world.bought[d] = 0
        <5>1. cycle[d].state = "absent"
          <6>1. d = c \/ c < d
            BY <3>1 DEF Cycle
          <6> QED  BY <1>1, <6>1 DEF OwnershipInv, CreatedInOrder
        <5> QED  BY <1>0, <5>1 DEF OrdersOK, OrderOK
      <4>2. ~Covered
        BY <1>1, <4>1 DEF Covered
      <4> QED  BY <1>12, <4>2
    <3>2. CASE c # 1
      <4>1. protected' = protected
        BY <1>1, <3>2
      <4> QED  BY <1>1, <1>12, <2>1, <4>1 DEF BooksOK, Guarded
    <3> QED  BY <3>1, <3>2
  <2>3. Single => cycle'[1].owned = cycle[1].owned /\ cycle'[1].sold = cycle[1].sold
    <3>1. Single => 1 \in Cycle
      BY <1>0, SingleCoins
    <3> QED  BY <1>9, <3>1
  <2>4. BooksOK(k0, k, n)'
    BY <1>1, <1>11, <2>1, <2>2, <2>3 DEF BooksOK, Single
  <2> QED  BY <2>4 DEF Books
<1> QED  BY <1>14, <1>15, <1>16, <1>17, <1>18, <1>19, <1>20, <1>21, <1>22 DEF CoinsOK

-----------------------------------------------------------------------------
(* A refresh *)

\* Every order that has fills has a name: what counts as the owner's is.
LEMMA StrangeIsOwners ==
  ASSUME TypeOK, AccountOK, OrdersOK, NamedOK, FeedsOK, eng.pc = "refresh",
         NEW f \in FeedRecord, \A c \in Cycle : f.bought[c] <= acts.bought[c]
                                                /\ f.posted[c] <= acts.posted[c]
  PROVE  Strange(f) = [buys |-> f.buys, sells |-> f.sells, fees |-> f.fees]
<1> DEFINE A == {c \in Cycle : ~order[c].buyId}
           S == {c \in Cycle : order[c].sell = "sent" /\ ~order[c].sellId}
           G == [c \in S |-> AtLeast0(f.sold[c] - order[c].sold)]
           Fill(h) == [s \in SUBSET S |-> IF s = {} THEN 0
                          ELSE AtLeast0(f.sold[Chosen(s)] - order[Chosen(s)].sold) + h[s \ {Chosen(s)}]]
           more == MapThenSumSet(LAMBDA c : AtLeast0(f.sold[c] - order[c].sold), S)
<1>1. ASSUME NEW c \in A PROVE f.bought[c] = 0 /\ f.posted[c] = 0
  <2>1. c \in Cycle /\ order[c].buy # "sent"
    BY DEF NamedOK
  <2>2. world.bought[c] = 0
    BY <2>1 DEF OrdersOK, OrderOK
  <2>3. /\ f.bought[c] \in Nat /\ f.posted[c] \in Nat
        /\ acts.bought[c] \in Nat /\ acts.posted[c] \in Nat
        /\ world.posted[c] \in Nat /\ world.fee[c] \in Nat
    BY <2>1, Quantities DEF TypeOK, FeedRecord
  <2>4. /\ f.bought[c] <= acts.bought[c] /\ f.posted[c] <= acts.posted[c]
        /\ acts.bought[c] <= world.bought[c] /\ acts.posted[c] <= world.posted[c]
    BY <2>1 DEF FeedsOK, UpTo, Feed
  <2>5. world.posted[c] <= world.fee[c] /\ world.fee[c] <= world.bought[c]
    BY <2>1 DEF AccountOK
  <2> QED  BY <2>2, <2>3, <2>4, <2>5
<1>2. Total(f.bought, A) = 0 /\ Total(f.posted, A) = 0
  <2>1. A \in SUBSET Cycle
    OBVIOUS
  <2> HIDE DEF A
  <2> QED  BY <1>1, <2>1, ZeroTotal
<1>3. S = {}
  BY DEF NamedOK
<1>4. more = 0
  <2>1. ASSUME NEW h PROVE Fill(h) = SumStep(G, S, h)
    <3>1. \A s \in SUBSET S : s # {} => G[Chosen(s)] = AtLeast0(f.sold[Chosen(s)] - order[Chosen(s)].sold)
      BY DEF Chosen
    <3> QED  BY <3>1 DEF SumStep
  <2>2. more = (CHOOSE h : h = Fill(h))[S]
    BY DEF MapThenSumSet, MapThenFoldSet, Chosen
  <2> HIDE DEF Fill, G, S, more
  <2>4. (CHOOSE h : h = Fill(h)) = (CHOOSE h : h = SumStep(G, S, h))
    BY <2>1
  <2>5. more = SumOf(G, S)
    BY <2>2, <2>4, SumIsStep
  <2> QED  BY <1>3, <2>5, EmptySum
<1>5. Strange(f) = [buys |-> f.buys + Total(f.bought, A), sells |-> f.sells + more,
                    fees |-> f.fees + Total(f.posted, A)]
  BY DEF Strange
<1> HIDE DEF A, S, more
<1>6. f.buys \in Nat /\ f.sells \in Nat /\ f.fees \in Nat
  BY DEF FeedRecord
<1> QED  BY <1>2, <1>4, <1>5, <1>6

\* What a refresh counts as the owner's is in the activities and in the
\* positions, and all of what is in covered positions.
LEMMA FlowOfRefresh ==
  ASSUME TypeOK, CoinsOK, eng.pc = "refresh", ~eng.dirty,
         NEW total, total = Strange(Common(acts, eng.seen))
  PROVE  /\ total \in FlowTotal
         /\ ev.buys <= total.buys /\ ev.sells <= total.sells /\ ev.fees <= total.fees
         /\ total.buys <= acts.buys /\ total.sells <= acts.sells /\ total.fees <= acts.fees
         /\ total.buys <= eng.seen.buys /\ total.sells <= eng.seen.sells
         /\ total.fees <= eng.seen.fees
         /\ cursor.covers => /\ total.buys = eng.seen.buys /\ total.sells = eng.seen.sells
                             /\ total.fees = eng.seen.fees
<1> DEFINE f == Common(acts, eng.seen)
<1>1. acts \in FeedRecord /\ eng.seen \in FeedRecord
  BY DEF TypeOK, Engine
<1>2. f \in FeedRecord
  BY <1>1, CommonType
<1>3. /\ f.buys = Lesser(acts.buys, eng.seen.buys) /\ f.sells = Lesser(acts.sells, eng.seen.sells)
      /\ f.fees = Lesser(acts.fees, eng.seen.fees)
      /\ \A c \in Cycle : /\ f.bought[c] = Lesser(acts.bought[c], eng.seen.bought[c])
                          /\ f.posted[c] = Lesser(acts.posted[c], eng.seen.posted[c])
  BY DEF Common
<1> HIDE DEF f
<1>4. \A c \in Cycle : f.bought[c] <= acts.bought[c] /\ f.posted[c] <= acts.posted[c]
  <2>1. ASSUME NEW c \in Cycle PROVE f.bought[c] <= acts.bought[c] /\ f.posted[c] <= acts.posted[c]
    <3>1. /\ acts.bought[c] \in Nat /\ acts.posted[c] \in Nat
          /\ eng.seen.bought[c] \in Nat /\ eng.seen.posted[c] \in Nat
      BY <1>1 DEF FeedRecord
    <3>2. /\ f.bought[c] = Lesser(acts.bought[c], eng.seen.bought[c])
          /\ f.posted[c] = Lesser(acts.posted[c], eng.seen.posted[c])
      BY <1>3
    <3> QED  BY <3>1, <3>2 DEF Lesser
  <2> QED  BY <2>1
<1>5. Strange(f) = [buys |-> f.buys, sells |-> f.sells, fees |-> f.fees]
  BY <1>2, <1>4, StrangeIsOwners DEF CoinsOK
<1>6. total.buys = f.buys /\ total.sells = f.sells /\ total.fees = f.fees /\ total \in FlowTotal
  BY <1>2, <1>5, StrangeType DEF f
<1>7. /\ acts.buys \in Nat /\ acts.sells \in Nat /\ acts.fees \in Nat
      /\ eng.seen.buys \in Nat /\ eng.seen.sells \in Nat /\ eng.seen.fees \in Nat
      /\ ev.buys \in Nat /\ ev.sells \in Nat /\ ev.fees \in Nat
  BY <1>1, Quantities DEF FeedRecord
<1>8. /\ ev.buys <= acts.buys /\ ev.sells <= acts.sells /\ ev.fees <= acts.fees
  BY DEF CoinsOK, FeedsOK
<1>9. /\ ev.buys <= eng.seen.buys /\ ev.sells <= eng.seen.sells /\ ev.fees <= eng.seen.fees
  BY DEF CoinsOK, FreshOK, Fresh
<1>10. cursor.covers => /\ eng.seen.buys <= acts.buys /\ eng.seen.sells <= acts.sells
                        /\ eng.seen.fees <= acts.fees
  BY DEF CoinsOK, SeenOK, UpTo
<1>11. \A x, y \in Nat : /\ Lesser(x, y) <= x /\ Lesser(x, y) <= y
                         /\ y <= x => Lesser(x, y) = y
                         /\ \A z \in Nat : z <= x /\ z <= y => z <= Lesser(x, y)
  BY DEF Lesser
<1> QED  BY <1>3, <1>6, <1>7, <1>8, <1>9, <1>10, <1>11

\* No cycle owns more than all of them.
LEMMA PartOfOwned ==
  ASSUME NEW rows \in [Cycle -> CycleRow], 1 \in Cycle
  PROVE  OwnedSum(rows) \in Int /\ rows[1].owned <= OwnedSum(rows)
<1> DEFINE F == [c \in Cycle |-> rows[c].owned]
           Z == [c \in Cycle |-> 0]
           D == [c \in Cycle |-> IF c = 1 THEN rows[1].owned ELSE 0]
<1>1. \A c \in Cycle : rows[c].owned \in Nat
  BY DEF CycleRow
<1>2. \A c \in Cycle : /\ F[c] \in Int /\ D[c] \in Int /\ Z[c] \in Int /\ Z[c] >= 0
                       /\ D[c] <= F[c] /\ ~(Z[c] > 0)
  BY <1>1
<1>3. \A c \in Cycle \ {1} : D[c] = Z[c]
  OBVIOUS
<1>4. D[1] = rows[1].owned /\ Z[1] = 0 /\ rows[1].owned \in Int
  BY <1>1
<1>5. OwnedSum(rows) = SumOf(F, Cycle)
  BY DEF OwnedSum
<1>6. IsFiniteSet(Cycle)
  BY CyclesAreFinite
<1> HIDE DEF F, Z, D
<1>7. SumOf(D, Cycle) = SumOf(Z, Cycle) + IF 1 \in Cycle THEN D[1] - Z[1] ELSE 0
  BY <1>2, <1>3, <1>6, SumChanges
<1>8. SumOf(Z, Cycle) \in Int /\ SumOf(Z, Cycle) >= 0 /\ ~(SumOf(Z, Cycle) > 0)
  BY <1>2, <1>6, NonNegativeSum, PositiveSum
<1>9. SumOf(D, Cycle) <= SumOf(F, Cycle) /\ SumOf(F, Cycle) \in Int
  BY <1>2, <1>6, GrowingSum, SumOfInts
<1> QED  BY <1>4, <1>5, <1>7, <1>8, <1>9

\* What a refresh works on.
RefreshOf(total) ==
    Refresh(Refreshed, cycle, [c \in Cycle |-> KnownOf(c)], protected, ev, total, eng.positions,
            EvidenceReady, eng.purpose = "buy")

LEMMA RefreshedTypes ==
  ASSUME OwnershipInv
  PROVE  /\ Refreshed \in SUBSET Cycle
         /\ \A c \in Refreshed : cycle[c].state # "absent"
         /\ \A c \in Cycle \ Refreshed : cycle[c].owned = 0
         /\ cycle \in [Cycle -> CycleRow] /\ [c \in Cycle |-> KnownOf(c)] \in [Cycle -> Knowledge]
         /\ protected \in Nat /\ ev \in Evidence /\ eng.positions \in Nat
         /\ EvidenceReady \in BOOLEAN /\ (eng.purpose = "buy") \in BOOLEAN
         /\ \A c \in Cycle : /\ cycle[c].bought <= KnownOf(c).bought
                             /\ KnownOf(c).bought = order[c].bought /\ KnownOf(c).sold = order[c].sold
<1>0. TypeOK /\ eng \in Engine /\ cycle \in [Cycle -> CycleRow] /\ cursor \in Cursor
  BY DEF OwnershipInv, TypeOK
<1>1. /\ Refreshed \in SUBSET Cycle
      /\ \A c \in Refreshed : cycle[c].state # "absent"
      /\ \A c \in Cycle \ Refreshed : cycle[c].state \in CLOSED \cup {"absent"}
  BY <1>0 DEF Refreshed, Active, Engine
<1>2. \A c \in Cycle \ Refreshed : cycle[c].owned = 0
  BY <1>1 DEF OwnershipInv, RowsOK, RowOK
<1>3. [c \in Cycle |-> KnownOf(c)] \in [Cycle -> Knowledge]
  BY <1>0, KnownType
<1>4. protected \in Nat /\ ev \in Evidence /\ eng.positions \in Nat
  BY <1>0, Quantities DEF TypeOK
<1>5. EvidenceReady \in BOOLEAN /\ (eng.purpose = "buy") \in BOOLEAN
  BY <1>0 DEF EvidenceReady, Cursor
<1>6. \A c \in Cycle : /\ cycle[c].bought <= KnownOf(c).bought
                       /\ KnownOf(c).bought = order[c].bought /\ KnownOf(c).sold = order[c].sold
  BY DEF OwnershipInv, FillsInOrder, KnownOf
<1> QED  BY <1>0, <1>1, <1>2, <1>3, <1>4, <1>5, <1>6

\* The first buy waits for evidence up to its positions.
LEMMA BuyIsReady ==
  ASSUME TypeOK, CoinsOK, eng.pc = "refresh", ~NeedsEvidence, eng.purpose = "buy"
  PROVE  EvidenceReady
<1>1. ~cursor.open /\ cursor.complete /\ (eng.current => cursor.covers)
  BY DEF CoinsOK, BuyingOK
<1>2. eng.current \/ cursor.covers
  BY DEF NeedsEvidence, EvidenceStale
<1> QED  BY <1>1, <1>2 DEF EvidenceReady

\* Only the first cycle has coins when there is no other or the owner buys
\* nothing, and none before a buy.
LEMMA RefreshOwners ==
  ASSUME OwnershipInv, PlainScene, CoinsOK, eng.pc = "refresh", ~eng.dirty, EvidenceReady,
         NEW k0 \in Nat, NEW k \in Nat, NEW n \in Nat, BooksOK(k0, k, n),
         Single \/ eng.purpose = "buy"
  PROVE  OwnedWithin(Refreshed, cycle, [c \in Cycle |-> KnownOf(c)], n)
<1> DEFINE known == [c \in Cycle |-> KnownOf(c)]
<1>0. TypeOK /\ OrdersOK /\ acts \in FeedRecord /\ eng.seen \in FeedRecord
  BY DEF OwnershipInv, TypeOK, CoinsOK, Engine
<1>1. /\ \A c \in Refreshed : c \in Cycle /\ cycle[c].state # "absent"
      /\ \A c \in Cycle : known[c].sold = order[c].sold
  BY RefreshedTypes
<1>2. ASSUME NEW c \in Cycle
      PROVE  /\ cycle[c].owned \in Nat /\ cycle[c].sold \in Nat /\ order[c].sold \in Nat
             /\ cycle[c].sold <= order[c].sold
  BY <1>0, Quantities DEF OrdersOK, OrderOK
<1>3. ASSUME NEW c \in Cycle
      PROVE  StillCovered(cycle[c], known[c]) = AtLeast0(cycle[c].owned - (order[c].sold - cycle[c].sold))
  BY <1>1 DEF StillCovered
<1> HIDE DEF known
<1>4. ASSUME Single, NEW c \in Refreshed
      PROVE  StillCovered(cycle[c], known[c]) <= IF c = 1 THEN n ELSE 0
  <2>1. c = 1 /\ c \in Cycle
    BY <1>0, <1>1, <1>4 DEF OrdersOK, OrderOK
  <2>2. cycle[c].owned + cycle[c].sold <= n + eng.seen.sold[c]
    BY <1>4, <2>1 DEF BooksOK, Fresh
  <2>3. eng.seen.sold[c] <= acts.sold[c] /\ acts.sold[c] <= order[c].sold
    BY <2>1 DEF CoinsOK, SeenOK, FeedsOK, UpTo, EvidenceReady
  <2>4. eng.seen.sold[c] \in Nat /\ acts.sold[c] \in Nat
    BY <1>0, <2>1 DEF FeedRecord
  <2>5. cycle[c].owned - (order[c].sold - cycle[c].sold) <= n
    BY <1>2, <2>1, <2>2, <2>3, <2>4
  <2>6. AtLeast0(cycle[c].owned - (order[c].sold - cycle[c].sold)) <= n
    BY <1>2, <2>1, <2>5 DEF AtLeast0
  <2> QED  BY <1>3, <2>1, <2>6
<1>5. ASSUME eng.purpose = "buy", NEW c \in Refreshed
      PROVE  StillCovered(cycle[c], known[c]) <= IF c = 1 THEN n ELSE 0
  <2>1. c \in Cycle
    BY <1>1
  <2>2. cycle[c].owned = 0
    <3>1. /\ Active = {eng.c} /\ cycle[eng.c] = [NoCycle EXCEPT !.state = "entry_pending"]
      BY <1>5 DEF CoinsOK, BuyingOK
    <3>2. CASE c \in Active
      BY <3>1, <3>2 DEF NoCycle
    <3>3. CASE c \notin Active
      <4>1. cycle[c].state \in CLOSED \cup {"absent"}
        BY <2>1, <3>3 DEF Active
      <4> QED  BY <2>1, <4>1 DEF OwnershipInv, RowsOK, RowOK
    <3> QED  BY <3>2, <3>3
  <2>3. ~(cycle[c].owned - (order[c].sold - cycle[c].sold) > 0)
    BY <1>2, <2>1, <2>2
  <2>4. StillCovered(cycle[c], known[c]) = 0
    BY <1>3, <2>1, <2>3 DEF AtLeast0
  <2> QED  BY <2>4
<1> QED  BY <1>4, <1>5 DEF OwnedWithin, known

\* What a refresh leaves protected covers the owner's coins.
LEMMA RefreshProtects ==
  ASSUME OwnershipInv, PlainScene, CoinsOK, eng.pc = "refresh", ~eng.dirty, ~NeedsEvidence,
         NEW k0 \in Nat, NEW k \in Nat, NEW n \in Nat, BooksOK(k0, k, n),
         NEW total, total = Strange(Common(acts, eng.seen)), NEW new, new = RefreshOf(total),
         Covered \/ eng.purpose = "buy"
  PROVE  Counts(new.ev, total) /\ Guarded(new.protected, new.ev, scene.start, k)
<1> DEFINE known == [c \in Cycle |-> KnownOf(c)]
           buying == eng.purpose = "buy"
<1>0. TypeOK /\ OrdersOK /\ AccountOK /\ Fresh
  BY DEF OwnershipInv, CoinsOK, Fresh
<1>1. /\ Refreshed \in SUBSET Cycle /\ cycle \in [Cycle -> CycleRow]
      /\ known \in [Cycle -> Knowledge] /\ protected \in Nat /\ ev \in Evidence
      /\ eng.positions \in Nat /\ EvidenceReady \in BOOLEAN /\ buying \in BOOLEAN
      /\ \A c \in Cycle : cycle[c].bought <= known[c].bought
      /\ \A c \in Cycle : known[c].bought = order[c].bought
  BY RefreshedTypes
<1>2. /\ total \in FlowTotal
      /\ ev.buys <= total.buys /\ ev.sells <= total.sells /\ ev.fees <= total.fees
      /\ total.buys <= eng.seen.buys /\ total.sells <= eng.seen.sells
      /\ total.fees <= eng.seen.fees
      /\ EvidenceReady => /\ total.buys = eng.seen.buys /\ total.sells = eng.seen.sells
                          /\ total.fees = eng.seen.fees
  BY <1>0, FlowOfRefresh DEF EvidenceReady
<1>3. /\ k0 <= k /\ eng.seen.fees <= k
      /\ eng.positions = scene.start + eng.seen.buys - eng.seen.sells - k + n
      /\ Covered => Guarded(protected, ev, scene.start, k0)
      /\ ~Covered /\ buying => k = eng.seen.fees
  BY <1>0 DEF BooksOK
<1>4. /\ total.buys \in Nat /\ total.sells \in Nat /\ total.fees \in Nat
      /\ eng.seen.buys \in Nat /\ eng.seen.sells \in Nat /\ eng.seen.fees \in Nat
      /\ scene.start \in Nat /\ scene.start \in Int /\ ev.buys \in Nat
      /\ world.buys \in Nat /\ scene.buys \in Nat
  <2>1. eng.seen \in FeedRecord
    BY <1>0 DEF TypeOK, Engine
  <2>2. scene.start \in Nat /\ ev.buys \in Nat /\ world.buys \in Nat /\ scene.buys \in Nat
    BY <1>0, Quantities
  <2> QED  BY <1>2, <2>1, <2>2 DEF FeedRecord, FlowTotal
<1>5. total.fees <= k
  BY <1>2, <1>3, <1>4
<1>6. new = Refresh(Refreshed, cycle, known, protected, ev, total, eng.positions, EvidenceReady,
                    buying)
  BY DEF RefreshOf
<1>70. EvidenceReady => eng.positions >= scene.start + total.buys - total.sells - k + n
  BY <1>2, <1>3, <1>4
<1>71. EvidenceReady /\ (Single \/ buying) => OwnedWithin(Refreshed, cycle, known, n)
  BY RefreshOwners
<1>72. \A c \in Cycle : known[c].awaited = IF order[c].buy = "sent" THEN EntryQty - order[c].bought ELSE 0
  BY DEF KnownOf
<1>73. buying => EvidenceReady
  BY <1>0, BuyIsReady
<1>7. CASE Covered
  <2>1. total.buys > ev.buys => Single
    <3> SUFFICES ASSUME scene.buys = 0 PROVE ~(total.buys > ev.buys)
      BY DEF PlainScene
    <3>1. eng.seen.buys <= world.buys /\ world.buys <= scene.buys
      BY <1>0 DEF CoinsOK, SeenOK, UpTo, Feed, AccountOK
    <3> QED  BY <1>2, <1>4, <3>1
  <2> HIDE DEF known, buying
  <2>2. PICK ready \in BOOLEAN, buy \in BOOLEAN : ready = EvidenceReady /\ buy = buying
    BY <1>1, Zenon
  <2>3. ready /\ (total.buys > ev.buys \/ buy) =>
            OwnedWithin(Refreshed, cycle, known, n)
            /\ eng.positions >= scene.start + total.buys - total.sells - k + n
    BY <1>70, <1>71, <2>1, <2>2, Zenon
  <2>4. Guarded(protected, ev, scene.start, k0)
    BY <1>3, <1>7
  <2>5. new = Refresh(Refreshed, cycle, known, protected, ev, total, eng.positions, ready, buy)
    BY <1>6, <2>2, Zenon
  <2>6. /\ ev.buys <= total.buys /\ ev.sells <= total.sells /\ ev.fees <= total.fees
        /\ total \in FlowTotal /\ k0 <= k
    BY <1>2, <1>3
  <2>7. scene.start \in Int
    BY <1>4
  <2> QED  BY <1>1, <1>5, <2>3, <2>4, <2>5, <2>6, <2>7, RefreshGuards
<1>8. CASE ~Covered
  <2>1. buying
    BY <1>8
  <2>2. /\ EvidenceReady = TRUE /\ buying = TRUE
    BY <1>1, <1>73, <2>1
  <2>3. ASSUME NEW c \in Refreshed
        PROVE  known[c].bought = 0 /\ known[c].awaited = 0 /\ cycle[c].pending = 0
               /\ cycle[c].mixed = FALSE
    <3>1. /\ Active = {eng.c} /\ cycle[eng.c] = [NoCycle EXCEPT !.state = "entry_pending"]
          /\ eng.affected = {} /\ order[eng.c].buy = "approved" /\ eng.c \in Cycle
      BY <1>8, <2>1 DEF CoinsOK, BuyingOK
    <3>2. c = eng.c
      BY <3>1 DEF Refreshed
    <3>3. order[c].bought = 0
      <4>1. order[c].bought = world.bought[c]
        BY <1>0, <3>1, <3>2 DEF OrdersOK, OrderOK
      <4>2. world.bought[c] = 0
        BY <1>0, <3>1, <3>2 DEF OrdersOK, OrderOK
      <4> QED  BY <4>1, <4>2
    <3>4. cycle[c].pending = 0
      BY <3>1, <3>2 DEF NoCycle
    <3>5. cycle[c].mixed = FALSE
      BY <3>1, <3>2 DEF NoCycle
    <3>6. known[c].awaited = 0
      BY <1>72, <3>1, <3>2
    <3>7. known[c].bought = 0
      BY <1>1, <3>1, <3>2, <3>3
    <3> QED  BY <3>4, <3>5, <3>6, <3>7
  <2> HIDE DEF known, buying
  <2>4. PICK ready \in BOOLEAN, buy \in BOOLEAN : ready = EvidenceReady /\ buy = buying
    BY <1>1, Zenon
  <2>50. WhollyProtected(new, eng.positions, total)
    <3>1. /\ ev.buys <= total.buys /\ ev.sells <= total.sells /\ ev.fees <= total.fees
          /\ total \in FlowTotal
      BY <1>2
    <3>2. Untouched(Refreshed, cycle, known)
      BY <2>3 DEF Untouched
    <3>3. /\ Refreshed \in SUBSET Cycle /\ cycle \in [Cycle -> CycleRow]
          /\ known \in [Cycle -> Knowledge] /\ protected \in Nat /\ ev \in Evidence
          /\ eng.positions \in Nat
          /\ \A c \in Cycle : cycle[c].bought <= known[c].bought
      BY <1>1
    <3>4. ready /\ buy
      BY <2>2, <2>4, Zenon
    <3>5. new = Refresh(Refreshed, cycle, known, protected, ev, total, eng.positions, ready, buy)
      BY <1>6, <2>4, Zenon
    <3> QED  BY <3>1, <3>2, <3>3, <3>4, <3>5, RefreshFirst
  <2>5. new.protected = eng.positions /\ Counts(new.ev, total) /\ new.ev.provisional \in Nat
    BY <2>50 DEF WhollyProtected
  <2>6. k = total.fees /\ eng.positions = scene.start + total.buys - total.sells - k + n
    BY <1>2, <1>3, <1>8, <2>1, <2>2
  <2>7. Guarded(new.protected, new.ev, scene.start, k)
    BY <1>4, <2>5, <2>6 DEF Counts, Guarded
  <2> QED  BY <2>5, <2>7
<1> QED  BY <1>7, <1>8

\* The rows and the evidence after a refresh.
RowsAfter(rows) ==
    /\ rows \in [Cycle -> CycleRow]
    /\ \A c \in Refreshed : /\ rows[c].state # "absent" /\ rows[c].bought = order[c].bought
                            /\ rows[c].sold = order[c].sold /\ RowOK(rows[c])
    /\ \A c \in Cycle \ Refreshed : rows[c] = cycle[c]

LEMMA RefreshRows ==
  ASSUME OwnershipInv, NEW total \in FlowTotal,
         ev.buys <= total.buys, ev.sells <= total.sells, ev.fees <= total.fees,
         NEW new, new = RefreshOf(total)
  PROVE  /\ new.protected \in Nat
         /\ RowsAfter(new.cycle) /\ Counts(new.ev, total)
         /\ OwnedSum(new.cycle) <= AtLeast0(eng.positions - new.protected)
         /\ ~EvidenceReady => \A c \in Refreshed :
               new.cycle[c].owned <= AtLeast0(cycle[c].owned - (order[c].sold - cycle[c].sold))
<1> DEFINE known == [c \in Cycle |-> KnownOf(c)]
           buying == eng.purpose = "buy"
           result == Refresh(Refreshed, cycle, known, protected, ev, total, eng.positions,
                             EvidenceReady, buying)
<1>0. new = result
  BY DEF RefreshOf
<1>1. /\ Refreshed \in SUBSET Cycle /\ cycle \in [Cycle -> CycleRow]
      /\ known \in [Cycle -> Knowledge] /\ protected \in Nat /\ ev \in Evidence
      /\ eng.positions \in Nat /\ EvidenceReady \in BOOLEAN /\ buying \in BOOLEAN
      /\ \A c \in Cycle : cycle[c].bought <= known[c].bought
      /\ \A c \in Cycle : known[c].bought = order[c].bought /\ known[c].sold = order[c].sold
  BY RefreshedTypes
<1>2. OthersOwnNothing(Refreshed, cycle)
  BY RefreshedTypes DEF OthersOwnNothing
<1> HIDE DEF known, buying
<1>3. /\ result.protected \in Nat
      /\ Divided(Refreshed, cycle, known, result.cycle, AtLeast0(eng.positions - result.protected))
  BY <1>1, <1>2, RefreshBacks
<1>4. ~EvidenceReady => \A c \in Refreshed : result.cycle[c].owned <= StillCovered(cycle[c], known[c])
  BY <1>1, <1>2, RefreshBacks
<1>5. Counts(result.ev, total)
  BY <1>1, RefreshCounts
<1> HIDE DEF result
<1>6. RowsAfter(new.cycle)
  BY <1>0, <1>1, <1>3 DEF Divided, RowsAfter
<1>7. OwnedSum(new.cycle) <= AtLeast0(eng.positions - new.protected)
  BY <1>0, <1>3 DEF Divided
<1>8. ASSUME ~EvidenceReady, NEW c \in Refreshed
      PROVE  new.cycle[c].owned <= AtLeast0(cycle[c].owned - (order[c].sold - cycle[c].sold))
  <2>1. known[c].sold = order[c].sold
    BY <1>1
  <2> QED  BY <1>0, <1>4, <1>8, <2>1 DEF StillCovered
<1> QED  BY <1>0, <1>3, <1>5, <1>6, <1>7, <1>8

\* What a refresh lets the only cycle own was in the positions.
LEMMA RefreshOwned ==
  ASSUME OwnershipInv, PlainScene, CoinsOK, eng.pc = "refresh", ~eng.dirty, ~NeedsEvidence, Single,
         NEW k0 \in Nat, NEW k \in Nat, NEW n \in Nat, BooksOK(k0, k, n),
         NEW total, total = Strange(Common(acts, eng.seen)), NEW new, new = RefreshOf(total)
  PROVE  new.cycle[1].owned + new.cycle[1].sold <= n + eng.seen.sold[1]
<1>0. TypeOK /\ OrdersOK /\ AccountOK /\ Fresh /\ acts \in FeedRecord /\ eng.seen \in FeedRecord
  BY DEF OwnershipInv, TypeOK, CoinsOK, Fresh, Engine
<1>1. eng.positions \in Nat /\ Refreshed \in SUBSET Cycle
  BY RefreshedTypes
<1>3. /\ total \in FlowTotal
      /\ ev.buys <= total.buys /\ ev.sells <= total.sells /\ ev.fees <= total.fees
  BY <1>0, FlowOfRefresh
<1>6. /\ new.protected \in Nat /\ RowsAfter(new.cycle)
      /\ OwnedSum(new.cycle) <= AtLeast0(eng.positions - new.protected)
      /\ ~EvidenceReady => \A c \in Refreshed :
            new.cycle[c].owned <= AtLeast0(cycle[c].owned - (order[c].sold - cycle[c].sold))
  BY <1>3, RefreshRows
<1>7. 1 \in Cycle
  BY <1>0, SingleCoins
<1>8. /\ cycle[1].owned + cycle[1].sold <= n + eng.seen.sold[1]
      /\ eng.seen.fees <= k
      /\ eng.positions = scene.start + eng.seen.buys - eng.seen.sells - k + n
  BY <1>0 DEF BooksOK
<1>9. /\ cycle[1].owned \in Nat /\ cycle[1].sold \in Nat /\ order[1].sold \in Nat
      /\ order[1].bought \in Nat /\ eng.seen.sold[1] \in Nat /\ scene.start \in Nat
      /\ eng.seen.buys \in Nat /\ eng.seen.sells \in Nat
      /\ order[1].sold <= eng.seen.sold[1]
  <2>1. order[1].sold <= eng.seen.sold[1]
    BY <1>0, <1>7 DEF CoinsOK, FreshOK
  <2> QED  BY <1>0, <1>7, <2>1, Quantities DEF FeedRecord
<1>10. new.cycle \in [Cycle -> CycleRow]
  BY <1>6 DEF RowsAfter
<1>11. CASE 1 \notin Refreshed
  BY <1>6, <1>7, <1>8, <1>11 DEF RowsAfter
<1>12. CASE 1 \in Refreshed
  <2>1. /\ new.cycle[1].sold = order[1].sold /\ new.cycle[1].bought = order[1].bought
        /\ RowOK(new.cycle[1])
    BY <1>6, <1>7, <1>12 DEF RowsAfter
  <2>2. /\ new.cycle[1].owned \in Nat /\ new.cycle[1].claim \in Nat
        /\ new.cycle[1].fee \in Nat /\ new.cycle[1].disposed \in Nat
    BY <1>7, <1>10 DEF CycleRow
  <2>3. CASE ~EvidenceReady
    <3>1. new.cycle[1].owned <= AtLeast0(cycle[1].owned - (order[1].sold - cycle[1].sold))
      BY <1>6, <1>7, <1>12, <2>3
    <3>2. \/ AtLeast0(cycle[1].owned - (order[1].sold - cycle[1].sold)) = 0
          \/ AtLeast0(cycle[1].owned - (order[1].sold - cycle[1].sold))
               = cycle[1].owned - (order[1].sold - cycle[1].sold)
      BY DEF AtLeast0
    <3> QED  BY <1>8, <1>9, <2>1, <2>2, <3>1, <3>2
  <2>4. CASE EvidenceReady /\ (Covered \/ eng.purpose = "buy")
    <3>1. Counts(new.ev, total) /\ Guarded(new.protected, new.ev, scene.start, k)
      BY <2>4, RefreshProtects
    <3>2. cursor.covers
      BY <2>4 DEF EvidenceReady
    <3>3. total.buys = eng.seen.buys /\ total.sells = eng.seen.sells
      BY <1>0, <3>2, FlowOfRefresh
    <3>4. new.protected >= scene.start + eng.seen.buys - eng.seen.sells - k
      BY <3>1, <3>3 DEF Counts, Guarded
    <3>5. eng.positions - new.protected <= n /\ eng.positions - new.protected \in Int
      BY <1>1, <1>6, <1>8, <1>9, <3>4
    <3>6. AtLeast0(eng.positions - new.protected) <= n
      BY <3>5 DEF AtLeast0
    <3>7. AtLeast0(eng.positions - new.protected) \in Nat
      BY <3>5, Clamps
    <3>8. OwnedSum(new.cycle) <= AtLeast0(eng.positions - new.protected)
      BY <1>6
    <3>9. OwnedSum(new.cycle) \in Int /\ new.cycle[1].owned <= OwnedSum(new.cycle)
      BY <1>7, <1>10, PartOfOwned
    <3>10. new.cycle[1].owned <= n
      BY <2>2, <3>6, <3>7, <3>8, <3>9
    <3> QED  BY <1>9, <2>1, <2>2, <3>10
  <2>5. CASE ~Covered
    <3>1. order[1].bought = 0
      <4>1. order[1].bought <= world.bought[1] /\ world.bought[1] = 0
        BY <1>0, <1>7, <2>5, NothingBought DEF OwnershipInv, FillsInOrder
      <4> QED  BY <1>9, <4>1
    <3>2. new.cycle[1].owned = 0
      <4>1. new.cycle[1].owned <= new.cycle[1].claim
            /\ new.cycle[1].claim <= AtLeast0(0 - order[1].sold - new.cycle[1].fee
                                              - new.cycle[1].disposed)
        BY <2>1, <3>1 DEF RowOK
      <4>2. ~(0 - order[1].sold - new.cycle[1].fee - new.cycle[1].disposed > 0)
        BY <1>9, <2>2
      <4>3. new.cycle[1].claim <= 0
        BY <4>1, <4>2 DEF AtLeast0
      <4> QED  BY <2>2, <4>1, <4>3
    <3> QED  BY <1>9, <2>1, <3>2
  <2> QED  BY <2>3, <2>4, <2>5
<1> QED  BY <1>11, <1>12

\* What the engine has in hand after a refresh.
LEMMA RefreshMemory ==
  ASSUME TypeOK, RefreshCycles
  PROVE  /\ eng'.seen = eng.seen /\ eng'.positions = eng.positions /\ eng'.dirty = eng.dirty
         /\ eng.purpose = "buy" => eng'.pc = "armed" /\ eng'.purpose = "buy" /\ eng'.c = eng.c
         /\ eng.purpose = "exit" => eng'.pc = "exiting" /\ eng'.purpose = "exit" /\ eng'.c = eng.c
         /\ eng.purpose \notin {"buy", "exit"} =>
               eng'.pc = "idle" /\ eng'.purpose = "step" /\ eng'.current = FALSE
               /\ eng'.affected = {}
<1>0. eng \in Engine
  BY DEF TypeOK
<1>1. CASE eng.purpose = "buy"
  <2>1. eng' = [eng EXCEPT !.pc = "armed"]
    BY <1>1 DEF RefreshCycles
  <2> QED  BY <1>0, <1>1, <2>1 DEF Engine
<1>2. CASE eng.purpose = "exit"
  <2> DEFINE t == eng.tried \cup {eng.c}
  <2>1. eng' = [eng EXCEPT !.pc = "exiting", !.current = FALSE, !.affected = {}, !.tried = t]
    BY <1>2 DEF RefreshCycles
  <2> HIDE DEF t
  <2> QED  BY <1>0, <1>2, <2>1 DEF Engine
<1>3. CASE eng.purpose \notin {"buy", "exit"}
  <2>1. eng' = [Return EXCEPT !.fresh = TRUE]
    BY <1>3 DEF RefreshCycles
  <2>2. Return \in Engine
    BY <1>0, ReturnType
  <2> HIDE DEF Return
  <2>3. /\ eng'.pc = Return.pc /\ eng'.seen = Return.seen /\ eng'.positions = Return.positions
        /\ eng'.dirty = Return.dirty /\ eng'.purpose = Return.purpose
        /\ eng'.current = Return.current /\ eng'.affected = Return.affected
    BY <2>1, <2>2 DEF Engine
  <2> QED  BY <1>0, <1>3, <2>3, ReturnFields
<1> QED  BY <1>1, <1>2, <1>3

\* A refresh divides what the positions hold beside the owner's coins.
LEMMA RefreshCoins ==
  ASSUME OwnershipInv, PlainScene, CoinsOK, RefreshCycles
  PROVE  CoinsOK'
<1> DEFINE total == Strange(Common(acts, eng.seen))
           new == RefreshOf(total)
<1>0. /\ TypeOK /\ OrdersOK /\ AccountOK /\ acts \in FeedRecord /\ eng.seen \in FeedRecord
      /\ PurposeOK /\ BuyingOK /\ ExitOK
  BY DEF OwnershipInv, TypeOK, CoinsOK, Engine
<1>1. /\ eng.pc = "refresh" /\ ~eng.dirty /\ ~NeedsEvidence
      /\ cycle' = new.cycle /\ protected' = new.protected /\ ev' = new.ev
      /\ UNCHANGED <<world, order, acts, paid, cursor, scene>>
  BY DEF RefreshCycles, RefreshOf
<1>2. /\ total \in FlowTotal
      /\ ev.buys <= total.buys /\ ev.sells <= total.sells /\ ev.fees <= total.fees
      /\ total.buys <= acts.buys /\ total.sells <= acts.sells /\ total.fees <= acts.fees
      /\ total.buys <= eng.seen.buys /\ total.sells <= eng.seen.sells
      /\ total.fees <= eng.seen.fees
  BY <1>0, <1>1, FlowOfRefresh
<1>3. PICK t \in FlowTotal : t = total
  BY <1>2
<1>4. new = RefreshOf(t) /\ t = Strange(Common(acts, eng.seen))
  BY <1>3
<1> HIDE DEF total, new
<1>5. /\ eng'.seen = eng.seen /\ eng'.positions = eng.positions /\ eng'.dirty = eng.dirty
      /\ eng.purpose = "buy" => eng'.pc = "armed" /\ eng'.purpose = "buy" /\ eng'.c = eng.c
      /\ eng.purpose = "exit" => eng'.pc = "exiting" /\ eng'.purpose = "exit" /\ eng'.c = eng.c
      /\ eng.purpose \notin {"buy", "exit"} =>
            eng'.pc = "idle" /\ eng'.purpose = "step" /\ eng'.current = FALSE
            /\ eng'.affected = {}
  BY <1>0, RefreshMemory
<1>6. PICK k0 \in Nat, k \in Nat, n \in Nat : BooksOK(k0, k, n)
  BY DEF CoinsOK, Books
<1>7. /\ Refreshed \in SUBSET Cycle /\ \A c \in Refreshed : cycle[c].state # "absent"
      /\ Active \subseteq Refreshed
  BY RefreshedTypes DEF OwnershipInv, Refreshed
<1>8. RowsAfter(cycle') /\ Counts(ev', t)
  <2>1. ev.buys <= t.buys /\ ev.sells <= t.sells /\ ev.fees <= t.fees
    BY <1>2, <1>3
  <2>2. RowsAfter(new.cycle) /\ Counts(new.ev, t)
    BY <1>4, <2>1, RefreshRows
  <2> QED  BY <1>1, <2>2
<1>9. /\ \A c \in Refreshed : cycle'[c].state # "absent" /\ cycle'[c].sold = order[c].sold
      /\ \A c \in Cycle \ Refreshed : cycle'[c] = cycle[c]
  BY <1>8 DEF RowsAfter
<1>10. ev'.buys = total.buys /\ ev'.sells = total.sells /\ ev'.fees = total.fees
  BY <1>3, <1>8 DEF Counts
<1>11. Covered \/ eng.purpose = "buy" => Guarded(protected', ev', scene.start, k)
  <2>1. Covered \/ eng.purpose = "buy" => Guarded(new.protected, new.ev, scene.start, k)
    BY <1>1, <1>4, <1>6, RefreshProtects
  <2> QED  BY <1>1, <2>1
<1>12. Single => cycle'[1].owned + cycle'[1].sold <= n + eng.seen.sold[1]
  <2>1. Single => new.cycle[1].owned + new.cycle[1].sold <= n + eng.seen.sold[1]
    BY <1>1, <1>4, <1>6, RefreshOwned
  <2> QED  BY <1>1, <2>1
<1>13. Feed' = Feed /\ Fresh /\ Fresh'
  BY <1>1, <1>5 DEF Feed, Fresh
<1>14. AccountOK' /\ Solvent'
  BY <1>1 DEF CoinsOK, AccountOK, Solvent, OwnersNet
<1>15. OrdersOK'
  <2>1. ASSUME NEW d \in Cycle PROVE OrderOK(d)'
    <3>1. OrderOK(d) /\ order[d] \in OrderRow
      BY <1>0 DEF OrdersOK, TypeOK
    <3>2. order[d].sold \in Nat
      BY <3>1 DEF OrderRow
    <3>3. CASE d \in Refreshed
      <4>1. cycle'[d].state # "absent" /\ cycle'[d].sold = order[d].sold /\ cycle[d].state # "absent"
        BY <1>7, <1>9, <3>3
      <4> QED  BY <1>1, <3>1, <3>2, <4>1 DEF OrderOK, Single
    <3>4. CASE d \notin Refreshed
      <4>1. cycle'[d] = cycle[d]
        BY <1>9, <3>4
      <4> QED  BY <1>1, <3>1, <4>1 DEF OrderOK, Single
    <3> QED  BY <3>3, <3>4
  <2> QED  BY <2>1 DEF OrdersOK
<1>16. NamedOK'
  BY <1>1 DEF CoinsOK, NamedOK
<1>17. FeedsOK'
  <2>1. ev'.buys <= acts.buys /\ ev'.sells <= acts.sells /\ ev'.fees <= acts.fees
    BY <1>2, <1>10
  <2> QED  BY <1>1, <1>13, <2>1 DEF CoinsOK, FeedsOK
<1>18. SeenOK'
  BY <1>1, <1>5, <1>13 DEF CoinsOK, SeenOK
<1>19. FreshOK'
  <2>1. ev'.buys <= eng.seen.buys /\ ev'.sells <= eng.seen.sells /\ ev'.fees <= eng.seen.fees
    BY <1>2, <1>10
  <2> QED  BY <1>1, <1>5, <1>13, <2>1 DEF CoinsOK, FreshOK
<1>20. PurposeOK'
  BY <1>5 DEF PurposeOK
<1>21. eng.purpose = "buy" => Covered'
  BY <1>5 DEF Covered
<1>22. BuyingOK'
  <2> SUFFICES ASSUME eng'.purpose = "buy" PROVE BuyingOK'
    BY DEF BuyingOK
  <2>1. eng.purpose = "buy" /\ eng'.pc = "armed" /\ eng'.c = eng.c
    BY <1>5
  <2>2. eng.c \in Cycle /\ cycle'[eng.c].state # "absent"
    BY <1>0, <1>1, <1>7, <1>9, <2>1 DEF BuyingOK
  <2> QED  BY <1>0, <1>1, <1>5, <1>21, <2>1, <2>2 DEF BuyingOK
<1>23. ExitOK'
  <2> SUFFICES ASSUME eng'.purpose \in {"exit", "fence"} PROVE ExitOK'
    BY DEF ExitOK
  <2>1. eng.purpose = "exit" /\ eng'.pc = "exiting" /\ eng'.c = eng.c /\ eng'.purpose = "exit"
    BY <1>5
  <2>2. eng.c \in Cycle /\ cycle'[eng.c].sold = order[eng.c].sold
    BY <1>0, <1>1, <1>7, <1>9, <2>1 DEF ExitOK
  <2> QED  BY <1>1, <2>1, <2>2 DEF ExitOK
<1>24. ReadingOK'
  BY <1>5 DEF ReadingOK
<1>25. Books'
  <2>1. /\ k0 <= k /\ k <= world.fees /\ eng.seen.fees <= k
        /\ eng.positions = scene.start + eng.seen.buys - eng.seen.sells - k + n
        /\ Single => n + eng.seen.sold[1] <= world.bought[1] - world.fee[1]
    BY <1>6, <1>13 DEF BooksOK
  <2>2. Covered' => Covered \/ eng.purpose = "buy"
    BY <1>1, <1>5 DEF Covered
  <2>3. Single => cycle'[1].owned + cycle'[1].sold <= world.bought[1] - world.fee[1]
    <3> SUFFICES ASSUME Single
                 PROVE  cycle'[1].owned + cycle'[1].sold <= world.bought[1] - world.fee[1]
      OBVIOUS
    <3>1. 1 \in Cycle
      BY <1>0, SingleCoins
    <3>2. cycle' \in [Cycle -> CycleRow]
      BY <1>8 DEF RowsAfter
    <3>3. cycle'[1].owned \in Nat /\ cycle'[1].sold \in Nat
      BY <3>1, <3>2 DEF CycleRow
    <3>4. eng.seen.sold[1] \in Nat /\ world.bought[1] \in Nat /\ world.fee[1] \in Nat
      BY <1>0, <3>1, Quantities DEF FeedRecord
    <3> QED  BY <1>12, <2>1, <3>3, <3>4
  <2>4. eng'.purpose = "buy" => eng.purpose = "buy"
    BY <1>5
  <2>5. (Single <=> Single') /\ world' = world /\ scene' = scene
    BY <1>1 DEF Single
  <2>6. BooksOK(k, k, n)'
    BY <1>5, <1>11, <1>12, <1>13, <1>21, <2>1, <2>2, <2>3, <2>4, <2>5 DEF BooksOK
  <2> QED  BY <2>6 DEF Books
<1> QED  BY <1>14, <1>15, <1>16, <1>17, <1>18, <1>19, <1>20, <1>22, <1>23, <1>24, <1>25 DEF CoinsOK

LEMMA InitCoins ==
  ASSUME Init, PlainScene
  PROVE  CoinsOK
<1>0. TypeOK /\ scene.start \in Nat /\ scene.buys \in Nat
  <2>1. TypeOK
    BY InitInv DEF OwnershipInv
  <2> QED  BY <2>1, Quantities
<1>1. /\ acts = NoFeed /\ ev = NoEvidence /\ eng = Off
      /\ cursor = [open |-> FALSE, until |-> NoFeed, covers |-> FALSE, willCover |-> FALSE,
                   complete |-> FALSE]
      /\ world.buys = 0 /\ world.sells = 0 /\ world.fees = 0 /\ world.postedFees = 0
      /\ \A c \in Cycle : /\ world.bought[c] = 0 /\ world.fee[c] = 0 /\ world.posted[c] = 0
                          /\ world.sold[c] = 0 /\ world.buying[c] = 0 /\ world.selling[c] = 0
                          /\ world.flying[c] = 0
                          /\ order[c] = NoOrders /\ cycle[c] = NoCycle /\ paid[c] = 0
  BY DEF Init, Zero
<1>2. /\ eng.pc = "down" /\ eng.dirty = TRUE /\ eng.purpose = "step" /\ eng.current = FALSE
      /\ eng.affected = {} /\ eng.seen = NoFeed
  BY <1>1 DEF Off
<1>3. ~Covered /\ ~Fresh
  BY <1>1, <1>2 DEF Covered, Fresh, NoOrders
<1>4. AccountOK
  <2>1. OwnersNet >= 0
    BY <1>0, <1>1 DEF OwnersNet
  <2> QED  BY <1>0, <1>1, <2>1 DEF AccountOK
<1>5. Solvent
  <2> DEFINE N == [c \in Cycle |-> world.bought[c] - world.fee[c] - world.sold[c]]
  <2>1. \A c \in Cycle : N[c] \in Int /\ N[c] >= 0
    BY <1>1
  <2>2. OurCoins(world) = SumOf(N, Cycle)
    BY DEF OurCoins
  <2> HIDE DEF N
  <2>3. OurCoins(world) \in Int /\ OurCoins(world) >= 0
    BY <2>1, <2>2, CyclesAreFinite, NonNegativeSum
  <2>4. HeldCoins(world) = 0
    BY <1>1, ZeroTotal, TotalIsSum DEF HeldCoins
  <2> QED  BY <2>3, <2>4 DEF Solvent
<1>6. OrdersOK
  BY <1>1 DEF OrdersOK, OrderOK, NoOrders, NoCycle
<1>7. NamedOK /\ PurposeOK /\ BuyingOK /\ ExitOK /\ ReadingOK
  BY <1>2 DEF NamedOK, PurposeOK, BuyingOK, ExitOK, ReadingOK
<1>8. UpTo(NoFeed, Feed)
  BY <1>1 DEF UpTo, NoFeed, Feed, Zero
<1>9. FeedsOK
  <2>1. cursor.open = FALSE
    BY <1>1
  <2>2. ev.buys <= acts.buys /\ ev.sells <= acts.sells /\ ev.fees <= acts.fees
    BY <1>1 DEF NoFeed, NoEvidence
  <2>3. \A c \in Cycle : acts.sold[c] <= order[c].sold /\ paid[c] <= world.posted[c]
    BY <1>1 DEF NoFeed, NoOrders, Zero
  <2> QED  BY <1>1, <1>8, <2>1, <2>2, <2>3 DEF FeedsOK
<1>10. SeenOK
  <2>1. cursor.open = FALSE /\ cursor.covers = FALSE
    BY <1>1
  <2> QED  BY <1>2, <1>8, <2>1 DEF SeenOK
<1>11. FreshOK
  BY <1>3 DEF FreshOK
<1>12. Books
  <2>1. Single => 1 \in Cycle
    BY <1>0, <1>4, <1>6, SingleCoins
  <2>2. Single => cycle[1].owned + cycle[1].sold <= world.bought[1] - world.fee[1]
    BY <1>1, <2>1 DEF NoCycle
  <2>3. BooksOK(0, 0, 0)
    BY <1>1, <1>3, <2>2 DEF BooksOK
  <2> QED  BY <2>3 DEF Books
<1> QED  BY <1>4, <1>5, <1>6, <1>7, <1>9, <1>10, <1>11, <1>12 DEF CoinsOK

LEMMA StutterCoins ==
  ASSUME CoinsOK, UNCHANGED vars
  PROVE  CoinsOK'
<1>1. UNCHANGED <<world, order, acts, paid, cursor, protected, ev, shown, cycle, eng, scene, faults>>
  BY DEF vars
<1>2. Feed' = Feed /\ (Fresh' <=> Fresh) /\ (Covered' <=> Covered) /\ (Single' <=> Single)
  BY <1>1 DEF Feed, Fresh, Covered, Single
<1>3. NamedOK' /\ PurposeOK' /\ BuyingOK' /\ ExitOK' /\ ReadingOK'
  BY <1>1, <1>2 DEF CoinsOK, NamedOK, PurposeOK, BuyingOK, ExitOK, ReadingOK, Active,
                    SymbolPending, OwnersNet
<1>4. SeenOK' /\ FreshOK'
  BY <1>1, <1>2 DEF CoinsOK, SeenOK, FreshOK
<1>5. Books'
  BY <1>1, <1>2 DEF CoinsOK, Books, BooksOK
<1> QED  BY <1>1, <1>3, <1>4, <1>5, MemoryFrame

\* A scene never changes.
LEMMA SceneStays == [Next]_vars => scene' = scene
BY DEF Next, vars, durable, Account, BuyFills, SellFills, OrderEnds, FeePosted, Accepted, OwnerBuys,
       OwnerSells, OwnersFeePosted, Restart, Crash, LearnBuy, LearnSell, ExpireIntent, NewCycle,
       RequestExit, BeginExit, NextStep, BeginStep, BeginReconcile, BeginWithoutRead, Stamp,
       SyncCompletes, SyncStops, StepFails, ReadAgain, BeginSync, RefreshCycles, SendBuy, RefuseBuy,
       ReserveExit, SendSell, RefuseSell

LEMMA NextCoins ==
  ASSUME MinOrder = 1, CoinsInv, [Next]_vars
  PROVE  CoinsInv'
<1>1. OwnershipInv /\ OwnershipInv' /\ TypeOK'
  BY NextInv DEF CoinsInv, OwnershipInv
<1>2. PlainScene' => PlainScene
  BY SceneStays DEF PlainScene, Single
<1>3. ASSUME PlainScene PROVE CoinsOK'
  <2>0. CoinsOK
    BY <1>3 DEF CoinsInv
  <2>1. CASE Account
    BY <1>1, <1>3, <2>0, <2>1, AccountCoins
  <2>2. CASE Restart \/ Crash
    BY <1>1, <1>3, <2>0, <2>2, RestartCoins, CrashCoins
  <2>3. ASSUME NEW c \in Cycle, LearnBuy(c) \/ LearnSell(c) \/ ExpireIntent(c) PROVE CoinsOK'
    BY <1>1, <1>3, <2>0, <2>3, LearnBuyCoins, LearnSellCoins, ExpireCoins
  <2>4. ASSUME NEW c \in Cycle, NewCycle(c) PROVE CoinsOK'
    BY <1>1, <1>3, <2>0, <2>4, NewCycleCoins
  <2>5. ASSUME NEW c \in Cycle, RequestExit(c) PROVE CoinsOK'
    BY <1>1, <1>3, <2>0, <2>5, RequestExitCoins
  <2>6. CASE BeginStep \/ BeginReconcile \/ \E c \in Cycle : BeginExit(c)
    BY <1>1, <1>3, <2>0, <2>6, BeginCoins
  <2>7. CASE BeginWithoutRead \/ BeginSync \/ NextStep \/ RefuseSell
    BY <1>1, <1>3, <2>0, <2>7, GoesOnCoins
  <2>8. CASE Stamp \/ ReadAgain \/ ReserveExit
    BY <1>1, <1>3, <2>0, <2>8, StampCoins, ReadAgainCoins, ReserveCoins
  <2>9. CASE SyncCompletes \/ SyncStops \/ StepFails
    BY <1>1, <1>3, <2>0, <2>9, SyncCoins, StepFailsCoins
  <2>10. CASE RefreshCycles
    BY <1>1, <1>3, <2>0, <2>10, RefreshCoins
  <2>11. CASE SendBuy \/ RefuseBuy \/ SendSell
    BY <1>1, <1>3, <2>0, <2>11, BuyCoins, SellCoins
  <2>12. CASE UNCHANGED vars
    BY <2>0, <2>12, StutterCoins
  <2> QED  BY <2>1, <2>2, <2>3, <2>4, <2>5, <2>6, <2>7, <2>8, <2>9, <2>10, <2>11, <2>12 DEF Next
<1> QED  BY <1>1, <1>2, <1>3 DEF CoinsInv

-----------------------------------------------------------------------------
(* Theorems *)

\* The inductive invariant, for any number of cycles, any entry quantity and
\* minimum order, and in every scene: with late answers, moving reads, windows
\* that are not read to their end, fees that are owed, cycles that overlap,
\* failed lookups, crashes and failed requests of _refresh_cycles and
\* _sync_activities.
THEOREM OwnershipInvariant == Spec => []OwnershipInv
<1>1. Init => OwnershipInv
  BY InitInv
<1>2. OwnershipInv /\ [Next]_vars => OwnershipInv'
  BY NextInv
<1> QED  BY <1>1, <1>2, PTL DEF Spec

\* Type correctness: no quantity of the ledger, of what is protected or of the
\* evidence (_external_inventory_debits, _refresh_cycles) is ever negative.
THEOREM TypeCorrect == Spec => []TypeOK
BY OwnershipInvariant, InvBacks, PTL

\* What _refresh_cycles lets the cycles own together is in the balance of the
\* last refresh beside what is protected, and no cycle owns more than it
\* claims, nor claims more than its fills leave after fees and disposals,
\* whatever the owner of the account traded and in whatever order fills, fees
\* and balances became known.
THEOREM OwnedStaysBacked == Spec => []OwnedIsBacked
BY OwnershipInvariant, InvBacks, PTL

\* The invariant under which no coin of the owner's is sold.  Quantities count
\* steps of the minimum order: _read_positions leaves smaller balances out, and the
\* owner's coins in them are then not protected.
THEOREM CoinsInvariant ==
  ASSUME MinOrder = 1
  PROVE  Spec => []CoinsInv
<1>1. Init => CoinsInv
  BY InitInv, InitCoins DEF CoinsInv
<1>2. CoinsInv /\ [Next]_vars => CoinsInv'
  BY NextCoins
<1> QED  BY <1>1, <1>2, PTL DEF Spec

\* In every behaviour whose scene is plain, what the sells of _exit_owned may
\* still take is what the engine bought, less fees and sales: with any number
\* of crashes and failed requests, in any order of fills, posted fees, syncs,
\* rechecks and stale positions, whatever the owner trades beside one cycle,
\* or sells beside any number of them.
THEOREM PlainScenesSellOnlyOwn ==
  ASSUME MinOrder = 1
  PROVE  Spec => [](PlainScene => SellsOnlyOwn)
<1>1. CoinsInv => (PlainScene => SellsOnlyOwn)
  BY SolventSells DEF CoinsInv, CoinsOK
<1> QED  BY <1>1, CoinsInvariant, PTL

\* The same as an invariant of the specification, when all its scenes are
\* plain, as those of the run "ownership" are: _dispatch never sells foreign
\* inventory.
THEOREM NeverSellsForeign ==
  ASSUME MinOrder = 1,
         \A x \in Scenes : x.troubles \subseteq {"unseen_trade"} /\ (x.cycles = 1 \/ x.buys = 0)
  PROVE  Spec => []SellsOnlyOwn
<1>1. TypeOK => PlainScene
  BY DEF TypeOK, PlainScene, Single
<1> QED  BY <1>1, PlainScenesSellOnlyOwn, TypeCorrect, PTL
=============================================================================
