--------------------------- MODULE OwnershipLedger ---------------------------
(***************************************************************************)
(* The arithmetic of the ownership ledger of ScalpOrderEngine               *)
(* (scalping_execution.py): how one refresh divides the coins of a symbol   *)
(* between the owner of the account ("protected", not ours to sell) and     *)
(* the cycles of the service.                                               *)
(*                                                                         *)
(* The broker reports one balance; fills, base-asset fees and the orders of *)
(* the account's owner become known later, in any order.  Quantities count  *)
(* steps of the asset.  Cycles are numbered in the order of their creation, *)
(* the order in which the code visits them.                                 *)
(***************************************************************************)
EXTENDS Integers, FiniteSets, FiniteSetsExt

CONSTANTS
    MaxCycles,   \* number of cycles
    EntryQty,    \* quantity of a buy order
    MinOrder     \* the asset's min_order_size

ASSUME CyclesAssumption == MaxCycles \in Nat
ASSUME EntryAssumption == EntryQty \in Nat \ {0}
ASSUME MinOrderAssumption == MinOrder \in Nat \ {0}

Cycle == 1..MaxCycles

\* Mutant: quantities are not kept from becoming negative.
Unclamped(x) == x

\* max(0, x)
AtLeast0(x) == IF x > 0 THEN x ELSE 0
Lesser(x, y) == IF x <= y THEN x ELSE y
Greater(x, y) == IF x >= y THEN x ELSE y
Total(f, S) == MapThenSumSet(LAMBDA c : f[c], S)

CLOSED == {"closed_owned_flat", "no_fill"}

CycleState == CLOSED \cup {"absent", "entry_pending", "open", "exit_pending", "residual",
                           "ownership_pending"}

\* Settlements that leave a cycle "ownership_pending".
Unresolved == {"evidence_pending", "mixed_unresolved", "position_pending",
               "order_position_pending"}

\* Foreign flow already accounted for; provisional is what was taken off the
\* protected quantity because the balance did not show it.
Evidence == [buys : Nat, sells : Nat, fees : Nat, provisional : Nat, unsettled : BOOLEAN]

NoEvidence == [buys |-> 0, sells |-> 0, fees |-> 0, provisional |-> 0, unsettled |-> FALSE]

\* A row of scalping_cycles with its payload's ledger and ownership.
CycleRow == [state : CycleState, exit : BOOLEAN, bought : Nat, sold : Nat, owned : Nat,
             claim : Nat, fee : Nat, disposed : Nat, pending : Nat, mixed : BOOLEAN,
             grow : BOOLEAN]

NoCycle == [state |-> "absent", exit |-> FALSE, bought |-> 0, sold |-> 0, owned |-> 0,
            claim |-> 0, fee |-> 0, disposed |-> 0, pending |-> 0, mixed |-> FALSE,
            grow |-> TRUE]

\* What the order rows of a cycle and its fee activities say.
Known == [bought : Nat, sold : Nat, paid : Nat, awaited : Nat, final : BOOLEAN]

-----------------------------------------------------------------------------
(* Foreign flow *)

\* _external_inventory_debits: only what exceeds the flow accounted for moves
\* the protected quantity; what it cannot bear was taken from the cycles.
ForeignFlow(protected, ev, total) ==
    LET buys == AtLeast0(total.buys - ev.buys)
        sells == AtLeast0(total.sells - ev.sells)
        fees == AtLeast0(total.fees - ev.fees)
        overlap == Lesser(ev.provisional, fees)
        available == protected + buys
        debit == sells + fees - overlap
    IN [protected |-> AtLeast0(available - debit),
        disposal |-> AtLeast0(debit - available),
        acquired |-> buys > 0,
        ev |-> [buys |-> Greater(ev.buys, total.buys),
                sells |-> Greater(ev.sells, total.sells),
                fees |-> Greater(ev.fees, total.fees),
                provisional |-> ev.provisional - overlap,
                unsettled |-> ev.unsettled \/ (fees > 0 /\ ev.provisional > overlap)]]

-----------------------------------------------------------------------------
(* What each cycle may claim *)

ProvenFee(row, known) == Greater(known.paid, row.fee)

\* A closed cycle about whose fills nothing new is known.
StaysClosed(row, known) ==
    row.state \in CLOSED /\ known.bought = row.bought /\ known.sold = row.sold

\* The part of a foreign disposal that this cycle bears.
Share(row, known, left) ==
    IF StaysClosed(row, known) THEN 0
    ELSE Lesser(left, AtLeast0(known.bought - known.sold - ProvenFee(row, known) - row.disposed))

\* The disposal is charged to the cycles in the order of their creation.
Left(R, rows, known, disposal) ==
    LET left[c \in 0..MaxCycles] ==
            IF c = 0 THEN disposal
            ELSE IF c \in R THEN left[c - 1] - Share(rows[c], known[c], left[c - 1])
            ELSE left[c - 1]
    IN left

\* What a former quantity still covers after sells and disposals.
Carry(former, bound, lost) == Lesser(bound, AtLeast0(former - lost))

\* The bounds that follow from fills, fees and disposals, before the balance
\* is consulted.
Fact(row, known, disposal, acquired) ==
    LET fee == ProvenFee(row, known)
        disposed == row.disposed + disposal
        net == AtLeast0(known.bought - known.sold - fee - disposed)
        closed == StaysClosed(row, known)
        recovery == closed /\ known.paid > 0 /\ net > 0
        newSells == known.sold - row.sold
        carry == Carry(row.claim, net, newSells + disposal)
        pending == IF closed THEN 0 ELSE row.pending + known.bought - row.bought
    IN [upper |-> IF closed /\ ~recovery THEN 0 ELSE net,
        claim |-> IF closed THEN 0 ELSE carry,
        safe |-> IF closed THEN 0
                 ELSE Carry(row.owned, carry, newSells + disposal),
        pending |-> pending,
        mixed |-> row.mixed \/ (pending > 0 /\ acquired),
        closed |-> closed,
        recovery |-> recovery,
        fee |-> fee,
        disposed |-> disposed,
        newBuys |-> known.bought - row.bought,
        newSells |-> newSells]

-----------------------------------------------------------------------------
(* The protected quantity, once the evidence covers the balance *)

\* A foreign fee that came after its provisional reduction is given back
\* when the balance has room for it.
RestoreCredit(flow, position, safe) ==
    IF flow.ev.unsettled /\ position - safe >= flow.protected + flow.ev.provisional
    THEN [flow EXCEPT !.protected = @ + flow.ev.provisional, !.ev.provisional = 0,
                      !.ev.unsettled = FALSE]
    ELSE flow

\* Mutant: nothing is separated.
SegregateNothing(flow, position, safe, upper, pending, before, buying) == flow

\* After a foreign acquisition, or before a buy, what the balance leaves next
\* to the established cycles is foreign, unless own fills are still pending.
Segregate(flow, position, safe, upper, pending, before, buying) ==
    LET observed == position - safe
        bounded == IF upper > safe THEN Lesser(observed, flow.protected) ELSE observed
        target == IF pending THEN Lesser(observed, flow.protected) ELSE bounded
        applies == /\ flow.acquired \/ buying
                   /\ observed >= 0
                   /\ pending \/ buying \/ observed > before
    IN IF applies
       THEN [flow EXCEPT !.protected = target,
                         !.ev.provisional = @ + AtLeast0(flow.protected - target)]
       ELSE flow

-----------------------------------------------------------------------------
(* Settlement of one cycle against what is left of the balance *)

Outcome(owned, claim, pending, mixed, grow, settlement) ==
    [owned |-> owned, claim |-> claim, pending |-> pending, mixed |-> mixed, grow |-> grow,
     settlement |-> settlement, dust |-> FALSE]

\* The fees of the buy are known and everything adds up.
SettleByFees(fact, observed) ==
    LET owned == Lesser(fact.upper, observed)
    IN Outcome(owned, fact.upper, fact.upper - owned, FALSE, FALSE,
               IF owned = fact.upper THEN "settled" ELSE "position_pending")

\* Everything adds up without provisional fees.
SettleJointly(fact, observed) ==
    LET owned == Lesser(fact.upper, observed)
    IN Outcome(owned, fact.upper, IF owned = fact.upper THEN 0 ELSE fact.pending, FALSE, FALSE,
               IF owned = fact.upper THEN "settled" ELSE "position_pending")

\* Mutant: a fill is owned before the balance shows it.
GrowBeyondPosition(fact, observed, grow, feesKnown) ==
    LET claim == IF fact.pending > 0 /\ feesKnown THEN fact.upper
                 ELSE Greater(fact.claim, observed)
        pending == IF ~feesKnown THEN 0 ELSE fact.pending
    IN Outcome(claim, claim, pending, fact.mixed, grow, "settled")

\* The balance tells how much of a fill remains after fees not posted yet.
GrowFromPosition(fact, observed, grow, feesKnown) ==
    LET claim == IF fact.pending > 0 /\ feesKnown THEN fact.upper
                 ELSE Greater(fact.claim, observed)
        owned == Lesser(claim, observed)
        pending == IF owned > 0 /\ (~feesKnown \/ owned = claim) THEN 0 ELSE fact.pending
    IN Outcome(owned, claim, pending, fact.mixed, grow,
               IF owned < claim \/ (pending > 0 /\ owned = 0) THEN "position_pending"
               ELSE IF owned < fact.upper THEN "provisional_net" ELSE "settled")

\* The balance shows more than the acknowledged fills explain.
SurplusInPosition(fact, observed, acquired, awaited) ==
    LET owned == Lesser(fact.safe, observed)
    IN IF ~fact.mixed /\ ~acquired /\ awaited > 0 /\ observed <= fact.upper + awaited
       THEN Outcome(owned, fact.claim, fact.pending, FALSE, TRUE, "order_position_pending")
       ELSE Outcome(owned, fact.claim, fact.pending, TRUE, FALSE, "mixed_unresolved")

\* An established claim against the balance; what is too small to trade is
\* written off once the cycle has sold.
HoldClaim(fact, known, observed) ==
    LET owned == Lesser(fact.claim, observed)
        dust == /\ known.sold > 0 /\ known.final
                /\ \A q \in {owned, fact.claim, fact.upper, observed} : q < MinOrder
    IN IF dust THEN [Outcome(0, 0, fact.pending, fact.mixed, FALSE, "settled")
                     EXCEPT !.dust = TRUE]
       ELSE Outcome(owned, fact.claim, fact.pending, fact.mixed, FALSE,
                    IF owned < fact.claim THEN "position_pending"
                    ELSE IF owned < fact.upper THEN "provisional_net" ELSE "settled")

\* A closed cycle is reopened only by fees that prove coins left over.
AlreadyClosed(fact, joint) == fact.closed /\ ~(fact.recovery /\ joint)

Settle(row, known, fact, observed, ready, joint, acquired) ==
    LET feesKnown == known.bought > 0 /\ known.paid > 0
        carried == (row.grow \/ fact.newBuys > 0) /\ ~acquired /\ fact.newSells = 0
        grow == carried /\ ~fact.mixed
        keep == Lesser(fact.safe, observed)
    IN IF AlreadyClosed(fact, joint) THEN Outcome(0, 0, 0, fact.mixed, grow, "settled")
       ELSE IF ~ready
       THEN Outcome(keep, fact.claim, fact.pending, fact.mixed, grow, "evidence_pending")
       ELSE IF fact.mixed /\ ~joint
       THEN Outcome(keep, fact.claim, fact.pending, TRUE, grow, "mixed_unresolved")
       ELSE IF feesKnown /\ joint THEN SettleByFees(fact, observed)
       ELSE IF joint /\ (fact.mixed \/ fact.pending > 0) THEN SettleJointly(fact, observed)
       ELSE IF ~grow /\ fact.pending = 0 THEN HoldClaim(fact, known, observed)
       ELSE IF observed <= fact.upper THEN GrowFromPosition(fact, observed, grow, feesKnown)
       ELSE SurplusInPosition(fact, observed, acquired, known.awaited)

\* The state of a cycle that has an order, after its settlement.
StateAfter(row, known, fact, out, joint, position, protected) ==
    LET flat == /\ known.final /\ known.sold > 0
                /\ out.owned = 0 /\ out.claim = 0
                /\ \/ AlreadyClosed(fact, joint)
                   \/ out.dust \/ fact.upper = 0
                   \/ position <= protected
    IN IF known.final /\ known.bought = 0 THEN "no_fill"
       ELSE IF out.settlement \in Unresolved THEN "ownership_pending"
       ELSE IF flat THEN "closed_owned_flat"
       ELSE IF row.exit THEN IF known.final THEN "residual" ELSE "exit_pending"
       ELSE IF known.final THEN "open" ELSE "entry_pending"

-----------------------------------------------------------------------------
(* One refresh of the cycles R *)

\* The first pass over the cycles.
Facts(R, rows, known, flow) ==
    LET left == Left(R, rows, known, flow.disposal)
    IN [c \in Cycle |-> Fact(rows[c], known[c], Share(rows[c], known[c], left[c - 1]),
                             flow.acquired)]

Upper(R, fact) == Total([c \in Cycle |-> fact[c].upper], R)

\* The protected quantity between the passes.
Protect(R, known, fact, flow, before, position, buying) ==
    LET safe == Total([c \in Cycle |-> fact[c].safe], R)
        pending == \E c \in R : fact[c].pending > 0 \/ fact[c].mixed \/ known[c].awaited > 0
    IN Segregate(RestoreCredit(flow, position, safe), position, safe, Upper(R, fact), pending,
                 before, buying)

RowAfter(row, known, fact, out, joint, position, protected) ==
    [state |-> StateAfter(row, known, fact, out, joint, position, protected),
     exit |-> row.exit, bought |-> known.bought, sold |-> known.sold,
     owned |-> out.owned, claim |-> out.claim, fee |-> fact.fee, disposed |-> fact.disposed,
     pending |-> out.pending, mixed |-> out.mixed, grow |-> out.grow]

\* The second pass: each cycle takes its part of what the balance leaves.
Divide(R, rows, known, fact, protected, position, ready, acquired) ==
    LET joint == ready /\ position = protected + Upper(R, fact)
        settled(c, observed) ==
            Settle(rows[c], known[c], fact[c], observed, ready, joint, acquired)
        remaining[c \in 0..MaxCycles] ==
            IF c = 0 THEN AtLeast0(position - protected)
            ELSE IF c \in R THEN remaining[c - 1] - settled(c, remaining[c - 1]).owned
            ELSE remaining[c - 1]
    IN [c \in Cycle |->
           IF c \in R THEN RowAfter(rows[c], known[c], fact[c], settled(c, remaining[c - 1]),
                                    joint, position, protected)
           ELSE rows[c]]

\* _refresh_cycles: total is the foreign flow up to the balance, ready says
\* that the activities cover it, buying that a buy is about to be sent.
Refresh(R, rows, known, protected, ev, total, position, ready, buying) ==
    LET flow == ForeignFlow(protected, ev, total)
        fact == Facts(R, rows, known, flow)
        final == IF ready THEN Protect(R, known, fact, flow, protected, position, buying)
                 ELSE flow
    IN [cycle |-> Divide(R, rows, known, fact, final.protected, position, ready, flow.acquired),
        protected |-> final.protected,
        ev |-> final.ev]
=============================================================================
