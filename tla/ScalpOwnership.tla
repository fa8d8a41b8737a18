--------------------------- MODULE ScalpOwnership ---------------------------
(***************************************************************************)
(* Which coins of one symbol the scalper may sell.  ScalpOrderEngine shares *)
(* its account with the account's owner: the broker reports one balance,    *)
(* and the engine decides from it, from the fills of its own orders and     *)
(* from the account's activity feed how much is its own.  Every read is a   *)
(* request of its own, and the account moves between them: fills of orders  *)
(* the engine has not heard of yet, trades of the owner, fees that are      *)
(* debited at once and posted later.                                        *)
(*                                                                         *)
(* A cycle has one buy order and any number of market sells, one at a time. *)
(* One engine is modelled: whatever another one that has lost the lease     *)
(* still reads, the lease check refuses its writes.  The fee sweep is part  *)
(* of a sync.  Left out: other symbols, a second buy that joins a cycle,    *)
(* experiments, fees without an order id, and a read of positions that      *)
(* fails, which is one that is not begun.                                   *)
(***************************************************************************)
EXTENDS OwnershipLedger

CONSTANTS
    Scenes,            \* the bounds a behaviour may have
    NoOne              \* "no cycle in hand"

\* late_answer: the broker accepts a request after a lookup did not find it;
\* moving_read: the account moves between the positions and their timestamp;
\* long_window: the pages of a sync do not reach the end of its window;
\* owed_fee: a fee of the owner is outstanding when the first cycle begins;
\* unseen_trade: the owner has traded since the last refresh when it begins;
\* overlap: a cycle begins while an earlier one still has coins;
\* failed_recheck: activities are stored, and the lookup of an order that they
\* show to have filled further fails.
TroubleKinds == {"late_answer", "moving_read", "long_window", "owed_fee", "unseen_trade",
                 "overlap", "failed_recheck"}

\* How many cycles begin, the owner's coins before the first of them, bounds on
\* what the owner buys, sells and pays as base fees and on crashes and failed
\* requests, and the troubles that may happen.
Scene == [cycles : Cycle, start : Nat, buys : Nat, sells : Nat, fees : Nat, faults : Nat,
          troubles : SUBSET TroubleKinds]

ASSUME ScenesAssumption == \A x \in Scenes : x \in Scene
ASSUME NoOneAssumption == NoOne \notin Cycle

VARIABLES
    world,      \* what happened at the broker (external)
    order,      \* order rows of each cycle
    acts,       \* activities read so far
    paid,       \* fees attributed to the buy order of each cycle
    cursor,     \* the activity cursor
    protected,  \* unowned_positions
    ev,         \* ownership_foreign_evidence
    shown,      \* ownership_positions, the balance of the last refresh
    cycle,      \* rows of scalping_cycles
    eng,        \* the engine's memory
    scene,      \* the scene a behaviour shows; it never changes
    faults

durable == <<order, acts, paid, cursor, protected, ev, shown, cycle>>
vars == <<world, order, acts, paid, cursor, protected, ev, shown, cycle, eng, scene, faults>>

-----------------------------------------------------------------------------
(* The account at the broker *)

Zero == [c \in Cycle |-> 0]

\* Cumulative quantities: fills and base fees of our buys, fees posted, fills
\* of our sells; what is still working; the owner's buys, sells and fees.
World == [bought : [Cycle -> Nat], fee : [Cycle -> Nat], posted : [Cycle -> Nat],
          sold : [Cycle -> Nat], buying : [Cycle -> Nat], selling : [Cycle -> Nat],
          flying : [Cycle -> Nat], buys : Nat, sells : Nat, fees : Nat, postedFees : Nat]

OurNet(c) == world.bought[c] - world.fee[c] - world.sold[c]
Ours == MapThenSumSet(OurNet, Cycle)
OwnersNet == scene.start + world.buys - world.sells - world.fees
Balance == OwnersNet + Ours
Held == Total(world.selling, Cycle)

\* The feed of account activities at this moment, cumulative.
Feed == [buys |-> world.buys, sells |-> world.sells, fees |-> world.postedFees,
         bought |-> world.bought, sold |-> world.sold, posted |-> world.posted]

FeedRecord == [buys : Nat, sells : Nat, fees : Nat, bought : [Cycle -> Nat],
               sold : [Cycle -> Nat], posted : [Cycle -> Nat]]

NoFeed == [buys |-> 0, sells |-> 0, fees |-> 0, bought |-> Zero, sold |-> Zero, posted |-> Zero]

\* Mutant: activities later than the positions count as well.
AllOf(f, g) == f

\* The activities of f that are also in g: both are prefixes of one feed.
Common(f, g) ==
    [buys |-> Lesser(f.buys, g.buys), sells |-> Lesser(f.sells, g.sells),
     fees |-> Lesser(f.fees, g.fees),
     bought |-> [c \in Cycle |-> Lesser(f.bought[c], g.bought[c])],
     sold |-> [c \in Cycle |-> Lesser(f.sold[c], g.sold[c])],
     posted |-> [c \in Cycle |-> Lesser(f.posted[c], g.posted[c])]]

-----------------------------------------------------------------------------
(* What the engine knows *)

\* Order rows: the buy and its cumulative fill, whether its broker id is
\* known; the current sell, and the cumulative fills of all sells.
OrderRow == [buy : {"none", "approved", "sent", "final"}, buyId : BOOLEAN, bought : Nat,
             sell : {"none", "sent"}, sellId : BOOLEAN, sold : Nat]

NoOrders == [buy |-> "none", buyId |-> FALSE, bought |-> 0,
             sell |-> "none", sellId |-> FALSE, sold |-> 0]

AllFinal(c) == order[c].buy = "final" /\ order[c].sell = "none"
SymbolPending == \E c \in Cycle : order[c].buy \in {"approved", "sent"} \/ order[c].sell = "sent"

Owned == MapThenSumSet(LAMBDA c : cycle[c].owned, Cycle)

Active == {c \in Cycle : cycle[c].state \notin CLOSED \cup {"absent"}}

KnownOf(c) ==
    [bought |-> order[c].bought, sold |-> order[c].sold, paid |-> paid[c],
     awaited |-> IF order[c].buy = "sent" THEN EntryQty - order[c].bought ELSE 0,
     final |-> AllFinal(c)]

\* Activities whose order the engine cannot name count as the owner's.
Strange(f) ==
    [buys |-> f.buys + Total(f.bought, {c \in Cycle : ~order[c].buyId}),
     sells |-> f.sells + MapThenSumSet(LAMBDA c : AtLeast0(f.sold[c] - order[c].sold),
                                       {c \in Cycle : order[c].sell = "sent" /\ ~order[c].sellId}),
     fees |-> f.fees + Total(f.posted, {c \in Cycle : ~order[c].buyId})]

Pc == {"down", "idle", "reading", "refresh", "syncing", "armed", "exiting", "posting"}
Purpose == {"step", "reconcile", "buy", "exit", "fence"}

\* An unfinished sync has its window open up to "until"; complete says that one
\* was ever finished, covers that its end is not before the positions.
Cursor == [open : BOOLEAN, until : FeedRecord, covers : BOOLEAN, willCover : BOOLEAN,
           complete : BOOLEAN]

\* positions and what was available of them, the feed when they were stamped,
\* whether they are outdated, the order quantity in hand, and the cycles
\* affected by the sync; current says that the evidence was just brought up,
\* tried which exits this step has tried, fresh that a step was finished.
Engine == [pc : Pc, purpose : Purpose, c : Cycle \cup {NoOne}, positions : Nat, available : Int,
           seen : FeedRecord, dirty : BOOLEAN, current : BOOLEAN, affected : SUBSET Cycle,
           quantity : Nat, tried : SUBSET Cycle, fresh : BOOLEAN]

Off == [pc |-> "down", purpose |-> "step", c |-> NoOne, positions |-> 0, available |-> 0,
        seen |-> NoFeed, dirty |-> TRUE, current |-> FALSE, affected |-> {}, quantity |-> 0,
        tried |-> {}, fresh |-> FALSE]

\* A balance below the broker's minimum order counts as flat.
Tradable(q, balance) == IF balance < MinOrder THEN 0 ELSE q

Idle == eng.pc = "idle"
Return == [eng EXCEPT !.pc = "idle", !.purpose = "step", !.c = NoOne, !.current = FALSE,
                      !.affected = {}, !.quantity = 0]

-----------------------------------------------------------------------------
Init ==
    /\ scene \in Scenes
    /\ world = [bought |-> Zero, fee |-> Zero, posted |-> Zero, sold |-> Zero, buying |-> Zero,
                selling |-> Zero, flying |-> Zero, buys |-> 0, sells |-> 0, fees |-> 0, postedFees |-> 0]
    /\ order = [c \in Cycle |-> NoOrders]
    /\ acts = NoFeed
    /\ paid = Zero
    /\ cursor = [open |-> FALSE, until |-> NoFeed, covers |-> FALSE, willCover |-> FALSE,
                 complete |-> FALSE]
    /\ protected = Tradable(scene.start, scene.start)
    /\ ev = NoEvidence
    /\ shown = 0
    /\ cycle = [c \in Cycle |-> NoCycle]
    /\ eng = Off
    /\ faults = 0

-----------------------------------------------------------------------------
(* The account moves *)

Resting == "moving_read" \notin scene.troubles /\ eng.pc = "reading"

BuyFills(c) ==
    /\ \E n \in 1..world.buying[c], x \in {0, 1} :
          /\ x <= 1 - world.fee[c] /\ x < n
          /\ world' = [world EXCEPT !.bought[c] = @ + n, !.buying[c] = @ - n, !.fee[c] = @ + x]
    /\ ~Resting
    /\ UNCHANGED <<durable, eng, scene, faults>>

SellFills(c) ==
    /\ ~Resting
    /\ \E n \in 1..world.selling[c] :
          world' = [world EXCEPT !.sold[c] = @ + n, !.selling[c] = @ - n]
    /\ UNCHANGED <<durable, eng, scene, faults>>

\* What is left of an order ends: its TTL, a cancel, or the broker.
OrderEnds(c) ==
    /\ world.buying[c] > 0 \/ world.selling[c] > 0
    /\ world' = [world EXCEPT !.buying[c] = 0, !.selling[c] = 0]
    /\ UNCHANGED <<durable, eng, scene, faults>>

FeePosted(c) ==
    /\ ~Resting
    /\ world.posted[c] < world.fee[c]
    /\ world' = [world EXCEPT !.posted[c] = world.fee[c]]
    /\ UNCHANGED <<durable, eng, scene, faults>>

\* A request that was under way when its lookup found nothing is accepted.
Accepted(c) ==
    /\ ~Resting
    /\ world.flying[c] > 0 /\ (order[c].sell = "sent" => world.flying[c] <= Balance - Held)
    /\ world' = IF order[c].sell = "sent"
                THEN [world EXCEPT !.flying[c] = 0, !.selling[c] = world.flying[c]]
                ELSE [world EXCEPT !.flying[c] = 0, !.buying[c] = world.flying[c]]
    /\ UNCHANGED <<durable, eng, scene, faults>>

OwnerBuys ==
    /\ ~Resting
    /\ world.buys < scene.buys
    /\ \E n \in 1..(scene.buys - world.buys), x \in {0, 1} :
          /\ x <= scene.fees - world.fees /\ x < n
          /\ world' = [world EXCEPT !.buys = @ + n, !.fees = @ + x]
    /\ UNCHANGED <<durable, eng, scene, faults>>

OwnerSells ==
    /\ ~Resting
    /\ world.sells < scene.sells
    /\ \E n \in 1..(scene.sells - world.sells) :
          /\ n <= OwnersNet
          /\ world' = [world EXCEPT !.sells = @ + n]
    /\ UNCHANGED <<durable, eng, scene, faults>>

OwnersFeePosted ==
    /\ ~Resting
    /\ world.postedFees < world.fees
    /\ world' = [world EXCEPT !.postedFees = world.fees]
    /\ UNCHANGED <<durable, eng, scene, faults>>

Account ==
    \/ \E c \in Cycle : BuyFills(c) \/ SellFills(c) \/ OrderEnds(c) \/ FeePosted(c) \/ Accepted(c)
    \/ OwnerBuys \/ OwnerSells \/ OwnersFeePosted

-----------------------------------------------------------------------------
(* Start and end of the engine *)

Restart ==
    /\ eng.pc = "down"
    /\ eng' = [eng EXCEPT !.pc = "idle"]
    /\ UNCHANGED <<world, durable, scene, faults>>

Crash ==
    /\ eng.pc # "down"
    /\ faults < scene.faults
    /\ faults' = faults + 1
    /\ eng' = Off
    /\ UNCHANGED <<world, durable, scene>>

-----------------------------------------------------------------------------
(* What the engine learns of its orders *)

\* Mutant: a fill does not outdate the positions.
LearnBuyQuietly(c) ==
    /\ Idle
    /\ order[c].buy = "sent" /\ world.flying[c] = 0
    /\ \E q \in order[c].bought..world.bought[c] :
          order' = [order EXCEPT
                ![c].buyId = TRUE, ![c].bought = q,
                ![c].buy = IF world.buying[c] = 0 /\ q = world.bought[c] THEN "final" ELSE "sent"]
    /\ UNCHANGED <<world, acts, paid, cursor, protected, ev, shown, cycle, eng, scene, faults>>

\* _update_order with some version of the order, not older than the known one.
LearnBuy(c) ==
    /\ Idle
    /\ order[c].buy = "sent" /\ world.flying[c] = 0
    /\ \E q \in order[c].bought..world.bought[c] :
          /\ order' = [order EXCEPT
                ![c].buyId = TRUE, ![c].bought = q,
                ![c].buy = IF world.buying[c] = 0 /\ q = world.bought[c] THEN "final" ELSE "sent"]
          /\ eng' = [eng EXCEPT !.dirty = @ \/ q # order[c].bought]
    /\ UNCHANGED <<world, acts, paid, cursor, protected, ev, shown, cycle, scene, faults>>

LearnSell(c) ==
    /\ Idle
    /\ order[c].sell = "sent" /\ world.flying[c] = 0
    /\ \E q \in order[c].sold..world.sold[c] :
          /\ order' = [order EXCEPT
                ![c].sellId = TRUE, ![c].sold = q,
                ![c].sell = IF world.selling[c] = 0 /\ q = world.sold[c] THEN "none" ELSE "sent"]
          /\ eng' = [eng EXCEPT !.dirty = @ \/ order' # order]
    /\ UNCHANGED <<world, acts, paid, cursor, protected, ev, shown, cycle, scene, faults>>

\* An intent that survived a restart is expired.
ExpireIntent(c) ==
    /\ Idle
    /\ order[c].buy = "approved"
    /\ order' = [order EXCEPT ![c].buy = "final"]
    /\ UNCHANGED <<world, acts, paid, cursor, protected, ev, shown, cycle, eng, scene, faults>>

\* _reconcile_orders comes first: it looks up every open order, a buy that
\* was not found only now and then.
LookedUp ==
    \A c \in Cycle :
        /\ order[c].buy # "approved"
        /\ order[c].buy = "sent" => order[c].buyId \/ "late_answer" \in scene.troubles
        /\ order[c].sell = "sent" => order[c].sellId \/ world.flying[c] > 0

-----------------------------------------------------------------------------
(* Reading positions *)

Read(purpose, c) ==
    eng' = [eng EXCEPT !.pc = "reading", !.purpose = purpose, !.c = c,
                       !.positions = Tradable(Balance, Balance),
                       !.available = Tradable(Balance - Held, Balance)]

\* _positions_at is the time when the requests for positions, orders and the
\* account have come back; until then the account may have moved.
Stamp ==
    /\ eng.pc = "reading"
    /\ eng' = [eng EXCEPT !.pc = CASE eng.purpose = "reconcile" -> "syncing"
                                   [] eng.purpose = "fence" -> "posting"
                                   [] OTHER -> "refresh",
                          !.seen = Feed, !.dirty = FALSE]
    /\ cursor' = [cursor EXCEPT !.covers = FALSE, !.willCover = FALSE]
    /\ UNCHANGED <<world, order, acts, paid, protected, ev, shown, cycle, scene, faults>>

BeginStep ==
    /\ Idle /\ LookedUp
    /\ Read("step", NoOne)
    /\ UNCHANGED <<world, durable, scene, faults>>

BeginReconcile ==
    /\ Idle /\ LookedUp
    /\ Read("reconcile", NoOne)
    /\ UNCHANGED <<world, durable, scene, faults>>

\* Positions younger than the reconcile interval are used again.
BeginWithoutRead ==
    /\ Idle /\ LookedUp
    /\ ~eng.dirty
    /\ eng' = [eng EXCEPT !.pc = "refresh"]
    /\ UNCHANGED <<world, durable, scene, faults>>

-----------------------------------------------------------------------------
(* The activity cursor *)

\* _sync_activities: the window is opened, unless a former one is unfinished,
\* and read in pages.
Window == IF cursor.open THEN cursor.until ELSE Feed
WindowCovers == IF cursor.open THEN cursor.willCover ELSE TRUE

\* Fees of an order are attributed as soon as its broker id is known.
Attributed(f) == [c \in Cycle |-> IF order[c].buyId THEN f.posted[c] ELSE paid[c]]

\* Cycles whose activities changed with this sync.
AffectedBy(f) ==
    {c \in Cycle : \/ order[c].buyId /\ (f.bought[c] # acts.bought[c] \/ Attributed(f)[c] # paid[c])
                   \/ f.sold[c] # acts.sold[c] /\ (order[c].sell = "none" \/ order[c].sellId)}

\* Orders whose new fill activities exceed the known quantity are looked up.
BuysBehind(f) ==
    {c \in Cycle : order[c].buyId /\ f.bought[c] # acts.bought[c] /\ f.bought[c] > order[c].bought}
SellsBehind(f) ==
    {c \in Cycle : /\ order[c].sell = "sent" /\ order[c].sellId
                   /\ f.sold[c] # acts.sold[c] /\ f.sold[c] > order[c].sold}
Behind(f) == BuysBehind(f) \cup SellsBehind(f)

BuyRechecked(row, c) ==
    [row EXCEPT !.bought = world.bought[c], !.buy = IF world.buying[c] = 0 THEN "final" ELSE @]
SellRechecked(row, c) ==
    [row EXCEPT !.sold = world.sold[c], !.sell = IF world.selling[c] = 0 THEN "none" ELSE @]

Recheck(f) ==
    order' = [c \in Cycle |->
                 LET row == IF c \in BuysBehind(f) THEN BuyRechecked(order[c], c) ELSE order[c]
                 IN IF c \in SellsBehind(f) THEN SellRechecked(row, c) ELSE row]

Stored ==
    /\ acts' = Window
    /\ paid' = Attributed(Window)
    /\ cursor' = [open |-> FALSE, until |-> NoFeed, covers |-> WindowCovers,
                  willCover |-> FALSE, complete |-> TRUE]

SyncCompletes ==
    /\ eng.pc = "syncing"
    /\ Stored
    /\ Recheck(Window)
    /\ eng' = [eng EXCEPT !.pc = "refresh", !.affected = @ \cup AffectedBy(Window),
                          !.current = eng.purpose # "reconcile",
                          !.purpose = IF @ = "reconcile" THEN "step" ELSE @,
                          !.dirty = @ \/ Behind(Window) # {}]
    /\ UNCHANGED <<world, protected, ev, shown, cycle, scene, faults>>

\* The pages of one call do not reach the end of the window: some activities
\* may be stored, but nothing is covered.
SyncStops ==
    /\ eng.pc = "syncing"
    /\ "long_window" \in scene.troubles
    /\ Window # acts
    /\ \E read \in {acts, Window} :
          /\ acts' = read
          /\ paid' = Attributed(read)
          /\ Recheck(read)
          /\ eng' = [eng EXCEPT !.pc = "refresh", !.affected = @ \cup AffectedBy(read),
                                !.current = eng.purpose # "reconcile",
                                !.purpose = IF @ = "reconcile" THEN "step" ELSE @,
                                !.dirty = @ \/ Behind(read) # {}]
    /\ cursor' = [cursor EXCEPT !.open = TRUE, !.until = Window, !.willCover = WindowCovers]
    /\ UNCHANGED <<world, protected, ev, shown, cycle, scene, faults>>

-----------------------------------------------------------------------------
(* The refresh *)

Refreshed == Active \cup (eng.affected \ {c \in Cycle : cycle[c].state = "absent"})

FillsChanged ==
    \E c \in Refreshed : order[c].bought # cycle[c].bought \/ order[c].sold # cycle[c].sold

\* Mutant: only a buy asks for evidence up to its positions.
StaleBeforeBuy == eng.purpose = "buy" /\ ~cursor.covers

EvidenceStale == (Refreshed # {} \/ eng.purpose = "buy") /\ ~cursor.covers

NeedsEvidence ==
    /\ ~eng.current
    /\ FillsChanged \/ shown # eng.positions \/ EvidenceStale

\* An update of an order has outdated the positions.
ReadAgain ==
    /\ eng.pc = "refresh"
    /\ eng.dirty
    /\ Read(eng.purpose, eng.c)
    /\ UNCHANGED <<world, durable, scene, faults>>

BeginSync ==
    /\ eng.pc = "refresh"
    /\ ~eng.dirty
    /\ NeedsEvidence
    /\ eng' = [eng EXCEPT !.pc = "syncing"]
    /\ UNCHANGED <<world, durable, scene, faults>>

EvidenceReady == cursor.complete /\ ~cursor.open /\ cursor.covers

\* The activities are reviewed and the cycles, the protected quantity and the
\* evidence are written in one transaction.
RefreshCycles ==
    /\ eng.pc = "refresh"
    /\ ~eng.dirty
    /\ ~NeedsEvidence
    /\ LET new == Refresh(Refreshed, cycle, [c \in Cycle |-> KnownOf(c)], protected, ev,
                          Strange(Common(acts, eng.seen)), eng.positions, EvidenceReady,
                          eng.purpose = "buy")
       IN /\ cycle' = new.cycle
          /\ protected' = new.protected
          /\ ev' = new.ev
    /\ shown' = eng.positions
    /\ eng' = CASE eng.purpose = "buy" -> [eng EXCEPT !.pc = "armed"]
                [] eng.purpose = "exit" -> [eng EXCEPT !.pc = "exiting", !.current = FALSE,
                                                       !.affected = {},
                                                       !.tried = @ \cup {eng.c}]
                [] OTHER -> [Return EXCEPT !.fresh = TRUE]
    /\ UNCHANGED <<world, order, acts, paid, cursor, scene, faults>>

\* A request fails and the step is given up: the cycles whose activities were
\* just stored are forgotten.
StepFails ==
    /\ eng.pc \in {"refresh", "syncing"}
    /\ faults < scene.faults
    /\ faults' = faults + 1
    /\ eng' = [Return EXCEPT !.tried = {}, !.fresh = FALSE]
    /\ \/ eng.pc = "refresh" /\ UNCHANGED <<acts, paid, cursor>>
       \/ /\ eng.pc = "syncing"
          /\ cursor' = [cursor EXCEPT !.open = TRUE, !.until = Window, !.willCover = WindowCovers]
          /\ UNCHANGED <<acts, paid>>
       \/ /\ eng.pc = "syncing"
          /\ "failed_recheck" \in scene.troubles
          /\ Stored
          /\ Behind(Window) # {}
    /\ UNCHANGED <<world, order, protected, ev, shown, cycle, scene>>

-----------------------------------------------------------------------------
(* Entries *)

\* A step tries to sell every cycle whose exit is due before it buys.
ExitsTried ==
    \A c \in Active : cycle[c].exit /\ cycle[c].owned > 0 /\ AllFinal(c) => c \in eng.tried

\* _new_cycle with its order; before the very first cycle everything the
\* account holds is declared foreign.
NewCycle(c) ==
    /\ Idle /\ LookedUp /\ ~eng.dirty /\ eng.fresh
    /\ "long_window" \in scene.troubles \/ ~cursor.open
    /\ ExitsTried
    /\ c = 1 /\ "owed_fee" \notin scene.troubles => world.postedFees = world.fees
    /\ c = 1 /\ "unseen_trade" \notin scene.troubles
       => ev.buys = world.buys /\ ev.sells = world.sells
    /\ c <= scene.cycles /\ cycle[c].state = "absent"
    /\ \A d \in Cycle : d < c => cycle[d].state # "absent"
    /\ cursor.complete
    /\ ~SymbolPending
    /\ \A d \in Active : cycle[d].state # "ownership_pending" /\ cycle[d].exit
    /\ "overlap" \in scene.troubles \/ Active = {}
    /\ cycle' = [cycle EXCEPT ![c].state = "entry_pending"]
    /\ order' = [order EXCEPT ![c].buy = "approved"]
    /\ protected' = IF c = 1 THEN Tradable(Balance, Balance) ELSE protected
    /\ Read("buy", c)
    /\ UNCHANGED <<world, acts, paid, cursor, ev, shown, scene, faults>>

\* _dispatch: the mark and the POST, or a fence refuses the entry.
SendBuy ==
    /\ eng.pc = "armed"
    /\ order' = [order EXCEPT ![eng.c].buy = "sent"]
    /\ \/ world' = [world EXCEPT !.buying[eng.c] = EntryQty]
       \/ "late_answer" \in scene.troubles /\ world' = [world EXCEPT !.flying[eng.c] = EntryQty]
    /\ eng' = Return
    /\ UNCHANGED <<acts, paid, cursor, protected, ev, shown, cycle, scene, faults>>

RefuseBuy ==
    /\ eng.pc = "armed"
    /\ order' = [order EXCEPT ![eng.c].buy = "final"]
    /\ eng' = Return
    /\ UNCHANGED <<world, acts, paid, cursor, protected, ev, shown, cycle, scene, faults>>

-----------------------------------------------------------------------------
(* Exits *)

\* A step that has tried its exits ends; the next one tries again.
NextStep ==
    /\ Idle
    /\ eng.tried # {}
    /\ eng' = [eng EXCEPT !.tried = {}]
    /\ UNCHANGED <<world, durable, scene, faults>>

RequestExit(c) ==
    /\ Idle
    /\ c \in Active
    /\ ~cycle[c].exit
    /\ eng.tried = {}
    /\ cycle' = [cycle EXCEPT ![c].exit = TRUE]
    /\ UNCHANGED <<world, order, acts, paid, cursor, protected, ev, shown, eng, scene, faults>>

\* _exit_owned reads and refreshes once more before it decides the quantity.
BeginExit(c) ==
    /\ Idle /\ LookedUp
    /\ c \in Active
    /\ cycle[c].exit /\ cycle[c].owned > 0
    /\ AllFinal(c)
    /\ c \notin eng.tried
    /\ Read("exit", c)
    /\ UNCHANGED <<world, durable, scene, faults>>

ReserveExit ==
    /\ eng.pc = "exiting"
    /\ LET q == Lesser(cycle[eng.c].owned, AtLeast0(eng.available - protected))
       IN IF q >= MinOrder /\ ~SymbolPending
          THEN eng' = [eng EXCEPT !.pc = "reading", !.purpose = "fence", !.quantity = q,
                                  !.positions = Tradable(Balance, Balance),
                                  !.available = Tradable(Balance - Held, Balance)]
          ELSE eng' = Return
    /\ UNCHANGED <<world, durable, scene, faults>>

Permitted == Lesser(cycle[eng.c].owned, AtLeast0(eng.available - protected))

SendSell ==
    /\ eng.pc = "posting"
    /\ eng.quantity <= Permitted
    /\ eng.quantity <= Balance - Held
    /\ order' = [order EXCEPT ![eng.c].sell = "sent", ![eng.c].sellId = FALSE]
    /\ \/ world' = [world EXCEPT !.selling[eng.c] = eng.quantity]
       \/ "late_answer" \in scene.troubles /\ world' = [world EXCEPT !.flying[eng.c] = eng.quantity]
    /\ eng' = Return
    /\ UNCHANGED <<acts, paid, cursor, protected, ev, shown, cycle, scene, faults>>

RefuseSell ==
    /\ eng.pc = "posting"
    /\ eng.quantity > Permitted \/ eng.quantity > Balance - Held
    /\ eng' = Return
    /\ UNCHANGED <<world, durable, scene, faults>>

-----------------------------------------------------------------------------
Next ==
    \/ Account \/ Restart \/ Crash
    \/ \E c \in Cycle : LearnBuy(c) \/ LearnSell(c) \/ ExpireIntent(c) \/ NewCycle(c)
                        \/ RequestExit(c) \/ BeginExit(c)
    \/ NextStep \/ BeginStep \/ BeginReconcile \/ BeginWithoutRead \/ Stamp
    \/ SyncCompletes \/ SyncStops \/ StepFails \/ ReadAgain \/ BeginSync \/ RefreshCycles
    \/ SendBuy \/ RefuseBuy \/ ReserveExit \/ SendSell \/ RefuseSell

Spec == Init /\ [][Next]_vars

-----------------------------------------------------------------------------
(* Fairness.  Each conjunct says what an action's weak fairness would: the   *)
(* step takes the condition away that it waits for.                          *)

ExitDue(c) == c \in Active /\ cycle[c].exit /\ cycle[c].owned > 0 /\ AllFinal(c)

SellsFill ==
    \A c \in Cycle : world'.selling[c] < world.selling[c]
                     => world'.sold[c] - world.sold[c] = world.selling[c] - world'.selling[c]

\* The loop runs and every step ends; it looks up each order, so an order that
\* has ended is known to; it tries each exit that is due.  The broker posts
\* its fees, lets no order work for ever and in the end fills market sells.
Fairness ==
    /\ []<><<BeginStep>>_vars
    /\ []<>(eng.tried = {})
    /\ []<>(world.posted = world.fee /\ world.postedFees = world.fees)
    /\ \A c \in Cycle :
          /\ []<>(order[c].buy \notin {"approved", "sent"})
          /\ []<>(order[c].sell # "sent")
          /\ []<>(~ExitDue(c) \/ (eng.pc = "exiting" /\ eng.c = c))
    /\ <>[][SellsFill]_world

FairSpec == Spec /\ Fairness

-----------------------------------------------------------------------------
(* Properties *)

\* Every variable keeps its type: no quantity of the ledger (_refresh_cycles)
\* is ever negative.
TypeOK ==
    /\ world \in World
    /\ order \in [Cycle -> OrderRow]
    /\ acts \in FeedRecord
    /\ paid \in [Cycle -> Nat]
    /\ cursor \in Cursor
    /\ protected \in Nat /\ shown \in Nat
    /\ scene \in Scenes /\ faults \in 0..scene.faults
    /\ ev \in Evidence
    /\ cycle \in [Cycle -> CycleRow]
    /\ eng \in Engine

\* The fence of _dispatch that never sells foreign inventory: what the engine's sells may
\* still take is what the engine bought, less fees and sales, whatever the
\* owner traded and whenever the engine came to know of it.
SellsOnlyOwn == Held <= Ours

\* The evidence agrees with the balance and a decision is due.
Deciding == eng.pc \in {"armed", "exiting"} /\ EvidenceReady

\* No coin of the engine is given to the owner: when _dispatch or _exit_owned
\* decides on covered evidence, unowned_positions is no more than the owner had
\* by then.
ProtectsForeignOnly == Deciding => protected <= scene.start + eng.seen.buys - eng.seen.sells

\* Orders are final, fees posted, and the engine's rows, activities and
\* balance are those of the broker.
Told ==
    /\ Idle /\ ~eng.dirty /\ eng.fresh /\ EvidenceReady
    /\ Held = 0 /\ ~SymbolPending
    /\ world.posted = world.fee /\ world.postedFees = world.fees
    /\ eng.seen = Feed /\ acts = Feed /\ shown = Balance
    /\ ev.buys = world.buys /\ ev.sells = world.sells /\ ev.fees = world.fees
    /\ \A c \in Cycle : cycle[c].bought = world.bought[c] /\ cycle[c].sold = world.sold[c]
                        /\ cycle[c].fee = world.fee[c]

\* However fills, fees, the owner's trades and the balance came in, once all is
\* known each cycle owns what it bought and still has, and _exit_owned strands no
\* coin.  A crash may cost that, see faults.
OwnsWhatIsLeft == Told /\ faults = 0 => \A c \in Cycle : cycle[c].owned = OurNet(c)

\* What _refresh_cycles lets the cycles own together is in the balance beside
\* what is protected; a cycle never owns more than it claims, nor claims more
\* than its fills leave after fees and the disposals it had to bear.
OwnedIsBacked ==
    /\ Owned <= AtLeast0(shown - protected)
    /\ \A c \in Cycle :
          /\ cycle[c].owned <= cycle[c].claim
          /\ cycle[c].claim <= AtLeast0(cycle[c].bought - cycle[c].sold - cycle[c].fee
                                        - cycle[c].disposed)

\* A cycle whose exit _request_exits has asked for is sold and closed in the end, whatever
\* stale positions, late fees and refused sells come in between.  After a crash
\* or a failed request it may instead be left with coins that it no longer
\* claims.
ExitsComplete ==
    \A c \in Cycle :
        cycle[c].exit ~> \/ cycle[c].state \in CLOSED
                         \/ faults > 0 /\ AllFinal(c) /\ cycle[c].claim = 0
=============================================================================
