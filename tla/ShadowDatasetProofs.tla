------------------------ MODULE ShadowDatasetProofs ------------------------
(***************************************************************************)
(* Proofs about ShadowDataset: rows are made once, complete labels span no *)
(* break of continuity, and what is sealed is finished.                    *)
(*                                                                         *)
(* None of the three is inductive, since each relates the tables to what   *)
(* is still in the memory of the collector and in the queue of the writer. *)
(* Inv says how the three fit together: rows are stored in the order they  *)
(* are made, the collector knows of every slot what is stored or queued,   *)
(* the quotes that rows refer to are in the history if they are of this    *)
(* process and no break lies between two of one epoch, every quote is on   *)
(* the tape or on its way there, and the seal is the last item queued.     *)
(***************************************************************************)
EXTENDS ShadowDataset, SequenceTheorems, WellFoundedInduction, TLAPS

\* The fields of ShadowDatasetProtocol are whole numbers of seconds, its horizons
\* are a few, and None is no row.
Bounds ==
    /\ Every \in Nat \ {0} /\ End \in Nat /\ Settle \in Nat /\ MaxAge \in Int
    /\ Horizons # {} /\ \E n \in Nat : Horizons \subseteq 0..n
    /\ BatchSize \in Nat \ {0} /\ MaxQuotes \in Nat /\ MaxFaults \in Nat
    /\ None \notin Quote /\ None \notin Evaluation /\ None \notin Label

-----------------------------------------------------------------------------
(* The invariant *)

\* What is in the queue.
RowsItem ==
    [kind : {"rows"}, evaluations : UNION {[D -> Evaluation] : D \in SUBSET Slot},
     labels : UNION {[D -> Label] : D \in SUBSET (Slot \X Horizons)}]
TapeItem == [kind : {"tape"}, ids : SUBSET Id]
QualityItem == [kind : {"quality"}, sealed : BOOLEAN]
Item == RowsItem \cup TapeItem \cup QualityItem

\* TypeOK, with the queue and the shape of every record.
Typed ==
    /\ now \in Time
    /\ market \in [quotes : 0..MaxQuotes, breaks : SUBSET Id]
    /\ collector \in [epoch : Nat, history : SUBSET Quote, last_slot : Slot \cup {-1},
                      pending : [Slot -> Evaluation \cup {None}],
                      completed : [Slot -> SUBSET Horizons]]
    /\ loop \in [pc : {"down", "running", "sealing", "sealed", "archive"}, paused : BOOLEAN]
    /\ source_batch \in SUBSET Id
    /\ writer_queue \in Seq(Item)
    /\ dataset \in [evaluations : [Slot -> Evaluation \cup {None}],
                    labels : [Slot -> [Horizons -> Label \cup {None}]], tape : SUBSET Id,
                    sealed : BOOLEAN, analysis : {"none", "blocked", "verified", "failed"}]
    /\ stop \in BOOLEAN
    /\ faults \in 0..MaxFaults

\* The evaluation of slot s and the label of s at horizon h, stored or on its way.
Row(s, e) ==
    \/ s \in Stored /\ e = dataset.evaluations[s]
    \/ \E i \in QueuedRows : /\ s \in DOMAIN writer_queue[i].evaluations
                             /\ e = writer_queue[i].evaluations[s]
Lab(s, h, l) ==
    \/ h \in Labelled(s) /\ l = dataset.labels[s][h]
    \/ \E i \in QueuedRows : /\ <<s, h>> \in DOMAIN writer_queue[i].labels
                             /\ l = writer_queue[i].labels[<<s, h>>]
HasRow(s) == \E e : Row(s, e)
HasLab(s, h) == \E l : Lab(s, h, l)

\* A label does not come before its evaluation.
FollowInv ==
    /\ \A s \in Slot : Labelled(s) # {} => s \in Stored
    /\ \A i \in QueuedRows : \A x \in DOMAIN writer_queue[i].labels :
          \/ x[1] \in Stored
          \/ \E j \in QueuedRows : j <= i /\ x[1] \in DOMAIN writer_queue[j].evaluations

\* What the collector holds of a slot.
SlotInv(s) ==
    /\ collector.pending[s] # None =>
          /\ Row(s, collector.pending[s])
          /\ \A h \in Horizons : h \in collector.completed[s] <=> HasLab(s, h)
    /\ collector.pending[s] = None =>
          /\ collector.completed[s] = {}
          /\ HasRow(s) => \A h \in Horizons : HasLab(s, h)

ProgressInv ==
    /\ collector.last_slot <= now \div Every
    /\ \A s \in Slot : HasRow(s) => s <= now \div Every
    /\ loop.pc # "down" => \A s \in Slot : SlotInv(s) /\ (HasRow(s) => s <= collector.last_slot)

\* The quotes of this process are in its history.
Known(q) ==
    /\ q.id <= market.quotes /\ q.epoch[1] <= faults
    /\ q.epoch[1] = faults => q \in collector.history

\* No continuity break lies between the quotes.
Unbroken(q, r) == \A b \in market.breaks : ~ (q.id < b /\ b <= r.id)

QuotesInv ==
    /\ \A b \in market.breaks : b <= market.quotes
    /\ \A q \in collector.history :
          /\ q.epoch[1] = faults /\ q.epoch[2] <= collector.epoch /\ q.id <= market.quotes
          /\ q.epoch[2] = collector.epoch => \A b \in market.breaks : b <= q.id
    /\ \A q, r \in collector.history : q.epoch = r.epoch => Unbroken(q, r)

RowsInv ==
    /\ \A s \in Slot : \A e : Row(s, e) => /\ e.entry # None => Known(e.entry)
                                           /\ e.fresh => e.entry # None
    /\ \A s \in Slot, h \in Horizons : \A l : Lab(s, h, l) /\ l.exit # None => Known(l.exit)
    /\ \A s \in Slot, h \in Horizons : \A e, l :
          Row(s, e) /\ Lab(s, h, l) /\ l.complete =>
              e.entry # None /\ l.exit # None /\ Unbroken(e.entry, l.exit)

\* Every quote of this process is on the tape or on its way there.
TapeInv ==
    \A q \in collector.history :
        \/ q.id \in dataset.tape \cup source_batch
        \/ \E i \in 1..Len(writer_queue) : writer_queue[i].kind = "tape" /\ q.id \in writer_queue[i].ids

Seals(i) == writer_queue[i].kind = "quality" /\ writer_queue[i].sealed

\* The seal comes last.
SealInv ==
    /\ loop.pc = "down" => writer_queue = <<>> /\ source_batch = {} /\ collector = NewCollector
    /\ loop.pc = "running" => ~ dataset.sealed /\ \A i \in 1..Len(writer_queue) : ~ Seals(i)
    /\ loop.pc \in {"sealing", "sealed", "archive"} =>
          source_batch = {} /\ \A s \in Slot : collector.pending[s] = None
    /\ \A i, j \in 1..Len(writer_queue) : Seals(i) /\ i < j => writer_queue[j].kind = "quality"
    /\ dataset.sealed => /\ \A j \in 1..Len(writer_queue) : writer_queue[j].kind = "quality"
                         /\ \A s \in Stored : Labelled(s) = Horizons

Inv == /\ Typed /\ RowsAreMadeOnce /\ FollowInv /\ ProgressInv /\ QuotesInv /\ RowsInv
       /\ TapeInv /\ SealInv

-----------------------------------------------------------------------------
(* Numbers *)

\* A set of natural numbers has a least element.
LEMMA LeastElement ==
  ASSUME NEW T, T \subseteq Nat, T # {}
  PROVE  \E x \in T : \A y \in T : x <= y
<1> DEFINE R == OpToRel(<, Nat)
<1>1. IsWellFoundedOn(R, Nat)
  BY NatLessThanWellFounded
<1>2. R = {ss \in Nat \X Nat : ss[1] < ss[2]}
  BY DEF OpToRel
<1>3. \A x, y \in Nat : <<x, y>> \in R <=> x < y
  BY <1>2
<1> HIDE DEF R
<1>4. PICK x \in T : \A y \in T : ~ (<<y, x>> \in R)
  BY <1>1, WFMin
<1>5. \A y \in T : x \in Nat /\ y \in Nat
  OBVIOUS
<1>6. ASSUME NEW y \in T PROVE x <= y
  <2>1. ~ (y < x)
    BY <1>3, <1>4, <1>5
  <2> QED  BY <1>5, <2>1
<1> QED  BY <1>6

\* A set of integers below a bound has a greatest element.
LEMMA GreatestElement ==
  ASSUME NEW T, T \subseteq Int, T # {}, NEW n \in Int, \A x \in T : x <= n
  PROVE  /\ Max(T) \in T
         /\ \A y \in T : y <= Max(T)
<1> DEFINE U == {n - x : x \in T}
<1>1. U \subseteq Nat /\ U # {}
  <2>1. ASSUME NEW x \in T PROVE n - x \in Nat
    <3>1. x \in Int /\ x <= n
      OBVIOUS
    <3> QED  BY <3>1
  <2> QED  BY <2>1
<1>2. PICK u \in U : \A y \in U : u <= y
  BY <1>1, LeastElement
<1>3. PICK x \in T : u = n - x
  OBVIOUS
<1>4. ASSUME NEW y \in T PROVE x >= y
  <2>1. u <= n - y
    BY <1>2
  <2> QED  BY <1>3, <2>1
<1>5. \E z \in T : \A y \in T : z >= y
  BY <1>4
<1>6. Max(T) \in T /\ \A y \in T : Max(T) >= y
  BY <1>5 DEF Max
<1> QED  BY <1>6

\* The number of a slot grows with time.
LEMMA SlotsGrow ==
  ASSUME NEW d \in Nat \ {0}, NEW a \in Nat
  PROVE  a \div d \in Nat /\ \A b \in Nat : a <= b => a \div d <= b \div d
OBVIOUS

\* The times and slots of the constants.
LEMMA Scales ==
  ASSUME Bounds
  PROVE  /\ ProtocolEnd \in Nat /\ Every \in Nat \ {0} /\ End \in Nat /\ Settle \in Nat
         /\ \A h \in Horizons : h \in Nat
         /\ End \div Every \in Nat
<1>1. PICK n \in Nat : Horizons \subseteq 0..n
  BY DEF Bounds
<1>2. Max(Horizons) \in Horizons
  <2>1. Horizons \subseteq Int /\ Horizons # {} /\ \A x \in Horizons : x <= n
    BY <1>1 DEF Bounds
  <2>2. n \in Int
    OBVIOUS
  <2> HIDE DEF Max
  <2> QED  BY ONLY <2>1, <2>2, GreatestElement
<1>3. End \div Every \in Nat
  BY SlotsGrow DEF Bounds
<1>4. \A h \in Horizons : h \in Nat
  BY <1>1
<1>5. Every \in Nat \ {0} /\ End \in Nat /\ Settle \in Nat
  BY DEF Bounds
<1>6. ProtocolEnd \in Nat
  <2>1. Max(Horizons) \in Nat
    BY <1>2, <1>4
  <2> QED  BY ONLY <1>5, <2>1 DEF ProtocolEnd
<1> QED  BY <1>3, <1>4, <1>5, <1>6

\* The slot of this moment, while evaluations are made.
LEMMA SlotOfNow ==
  ASSUME Bounds, Typed
  PROVE  /\ now \in Nat /\ now \div Every \in Nat
         /\ now < End => now \div Every \in Slot
<1>1. now \in Nat /\ Every \in Nat \ {0} /\ End \in Nat
  BY Scales DEF Typed, Time
<1>2. now \div Every \in Nat
  BY <1>1, SlotsGrow
<1>3. ASSUME now < End PROVE now \div Every \in Slot
  <2>1. now <= End
    BY <1>1, <1>3
  <2>2. now \div Every <= End \div Every
    BY <1>1, <2>1, SlotsGrow
  <2> QED  BY <1>2, <2>2, Scales DEF Slot
<1> QED  BY <1>1, <1>2, <1>3

\* The types of the fields.
LEMMA Fields ==
  ASSUME Typed
  PROVE  /\ market.quotes \in 0..MaxQuotes /\ market.breaks \subseteq Id
         /\ collector.epoch \in Nat /\ collector.history \subseteq Quote
         /\ collector.last_slot \in Slot \cup {-1}
         /\ collector.pending \in [Slot -> Evaluation \cup {None}]
         /\ collector.completed \in [Slot -> SUBSET Horizons]
         /\ loop.pc \in {"down", "running", "sealing", "sealed", "archive"} /\ loop.paused \in BOOLEAN
         /\ dataset.evaluations \in [Slot -> Evaluation \cup {None}]
         /\ dataset.labels \in [Slot -> [Horizons -> Label \cup {None}]]
         /\ dataset.tape \in SUBSET Id /\ dataset.sealed \in BOOLEAN
         /\ dataset.analysis \in {"none", "blocked", "verified", "failed"}
         /\ faults \in 0..MaxFaults /\ now \in Time /\ stop \in BOOLEAN
         /\ source_batch \in SUBSET Id /\ writer_queue \in Seq(Item)
BY DEF Typed

\* The shapes imply the type invariant.
LEMMA TypedIsTypeOK == Typed => TypeOK
<1> SUFFICES ASSUME Typed PROVE TypeOK
  OBVIOUS
<1>1. \A s \in Slot : /\ collector.pending[s] \in Evaluation \cup {None}
                      /\ collector.completed[s] \subseteq Horizons
  BY Fields
<1>2. \A s \in Slot : /\ dataset.evaluations[s] \in Evaluation \cup {None}
                      /\ \A h \in Horizons : dataset.labels[s][h] \in Label \cup {None}
  BY Fields
<1>3. loop \in [pc : {"down", "running", "sealing", "sealed", "archive"}, paused : BOOLEAN]
  BY DEF Typed
<1> QED  BY Fields, <1>1, <1>2, <1>3 DEF TypeOK

\* Items are told apart by their kind.
LEMMA Kinds ==
  ASSUME NEW x \in Item
  PROVE  /\ x.kind = "rows" => x \in RowsItem
         /\ x.kind = "tape" => x \in TapeItem
         /\ x.kind = "quality" => x \in QualityItem
         /\ x.kind \in {"rows", "tape", "quality"}
BY DEF Item, RowsItem, TapeItem, QualityItem

\* Rows are for slots and horizons.
LEMMA RowsFit ==
  ASSUME NEW x \in RowsItem
  PROVE  /\ x.kind = "rows"
         /\ DOMAIN x.evaluations \subseteq Slot
         /\ \A s \in DOMAIN x.evaluations : x.evaluations[s] \in Evaluation
         /\ DOMAIN x.labels \subseteq Slot \X Horizons
         /\ \A y \in DOMAIN x.labels : x.labels[y] \in Label
BY DEF RowsItem

\* The queue is a sequence of items.
LEMMA Queue ==
  ASSUME Typed
  PROVE  /\ Len(writer_queue) \in Nat
         /\ \A i \in 1..Len(writer_queue) : writer_queue[i] \in Item
         /\ \A i \in QueuedRows : i \in 1..Len(writer_queue) /\ writer_queue[i] \in RowsItem
         /\ QueuedRows \subseteq 1..Len(writer_queue)
<1>1. writer_queue \in Seq(Item)
  BY DEF Typed
<1>2. Len(writer_queue) \in Nat /\ \A i \in 1..Len(writer_queue) : writer_queue[i] \in Item
  BY <1>1, LenProperties
<1> QED  BY <1>2, Kinds DEF QueuedRows

\* _at finds a quote of the history or none.
LEMMA QuoteAtFinds ==
  ASSUME Bounds, Typed, NEW t
  PROVE  QuoteAt(t) \in collector.history \cup {None}
<1> DEFINE known == {q \in collector.history : q.at <= t}
<1>1. CASE known = {}
  BY <1>1 DEF QuoteAt
<1>2. CASE known # {}
  <2> DEFINE ids == {q.id : q \in known}
  <2>1. \A q \in known : q.id \in Int /\ q.id <= MaxQuotes
    BY Fields DEF Quote, Id, Bounds
  <2>2. ids \subseteq Int /\ ids # {} /\ \A x \in ids : x <= MaxQuotes
    BY <1>2, <2>1
  <2>3. Max(ids) \in ids /\ \A x \in ids : x <= Max(ids)
    <3>1. MaxQuotes \in Int
      BY DEF Bounds
    <3> HIDE DEF ids
    <3> QED  BY ONLY <2>2, <3>1, GreatestElement
  <2>4. PICK q \in known : q.id = Max(ids)
    BY <2>3
  <2>5. \A r \in known : r.id <= q.id
    BY <2>3, <2>4
  <2>6. \E x \in known : \A r \in known : r.id <= x.id
    BY <2>5
  <2>7. QuoteAt(t) \in known
    BY <1>2, <2>6 DEF QuoteAt
  <2> QED  BY <2>7
<1> QED  BY <1>1, <1>2

\* What an iteration of the clock makes.
LEMMA NewRowsFit ==
  ASSUME Bounds, Typed
  PROVE  /\ Evaluated \subseteq Slot
         /\ NewEvaluation \in Evaluation
         /\ Pending \in [Slot -> Evaluation \cup {None}]
         /\ Resolved \subseteq Slot \X Horizons
         /\ \A x \in Resolved : NewLabel(Pending[x[1]], x[2]) \in Label
         /\ Rows \in RowsItem
<1>1. Evaluated \subseteq Slot
  <2>1. now \in Nat /\ End \in Nat /\ (now < End => now \div Every \in Slot)
    BY SlotOfNow, Scales
  <2>2. CASE loop.paused \/ now >= End
    BY <2>2 DEF Evaluated
  <2>3. CASE ~ (loop.paused \/ now >= End)
    BY <2>1, <2>3 DEF Evaluated
  <2> QED  BY <2>2, <2>3
<1>2. \A t : QuoteAt(t) \in Quote \cup {None}
  BY QuoteAtFinds, Fields
<1>3. NewEvaluation \in Evaluation
  <2>1. QuoteAt(now) \in Quote \cup {None} /\ now \in Time
    BY <1>2, Fields
  <2>2. Fresh(QuoteAt(now), now) \in BOOLEAN
    BY DEF Fresh
  <2> QED  BY <2>1, <2>2 DEF NewEvaluation, Evaluation
<1>4. Pending \in [Slot -> Evaluation \cup {None}]
  BY <1>3, Fields DEF Pending
<1>5. Resolved \subseteq Slot \X Horizons
  BY DEF Resolved
<1>6. ASSUME NEW x \in Resolved PROVE NewLabel(Pending[x[1]], x[2]) \in Label
  <2> DEFINE exit == QuoteAt(Pending[x[1]].at + x[2])
             c == /\ Pending[x[1]].fresh /\ Fresh(exit, Pending[x[1]].at + x[2])
                  /\ SameEpoch(Pending[x[1]].entry, exit)
  <2>1. exit \in Quote \cup {None}
    BY <1>2
  <2>2. c \in BOOLEAN
    OBVIOUS
  <2>3. NewLabel(Pending[x[1]], x[2]) = [complete |-> c, exit |-> exit]
    BY DEF NewLabel
  <2> HIDE DEF c, exit
  <2> QED  BY <2>1, <2>2, <2>3 DEF Label
<1>7. Rows \in RowsItem
  <2> DEFINE es == [s \in Evaluated |-> NewEvaluation]
             ls == [x \in Resolved |-> NewLabel(Pending[x[1]], x[2])]
  <2>1. es \in [Evaluated -> Evaluation]
    BY <1>3
  <2>2. ls \in [Resolved -> Label]
    BY <1>6
  <2>3. Rows = [kind |-> "rows", evaluations |-> es, labels |-> ls]
    BY DEF Rows
  <2> HIDE DEF es, ls
  <2>4. es \in UNION {[D -> Evaluation] : D \in SUBSET Slot}
    BY <1>1, <2>1
  <2>5. ls \in UNION {[D -> Label] : D \in SUBSET (Slot \X Horizons)}
    BY <1>5, <2>2
  <2> QED  BY <2>3, <2>4, <2>5 DEF RowsItem
<1> QED  BY <1>1, <1>3, <1>4, <1>5, <1>6, <1>7

-----------------------------------------------------------------------------
(* Rows, stored and on their way *)

\* They have their types.
LEMMA RowsTyped ==
  ASSUME Typed
  PROVE  /\ \A s, e : Row(s, e) => s \in Slot /\ e \in Evaluation
         /\ \A s \in Slot : \A h, l : Lab(s, h, l) => h \in Horizons /\ l \in Label
<1>1. ASSUME NEW s, NEW e, Row(s, e) PROVE s \in Slot /\ e \in Evaluation
  <2>1. CASE s \in Stored /\ e = dataset.evaluations[s]
    BY <2>1, Fields DEF Stored
  <2>2. ASSUME NEW i \in QueuedRows, s \in DOMAIN writer_queue[i].evaluations,
               e = writer_queue[i].evaluations[s]
        PROVE  s \in Slot /\ e \in Evaluation
    BY <2>2, Queue, RowsFit
  <2> QED  BY <1>1, <2>1, <2>2 DEF Row
<1>2. ASSUME NEW s \in Slot, NEW h, NEW l, Lab(s, h, l) PROVE h \in Horizons /\ l \in Label
  <2>1. CASE h \in Labelled(s) /\ l = dataset.labels[s][h]
    BY <2>1, Fields DEF Labelled
  <2>2. ASSUME NEW i \in QueuedRows, <<s, h>> \in DOMAIN writer_queue[i].labels,
               l = writer_queue[i].labels[<<s, h>>]
        PROVE  h \in Horizons /\ l \in Label
    BY <2>2, Queue, RowsFit
  <2> QED  BY <1>2, <2>1, <2>2 DEF Lab
<1> QED  BY <1>1, <1>2

\* A step that stores no row and queues none leaves them as they are.
LEMMA SameRows ==
  ASSUME Typed, Typed',
         dataset'.evaluations = dataset.evaluations, dataset'.labels = dataset.labels,
         \A i \in 1..Len(writer_queue) : i \in 1..Len(writer_queue') /\ writer_queue'[i] = writer_queue[i],
         \A i \in 1..Len(writer_queue') : i \notin 1..Len(writer_queue) => writer_queue'[i].kind # "rows"
  PROVE  /\ Stored' = Stored
         /\ \A s : Labelled(s)' = Labelled(s)
         /\ QueuedRows' = QueuedRows
         /\ \A i \in QueuedRows : writer_queue'[i] = writer_queue[i]
         /\ \A s, e : Row(s, e)' <=> Row(s, e)
         /\ \A s, h, l : Lab(s, h, l)' <=> Lab(s, h, l)
         /\ RowsAreMadeOnce => RowsAreMadeOnce'
         /\ FollowInv => FollowInv'
<1>1. Stored' = Stored
  BY DEF Stored
<1>2. \A s : Labelled(s)' = Labelled(s)
  BY DEF Labelled
<1>3. QueuedRows' = QueuedRows
  BY DEF QueuedRows
<1>4. \A i \in QueuedRows : writer_queue'[i] = writer_queue[i]
  BY DEF QueuedRows
<1>5. \A s, e : Row(s, e)' <=> Row(s, e)
  BY <1>1, <1>3, <1>4 DEF Row
<1>6. \A s, h, l : Lab(s, h, l)' <=> Lab(s, h, l)
  BY <1>2, <1>3, <1>4 DEF Lab
<1>7. RowsAreMadeOnce => RowsAreMadeOnce'
  BY <1>1, <1>2, <1>3, <1>4 DEF RowsAreMadeOnce
<1>8. FollowInv => FollowInv'
  BY <1>1, <1>2, <1>3, <1>4 DEF FollowInv
<1> QED  BY <1>1, <1>2, <1>3, <1>4, <1>5, <1>6, <1>7, <1>8

\* What the collector holds of the slots agrees with the rows, whatever time passes.
LEMMA SameProgress ==
  ASSUME Bounds, Typed, Typed', ProgressInv,
         \A s, e : Row(s, e)' <=> Row(s, e), \A s \in Slot : \A h, l : Lab(s, h, l)' <=> Lab(s, h, l),
         collector'.pending = collector.pending, collector'.completed = collector.completed,
         collector'.last_slot = collector.last_slot, now <= now',
         loop'.pc # "down" => loop.pc # "down"
  PROVE  ProgressInv'
<1>1. now \div Every \in Int /\ now' \div Every \in Int /\ now \div Every <= now' \div Every
  <2>1. now \in Nat /\ now' \in Nat /\ Every \in Nat \ {0}
    BY Scales DEF Typed, Time
  <2>2. now \div Every \in Nat /\ now' \div Every \in Nat
    BY <2>1, SlotsGrow
  <2>3. \A b \in Nat : now <= b => now \div Every <= b \div Every
    BY <2>1, SlotsGrow
  <2>4. now \div Every <= now' \div Every
    BY <2>1, <2>3
  <2> QED  BY <2>2, <2>4
<1>2. \A s : HasRow(s)' <=> HasRow(s)
  BY DEF HasRow
<1>3. \A s \in Slot : \A h : HasLab(s, h)' <=> HasLab(s, h)
  BY DEF HasLab
<1>4. \A s \in Slot : SlotInv(s)' <=> SlotInv(s)
  BY <1>2, <1>3 DEF SlotInv
<1>5. collector'.last_slot <= now' \div Every
  <2>1. collector.last_slot \in Int
    BY Fields DEF Slot
  <2> QED  BY <1>1, <2>1 DEF ProgressInv
<1>6. ASSUME NEW s \in Slot, HasRow(s)' PROVE s <= now' \div Every
  <2>1. s \in Int /\ s <= now \div Every
    BY <1>2, <1>6 DEF ProgressInv, Slot
  <2> QED  BY <1>1, <2>1
<1> QED  BY <1>2, <1>4, <1>5, <1>6 DEF ProgressInv

\* What was said of the quotes stays true of the rows that were there.
LEMMA OldRows ==
  ASSUME Typed, Typed', RowsInv,
         \A q \in Quote : Known(q) => Known(q)',
         \A b \in market'.breaks : b \in market.breaks \/ market.quotes < b
  PROVE  /\ \A s \in Slot : \A e : Row(s, e) => /\ e.entry # None => Known(e.entry)'
                                                /\ e.fresh => e.entry # None
         /\ \A s \in Slot, h \in Horizons : \A l : Lab(s, h, l) /\ l.exit # None => Known(l.exit)'
         /\ \A s \in Slot, h \in Horizons : \A e, l :
               Row(s, e) /\ Lab(s, h, l) /\ l.complete =>
                   e.entry # None /\ l.exit # None /\ Unbroken(e.entry, l.exit)'
<1>1. \A e \in Evaluation : e.entry # None => e.entry \in Quote
  BY DEF Evaluation
<1>2. \A l \in Label : l.exit # None => l.exit \in Quote
  BY DEF Label
<1>3. \A s \in Slot : \A e : Row(s, e) => /\ e.entry # None => Known(e.entry)'
                                          /\ e.fresh => e.entry # None
  BY <1>1, RowsTyped DEF RowsInv
<1>4. \A s \in Slot, h \in Horizons : \A l : Lab(s, h, l) /\ l.exit # None => Known(l.exit)'
  BY <1>2, RowsTyped DEF RowsInv
<1>5. ASSUME NEW s \in Slot, NEW h \in Horizons, NEW e, NEW l,
             Row(s, e), Lab(s, h, l), l.complete
      PROVE  e.entry # None /\ l.exit # None /\ Unbroken(e.entry, l.exit)'
  <2>1. e.entry # None /\ l.exit # None /\ Unbroken(e.entry, l.exit) /\ Known(l.exit)
    BY <1>5 DEF RowsInv
  <2>2. l.exit.id \in Int /\ market.quotes \in Int /\ l.exit.id <= market.quotes
    BY <1>2, <1>5, <2>1, RowsTyped, Fields DEF Quote, Id, Known
  <2>3. ASSUME NEW b \in market'.breaks PROVE ~ (e.entry.id < b /\ b <= l.exit.id)
    <3>1. CASE b \in market.breaks
      BY <2>1, <3>1 DEF Unbroken
    <3>2. CASE market.quotes < b
      <4>1. b \in Int
        BY DEF Typed, Id
      <4> QED  BY <2>2, <3>2, <4>1
    <3> QED  BY <3>1, <3>2
  <2> QED  BY <2>1, <2>3 DEF Unbroken
<1> QED  BY <1>3, <1>4, <1>5

-----------------------------------------------------------------------------
(* The queue *)

\* What is queued with the clock's steps.
\* The tape that is queued, if there is any.
LEMMA Flushes ==
  ASSUME Typed
  PROVE  /\ Flushed \in Seq(Item) /\ Len(Flushed) \in {0, 1}
         /\ source_batch = {} => Len(Flushed) = 0
         /\ source_batch # {} => Len(Flushed) = 1
         /\ \A i \in 1..Len(Flushed) : Flushed[i] = Tape(source_batch)
<1>1. Tape(source_batch) \in Item
  BY DEF Typed, Tape, TapeItem, Item
<1>2. CASE source_batch = {}
  BY <1>2 DEF Flushed
<1>3. CASE source_batch # {}
  <2>1. Flushed = <<Tape(source_batch)>>
    BY <1>3 DEF Flushed
  <2> HIDE DEF Tape
  <2> QED  BY <1>1, <1>3, <2>1
<1> QED  BY <1>2, <1>3

\* The items that end the collection.
LEMMA Qualities ==
  /\ Quality(TRUE) \in Seq(Item) /\ Len(Quality(TRUE)) = 1
  /\ Quality(TRUE)[1] = [kind |-> "quality", sealed |-> TRUE]
  /\ Quality(FALSE) \in Seq(Item) /\ Len(Quality(FALSE)) = 1
  /\ Quality(FALSE)[1] = [kind |-> "quality", sealed |-> FALSE]
<1>1. /\ [kind |-> "quality", sealed |-> TRUE] \in Item
      /\ [kind |-> "quality", sealed |-> FALSE] \in Item
  BY DEF QualityItem, Item
<1> QED  BY <1>1 DEF Quality

\* The tape is queued behind what is there.
LEMMA TapeFollows ==
  ASSUME Typed, NEW q \in Seq(Item), NEW r, r = q \o Flushed
  PROVE  /\ r \in Seq(Item) /\ Len(r) \in Nat /\ Len(q) \in Nat /\ Len(q) <= Len(r)
         /\ \A i \in 1..Len(q) : r[i] = q[i]
         /\ \A i \in 1..Len(r) : i \notin 1..Len(q) => r[i] = Tape(source_batch)
         /\ source_batch # {} => \E i \in 1..Len(r) : r[i] = Tape(source_batch)
<1>1. /\ r \in Seq(Item) /\ Len(r) = Len(q) + Len(Flushed)
      /\ \A i \in 1..Len(q) + Len(Flushed) :
            r[i] = IF i <= Len(q) THEN q[i] ELSE Flushed[i - Len(q)]
  BY Flushes, ConcatProperties
<1>2. Len(q) \in Nat /\ Len(Flushed) \in {0, 1}
  BY Flushes, LenProperties
<1>3. Len(r) \in Nat /\ Len(q) <= Len(r) /\ \A i \in 1..Len(q) : r[i] = q[i]
  BY <1>1, <1>2
<1>4. ASSUME NEW i \in 1..Len(r), i \notin 1..Len(q) PROVE r[i] = Tape(source_batch)
  <2>1. i - Len(q) \in 1..Len(Flushed) /\ r[i] = Flushed[i - Len(q)]
    BY <1>1, <1>2, <1>4
  <2> QED  BY <2>1, Flushes
<1>5. ASSUME source_batch # {} PROVE \E i \in 1..Len(r) : r[i] = Tape(source_batch)
  <2>1. Len(Flushed) = 1
    BY <1>5, Flushes
  <2>2. Len(q) + 1 \in 1..Len(r) /\ Len(q) + 1 \notin 1..Len(q)
    BY <1>1, <1>2, <2>1
  <2> QED  BY <1>4, <2>2
<1> QED  BY <1>1, <1>2, <1>3, <1>4, <1>5

\* The reason why the collection ends comes behind the tape.
LEMMA QualityFollows ==
  ASSUME Typed, NEW q \in Seq(Item), NEW u \in Seq(Item), Len(u) = 1
  PROVE  LET r == q \o Flushed \o u
         IN /\ r \in Seq(Item) /\ Len(r) \in Nat /\ Len(q) \in Nat /\ Len(q) < Len(r)
            /\ \A i \in 1..Len(q) : r[i] = q[i]
            /\ \A i \in 1..Len(r) : i \notin 1..Len(q) /\ i # Len(r) => r[i] = Tape(source_batch)
            /\ r[Len(r)] = u[1]
            /\ source_batch # {} => \E i \in 1..Len(r) : r[i] = Tape(source_batch)
<1> DEFINE t == q \o Flushed
           r == q \o Flushed \o u
<1>1. /\ t \in Seq(Item) /\ Len(t) \in Nat /\ Len(q) \in Nat /\ Len(q) <= Len(t)
      /\ \A i \in 1..Len(q) : t[i] = q[i]
      /\ \A i \in 1..Len(t) : i \notin 1..Len(q) => t[i] = Tape(source_batch)
      /\ source_batch # {} => \E i \in 1..Len(t) : t[i] = Tape(source_batch)
  BY TapeFollows
<1>2. r = t \o u
  OBVIOUS
<1> HIDE DEF t, r
<1>3. /\ r \in Seq(Item) /\ Len(r) = Len(t) + Len(u)
      /\ \A i \in 1..Len(t) + Len(u) : r[i] = IF i <= Len(t) THEN t[i] ELSE u[i - Len(t)]
  <2>1. t \in Seq(Item) /\ u \in Seq(Item)
    BY <1>1
  <2> QED  BY ONLY <1>2, <2>1, ConcatProperties
<1>4. Len(r) = Len(t) + 1 /\ \A i \in 1..Len(t) : i \in 1..Len(r) /\ r[i] = t[i]
  BY <1>1, <1>3
<1>5. r[Len(r)] = u[1]
  <2>1. Len(t) + 1 \in 1..Len(t) + Len(u) /\ ~ (Len(t) + 1 <= Len(t))
        /\ Len(t) + 1 - Len(t) = 1
    BY <1>1
  <2>2. r[Len(t) + 1] = u[1]
    BY <1>3, <2>1
  <2> QED  BY <1>4, <2>2
<1>6. ASSUME NEW i \in 1..Len(r), i \notin 1..Len(q), i # Len(r) PROVE r[i] = Tape(source_batch)
  <2>1. i \in 1..Len(t)
    BY <1>1, <1>4, <1>6
  <2> QED  BY <1>1, <1>4, <1>6, <2>1
<1>7. \A i \in 1..Len(q) : r[i] = q[i]
  <2>1. \A i \in 1..Len(q) : i \in 1..Len(t)
    BY <1>1
  <2> QED  BY <1>1, <1>4, <2>1
<1>8. Len(q) < Len(r) /\ Len(r) \in Nat
  BY <1>1, <1>4
<1>9. source_batch # {} => \E i \in 1..Len(r) : r[i] = Tape(source_batch)
  BY <1>1, <1>4
<1> QED  BY <1>1, <1>3, <1>5, <1>6, <1>7, <1>8, <1>9 DEF r

\* What an iteration of the clock queues: its rows, then the tape, then the seal.
LEMMA WorkQueues ==
  ASSUME Bounds, Typed, Work
  PROVE  LET q == writer_queue
             r == writer_queue'
         IN /\ r \in Seq(Item) /\ Len(r) \in Nat /\ Len(q) \in Nat
            /\ \A i \in 1..Len(q) : i \in 1..Len(r) /\ r[i] = q[i]
            /\ Evaluated # {} \/ Resolved # {} => Len(q) + 1 \in 1..Len(r) /\ r[Len(q) + 1] = Rows
            /\ \A i \in 1..Len(r) : i \notin 1..Len(q) =>
                  \/ i = Len(q) + 1 /\ r[i] = Rows
                  \/ r[i] = Tape(source_batch)
                  \/ /\ r[i] = [kind |-> "quality", sealed |-> TRUE] /\ i = Len(r)
                     /\ loop'.pc = "sealing" /\ source_batch' = {} /\ StillPending = {}
            /\ \/ source_batch' = source_batch
               \/ source_batch' = {} /\ (source_batch = {} \/ \E i \in 1..Len(r) : r[i] = Tape(source_batch))
            /\ \/ loop' = loop
               \/ /\ loop' = [loop EXCEPT !.pc = "sealing"]
                  /\ source_batch' = {} /\ StillPending = {}
<1> DEFINE q == writer_queue
           p == IF Evaluated = {} /\ Resolved = {} THEN q ELSE Append(q, Rows)
           r == writer_queue'
           Finishes == ~loop.paused /\ now >= ProtocolEnd /\ StillPending = {}
<1>1. q \in Seq(Item) /\ Rows \in Item /\ Len(q) \in Nat
  BY Queue, NewRowsFit DEF Typed, Item
<1>2. /\ p \in Seq(Item) /\ Len(p) \in Nat
      /\ \A i \in 1..Len(q) : i \in 1..Len(p) /\ p[i] = q[i]
      /\ Evaluated # {} \/ Resolved # {} => Len(q) + 1 \in 1..Len(p) /\ p[Len(q) + 1] = Rows
      /\ \A i \in 1..Len(p) : i \notin 1..Len(q) => i = Len(q) + 1 /\ p[i] = Rows
  <2>1. CASE Evaluated = {} /\ Resolved = {}
    <3>1. p = q
      BY <2>1
    <3> HIDE DEF p, q
    <3> QED  BY <1>1, <2>1, <3>1
  <2>2. CASE ~ (Evaluated = {} /\ Resolved = {})
    <3>1. p = Append(q, Rows)
      BY <2>2
    <3> HIDE DEF p, q
    <3>2. /\ p \in Seq(Item) /\ Len(p) = Len(q) + 1 /\ p[Len(q) + 1] = Rows
          /\ \A i \in 1..Len(q) : p[i] = q[i]
      BY <1>1, <3>1, AppendProperties
    <3> QED  BY <1>1, <3>2
  <2> QED  BY <2>1, <2>2
<1>3. CASE Finishes
  <2>1. r = p \o Flushed \o Quality(TRUE) /\ source_batch' = {} /\ loop' = [loop EXCEPT !.pc = "sealing"]
        /\ StillPending = {}
    BY <1>3 DEF Work
  <2>2. loop'.pc = "sealing"
    BY <2>1 DEF Typed
  <2> HIDE DEF r, p, q
  <2>3. /\ r \in Seq(Item) /\ Len(r) \in Nat /\ Len(p) \in Nat /\ Len(p) < Len(r)
        /\ \A i \in 1..Len(p) : r[i] = p[i]
        /\ \A i \in 1..Len(r) : i \notin 1..Len(p) /\ i # Len(r) => r[i] = Tape(source_batch)
        /\ r[Len(r)] = [kind |-> "quality", sealed |-> TRUE]
        /\ source_batch # {} => \E i \in 1..Len(r) : r[i] = Tape(source_batch)
    <3> DEFINE u == Quality(TRUE)
    <3>1. u \in Seq(Item) /\ Len(u) = 1 /\ u[1] = [kind |-> "quality", sealed |-> TRUE]
      BY Qualities
    <3>2. r = p \o Flushed \o u
      BY <2>1
    <3>3. p \in Seq(Item)
      BY <1>2
    <3> HIDE DEF u
    <3> QED  BY <3>1, <3>2, <3>3, QualityFollows
  <2>4. \A i \in 1..Len(p) : i \in 1..Len(r) /\ r[i] = p[i]
    BY <2>3
  <2>5. \A i \in 1..Len(q) : i \in 1..Len(r) /\ r[i] = q[i]
    BY <1>2, <2>4
  <2>6. Evaluated # {} \/ Resolved # {} => Len(q) + 1 \in 1..Len(r) /\ r[Len(q) + 1] = Rows
    BY <1>2, <2>4
  <2>7. ASSUME NEW i \in 1..Len(r), i \notin 1..Len(q)
        PROVE  \/ i = Len(q) + 1 /\ r[i] = Rows
               \/ r[i] = Tape(source_batch)
               \/ r[i] = [kind |-> "quality", sealed |-> TRUE] /\ i = Len(r)
    BY <1>2, <2>3, <2>4, <2>7
  <2> QED  BY <1>1, <2>1, <2>2, <2>3, <2>5, <2>6, <2>7 DEF r, q
<1>4. CASE ~ Finishes
  <2>1. /\ loop' = loop
        /\ \/ r = p \o Flushed /\ source_batch' = {}
           \/ r = p /\ source_batch' = source_batch
    BY <1>4 DEF Work
  <2> HIDE DEF r, p, q
  <2>2. /\ r \in Seq(Item) /\ Len(r) \in Nat
        /\ \A i \in 1..Len(p) : i \in 1..Len(r) /\ r[i] = p[i]
        /\ \A i \in 1..Len(r) : i \notin 1..Len(p) => r[i] = Tape(source_batch)
        /\ \/ source_batch' = source_batch
           \/ source_batch' = {} /\ (source_batch = {} \/ \E i \in 1..Len(r) : r[i] = Tape(source_batch))
    <3>1. CASE r = p \o Flushed /\ source_batch' = {}
      <4>1. /\ r \in Seq(Item) /\ Len(r) \in Nat /\ Len(p) \in Nat /\ Len(p) <= Len(r)
            /\ \A i \in 1..Len(p) : r[i] = p[i]
            /\ \A i \in 1..Len(r) : i \notin 1..Len(p) => r[i] = Tape(source_batch)
            /\ source_batch # {} => \E i \in 1..Len(r) : r[i] = Tape(source_batch)
        BY <1>2, <3>1, TapeFollows
      <4>2. \A i \in 1..Len(p) : i \in 1..Len(r)
        BY <4>1
      <4> QED  BY <3>1, <4>1, <4>2
    <3>2. CASE r = p /\ source_batch' = source_batch
      BY <1>2, <3>2
    <3> QED  BY <2>1, <3>1, <3>2
  <2>3. \A i \in 1..Len(q) : i \in 1..Len(r) /\ r[i] = q[i]
    BY <1>2, <2>2
  <2>4. Evaluated # {} \/ Resolved # {} => Len(q) + 1 \in 1..Len(r) /\ r[Len(q) + 1] = Rows
    BY <1>2, <2>2
  <2>5. ASSUME NEW i \in 1..Len(r), i \notin 1..Len(q)
        PROVE  (i = Len(q) + 1 /\ r[i] = Rows) \/ r[i] = Tape(source_batch)
    BY <1>2, <2>2, <2>5
  <2> QED  BY <1>1, <2>1, <2>2, <2>3, <2>4, <2>5 DEF r, q
<1> QED  BY <1>3, <1>4

-----------------------------------------------------------------------------
(* Types *)

\* At the start every variable has its shape.
LEMMA TypedInit ==
  ASSUME Bounds, Init
  PROVE  Typed
<1>1. now \in Time /\ faults \in 0..MaxFaults
  <2>1. 0 \in Time
    BY Scales DEF Time
  <2>2. 0 \in 0..MaxFaults
    BY DEF Bounds
  <2> QED  BY <2>1, <2>2 DEF Init
<1>2. writer_queue \in Seq(Item)
  BY EmptySeq DEF Init
<1>3. market \in [quotes : 0..MaxQuotes, breaks : SUBSET Id]
  BY DEF Init, Bounds
<1>4. collector \in [epoch : Nat, history : SUBSET Quote, last_slot : Slot \cup {-1},
                     pending : [Slot -> Evaluation \cup {None}], completed : [Slot -> SUBSET Horizons]]
  BY DEF Init, NewCollector, NoRows
<1>5. dataset \in [evaluations : [Slot -> Evaluation \cup {None}],
                   labels : [Slot -> [Horizons -> Label \cup {None}]], tape : SUBSET Id,
                   sealed : BOOLEAN, analysis : {"none", "blocked", "verified", "failed"}]
  BY DEF Init, NoRows, Unlabelled
<1> QED  BY <1>1, <1>2, <1>3, <1>4, <1>5 DEF Init, Typed

\* The last slot with an evaluation.
LEMMA LastSlotFits ==
  ASSUME Bounds, Typed
  PROVE  /\ LastSlot \in Stored \cup {-1}
         /\ \A s \in Stored : s <= LastSlot
<1> DEFINE T == {-1} \cup Stored
<1>1. \A x \in T : x \in Int /\ x <= End \div Every
  BY Scales DEF Stored, Slot
<1>2. End \div Every \in Int
  BY Scales
<1>3. T \subseteq Int /\ T # {} /\ End \div Every \in Int /\ \A x \in T : x <= End \div Every
  BY <1>1, <1>2
<1>4. LastSlot = Max(T)
  BY DEF LastSlot
<1> HIDE DEF T
<1>5. Max(T) \in T /\ \A y \in T : y <= Max(T)
  BY ONLY <1>3, GreatestElement
<1> QED  BY <1>4, <1>5 DEF T

\* What a start reads back.
LEMMA Recovered ==
  ASSUME Bounds, Typed, Start
  PROVE  /\ collector'.epoch = 0 /\ collector'.history = {} /\ collector'.last_slot = LastSlot
         /\ collector'.pending = [s \in Slot |-> IF s \in Unfinished THEN dataset.evaluations[s] ELSE None]
         /\ collector'.completed = [s \in Slot |-> IF s \in Unfinished THEN Labelled(s) ELSE {}]
         /\ Typed'
<1>1. collector' = [epoch |-> 0, history |-> {}, last_slot |-> LastSlot,
                    pending |-> [s \in Slot |-> IF s \in Unfinished THEN dataset.evaluations[s] ELSE None],
                    completed |-> [s \in Slot |-> IF s \in Unfinished THEN Labelled(s) ELSE {}]]
  BY DEF Start, NewCollector
<1>2. [s \in Slot |-> IF s \in Unfinished THEN dataset.evaluations[s] ELSE None]
         \in [Slot -> Evaluation \cup {None}]
  BY Fields
<1>3. [s \in Slot |-> IF s \in Unfinished THEN Labelled(s) ELSE {}] \in [Slot -> SUBSET Horizons]
  BY DEF Labelled
<1>4. LastSlot \in Slot \cup {-1}
  BY LastSlotFits DEF Stored
<1>5. collector' \in [epoch : Nat, history : SUBSET Quote, last_slot : Slot \cup {-1},
                     pending : [Slot -> Evaluation \cup {None}], completed : [Slot -> SUBSET Horizons]]
  BY <1>1, <1>2, <1>3, <1>4
<1>6. loop' \in [pc : {"down", "running", "sealing", "sealed", "archive"}, paused : BOOLEAN]
  BY DEF Start, Typed
<1>7. Typed'
  BY <1>5, <1>6 DEF Start, Typed
<1> QED  BY <1>1, <1>7

\* What Receive does with a quote.
Reception(broken, id, epoch, quote) ==
    /\ loop.pc = "running" /\ loop' = loop /\ now' = now
    /\ dataset' = dataset /\ stop' = stop /\ faults' = faults
    /\ id = market.quotes + 1 /\ market'.quotes = id
    /\ epoch = IF broken THEN collector.epoch + 1 ELSE collector.epoch
    /\ quote = [id |-> id, at |-> now, epoch |-> <<faults, epoch>>]
    /\ market'.breaks = IF broken THEN market.breaks \cup {id} ELSE market.breaks
    /\ collector.history = {} => broken
    /\ collector' = [collector EXCEPT !.epoch = epoch, !.history = @ \cup {quote}]
    /\ \/ /\ source_batch' = {}
          /\ writer_queue' = Append(writer_queue, Tape(source_batch \cup {id}))
       \/ source_batch' = source_batch \cup {id} /\ writer_queue' = writer_queue

\* A quote received.
LEMMA Received ==
  ASSUME Bounds, Typed, Receive
  PROVE  \E broken \in BOOLEAN, id \in Id, epoch \in Nat, quote \in Quote :
            Reception(broken, id, epoch, quote)
<1>1. PICK broken \in BOOLEAN :
          LET id == market.quotes + 1
              epoch == IF broken THEN collector.epoch + 1 ELSE collector.epoch
              batch == source_batch \cup {id}
          IN /\ collector.history = {} => broken
             /\ broken /\ collector.history # {} => Cardinality(market.breaks) < MaxBreaks
             /\ market' = [quotes |-> id,
                           breaks |-> IF broken THEN market.breaks \cup {id} ELSE market.breaks]
             /\ collector' = [collector EXCEPT
                    !.epoch = epoch,
                    !.history = @ \cup {[id |-> id, at |-> now, epoch |-> <<faults, epoch>>]}]
             /\ IF Cardinality(batch) >= BatchSize
                THEN source_batch' = {} /\ writer_queue' = Append(writer_queue, Tape(batch))
                ELSE source_batch' = batch /\ UNCHANGED writer_queue
  BY DEF Receive
<1> DEFINE id == market.quotes + 1
           epoch == IF broken THEN collector.epoch + 1 ELSE collector.epoch
           quote == [id |-> id, at |-> now, epoch |-> <<faults, epoch>>]
<1>2. id \in Id
  BY Fields DEF Receive, Id, Bounds
<1>3. epoch \in Nat
  BY Fields
<1>4. quote \in Quote
  <2>1. now \in Time /\ <<faults, epoch>> \in (0..MaxFaults) \X Nat
    BY <1>3, Fields
  <2> HIDE DEF epoch, id
  <2> QED  BY <1>2, <2>1 DEF Quote
<1>5. /\ loop.pc = "running" /\ loop' = loop /\ now' = now
      /\ dataset' = dataset /\ stop' = stop /\ faults' = faults
  BY DEF Receive
<1>6. /\ market'.quotes = id
      /\ market'.breaks = IF broken THEN market.breaks \cup {id} ELSE market.breaks
      /\ collector' = [collector EXCEPT !.epoch = epoch, !.history = @ \cup {quote}]
      /\ \/ /\ source_batch' = {}
            /\ writer_queue' = Append(writer_queue, Tape(source_batch \cup {id}))
         \/ source_batch' = source_batch \cup {id} /\ writer_queue' = writer_queue
  BY <1>1
<1>7. /\ id = market.quotes + 1
      /\ epoch = IF broken THEN collector.epoch + 1 ELSE collector.epoch
      /\ quote = [id |-> id, at |-> now, epoch |-> <<faults, epoch>>]
      /\ collector.history = {} => broken
  BY <1>1
<1> HIDE DEF id, epoch, quote
<1>8. Reception(broken, id, epoch, quote)
  BY ONLY <1>5, <1>6, <1>7 DEF Reception
<1> QED  BY <1>2, <1>3, <1>4, <1>8

\* A write takes the first item of the queue.
LEMMA Writes ==
  ASSUME Bounds, Typed, Write
  PROVE  /\ Len(writer_queue) \in Nat \ {0} /\ writer_queue[1] \in Item
         /\ writer_queue' \in Seq(Item) /\ Len(writer_queue') = Len(writer_queue) - 1
         /\ \A i \in 1..Len(writer_queue') : writer_queue'[i] = writer_queue[i + 1]
         /\ dataset' = Written(writer_queue[1])
<1>1. writer_queue \in Seq(Item) /\ writer_queue # <<>>
  BY DEF Write, Typed
<1>2. /\ Head(writer_queue) = writer_queue[1] /\ dataset' = Written(Head(writer_queue))
      /\ writer_queue' = Tail(writer_queue)
  BY <1>1 DEF Write
<1>3. Len(writer_queue) \in Nat \ {0}
  BY <1>1, EmptySeq
<1>4. writer_queue[1] \in Item
  BY <1>1, <1>3, ElementOfSeq
<1>5. /\ Tail(writer_queue) \in Seq(Item) /\ Len(Tail(writer_queue)) = Len(writer_queue) - 1
      /\ \A i \in 1..Len(Tail(writer_queue)) : Tail(writer_queue)[i] = writer_queue[i + 1]
  BY <1>1, HeadTailProperties
<1> QED  BY <1>2, <1>3, <1>4, <1>5

\* What the item is decides what it changes.
LEMMA WriteChanges ==
  ASSUME Bounds, Typed, NEW x \in Item
  PROVE  LET d == Written(x)
         IN /\ x.kind = "rows" =>
                 /\ d.evaluations = [s \in Slot |-> IF s \in DOMAIN x.evaluations
                                        THEN Once(dataset.evaluations[s], x.evaluations[s])
                                        ELSE dataset.evaluations[s]]
                 /\ d.labels = [s \in Slot |-> [h \in Horizons |->
                                  IF <<s, h>> \in DOMAIN x.labels
                                  THEN Once(dataset.labels[s][h], x.labels[<<s, h>>])
                                  ELSE dataset.labels[s][h]]]
                 /\ d.tape = dataset.tape /\ d.sealed = dataset.sealed
            /\ x.kind = "tape" =>
                 /\ d.evaluations = dataset.evaluations /\ d.labels = dataset.labels
                 /\ d.tape = dataset.tape \cup x.ids /\ d.sealed = dataset.sealed
            /\ x.kind = "quality" =>
                 /\ d.evaluations = dataset.evaluations /\ d.labels = dataset.labels
                 /\ d.tape = dataset.tape /\ d.sealed = x.sealed
            /\ d \in [evaluations : [Slot -> Evaluation \cup {None}],
                      labels : [Slot -> [Horizons -> Label \cup {None}]], tape : SUBSET Id,
                      sealed : BOOLEAN, analysis : {"none", "blocked", "verified", "failed"}]
<1> DEFINE D == [evaluations : [Slot -> Evaluation \cup {None}],
                 labels : [Slot -> [Horizons -> Label \cup {None}]], tape : SUBSET Id,
                 sealed : BOOLEAN, analysis : {"none", "blocked", "verified", "failed"}]
           d == Written(x)
<1>1. dataset \in D
  BY DEF Typed
<1>2. ASSUME x.kind = "rows"
      PROVE  /\ d.evaluations = [s \in Slot |-> IF s \in DOMAIN x.evaluations
                                    THEN Once(dataset.evaluations[s], x.evaluations[s])
                                    ELSE dataset.evaluations[s]]
             /\ d.labels = [s \in Slot |-> [h \in Horizons |->
                              IF <<s, h>> \in DOMAIN x.labels
                              THEN Once(dataset.labels[s][h], x.labels[<<s, h>>])
                              ELSE dataset.labels[s][h]]]
             /\ d.tape = dataset.tape /\ d.sealed = dataset.sealed
             /\ d \in D
  <2> DEFINE es == [s \in Slot |-> IF s \in DOMAIN x.evaluations
                                   THEN Once(dataset.evaluations[s], x.evaluations[s])
                                   ELSE dataset.evaluations[s]]
             ls == [s \in Slot |-> [h \in Horizons |->
                      IF <<s, h>> \in DOMAIN x.labels
                      THEN Once(dataset.labels[s][h], x.labels[<<s, h>>])
                      ELSE dataset.labels[s][h]]]
  <2>1. d = [dataset EXCEPT !.evaluations = es, !.labels = ls]
    BY <1>2 DEF Written
  <2>2. x \in RowsItem
    BY <1>2, Kinds
  <2>3. es \in [Slot -> Evaluation \cup {None}]
    BY <2>2, RowsFit, Fields DEF Once
  <2>4. ls \in [Slot -> [Horizons -> Label \cup {None}]]
    <3>1. \A s \in Slot, h \in Horizons : dataset.labels[s][h] \in Label \cup {None}
      BY Fields
    <3>2. \A y \in DOMAIN x.labels : x.labels[y] \in Label
      BY <2>2, RowsFit
    <3>3. \A s \in Slot, h \in Horizons :
             (IF <<s, h>> \in DOMAIN x.labels
              THEN Once(dataset.labels[s][h], x.labels[<<s, h>>])
              ELSE dataset.labels[s][h]) \in Label \cup {None}
      BY <3>1, <3>2 DEF Once
    <3> QED  BY <3>3
  <2> HIDE DEF es, ls, d
  <2> QED  BY <1>1, <2>1, <2>3, <2>4 DEF es, ls
<1>3. ASSUME x.kind = "tape"
      PROVE  /\ d.evaluations = dataset.evaluations /\ d.labels = dataset.labels
             /\ d.tape = dataset.tape \cup x.ids /\ d.sealed = dataset.sealed
             /\ d \in D
  <2>1. d = [dataset EXCEPT !.tape = @ \cup x.ids]
    BY <1>3 DEF Written
  <2>2. x.ids \in SUBSET Id
    BY <1>3, Kinds DEF TapeItem
  <2> HIDE DEF d
  <2> QED  BY <1>1, <2>1, <2>2
<1>4. ASSUME x.kind = "quality"
      PROVE  /\ d.evaluations = dataset.evaluations /\ d.labels = dataset.labels
             /\ d.tape = dataset.tape /\ d.sealed = x.sealed
             /\ d \in D
  <2>1. d = [dataset EXCEPT !.sealed = x.sealed]
    BY <1>4 DEF Written
  <2>2. x.sealed \in BOOLEAN
    BY <1>4, Kinds DEF QualityItem
  <2> HIDE DEF d
  <2> QED  BY <1>1, <2>1, <2>2
<1>5. x.kind \in {"rows", "tape", "quality"}
  BY Kinds
<1> QED  BY <1>2, <1>3, <1>4, <1>5

\* What the clock keeps of an iteration.
LEMMA Worked ==
  ASSUME Bounds, Typed, Work
  PROVE  /\ collector'.epoch = collector.epoch /\ collector'.history = collector.history
         /\ collector'.last_slot = Max({collector.last_slot} \cup Evaluated)
         /\ collector'.pending = [s \in Slot |-> IF s \in StillPending THEN Pending[s] ELSE None]
         /\ collector'.completed = [s \in Slot |-> IF s \in StillPending THEN Completed(s) ELSE {}]
         /\ loop.pc = "running" /\ now' = now /\ market' = market /\ dataset' = dataset
         /\ stop' = stop /\ faults' = faults
         /\ collector'.last_slot \in {collector.last_slot} \cup Evaluated
         /\ \A s \in {collector.last_slot} \cup Evaluated : s <= collector'.last_slot
         /\ collector' \in [epoch : Nat, history : SUBSET Quote, last_slot : Slot \cup {-1},
                            pending : [Slot -> Evaluation \cup {None}], completed : [Slot -> SUBSET Horizons]]
<1> DEFINE T == {collector.last_slot} \cup Evaluated
           p == [s \in Slot |-> IF s \in StillPending THEN Pending[s] ELSE None]
           c == [s \in Slot |-> IF s \in StillPending THEN Completed(s) ELSE {}]
<1>1. \A x \in T : x \in Int /\ x <= End \div Every
  BY NewRowsFit, Fields, Scales DEF Slot
<1>2. T \subseteq Int /\ T # {} /\ End \div Every \in Int
  BY <1>1, Scales
<1>3. Max(T) \in T /\ \A y \in T : y <= Max(T)
  <2> HIDE DEF T
  <2> QED  BY ONLY <1>1, <1>2, GreatestElement
<1>4. collector' = [collector EXCEPT !.pending = p, !.completed = c, !.last_slot = Max({@} \cup Evaluated)]
  BY DEF Work
<1>5. p \in [Slot -> Evaluation \cup {None}]
  BY NewRowsFit
<1>6. c \in [Slot -> SUBSET Horizons]
  BY Fields DEF Completed
<1>7. Max(T) \in Slot \cup {-1}
  BY <1>3, NewRowsFit, Fields
<1>8. collector \in [epoch : Nat, history : SUBSET Quote, last_slot : Slot \cup {-1},
                     pending : [Slot -> Evaluation \cup {None}], completed : [Slot -> SUBSET Horizons]]
  BY DEF Typed
<1>9. /\ loop.pc = "running" /\ now' = now /\ market' = market /\ dataset' = dataset
      /\ stop' = stop /\ faults' = faults
  BY DEF Work
<1>10. collector'.last_slot = Max(T) /\ collector'.pending = p /\ collector'.completed = c
       /\ collector'.epoch = collector.epoch /\ collector'.history = collector.history
  <2> HIDE DEF p, c
  <2> QED  BY <1>4, <1>8
<1>11. collector' \in [epoch : Nat, history : SUBSET Quote, last_slot : Slot \cup {-1},
                     pending : [Slot -> Evaluation \cup {None}], completed : [Slot -> SUBSET Horizons]]
  <2> HIDE DEF p, c
  <2> QED  BY <1>4, <1>5, <1>6, <1>7, <1>8
<1>12. /\ collector'.last_slot \in T
       /\ \A s \in T : s <= collector'.last_slot
  <2> HIDE DEF T
  <2> QED  BY ONLY <1>3, <1>10
<1> HIDE DEF Max
<1> QED  BY ONLY <1>9, <1>10, <1>11, <1>12

\* A pause queues the rest of the tape and its reason.
LEMMA Paused ==
  ASSUME Bounds, Typed, Pause
  PROVE  LET q == writer_queue
             r == writer_queue'
         IN /\ r \in Seq(Item) /\ Len(r) \in Nat /\ Len(q) \in Nat
            /\ \A i \in 1..Len(q) : i \in 1..Len(r) /\ r[i] = q[i]
            /\ \A i \in 1..Len(r) : i \notin 1..Len(q) =>
                  \/ r[i] = Tape(source_batch) /\ source_batch # {}
                  \/ r[i] = [kind |-> "quality", sealed |-> FALSE]
            /\ source_batch # {} => \E i \in 1..Len(r) : r[i] = Tape(source_batch)
            /\ source_batch' = {} /\ loop'.pc = loop.pc /\ loop.pc \in {"running", "sealed"}
            /\ loop' \in [pc : {"down", "running", "sealing", "sealed", "archive"}, paused : BOOLEAN]
            /\ UNCHANGED <<now, market, collector, dataset, stop, faults>>
<1> DEFINE q == writer_queue
           r == writer_queue'
           u == Quality(FALSE)
<1>1. q \in Seq(Item)
  BY DEF Typed
<1>2. u \in Seq(Item) /\ Len(u) = 1 /\ u[1] = [kind |-> "quality", sealed |-> FALSE]
  BY Qualities
<1>3. r = q \o Flushed \o u
  BY DEF Pause
<1>4. /\ loop'.pc = loop.pc /\ loop.pc \in {"running", "sealed"} /\ source_batch' = {}
      /\ loop' \in [pc : {"down", "running", "sealing", "sealed", "archive"}, paused : BOOLEAN]
      /\ UNCHANGED <<now, market, collector, dataset, stop, faults>>
  BY DEF Pause, Typed
<1>5. ASSUME source_batch = {} PROVE q \o Flushed = q
  <2>1. Flushed = <<>>
    BY <1>5 DEF Flushed
  <2> QED  BY <1>1, <2>1, ConcatEmptySeq
<1> HIDE DEF u, q, r
<1>6. /\ r \in Seq(Item) /\ Len(r) \in Nat /\ Len(q) \in Nat /\ Len(q) < Len(r)
      /\ \A i \in 1..Len(q) : r[i] = q[i]
      /\ \A i \in 1..Len(r) : i \notin 1..Len(q) /\ i # Len(r) => r[i] = Tape(source_batch)
      /\ r[Len(r)] = [kind |-> "quality", sealed |-> FALSE]
      /\ source_batch # {} => \E i \in 1..Len(r) : r[i] = Tape(source_batch)
  BY <1>1, <1>2, <1>3, QualityFollows
<1>7. ASSUME source_batch = {}, NEW i \in 1..Len(r), i \notin 1..Len(q)
      PROVE  r[i] = [kind |-> "quality", sealed |-> FALSE]
  <2>1. r = q \o u
    BY <1>3, <1>5, <1>7
  <2>2. Len(r) = Len(q) + Len(u)
    BY ONLY <1>1, <1>2, <2>1, ConcatProperties
  <2>3. i = Len(r)
    BY <1>2, <1>6, <1>7, <2>2
  <2> QED  BY <1>6, <2>3
<1>8. \A i \in 1..Len(q) : i \in 1..Len(r) /\ r[i] = q[i]
  BY <1>6
<1>9. ASSUME NEW i \in 1..Len(r), i \notin 1..Len(q)
      PROVE  \/ r[i] = Tape(source_batch) /\ source_batch # {}
             \/ r[i] = [kind |-> "quality", sealed |-> FALSE]
  BY <1>6, <1>7, <1>9
<1> QED  BY <1>4, <1>6, <1>8, <1>9 DEF q, r

\* Every step keeps the shapes.
LEMMA TypedNext ==
  ASSUME Bounds, Typed, [Next]_vars
  PROVE  Typed'
<1>1. CASE Start
  BY <1>1, Recovered
<1>2. CASE Crash
  <2>1. faults \in Nat /\ faults' \in 0..MaxFaults
    BY <1>2 DEF Crash, Typed, Bounds
  <2>2. collector' \in [epoch : Nat, history : SUBSET Quote, last_slot : Slot \cup {-1},
                     pending : [Slot -> Evaluation \cup {None}], completed : [Slot -> SUBSET Horizons]]
    BY <1>2 DEF Crash, NewCollector, NoRows
  <2>3. writer_queue' \in Seq(Item)
    BY <1>2, EmptySeq DEF Crash
  <2> QED  BY <1>2, <2>1, <2>2, <2>3 DEF Crash, Typed
<1>3. CASE Stop
  BY <1>3 DEF Stop, Typed, memory
<1>4. CASE TimePasses
  <2>1. now' \in Time
    BY <1>4, Scales DEF TimePasses, Typed, Time
  <2> QED  BY <1>4, <2>1 DEF TimePasses, Typed, memory
<1>5. CASE Receive
  <2>0. PICK broken \in BOOLEAN, id \in Id, epoch \in Nat, quote \in Quote :
           Reception(broken, id, epoch, quote)
    BY <1>5, Received
  <2>1. /\ loop.pc = "running" /\ loop' = loop /\ now' = now
        /\ dataset' = dataset /\ stop' = stop /\ faults' = faults
        /\ id = market.quotes + 1 /\ market'.quotes = id
        /\ epoch = IF broken THEN collector.epoch + 1 ELSE collector.epoch
        /\ quote = [id |-> id, at |-> now, epoch |-> <<faults, epoch>>]
        /\ market'.breaks = IF broken THEN market.breaks \cup {id} ELSE market.breaks
        /\ collector.history = {} => broken
        /\ collector' = [collector EXCEPT !.epoch = epoch, !.history = @ \cup {quote}]
        /\ \/ /\ source_batch' = {}
              /\ writer_queue' = Append(writer_queue, Tape(source_batch \cup {id}))
           \/ source_batch' = source_batch \cup {id} /\ writer_queue' = writer_queue
    BY ONLY <2>0 DEF Reception
  <2>2. market' \in [quotes : 0..MaxQuotes, breaks : SUBSET Id]
    <3>1. \E b \in SUBSET Id : market' = [quotes |-> market.quotes + 1, breaks |-> b]
      BY <1>5, <2>1, Fields DEF Receive
    <3>2. market.quotes + 1 \in 0..MaxQuotes
      BY <2>1 DEF Id
    <3> QED  BY <3>1, <3>2
  <2>3. collector' \in [epoch : Nat, history : SUBSET Quote, last_slot : Slot \cup {-1},
                     pending : [Slot -> Evaluation \cup {None}], completed : [Slot -> SUBSET Horizons]]
    BY <2>1 DEF Typed
  <2>4. source_batch' \in SUBSET Id
    BY <2>1 DEF Typed
  <2>5. writer_queue' \in Seq(Item)
    <3>1. Tape(source_batch \cup {id}) \in Item
      BY <2>1 DEF Tape, TapeItem, Item, Typed
    <3>2. writer_queue \in Seq(Item)
      BY DEF Typed
    <3>3. Append(writer_queue, Tape(source_batch \cup {id})) \in Seq(Item)
      BY ONLY <3>1, <3>2, AppendProperties
    <3> QED  BY <2>1, <3>2, <3>3
  <2> QED  BY <2>1, <2>2, <2>3, <2>4, <2>5 DEF Typed
<1>6. CASE Pause
  <2>1. writer_queue' \in Seq(Item) /\ source_batch' = {}
        /\ loop' \in [pc : {"down", "running", "sealing", "sealed", "archive"}, paused : BOOLEAN]
        /\ UNCHANGED <<now, market, collector, dataset, stop, faults>>
    BY <1>6, Paused
  <2> QED  BY <2>1 DEF Typed
<1>7. CASE Work
  <2>1. writer_queue' \in Seq(Item) /\ source_batch' \in SUBSET Id
    BY <1>7, WorkQueues DEF Typed
  <2>2. loop' \in [pc : {"down", "running", "sealing", "sealed", "archive"}, paused : BOOLEAN]
    <3>1. loop' = loop \/ loop' = [loop EXCEPT !.pc = "sealing"]
      BY <1>7, WorkQueues
    <3> QED  BY <3>1 DEF Typed
  <2> QED  BY <1>7, <2>1, <2>2, Worked DEF Typed
<1>8. CASE Sealed
  BY <1>8 DEF Sealed, Typed
<1>9. CASE Write
  <2>1. writer_queue' \in Seq(Item)
    BY <1>9, Writes
  <2>2. dataset' \in [evaluations : [Slot -> Evaluation \cup {None}],
                      labels : [Slot -> [Horizons -> Label \cup {None}]], tape : SUBSET Id,
                      sealed : BOOLEAN, analysis : {"none", "blocked", "verified", "failed"}]
    BY <1>9, Writes, WriteChanges
  <2> QED  BY <1>9, <2>1, <2>2 DEF Write, Typed
<1>10. CASE Analyse
  BY <1>10 DEF Analyse, Typed, memory
<1>11. CASE UNCHANGED vars
  BY <1>11 DEF vars, memory, Typed
<1> QED  BY <1>1, <1>2, <1>3, <1>4, <1>5, <1>6, <1>7, <1>8, <1>9, <1>10, <1>11 DEF Next

-----------------------------------------------------------------------------
(* How the steps change the rows *)

\* Every step but those of the clock, the writer and a crash leaves them alone.
LEMMA QuietSteps ==
  ASSUME Bounds, Typed,
         Start \/ Stop \/ TimePasses \/ Receive \/ Pause \/ Sealed \/ Analyse \/ UNCHANGED vars
  PROVE  /\ dataset'.evaluations = dataset.evaluations /\ dataset'.labels = dataset.labels
         /\ \A i \in 1..Len(writer_queue) : i \in 1..Len(writer_queue') /\ writer_queue'[i] = writer_queue[i]
         /\ \A i \in 1..Len(writer_queue') : i \notin 1..Len(writer_queue) => writer_queue'[i].kind # "rows"
<1>1. CASE Receive
  <2>0. PICK broken \in BOOLEAN, id \in Id, epoch \in Nat, quote \in Quote :
           Reception(broken, id, epoch, quote)
    BY <1>1, Received
  <2>1. /\ loop.pc = "running" /\ loop' = loop /\ now' = now
        /\ dataset' = dataset /\ stop' = stop /\ faults' = faults
        /\ id = market.quotes + 1 /\ market'.quotes = id
        /\ epoch = IF broken THEN collector.epoch + 1 ELSE collector.epoch
        /\ quote = [id |-> id, at |-> now, epoch |-> <<faults, epoch>>]
        /\ market'.breaks = IF broken THEN market.breaks \cup {id} ELSE market.breaks
        /\ collector.history = {} => broken
        /\ collector' = [collector EXCEPT !.epoch = epoch, !.history = @ \cup {quote}]
        /\ \/ /\ source_batch' = {}
              /\ writer_queue' = Append(writer_queue, Tape(source_batch \cup {id}))
           \/ source_batch' = source_batch \cup {id} /\ writer_queue' = writer_queue
    BY ONLY <2>0 DEF Reception
  <2> DEFINE x == Tape(source_batch \cup {id})
  <2>2. x \in Item /\ x.kind = "tape" /\ writer_queue \in Seq(Item)
    BY <2>1 DEF Tape, TapeItem, Item, Typed
  <2>3. CASE writer_queue' = Append(writer_queue, x)
    <3> HIDE DEF x
    <3>1. /\ Len(writer_queue') = Len(writer_queue) + 1 /\ writer_queue'[Len(writer_queue) + 1] = x
          /\ \A i \in 1..Len(writer_queue) : writer_queue'[i] = writer_queue[i]
      BY <2>2, <2>3, AppendProperties
    <3>2. Len(writer_queue) \in Nat
      BY Queue
    <3> QED  BY <2>1, <2>2, <3>1, <3>2
  <2>4. CASE writer_queue' = writer_queue
    BY <2>1, <2>4
  <2> QED  BY <2>1, <2>3, <2>4
<1>2. CASE Pause
  <2>1. dataset' = dataset
    BY <1>2, Paused
  <2>2. ASSUME NEW i \in 1..Len(writer_queue'), i \notin 1..Len(writer_queue)
        PROVE  writer_queue'[i].kind # "rows"
    <3>1. \/ writer_queue'[i] = Tape(source_batch)
          \/ writer_queue'[i] = [kind |-> "quality", sealed |-> FALSE]
      BY <1>2, <2>2, Paused
    <3> QED  BY <3>1 DEF Tape
  <2> QED  BY <1>2, <2>1, <2>2, Paused
<1>3. CASE Analyse
  BY <1>3 DEF Analyse, memory, Typed
<1>4. CASE Start \/ Stop \/ TimePasses \/ Sealed \/ UNCHANGED vars
  BY <1>4 DEF Start, Stop, TimePasses, Sealed, vars, memory
<1> QED  BY <1>1, <1>2, <1>3, <1>4

\* A write moves the rows of the first item from the queue to the tables.
LEMMA WriteMovesRows ==
  ASSUME Bounds, Typed, Typed', RowsAreMadeOnce, Write
  PROVE  LET x == writer_queue[1]
         IN /\ \A s \in Slot : s \in Stored' <=> \/ s \in Stored
                                                 \/ 1 \in QueuedRows /\ s \in DOMAIN x.evaluations
            /\ \A s \in Slot, h \in Horizons :
                  h \in Labelled(s)' <=> \/ h \in Labelled(s)
                                         \/ 1 \in QueuedRows /\ <<s, h>> \in DOMAIN x.labels
            /\ \A i : i \in QueuedRows' <=> i \in Nat \ {0} /\ i + 1 \in QueuedRows
            /\ \A i \in QueuedRows' : writer_queue'[i] = writer_queue[i + 1]
            /\ \A s, e : Row(s, e)' <=> Row(s, e)
            /\ \A s \in Slot : \A h, l : Lab(s, h, l)' <=> Lab(s, h, l)
<1> DEFINE x == writer_queue[1]
           n == Len(writer_queue)
<1>1. /\ n \in Nat \ {0} /\ x \in Item /\ Len(writer_queue') = n - 1
      /\ \A i \in 1..Len(writer_queue') : writer_queue'[i] = writer_queue[i + 1]
      /\ dataset' = Written(x)
  BY Writes
<1>2. 1 \in QueuedRows <=> x.kind = "rows"
  BY <1>1 DEF QueuedRows
<1>3. \A i : i \in QueuedRows' <=> i \in Nat \ {0} /\ i + 1 \in QueuedRows
  BY <1>1 DEF QueuedRows
<1>4. \A i \in QueuedRows' : writer_queue'[i] = writer_queue[i + 1]
  BY <1>1 DEF QueuedRows
<1>5. ASSUME x.kind # "rows"
      PROVE  dataset'.evaluations = dataset.evaluations /\ dataset'.labels = dataset.labels
  BY <1>1, <1>5, Kinds, WriteChanges
<1>6. ASSUME x.kind = "rows"
      PROVE  /\ x \in RowsItem
             /\ \A s \in Slot : s \in DOMAIN x.evaluations =>
                   /\ dataset.evaluations[s] = None /\ dataset'.evaluations[s] = x.evaluations[s]
                   /\ x.evaluations[s] # None
             /\ \A s \in Slot : s \notin DOMAIN x.evaluations => dataset'.evaluations[s] = dataset.evaluations[s]
             /\ \A s \in Slot, h \in Horizons : <<s, h>> \in DOMAIN x.labels =>
                   /\ dataset.labels[s][h] = None /\ dataset'.labels[s][h] = x.labels[<<s, h>>]
                   /\ x.labels[<<s, h>>] # None
             /\ \A s \in Slot, h \in Horizons : <<s, h>> \notin DOMAIN x.labels =>
                   dataset'.labels[s][h] = dataset.labels[s][h]
  <2>1. x \in RowsItem
    BY <1>1, <1>6, Kinds
  <2>2. /\ dataset'.evaluations = [s \in Slot |-> IF s \in DOMAIN x.evaluations
                                        THEN Once(dataset.evaluations[s], x.evaluations[s])
                                        ELSE dataset.evaluations[s]]
        /\ dataset'.labels = [s \in Slot |-> [h \in Horizons |->
                                  IF <<s, h>> \in DOMAIN x.labels
                                  THEN Once(dataset.labels[s][h], x.labels[<<s, h>>])
                                  ELSE dataset.labels[s][h]]]
    BY <1>1, <1>6, WriteChanges
  <2>3. DOMAIN x.evaluations \cap Stored = {} /\ \A y \in DOMAIN x.labels : y[2] \notin Labelled(y[1])
    BY <1>2, <1>6 DEF RowsAreMadeOnce
  <2>4. \A s \in Slot : s \in DOMAIN x.evaluations =>
           dataset.evaluations[s] = None /\ x.evaluations[s] \in Evaluation
    BY <2>1, <2>3, RowsFit DEF Stored
  <2>5. \A s \in Slot, h \in Horizons : <<s, h>> \in DOMAIN x.labels =>
           dataset.labels[s][h] = None /\ x.labels[<<s, h>>] \in Label
    <3> TAKE s \in Slot, h \in Horizons
    <3> HAVE <<s, h>> \in DOMAIN x.labels
    <3>1. h \notin Labelled(s)
      BY <2>3
    <3> QED  BY <2>1, <3>1, RowsFit DEF Labelled
  <2>6. None \notin Evaluation /\ None \notin Label
    BY DEF Bounds
  <2>7. \A s \in Slot : s \in DOMAIN x.evaluations =>
           dataset'.evaluations[s] = x.evaluations[s] /\ x.evaluations[s] # None
    BY <2>2, <2>4, <2>6 DEF Once
  <2>8. \A s \in Slot : s \notin DOMAIN x.evaluations => dataset'.evaluations[s] = dataset.evaluations[s]
    BY <2>2
  <2>9. \A s \in Slot, h \in Horizons : <<s, h>> \in DOMAIN x.labels =>
           dataset'.labels[s][h] = x.labels[<<s, h>>] /\ x.labels[<<s, h>>] # None
    BY <2>2, <2>5, <2>6 DEF Once
  <2>10. \A s \in Slot, h \in Horizons : <<s, h>> \notin DOMAIN x.labels =>
           dataset'.labels[s][h] = dataset.labels[s][h]
    BY <2>2
  <2> QED  BY <2>1, <2>4, <2>5, <2>7, <2>8, <2>9, <2>10
<1>7. \A s \in Slot :
         /\ s \in Stored' <=> \/ s \in Stored
                              \/ 1 \in QueuedRows /\ s \in DOMAIN x.evaluations
         /\ s \in Stored => dataset'.evaluations[s] = dataset.evaluations[s]
         /\ 1 \in QueuedRows /\ s \in DOMAIN x.evaluations => dataset'.evaluations[s] = x.evaluations[s]
  <2> TAKE s \in Slot
  <2>1. CASE x.kind # "rows"
    BY <1>2, <1>5, <2>1 DEF Stored
  <2>2. CASE x.kind = "rows" /\ s \in DOMAIN x.evaluations
    BY <1>2, <1>6, <2>2 DEF Stored
  <2>3. CASE x.kind = "rows" /\ s \notin DOMAIN x.evaluations
    BY <1>2, <1>6, <2>3 DEF Stored
  <2> QED  BY <2>1, <2>2, <2>3
<1>8. \A s \in Slot, h \in Horizons :
         /\ h \in Labelled(s)' <=> \/ h \in Labelled(s)
                                   \/ 1 \in QueuedRows /\ <<s, h>> \in DOMAIN x.labels
         /\ h \in Labelled(s) => dataset'.labels[s][h] = dataset.labels[s][h]
         /\ 1 \in QueuedRows /\ <<s, h>> \in DOMAIN x.labels => dataset'.labels[s][h] = x.labels[<<s, h>>]
  <2> TAKE s \in Slot, h \in Horizons
  <2>1. CASE x.kind # "rows"
    BY <1>2, <1>5, <2>1 DEF Labelled
  <2>2. CASE x.kind = "rows" /\ <<s, h>> \in DOMAIN x.labels
    BY <1>2, <1>6, <2>2 DEF Labelled
  <2>3. CASE x.kind = "rows" /\ <<s, h>> \notin DOMAIN x.labels
    BY <1>2, <1>6, <2>3 DEF Labelled
  <2> QED  BY <2>1, <2>2, <2>3
<1>9. ASSUME NEW s, NEW e PROVE Row(s, e)' <=> Row(s, e)
  <2>1. ASSUME Row(s, e)' PROVE Row(s, e)
    <3>1. CASE s \in Stored' /\ e = dataset'.evaluations[s]
      <4>1. s \in Slot
        BY <3>1 DEF Stored
      <4>2. CASE s \in Stored
        BY <1>7, <3>1, <4>1, <4>2 DEF Row
      <4>3. CASE 1 \in QueuedRows /\ s \in DOMAIN x.evaluations
        BY <1>7, <3>1, <4>1, <4>3 DEF Row
      <4> QED  BY <1>7, <3>1, <4>1, <4>2, <4>3
    <3>2. ASSUME NEW i \in QueuedRows', s \in DOMAIN writer_queue'[i].evaluations,
                 e = writer_queue'[i].evaluations[s]
          PROVE  Row(s, e)
      <4>1. i + 1 \in QueuedRows /\ writer_queue'[i] = writer_queue[i + 1]
        BY <1>3, <1>4
      <4> QED  BY <3>2, <4>1 DEF Row
    <3> QED  BY <2>1, <3>1, <3>2 DEF Row
  <2>2. ASSUME Row(s, e) PROVE Row(s, e)'
    <3>1. CASE s \in Stored /\ e = dataset.evaluations[s]
      <4>1. s \in Slot
        BY <3>1 DEF Stored
      <4> QED  BY <1>7, <3>1, <4>1 DEF Row
    <3>2. ASSUME NEW i \in QueuedRows, s \in DOMAIN writer_queue[i].evaluations,
                 e = writer_queue[i].evaluations[s]
          PROVE  Row(s, e)'
      <4>1. s \in Slot
        BY <3>2, Queue, RowsFit
      <4>2. CASE i = 1
        BY <1>7, <3>2, <4>1, <4>2 DEF Row
      <4>3. CASE i # 1
        <5>1. i \in Nat /\ i - 1 \in Nat \ {0} /\ (i - 1) + 1 = i
          BY <1>1, <4>3 DEF QueuedRows
        <5>2. i - 1 \in QueuedRows' /\ writer_queue'[i - 1] = writer_queue[i]
          BY <1>3, <1>4, <5>1
        <5> QED  BY <3>2, <5>2 DEF Row
      <4> QED  BY <4>2, <4>3
    <3> QED  BY <2>2, <3>1, <3>2 DEF Row
  <2> QED  BY <2>1, <2>2
<1>10. ASSUME NEW s \in Slot, NEW h, NEW l PROVE Lab(s, h, l)' <=> Lab(s, h, l)
  <2>1. ASSUME Lab(s, h, l)' PROVE Lab(s, h, l)
    <3>1. CASE h \in Labelled(s)' /\ l = dataset'.labels[s][h]
      <4>1. h \in Horizons
        BY <3>1 DEF Labelled
      <4>2. CASE h \in Labelled(s)
        BY <1>8, <3>1, <4>1, <4>2 DEF Lab
      <4>3. CASE 1 \in QueuedRows /\ <<s, h>> \in DOMAIN x.labels
        BY <1>8, <3>1, <4>1, <4>3 DEF Lab
      <4> QED  BY <1>8, <3>1, <4>1, <4>2, <4>3
    <3>2. ASSUME NEW i \in QueuedRows', <<s, h>> \in DOMAIN writer_queue'[i].labels,
                 l = writer_queue'[i].labels[<<s, h>>]
          PROVE  Lab(s, h, l)
      <4>1. i + 1 \in QueuedRows /\ writer_queue'[i] = writer_queue[i + 1]
        BY <1>3, <1>4
      <4> QED  BY <3>2, <4>1 DEF Lab
    <3> QED  BY <2>1, <3>1, <3>2 DEF Lab
  <2>2. ASSUME Lab(s, h, l) PROVE Lab(s, h, l)'
    <3>1. CASE h \in Labelled(s) /\ l = dataset.labels[s][h]
      <4>1. h \in Horizons
        BY <3>1 DEF Labelled
      <4> QED  BY <1>8, <3>1, <4>1 DEF Lab
    <3>2. ASSUME NEW i \in QueuedRows, <<s, h>> \in DOMAIN writer_queue[i].labels,
                 l = writer_queue[i].labels[<<s, h>>]
          PROVE  Lab(s, h, l)'
      <4>1. h \in Horizons
        BY <3>2, Queue, RowsFit
      <4>2. CASE i = 1
        BY <1>8, <3>2, <4>1, <4>2 DEF Lab
      <4>3. CASE i # 1
        <5>1. i \in Nat /\ i - 1 \in Nat \ {0} /\ (i - 1) + 1 = i
          BY <1>1, <4>3 DEF QueuedRows
        <5>2. i - 1 \in QueuedRows' /\ writer_queue'[i - 1] = writer_queue[i]
          BY <1>3, <1>4, <5>1
        <5> QED  BY <3>2, <5>2 DEF Lab
      <4> QED  BY <4>2, <4>3
    <3> QED  BY <2>2, <3>1, <3>2 DEF Lab
  <2> QED  BY <2>1, <2>2
<1>11. \A s \in Slot : s \in Stored' <=> \/ s \in Stored
                                         \/ 1 \in QueuedRows /\ s \in DOMAIN x.evaluations
  BY ONLY <1>7
<1>12. \A s \in Slot, h \in Horizons :
          h \in Labelled(s)' <=> \/ h \in Labelled(s)
                                 \/ 1 \in QueuedRows /\ <<s, h>> \in DOMAIN x.labels
  BY <1>8
<1>13. \A s, e : Row(s, e)' <=> Row(s, e)
  BY <1>9
<1>14. \A s \in Slot : \A h, l : Lab(s, h, l)' <=> Lab(s, h, l)
  BY <1>10
<1> QED  BY ONLY <1>3, <1>4, <1>11, <1>12, <1>13, <1>14

\* An iteration of the clock queues the rows it made.
LEMMA WorkMakesRows ==
  ASSUME Bounds, Typed, Typed', Work
  PROVE  LET n == Len(writer_queue)
         IN /\ Stored' = Stored /\ \A s : Labelled(s)' = Labelled(s)
            /\ \A i \in QueuedRows' : \/ i \in QueuedRows /\ writer_queue'[i] = writer_queue[i]
                                      \/ i = n + 1 /\ writer_queue'[i] = Rows
            /\ \A i \in QueuedRows : i \in QueuedRows' /\ writer_queue'[i] = writer_queue[i] /\ i <= n
            /\ Evaluated # {} \/ Resolved # {} => n + 1 \in QueuedRows' /\ writer_queue'[n + 1] = Rows
            /\ \A s, e : Row(s, e)' <=> Row(s, e) \/ (s \in Evaluated /\ e = NewEvaluation)
            /\ \A s, h, l : Lab(s, h, l)' <=> \/ Lab(s, h, l)
                                              \/ <<s, h>> \in Resolved /\ l = NewLabel(Pending[s], h)
<1> DEFINE n == Len(writer_queue)
<1>1. dataset' = dataset
  BY Worked
<1>2. Stored' = Stored /\ \A s : Labelled(s)' = Labelled(s)
  BY <1>1 DEF Stored, Labelled
<1>3. /\ writer_queue' \in Seq(Item) /\ Len(writer_queue') \in Nat /\ n \in Nat
      /\ \A i \in 1..n : i \in 1..Len(writer_queue') /\ writer_queue'[i] = writer_queue[i]
      /\ Evaluated # {} \/ Resolved # {} => n + 1 \in 1..Len(writer_queue') /\ writer_queue'[n + 1] = Rows
  BY WorkQueues
<1>4. ASSUME NEW i \in 1..Len(writer_queue'), i \notin 1..n, writer_queue'[i].kind = "rows"
      PROVE  i = n + 1 /\ writer_queue'[i] = Rows
  <2>1. \/ i = n + 1 /\ writer_queue'[i] = Rows
        \/ writer_queue'[i] = Tape(source_batch)
        \/ writer_queue'[i] = [kind |-> "quality", sealed |-> TRUE]
    BY <1>4, WorkQueues
  <2> QED  BY <1>4, <2>1 DEF Tape
<1>5. /\ Rows.kind = "rows" /\ Rows.evaluations = [s \in Evaluated |-> NewEvaluation]
      /\ Rows.labels = [y \in Resolved |-> NewLabel(Pending[y[1]], y[2])]
  BY DEF Rows
<1>6. \A i \in QueuedRows' : \/ i \in QueuedRows /\ writer_queue'[i] = writer_queue[i]
                             \/ i = n + 1 /\ writer_queue'[i] = Rows
  BY <1>3, <1>4 DEF QueuedRows
<1>7. \A i \in QueuedRows : i \in QueuedRows' /\ writer_queue'[i] = writer_queue[i] /\ i <= n
  BY <1>3 DEF QueuedRows
<1>8. Evaluated # {} \/ Resolved # {} => n + 1 \in QueuedRows' /\ writer_queue'[n + 1] = Rows
  BY <1>3, <1>5 DEF QueuedRows
<1> HIDE DEF n
<1>9. ASSUME NEW s, NEW e PROVE Row(s, e)' <=> Row(s, e) \/ (s \in Evaluated /\ e = NewEvaluation)
  <2>1. ASSUME Row(s, e)' PROVE Row(s, e) \/ (s \in Evaluated /\ e = NewEvaluation)
    <3>1. CASE s \in Stored' /\ e = dataset'.evaluations[s]
      BY <1>1, <1>2, <3>1 DEF Row
    <3>2. ASSUME NEW i \in QueuedRows', s \in DOMAIN writer_queue'[i].evaluations,
                 e = writer_queue'[i].evaluations[s]
          PROVE  Row(s, e) \/ (s \in Evaluated /\ e = NewEvaluation)
      <4>1. CASE i \in QueuedRows /\ writer_queue'[i] = writer_queue[i]
        BY <3>2, <4>1 DEF Row
      <4>2. CASE writer_queue'[i] = Rows
        BY <1>5, <3>2, <4>2
      <4> QED  BY <1>6, <4>1, <4>2
    <3> QED  BY <2>1, <3>1, <3>2 DEF Row
  <2>2. ASSUME Row(s, e) PROVE Row(s, e)'
    BY <1>1, <1>2, <1>7, <2>2 DEF Row
  <2>3. ASSUME s \in Evaluated, e = NewEvaluation PROVE Row(s, e)'
    <3>1. n + 1 \in QueuedRows' /\ writer_queue'[n + 1] = Rows
      BY <1>8, <2>3
    <3>2. s \in DOMAIN Rows.evaluations /\ e = Rows.evaluations[s]
      BY <1>5, <2>3
    <3> QED  BY <3>1, <3>2 DEF Row
  <2> QED  BY <2>1, <2>2, <2>3
<1>10. ASSUME NEW s, NEW h, NEW l
       PROVE  Lab(s, h, l)' <=> Lab(s, h, l) \/ (<<s, h>> \in Resolved /\ l = NewLabel(Pending[s], h))
  <2>1. ASSUME Lab(s, h, l)'
        PROVE  Lab(s, h, l) \/ (<<s, h>> \in Resolved /\ l = NewLabel(Pending[s], h))
    <3>1. CASE h \in Labelled(s)' /\ l = dataset'.labels[s][h]
      BY <1>1, <1>2, <3>1 DEF Lab
    <3>2. ASSUME NEW i \in QueuedRows', <<s, h>> \in DOMAIN writer_queue'[i].labels,
                 l = writer_queue'[i].labels[<<s, h>>]
          PROVE  Lab(s, h, l) \/ (<<s, h>> \in Resolved /\ l = NewLabel(Pending[s], h))
      <4>1. CASE i \in QueuedRows /\ writer_queue'[i] = writer_queue[i]
        BY <3>2, <4>1 DEF Lab
      <4>2. CASE writer_queue'[i] = Rows
        BY <1>5, <3>2, <4>2
      <4> QED  BY <1>6, <4>1, <4>2
    <3> QED  BY <2>1, <3>1, <3>2 DEF Lab
  <2>2. ASSUME Lab(s, h, l) PROVE Lab(s, h, l)'
    BY <1>1, <1>2, <1>7, <2>2 DEF Lab
  <2>3. ASSUME <<s, h>> \in Resolved, l = NewLabel(Pending[s], h) PROVE Lab(s, h, l)'
    <3>1. n + 1 \in QueuedRows' /\ writer_queue'[n + 1] = Rows
      BY <1>8, <2>3
    <3>2. <<s, h>> \in DOMAIN Rows.labels /\ l = Rows.labels[<<s, h>>]
      BY <1>5, <2>3
    <3> QED  BY <3>1, <3>2 DEF Lab
  <2> QED  BY <2>1, <2>2, <2>3
<1> QED  BY <1>2, <1>6, <1>7, <1>8, <1>9, <1>10 DEF n

-----------------------------------------------------------------------------
(* Rows are made once, a label after its evaluation *)

\* A label that is stored or on its way has an evaluation.
LEMMA LabHasRow ==
  ASSUME FollowInv, NEW s \in Slot, NEW h, NEW l, Lab(s, h, l)
  PROVE  HasRow(s)
<1>1. CASE h \in Labelled(s)
  <2>1. s \in Stored
    BY <1>1 DEF FollowInv
  <2> QED  BY <2>1 DEF HasRow, Row
<1>2. ASSUME NEW i \in QueuedRows, <<s, h>> \in DOMAIN writer_queue[i].labels
      PROVE  HasRow(s)
  <2>1. \/ <<s, h>>[1] \in Stored
        \/ \E j \in QueuedRows : j <= i /\ <<s, h>>[1] \in DOMAIN writer_queue[j].evaluations
    BY <1>2 DEF FollowInv
  <2>2. s \in Stored \/ \E j \in QueuedRows : s \in DOMAIN writer_queue[j].evaluations
    BY <2>1
  <2> QED  BY <2>2 DEF HasRow, Row
<1> QED  BY <1>1, <1>2 DEF Lab

\* There is one evaluation of a slot.
LEMMA OneRow == RowsAreMadeOnce => \A s, e, f : Row(s, e) /\ Row(s, f) => e = f
<1> SUFFICES ASSUME RowsAreMadeOnce, NEW s, NEW e, NEW f, Row(s, e), Row(s, f) PROVE e = f
  OBVIOUS
<1>1. \A i \in QueuedRows : s \in DOMAIN writer_queue[i].evaluations =>
         /\ s \notin Stored
         /\ \A j \in QueuedRows : s \in DOMAIN writer_queue[j].evaluations => i = j
  BY DEF RowsAreMadeOnce
<1> QED  BY <1>1 DEF Row

\* What an iteration of the clock makes was not made before.
LEMMA NewRowsAreNew ==
  ASSUME Bounds, Typed, FollowInv, ProgressInv, loop.pc = "running"
  PROVE  /\ \A s \in Evaluated : ~ HasRow(s) /\ collector.completed[s] = {} /\ \A h : ~ HasLab(s, h)
         /\ \A s \in Slot, h \in Horizons : <<s, h>> \in Resolved => ~ HasLab(s, h)
<1>1. \A s \in Slot : SlotInv(s) /\ (HasRow(s) => s <= collector.last_slot)
  BY DEF ProgressInv
<1>2. ASSUME NEW s \in Evaluated PROVE ~ HasRow(s) /\ collector.completed[s] = {} /\ \A h : ~ HasLab(s, h)
  <2>1. s = now \div Every /\ s # collector.last_slot
    BY DEF Evaluated
  <2>2. s \in Slot
    BY NewRowsFit
  <2>3. collector.last_slot <= s /\ collector.last_slot \in Int /\ s \in Int
    BY <2>1, <2>2, Fields, Scales DEF ProgressInv, Slot
  <2>4. ~ HasRow(s)
    BY <1>1, <2>1, <2>2, <2>3
  <2>5. collector.completed[s] = {}
    BY <1>1, <2>2, <2>4 DEF SlotInv, HasRow
  <2>6. \A h : ~ HasLab(s, h)
    BY <2>2, <2>4, LabHasRow DEF HasLab
  <2> QED  BY <2>4, <2>5, <2>6
<1>3. ASSUME NEW s \in Slot, NEW h \in Horizons, <<s, h>> \in Resolved PROVE ~ HasLab(s, h)
  <2>1. Pending[s] # None /\ h \notin collector.completed[s]
    BY <1>3 DEF Resolved
  <2>2. CASE s \in Evaluated
    BY <1>2, <2>2
  <2>3. CASE s \notin Evaluated
    <3>1. collector.pending[s] # None
      BY <2>1, <2>3 DEF Pending
    <3> QED  BY <1>1, <2>1, <3>1 DEF SlotInv
  <2> QED  BY <2>2, <2>3
<1> QED  BY <1>2, <1>3

\* A write: what it stores was queued once, and goes from the queue.
LEMMA WriteOnce ==
  ASSUME Bounds, Typed, Typed', RowsAreMadeOnce, FollowInv, Write
  PROVE  RowsAreMadeOnce' /\ FollowInv'
<1> DEFINE x == writer_queue[1]
<1>1. \A s \in Slot : s \in Stored' <=> s \in Stored \/ (1 \in QueuedRows /\ s \in DOMAIN x.evaluations)
  BY WriteMovesRows
<1>2. \A s \in Slot, h \in Horizons :
         h \in Labelled(s)' <=> h \in Labelled(s) \/ (1 \in QueuedRows /\ <<s, h>> \in DOMAIN x.labels)
  BY WriteMovesRows
<1>3. \A i : i \in QueuedRows' <=> i \in Nat \ {0} /\ i + 1 \in QueuedRows
  BY WriteMovesRows
<1>4. \A i \in QueuedRows' : writer_queue'[i] = writer_queue[i + 1]
  BY WriteMovesRows
<1>5. \A i \in QueuedRows : /\ i \in Nat
                            /\ DOMAIN writer_queue[i].evaluations \subseteq Slot
                            /\ DOMAIN writer_queue[i].labels \subseteq Slot \X Horizons
  BY Queue, RowsFit
<1> HIDE DEF x
<1>6. ASSUME NEW i \in QueuedRows'
      PROVE  LET made == writer_queue'[i]
             IN /\ DOMAIN made.evaluations \cap Stored' = {}
                /\ \A l \in DOMAIN made.labels : l[2] \notin Labelled(l[1])'
                /\ \A j \in QueuedRows' \ {i} :
                      /\ DOMAIN made.evaluations \cap DOMAIN writer_queue'[j].evaluations = {}
                      /\ DOMAIN made.labels \cap DOMAIN writer_queue'[j].labels = {}
  <2> DEFINE made == writer_queue[i + 1]
  <2>1. i \in Nat \ {0} /\ i + 1 \in QueuedRows /\ writer_queue'[i] = made /\ i + 1 # 1
    BY <1>3, <1>4
  <2>2. /\ DOMAIN made.evaluations \cap Stored = {}
        /\ \A l \in DOMAIN made.labels : l[2] \notin Labelled(l[1])
        /\ \A j \in QueuedRows \ {i + 1} :
              /\ DOMAIN made.evaluations \cap DOMAIN writer_queue[j].evaluations = {}
              /\ DOMAIN made.labels \cap DOMAIN writer_queue[j].labels = {}
    BY <2>1 DEF RowsAreMadeOnce
  <2>3. DOMAIN made.evaluations \subseteq Slot /\ DOMAIN made.labels \subseteq Slot \X Horizons
    BY <1>5, <2>1
  <2> HIDE DEF made
  <2>4. 1 \in QueuedRows => /\ DOMAIN made.evaluations \cap DOMAIN x.evaluations = {}
                            /\ DOMAIN made.labels \cap DOMAIN x.labels = {}
    BY <2>1, <2>2 DEF x
  <2>5. DOMAIN made.evaluations \cap Stored' = {}
    BY <1>1, <2>2, <2>3, <2>4
  <2>6. ASSUME NEW l \in DOMAIN made.labels PROVE l[2] \notin Labelled(l[1])'
    <3>1. l = <<l[1], l[2]>> /\ l[1] \in Slot /\ l[2] \in Horizons
      BY <2>3
    <3>2. l[2] \notin Labelled(l[1])
      BY <2>2
    <3>3. ~ (1 \in QueuedRows /\ <<l[1], l[2]>> \in DOMAIN x.labels)
      BY <2>4, <3>1
    <3> QED  BY <1>2, <3>1, <3>2, <3>3
  <2>7. ASSUME NEW j \in QueuedRows' \ {i}
        PROVE  /\ DOMAIN made.evaluations \cap DOMAIN writer_queue'[j].evaluations = {}
               /\ DOMAIN made.labels \cap DOMAIN writer_queue'[j].labels = {}
    <3>1. j \in Nat \ {0} /\ j + 1 \in QueuedRows /\ writer_queue'[j] = writer_queue[j + 1] /\ j + 1 # i + 1
      BY <1>3, <1>4, <2>1
    <3> QED  BY <2>2, <3>1
  <2> QED  BY <2>1, <2>5, <2>6, <2>7
<1>7. RowsAreMadeOnce'
  BY <1>6 DEF RowsAreMadeOnce
<1>8. ASSUME NEW s \in Slot, Labelled(s)' # {} PROVE s \in Stored'
  <2>1. PICK h \in Horizons : h \in Labelled(s)'
    BY <1>8 DEF Labelled
  <2>2. CASE h \in Labelled(s)
    BY <1>1, <2>2 DEF FollowInv
  <2>3. CASE 1 \in QueuedRows /\ <<s, h>> \in DOMAIN x.labels
    <3>1. \/ <<s, h>>[1] \in Stored
          \/ \E j \in QueuedRows : j <= 1 /\ <<s, h>>[1] \in DOMAIN writer_queue[j].evaluations
      BY <2>3 DEF FollowInv, x
    <3>2. CASE s \in Stored
      BY <1>1, <3>2
    <3>3. ASSUME NEW j \in QueuedRows, j <= 1, s \in DOMAIN writer_queue[j].evaluations PROVE s \in Stored'
      <4>1. j = 1
        BY <1>5, <3>3 DEF QueuedRows
      <4> QED  BY <1>1, <3>3, <4>1 DEF x
    <3> QED  BY <3>1, <3>2, <3>3
  <2> QED  BY <1>2, <2>1, <2>2, <2>3
<1>9. ASSUME NEW i \in QueuedRows', NEW y \in DOMAIN writer_queue'[i].labels
      PROVE  \/ y[1] \in Stored'
             \/ \E j \in QueuedRows' : j <= i /\ y[1] \in DOMAIN writer_queue'[j].evaluations
  <2>1. i \in Nat \ {0} /\ i + 1 \in QueuedRows /\ writer_queue'[i] = writer_queue[i + 1]
    BY <1>3, <1>4
  <2>2. y[1] \in Slot
    BY <1>5, <2>1
  <2>3. CASE y[1] \in Stored
    BY <1>1, <2>2, <2>3
  <2>4. ASSUME NEW j \in QueuedRows, j <= i + 1, y[1] \in DOMAIN writer_queue[j].evaluations
        PROVE  \/ y[1] \in Stored'
               \/ \E k \in QueuedRows' : k <= i /\ y[1] \in DOMAIN writer_queue'[k].evaluations
    <3>1. CASE j = 1
      BY <1>1, <2>2, <2>4, <3>1 DEF x
    <3>2. CASE j # 1
      <4>1. j - 1 \in Nat \ {0} /\ (j - 1) + 1 = j /\ j - 1 <= i
        BY <1>5, <2>1, <2>4, <3>2 DEF QueuedRows
      <4>2. j - 1 \in QueuedRows' /\ writer_queue'[j - 1] = writer_queue[j]
        BY <1>3, <1>4, <4>1
      <4> QED  BY <2>4, <4>1, <4>2
    <3> QED  BY <3>1, <3>2
  <2>5. \/ y[1] \in Stored
        \/ \E j \in QueuedRows : j <= i + 1 /\ y[1] \in DOMAIN writer_queue[j].evaluations
    BY <2>1 DEF FollowInv
  <2> QED  BY <2>3, <2>4, <2>5
<1> QED  BY <1>7, <1>8, <1>9 DEF FollowInv

\* An iteration of the clock: what it queues was not made before.
LEMMA WorkOnce ==
  ASSUME Bounds, Typed, Typed', RowsAreMadeOnce, FollowInv, ProgressInv, Work
  PROVE  RowsAreMadeOnce' /\ FollowInv'
<1> DEFINE n == Len(writer_queue)
<1>1. Stored' = Stored /\ \A s : Labelled(s)' = Labelled(s)
  BY WorkMakesRows
<1>2. \A i \in QueuedRows' : \/ i \in QueuedRows /\ writer_queue'[i] = writer_queue[i]
                             \/ i = n + 1 /\ writer_queue'[i] = Rows
  BY WorkMakesRows
<1>3. \A i \in QueuedRows : /\ i \in QueuedRows' /\ writer_queue'[i] = writer_queue[i]
                            /\ i <= n /\ i \in Nat /\ n \in Nat
                            /\ DOMAIN writer_queue[i].evaluations \subseteq Slot
                            /\ DOMAIN writer_queue[i].labels \subseteq Slot \X Horizons
  BY WorkMakesRows, Queue, RowsFit
<1>4. /\ DOMAIN Rows.evaluations = Evaluated /\ DOMAIN Rows.labels = Resolved
      /\ Evaluated \subseteq Slot /\ Resolved \subseteq Slot \X Horizons
  BY NewRowsFit DEF Rows
<1>5. /\ \A s \in Evaluated : ~ HasRow(s)
      /\ \A s \in Slot, h \in Horizons : <<s, h>> \in Resolved => ~ HasLab(s, h)
  BY Worked, NewRowsAreNew
<1> HIDE DEF n
<1>6. Evaluated \cap Stored = {}
  BY <1>5 DEF HasRow, Row
<1>7. \A l \in Resolved : l[2] \notin Labelled(l[1])
  <2> TAKE l \in Resolved
  <2>1. l = <<l[1], l[2]>> /\ l[1] \in Slot /\ l[2] \in Horizons
    BY <1>4
  <2>2. ~ HasLab(l[1], l[2])
    BY <1>5, <2>1
  <2> QED  BY <2>2 DEF HasLab, Lab
<1>8. ASSUME NEW j \in QueuedRows
      PROVE  /\ Evaluated \cap DOMAIN writer_queue[j].evaluations = {}
             /\ Resolved \cap DOMAIN writer_queue[j].labels = {}
  <2>1. Evaluated \cap DOMAIN writer_queue[j].evaluations = {}
    BY <1>5 DEF HasRow, Row
  <2>2. ASSUME NEW l \in Resolved, l \in DOMAIN writer_queue[j].labels PROVE FALSE
    <3>1. l = <<l[1], l[2]>> /\ l[1] \in Slot /\ l[2] \in Horizons
      BY <1>4
    <3>2. ~ HasLab(l[1], l[2])
      BY <1>5, <3>1
    <3> QED  BY <2>2, <3>1, <3>2 DEF HasLab, Lab
  <2> QED  BY <2>1, <2>2
<1>9. ASSUME NEW i \in QueuedRows'
      PROVE  LET made == writer_queue'[i]
             IN /\ DOMAIN made.evaluations \cap Stored' = {}
                /\ \A l \in DOMAIN made.labels : l[2] \notin Labelled(l[1])'
                /\ \A j \in QueuedRows' \ {i} :
                      /\ DOMAIN made.evaluations \cap DOMAIN writer_queue'[j].evaluations = {}
                      /\ DOMAIN made.labels \cap DOMAIN writer_queue'[j].labels = {}
  <2> DEFINE made == writer_queue'[i]
  <2>1. CASE i \in QueuedRows /\ made = writer_queue[i]
    <3>1. /\ DOMAIN made.evaluations \cap Stored = {}
          /\ \A l \in DOMAIN made.labels : l[2] \notin Labelled(l[1])
          /\ \A j \in QueuedRows \ {i} :
                /\ DOMAIN made.evaluations \cap DOMAIN writer_queue[j].evaluations = {}
                /\ DOMAIN made.labels \cap DOMAIN writer_queue[j].labels = {}
      BY <2>1 DEF RowsAreMadeOnce
    <3>2. ASSUME NEW j \in QueuedRows' \ {i}
          PROVE  /\ DOMAIN made.evaluations \cap DOMAIN writer_queue'[j].evaluations = {}
                 /\ DOMAIN made.labels \cap DOMAIN writer_queue'[j].labels = {}
      <4>1. CASE j \in QueuedRows /\ writer_queue'[j] = writer_queue[j]
        BY <3>1, <4>1
      <4>2. CASE writer_queue'[j] = Rows
        BY <1>4, <1>8, <2>1, <4>2
      <4> QED  BY <1>2, <4>1, <4>2
    <3> QED  BY <1>1, <3>1, <3>2
  <2>2. CASE i = n + 1 /\ made = Rows
    <3>1. ASSUME NEW j \in QueuedRows' \ {i}
          PROVE  /\ DOMAIN made.evaluations \cap DOMAIN writer_queue'[j].evaluations = {}
                 /\ DOMAIN made.labels \cap DOMAIN writer_queue'[j].labels = {}
      <4>1. j \in QueuedRows /\ writer_queue'[j] = writer_queue[j]
        BY <1>2, <2>2, <3>1
      <4> QED  BY <1>4, <1>8, <2>2, <4>1
    <3>2. DOMAIN made.evaluations \cap Stored' = {} /\ \A l \in DOMAIN made.labels : l[2] \notin Labelled(l[1])'
      BY <1>1, <1>4, <1>6, <1>7, <2>2
    <3> QED  BY <3>1, <3>2
  <2> QED  BY <1>2, <2>1, <2>2
<1>10. RowsAreMadeOnce'
  BY <1>9 DEF RowsAreMadeOnce
<1>11. ASSUME NEW i \in QueuedRows', NEW y \in DOMAIN writer_queue'[i].labels
       PROVE  \/ y[1] \in Stored'
              \/ \E j \in QueuedRows' : j <= i /\ y[1] \in DOMAIN writer_queue'[j].evaluations
  <2>1. CASE i \in QueuedRows /\ writer_queue'[i] = writer_queue[i]
    <3>1. \/ y[1] \in Stored
          \/ \E j \in QueuedRows : j <= i /\ y[1] \in DOMAIN writer_queue[j].evaluations
      BY <2>1 DEF FollowInv
    <3> QED  BY <1>1, <1>3, <3>1
  <2>2. CASE i = n + 1 /\ writer_queue'[i] = Rows
    <3>1. y \in Resolved /\ y[1] \in Slot
      BY <1>4, <2>2
    <3>2. Pending[y[1]] # None
      BY <3>1 DEF Resolved
    <3>3. CASE y[1] \in Evaluated
      <4>1. i <= i
        <5>1. i \in Int
          BY Queue DEF QueuedRows, n
        <5> QED  BY <5>1
      <4> QED  BY <1>4, <2>2, <3>3, <4>1
    <3>4. CASE y[1] \notin Evaluated
      <4>1. collector.pending[y[1]] # None
        BY <3>1, <3>2, <3>4 DEF Pending
      <4>2. HasRow(y[1])
        BY <3>1, <4>1, Worked DEF ProgressInv, SlotInv, HasRow
      <4>3. y[1] \in Stored \/ \E j \in QueuedRows : y[1] \in DOMAIN writer_queue[j].evaluations
        BY <4>2 DEF HasRow, Row
      <4>4. \A j \in QueuedRows : j <= i
        BY <1>3, <2>2
      <4> QED  BY <1>1, <1>3, <4>3, <4>4
    <3> QED  BY <3>3, <3>4
  <2> QED  BY <1>2, <2>1, <2>2
<1> QED  BY <1>1, <1>10, <1>11 DEF FollowInv

\* Every step makes rows once, and labels after their evaluation.
LEMMA OnceNext ==
  ASSUME Bounds, Typed, Typed', RowsAreMadeOnce, FollowInv, ProgressInv, [Next]_vars
  PROVE  RowsAreMadeOnce' /\ FollowInv'
<1>1. CASE Start \/ Stop \/ TimePasses \/ Receive \/ Pause \/ Sealed \/ Analyse \/ UNCHANGED vars
  BY <1>1, QuietSteps, SameRows
<1>2. CASE Crash
  <2>1. writer_queue' = <<>> /\ dataset' = dataset
    BY <1>2 DEF Crash
  <2>2. QueuedRows' = {}
    BY <2>1 DEF QueuedRows
  <2>3. Stored' = Stored /\ \A s : Labelled(s)' = Labelled(s)
    BY <2>1 DEF Stored, Labelled
  <2> QED  BY <2>2, <2>3 DEF RowsAreMadeOnce, FollowInv
<1>3. CASE Write
  BY <1>3, WriteOnce
<1>4. CASE Work
  BY <1>4, WorkOnce
<1> QED  BY <1>1, <1>2, <1>3, <1>4 DEF Next


-----------------------------------------------------------------------------
(* The collector knows what is made *)

\* A start takes up what the tables hold, the queue being empty.
LEMMA StartProgress ==
  ASSUME Bounds, Typed, Typed', ProgressInv, SealInv, Start
  PROVE  ProgressInv'
<1>1. writer_queue = <<>> /\ dataset' = dataset /\ now' = now /\ writer_queue' = writer_queue
  BY DEF Start, SealInv
<1>2. QueuedRows = {} /\ QueuedRows' = {}
  BY <1>1 DEF QueuedRows
<1>3. Stored' = Stored /\ \A s : Labelled(s)' = Labelled(s)
  BY <1>1 DEF Stored, Labelled
<1>4. \A s, e : Row(s, e)' <=> s \in Stored /\ e = dataset.evaluations[s]
  BY <1>1, <1>2, <1>3 DEF Row
<1>5. \A s, h : HasLab(s, h)' <=> h \in Labelled(s)
  BY <1>1, <1>2, <1>3 DEF HasLab, Lab
<1>6. \A s : HasRow(s)' <=> s \in Stored
  BY <1>4 DEF HasRow
<1>7. \A s \in Stored : HasRow(s) /\ s \in Slot
  BY DEF HasRow, Row, Stored
<1>8. LastSlot \in Stored \cup {-1} /\ \A s \in Stored : s <= LastSlot
  BY LastSlotFits
<1>9. collector'.last_slot = LastSlot
  BY Recovered
<1>10. \A s \in Slot : /\ collector'.pending[s] = IF s \in Unfinished THEN dataset.evaluations[s] ELSE None
                       /\ collector'.completed[s] = IF s \in Unfinished THEN Labelled(s) ELSE {}
  BY Recovered
<1>11. ASSUME NEW s \in Slot PROVE SlotInv(s)'
  <2>1. CASE s \in Unfinished
    <3>1. s \in Stored /\ dataset.evaluations[s] # None
      BY <2>1 DEF Unfinished, Stored
    <3>2. collector'.pending[s] = dataset.evaluations[s] /\ collector'.completed[s] = Labelled(s)
      BY <1>10, <2>1
    <3> QED  BY <1>4, <1>5, <3>1, <3>2 DEF SlotInv
  <2>2. CASE s \notin Unfinished
    <3>1. collector'.pending[s] = None /\ collector'.completed[s] = {}
      BY <1>10, <2>2
    <3>2. s \in Stored => Labelled(s) = Horizons
      BY <2>2 DEF Unfinished
    <3> QED  BY <1>5, <1>6, <3>1, <3>2 DEF SlotInv
  <2> QED  BY <2>1, <2>2
<1>12. LastSlot <= now \div Every
  <2>1. now \div Every \in Nat
    BY SlotOfNow
  <2>2. CASE LastSlot = -1
    BY <2>1, <2>2
  <2>3. CASE LastSlot \in Stored
    BY <1>7, <2>3 DEF ProgressInv
  <2> QED  BY <1>8, <2>2, <2>3
<1>13. \A s \in Stored : s <= now \div Every
  BY <1>7 DEF ProgressInv
<1> HIDE DEF LastSlot
<1> QED  BY <1>1, <1>6, <1>8, <1>9, <1>11, <1>12, <1>13 DEF ProgressInv

\* An iteration of the clock records in the collector what it queues.
LEMMA WorkProgress ==
  ASSUME Bounds, Typed, Typed', FollowInv, ProgressInv, Work
  PROVE  ProgressInv'
<1>1. /\ loop.pc = "running" /\ now' = now
      /\ collector'.last_slot \in {collector.last_slot} \cup Evaluated
      /\ \A s \in {collector.last_slot} \cup Evaluated : s <= collector'.last_slot
  BY Worked
<1>2. \A s \in Slot : /\ collector'.pending[s] = IF s \in StillPending THEN Pending[s] ELSE None
                      /\ collector'.completed[s] = IF s \in StillPending THEN Completed(s) ELSE {}
  BY Worked
<1>3. \A s, e : Row(s, e)' <=> Row(s, e) \/ (s \in Evaluated /\ e = NewEvaluation)
  BY WorkMakesRows
<1>4. \A s, h, l : Lab(s, h, l)' <=> \/ Lab(s, h, l)
                                     \/ <<s, h>> \in Resolved /\ l = NewLabel(Pending[s], h)
  BY WorkMakesRows
<1>5. \A s : HasRow(s)' <=> HasRow(s) \/ s \in Evaluated
  BY <1>3 DEF HasRow
<1>6. \A s, h : HasLab(s, h)' <=> HasLab(s, h) \/ <<s, h>> \in Resolved
  BY <1>4 DEF HasLab
<1>7. \A s \in Evaluated : ~ HasRow(s) /\ collector.completed[s] = {} /\ \A h : ~ HasLab(s, h)
  BY <1>1, NewRowsAreNew
<1>8. \A s \in Slot : SlotInv(s) /\ (HasRow(s) => s <= collector.last_slot)
  BY <1>1 DEF ProgressInv
<1>9. NewEvaluation # None /\ Evaluated \subseteq Slot
  BY NewRowsFit DEF Bounds
<1>10. \A s \in Slot : Pending[s] = IF s \in Evaluated THEN NewEvaluation ELSE collector.pending[s]
  BY DEF Pending
<1>11. ASSUME NEW s \in Slot, Pending[s] # None
       PROVE  /\ \A e : e = Pending[s] => Row(s, e)'
              /\ \A h \in Horizons : h \in Completed(s) <=> HasLab(s, h)'
  <2>1. \A h \in Horizons : h \in Completed(s) <=> h \in collector.completed[s] \/ <<s, h>> \in Resolved
    BY DEF Completed
  <2>2. CASE s \in Evaluated
    <3>1. \A e : e = Pending[s] => Row(s, e)'
      BY <1>3, <1>10, <2>2
    <3>2. \A h \in Horizons : h \in Completed(s) <=> HasLab(s, h)'
      BY <1>6, <1>7, <2>1, <2>2
    <3> QED  BY <3>1, <3>2
  <2>3. CASE s \notin Evaluated
    <3>1. collector.pending[s] # None /\ Pending[s] = collector.pending[s]
      BY <1>10, <1>11, <2>3
    <3>2. Row(s, Pending[s]) /\ \A h \in Horizons : h \in collector.completed[s] <=> HasLab(s, h)
      BY <1>8, <3>1 DEF SlotInv
    <3>3. \A e : e = Pending[s] => Row(s, e)'
      BY <1>3, <3>1, <3>2
    <3> QED  BY <1>6, <2>1, <3>2, <3>3
  <2> QED  BY <2>2, <2>3
<1>12. ASSUME NEW s \in Slot PROVE SlotInv(s)'
  <2>1. CASE s \in StillPending
    <3>1. Pending[s] # None /\ collector'.pending[s] = Pending[s] /\ collector'.completed[s] = Completed(s)
      BY <1>2, <2>1 DEF StillPending
    <3>2. /\ Row(s, collector.pending[s])'
          /\ \A h \in Horizons : h \in collector'.completed[s] <=> HasLab(s, h)'
      BY <1>11, <3>1
    <3> QED  BY <3>1, <3>2 DEF SlotInv
  <2>2. CASE s \notin StillPending
    <3>1. collector'.pending[s] = None /\ collector'.completed[s] = {}
      BY <1>2, <2>2
    <3>2. ASSUME HasRow(s)' PROVE \A h \in Horizons : HasLab(s, h)'
      <4>1. CASE Pending[s] = None
        <5>1. s \notin Evaluated /\ collector.pending[s] = None
          BY <1>9, <1>10, <4>1
        <5>2. HasRow(s)
          BY <1>5, <3>2, <5>1
        <5> QED  BY <1>6, <1>8, <5>1, <5>2 DEF SlotInv
      <4>2. CASE Pending[s] # None
        <5>1. Completed(s) = Horizons
          BY <2>2, <4>2 DEF StillPending
        <5> QED  BY <1>11, <4>2, <5>1
      <4> QED  BY <4>1, <4>2
    <3> QED  BY <3>1, <3>2 DEF SlotInv
  <2> QED  BY <2>1, <2>2
<1>13. \A s \in Evaluated : s = now \div Every
  BY DEF Evaluated
<1>14. collector'.last_slot <= now \div Every
  <2>1. CASE collector'.last_slot = collector.last_slot
    BY <2>1 DEF ProgressInv
  <2>2. CASE collector'.last_slot \in Evaluated
    <3>1. now \div Every \in Nat
      BY SlotOfNow
    <3> QED  BY <1>13, <2>2, <3>1
  <2> QED  BY <1>1, <2>1, <2>2
<1>15. ASSUME NEW s \in Slot, HasRow(s)' PROVE s <= now \div Every /\ s <= collector'.last_slot
  <2>1. CASE s \in Evaluated
    <3>1. s \in Int
      BY Scales DEF Slot
    <3> QED  BY <1>1, <1>13, <2>1, <3>1
  <2>2. CASE s \notin Evaluated
    <3>1. HasRow(s)
      BY <1>5, <1>15, <2>2
    <3>2. s <= collector.last_slot /\ s <= now \div Every
      BY <1>8, <3>1 DEF ProgressInv
    <3>3. collector.last_slot \in Int /\ collector'.last_slot \in Int /\ s \in Int
      <4>1. Slot \subseteq Int
        BY DEF Slot
      <4>2. collector.last_slot \in Slot \cup {-1}
        BY Fields
      <4>3. -1 \in Int
        OBVIOUS
      <4>4. collector.last_slot \in Int
        BY ONLY <4>1, <4>2, <4>3
      <4> QED  BY <1>1, <1>9, <4>1, <4>4
    <3>4. collector.last_slot <= collector'.last_slot
      BY <1>1
    <3> QED  BY ONLY <3>2, <3>3, <3>4
  <2> QED  BY <2>1, <2>2
<1> QED  BY <1>1, <1>12, <1>14, <1>15 DEF ProgressInv

\* After every step the collector knows what is made.
LEMMA ProgressNext ==
  ASSUME Bounds, Typed, Typed', RowsAreMadeOnce, FollowInv, ProgressInv, SealInv, [Next]_vars
  PROVE  ProgressInv'
<1>1. CASE Start
  BY <1>1, StartProgress
<1>2. CASE Stop \/ TimePasses \/ Receive \/ Pause \/ Sealed \/ Analyse \/ UNCHANGED vars
  <2>1. /\ collector'.pending = collector.pending /\ collector'.completed = collector.completed
        /\ collector'.last_slot = collector.last_slot
        /\ loop'.pc # "down" => loop.pc # "down"
        /\ now' = now \/ now' = now + 1
    <3>1. CASE Receive
      <4>1. \E epoch, quote : collector' = [collector EXCEPT !.epoch = epoch, !.history = @ \cup {quote}]
        BY <3>1, Received DEF Reception
      <4> QED  BY <3>1, <4>1, Fields DEF Receive
    <3>2. CASE Pause
      BY <3>2, Paused
    <3>3. CASE Stop \/ TimePasses \/ Sealed \/ Analyse \/ UNCHANGED vars
      BY <3>3, Fields DEF Stop, TimePasses, Sealed, Analyse, vars, memory
    <3> QED  BY <1>2, <3>1, <3>2, <3>3
  <2>2. now <= now'
    <3>1. now \in Nat
      BY SlotOfNow
    <3> QED  BY <2>1, <3>1
  <2>3. (\A s, e : Row(s, e)' <=> Row(s, e)) /\ \A s \in Slot : \A h, l : Lab(s, h, l)' <=> Lab(s, h, l)
    BY <1>2, QuietSteps, SameRows
  <2> QED  BY <2>1, <2>2, <2>3, SameProgress
<1>3. CASE Crash
  <2>1. /\ writer_queue' = <<>> /\ dataset' = dataset /\ now' = now
        /\ collector' = NewCollector /\ loop'.pc = "down"
    BY <1>3 DEF Crash
  <2>2. QueuedRows' = {} /\ Stored' = Stored
    BY <2>1 DEF QueuedRows, Stored
  <2>3. \A s : HasRow(s)' => HasRow(s)
    BY <2>1, <2>2 DEF HasRow, Row
  <2>4. now \div Every \in Nat /\ collector'.last_slot = -1
    BY <2>1, SlotOfNow DEF NewCollector
  <2> QED  BY <2>1, <2>3, <2>4 DEF ProgressInv
<1>4. CASE Write
  <2>1. UNCHANGED <<now, collector, loop>>
    BY <1>4 DEF Write
  <2>2. now <= now'
    <3>1. now \in Nat
      BY SlotOfNow
    <3> QED  BY <2>1, <3>1
  <2>3. (\A s, e : Row(s, e)' <=> Row(s, e)) /\ \A s \in Slot : \A h, l : Lab(s, h, l)' <=> Lab(s, h, l)
    BY <1>4, WriteMovesRows
  <2> QED  BY <2>1, <2>2, <2>3, SameProgress
<1>5. CASE Work
  BY <1>5, WorkProgress
<1> QED  BY <1>1, <1>2, <1>3, <1>4, <1>5 DEF Next


-----------------------------------------------------------------------------
(* Quotes and breaks *)

\* After every step the quotes of an epoch have no break between them.
LEMMA QuotesNext ==
  ASSUME Bounds, Typed, Typed', SealInv, QuotesInv, [Next]_vars
  PROVE  QuotesInv'
<1>1. CASE Start
  <2>1. collector'.history = {} /\ market' = market
    BY <1>1, Recovered DEF Start
  <2> QED  BY <2>1 DEF QuotesInv
<1>2. CASE Crash
  <2>1. collector'.history = {} /\ market' = market
    BY <1>2 DEF Crash, NewCollector
  <2> QED  BY <2>1 DEF QuotesInv
<1>3. CASE Receive
  <2>0. PICK broken \in BOOLEAN, id \in Id, epoch \in Nat, quote \in Quote :
           Reception(broken, id, epoch, quote)
    BY <1>3, Received
  <2>1. /\ faults' = faults /\ id = market.quotes + 1 /\ market'.quotes = id
        /\ epoch = IF broken THEN collector.epoch + 1 ELSE collector.epoch
        /\ quote = [id |-> id, at |-> now, epoch |-> <<faults, epoch>>]
        /\ market'.breaks = IF broken THEN market.breaks \cup {id} ELSE market.breaks
        /\ collector' = [collector EXCEPT !.epoch = epoch, !.history = @ \cup {quote}]
    BY ONLY <2>0 DEF Reception
  <2>2. /\ collector'.epoch = epoch /\ collector'.history = collector.history \cup {quote}
        /\ quote.id = id /\ quote.epoch = <<faults, epoch>>
    BY <2>1 DEF Typed
  <2>3. /\ market.quotes \in Int /\ id \in Int /\ collector.epoch \in Int /\ epoch \in Int
        /\ market.breaks \subseteq Int /\ \A q \in collector.history : q.id \in Int /\ q.epoch[2] \in Int
    BY <2>1, Fields DEF Id, Quote
  <2>4. /\ \A b \in market.breaks : b <= market.quotes
        /\ \A q \in collector.history :
              /\ q.epoch[1] = faults /\ q.epoch[2] <= collector.epoch /\ q.id <= market.quotes
              /\ q.epoch[2] = collector.epoch => \A b \in market.breaks : b <= q.id
        /\ \A q, r \in collector.history : q.epoch = r.epoch => Unbroken(q, r)
    BY DEF QuotesInv
  <2>5. \A b \in market'.breaks : b = id \/ (b \in market.breaks /\ b < id)
    BY <2>1, <2>3, <2>4
  <2>6. ASSUME NEW q \in collector.history, q.epoch[2] = epoch
        PROVE  market'.breaks = market.breaks /\ q.epoch[2] = collector.epoch
    <3>1. q.epoch[2] <= collector.epoch /\ q.epoch[2] \in Int
      BY <2>3, <2>4
    <3> QED  BY <2>1, <2>3, <2>6, <3>1
  <2>7. ASSUME NEW q \in collector'.history
        PROVE  /\ q.epoch[1] = faults' /\ q.epoch[2] <= collector'.epoch /\ q.id <= market'.quotes
               /\ q.epoch[2] = collector'.epoch => \A b \in market'.breaks : b <= q.id
    <3>1. CASE q = quote
      BY <2>1, <2>2, <2>3, <2>5, <3>1
    <3>2. CASE q \in collector.history
      <4>1. q.epoch[1] = faults /\ q.epoch[2] <= collector.epoch /\ q.id <= market.quotes
        BY <2>4, <3>2
      <4>2. q.epoch[2] <= epoch /\ q.id <= id
        BY <2>1, <2>3, <3>2, <4>1
      <4>3. q.epoch[2] = epoch => \A b \in market'.breaks : b <= q.id
        BY <2>4, <2>6, <3>2
      <4> QED  BY <2>1, <2>2, <4>1, <4>2, <4>3
    <3> QED  BY <2>2, <3>1, <3>2
  <2>8. ASSUME NEW q \in collector'.history, NEW r \in collector'.history, q.epoch = r.epoch
        PROVE  \A b \in market'.breaks : ~ (q.id < b /\ b <= r.id)
    <3>1. CASE q = quote
      <4>1. r.id <= id /\ r.id \in Int
        BY <2>1, <2>2, <2>3, <2>7
      <4> QED  BY <2>2, <2>3, <2>5, <3>1, <4>1
    <3>2. CASE q \in collector.history /\ r = quote
      <4>1. q.epoch[2] = epoch
        BY <2>2, <2>8, <3>2
      <4>2. \A b \in market'.breaks : b <= q.id /\ b \in Int
        BY <2>3, <2>4, <2>6, <3>2, <4>1
      <4> QED  BY <2>3, <3>2, <4>2
    <3>3. CASE q \in collector.history /\ r \in collector.history
      <4>1. \A b \in market.breaks : ~ (q.id < b /\ b <= r.id)
        BY <2>4, <2>8, <3>3 DEF Unbroken
      <4>2. r.id < id
        BY <2>1, <2>3, <2>4, <3>3
      <4> QED  BY <2>3, <2>5, <3>3, <4>1, <4>2
    <3> QED  BY <2>2, <3>1, <3>2, <3>3
  <2>9. \A b \in market'.breaks : b <= market'.quotes
    BY <2>1, <2>3, <2>5
  <2>10. \A q, r \in collector'.history : q.epoch = r.epoch => Unbroken(q, r)'
    BY <2>8 DEF Unbroken
  <2> HIDE DEF QuotesInv
  <2> QED  BY ONLY <2>7, <2>9, <2>10 DEF QuotesInv
<1>4. CASE Stop \/ TimePasses \/ Pause \/ Work \/ Sealed \/ Write \/ Analyse \/ UNCHANGED vars
  <2>1. /\ market' = market /\ faults' = faults
        /\ collector'.history = collector.history /\ collector'.epoch = collector.epoch
    <3>1. CASE Work
      BY <3>1, Worked
    <3>2. CASE Pause
      BY <3>2, Paused
    <3>3. CASE Stop \/ TimePasses \/ Sealed \/ Write \/ Analyse \/ UNCHANGED vars
      BY <3>3 DEF Stop, TimePasses, Sealed, Write, Analyse, vars, memory
    <3> QED  BY <1>4, <3>1, <3>2, <3>3
  <2>2. \A q, r : Unbroken(q, r)' <=> Unbroken(q, r)
    BY <2>1 DEF Unbroken
  <2> QED  BY <2>1, <2>2 DEF QuotesInv
<1> QED  BY <1>1, <1>2, <1>3, <1>4 DEF Next

-----------------------------------------------------------------------------
(* What the rows say *)

\* A row that is there after a step other than an iteration of the clock was
\* there before.
LEMMA OtherRows ==
  ASSUME Bounds, Typed, Typed', RowsAreMadeOnce, [Next]_vars, ~ Work
  PROVE  /\ \A s, e : Row(s, e)' => Row(s, e)
         /\ \A s \in Slot : \A h, l : Lab(s, h, l)' => Lab(s, h, l)
<1>1. CASE Start \/ Stop \/ TimePasses \/ Receive \/ Pause \/ Sealed \/ Analyse \/ UNCHANGED vars
  BY <1>1, QuietSteps, SameRows
<1>2. CASE Crash
  <2>1. writer_queue' = <<>> /\ dataset' = dataset
    BY <1>2 DEF Crash
  <2>2. QueuedRows' = {}
    BY <2>1 DEF QueuedRows
  <2>3. Stored' = Stored /\ \A s : Labelled(s)' = Labelled(s)
    BY <2>1 DEF Stored, Labelled
  <2> QED  BY <2>1, <2>2, <2>3 DEF Row, Lab
<1>3. CASE Write
  BY <1>3, WriteMovesRows
<1> QED  BY <1>1, <1>2, <1>3 DEF Next

\* What is known of a quote stays known, and a break comes behind every quote.
LEMMA KnownStays ==
  ASSUME Bounds, Typed, Typed', SealInv, [Next]_vars
  PROVE  /\ \A q \in Quote : Known(q) => Known(q)'
         /\ \A b \in market'.breaks : b \in market.breaks \/ market.quotes < b
<1>1. CASE Start
  <2>1. collector.history = {} /\ market' = market /\ faults' = faults
    BY <1>1 DEF Start, SealInv, NewCollector
  <2> QED  BY <2>1 DEF Known
<1>2. CASE Crash
  <2>1. market' = market /\ faults' = faults + 1 /\ faults \in Int
    BY <1>2, Fields DEF Crash
  <2>2. \A q \in Quote : q.epoch[1] \in Int
    BY DEF Quote
  <2> QED  BY <2>1, <2>2 DEF Known
<1>3. CASE Receive
  <2>1. /\ faults' = faults /\ market'.quotes = market.quotes + 1
        /\ collector.history \subseteq collector'.history
        /\ \A b \in market'.breaks : b \in market.breaks \/ b = market.quotes + 1
    <3>1. PICK broken \in BOOLEAN, id \in Id, epoch \in Nat, quote \in Quote :
             Reception(broken, id, epoch, quote)
      BY <1>3, Received
    <3>2. /\ faults' = faults /\ id = market.quotes + 1 /\ market'.quotes = id
          /\ market'.breaks = IF broken THEN market.breaks \cup {id} ELSE market.breaks
          /\ collector' = [collector EXCEPT !.epoch = epoch, !.history = @ \cup {quote}]
      BY ONLY <3>1 DEF Reception
    <3>3. collector'.history = collector.history \cup {quote}
      BY <3>2 DEF Typed
    <3> QED  BY <3>2, <3>3
  <2>2. market.quotes \in Int /\ \A q \in Quote : q.id \in Int
    BY Fields DEF Quote, Id
  <2> QED  BY <2>1, <2>2 DEF Known
<1>4. CASE Stop \/ TimePasses \/ Pause \/ Work \/ Sealed \/ Write \/ Analyse \/ UNCHANGED vars
  <2>1. market' = market /\ faults' = faults /\ collector'.history = collector.history
    <3>1. CASE Work
      BY <3>1, Worked
    <3>2. CASE Pause
      BY <3>2, Paused
    <3>3. CASE Stop \/ TimePasses \/ Sealed \/ Write \/ Analyse \/ UNCHANGED vars
      BY <3>3 DEF Stop, TimePasses, Sealed, Write, Analyse, vars, memory
    <3> QED  BY <1>4, <3>1, <3>2, <3>3
  <2> QED  BY <2>1 DEF Known
<1> QED  BY <1>1, <1>2, <1>3, <1>4 DEF Next


\* The steps that make no rows.
LEMMA KeptRows ==
  ASSUME Bounds, Typed, Typed', SealInv, RowsAreMadeOnce, RowsInv, [Next]_vars, ~ Work
  PROVE  RowsInv'
<1>1. /\ \A s, e : Row(s, e)' => Row(s, e)
      /\ \A s \in Slot : \A h, l : Lab(s, h, l)' => Lab(s, h, l)
  BY OtherRows
<1>2. /\ \A q \in Quote : Known(q) => Known(q)'
      /\ \A b \in market'.breaks : b \in market.breaks \/ market.quotes < b
  BY KnownStays
<1>3. \A s \in Slot : \A e : Row(s, e) => /\ e.entry # None => Known(e.entry)'
                                          /\ e.fresh => e.entry # None
  BY <1>2, OldRows
<1>4. \A s \in Slot, h \in Horizons : \A l : Lab(s, h, l) /\ l.exit # None => Known(l.exit)'
  BY <1>2, OldRows
<1>5. \A s \in Slot, h \in Horizons : \A e, l :
         Row(s, e) /\ Lab(s, h, l) /\ l.complete =>
             e.entry # None /\ l.exit # None /\ Unbroken(e.entry, l.exit)'
  BY <1>2, OldRows
<1>6. \A s \in Slot : \A e : Row(s, e)' => /\ e.entry # None => Known(e.entry)'
                                           /\ e.fresh => e.entry # None
  BY <1>1, <1>3
<1>7. \A s \in Slot, h \in Horizons : \A l : Lab(s, h, l)' /\ l.exit # None => Known(l.exit)'
  BY <1>1, <1>4
<1>8. \A s \in Slot, h \in Horizons : \A e, l :
         Row(s, e)' /\ Lab(s, h, l)' /\ l.complete =>
             e.entry # None /\ l.exit # None /\ Unbroken(e.entry, l.exit)'
  BY <1>1, <1>5
<1> QED  BY ONLY <1>6, <1>7, <1>8 DEF RowsInv

\* An iteration of the clock: the label of an evaluation is complete if the two
\* quotes are of one epoch, so both are of this process.
LEMMA WorkRows ==
  ASSUME Bounds, Typed, Typed', SealInv, RowsAreMadeOnce, RowsAreMadeOnce', FollowInv, ProgressInv,
         QuotesInv, RowsInv, Work
  PROVE  RowsInv'
<1>1. /\ loop.pc = "running" /\ market' = market /\ faults' = faults
      /\ collector'.history = collector.history
  BY Worked
<1>2. \A s, e : Row(s, e)' <=> Row(s, e) \/ (s \in Evaluated /\ e = NewEvaluation)
  BY WorkMakesRows
<1>3. \A s, h, l : Lab(s, h, l)' <=> \/ Lab(s, h, l)
                                     \/ <<s, h>> \in Resolved /\ l = NewLabel(Pending[s], h)
  BY WorkMakesRows
<1>4. \A s \in Evaluated : \A h : ~ HasLab(s, h)
  BY <1>1, NewRowsAreNew
<1>5. /\ \A q : Known(q)' <=> Known(q)
      /\ \A q, r : Unbroken(q, r)' <=> Unbroken(q, r)
  BY <1>1 DEF Known, Unbroken
<1>6. ASSUME NEW q \in collector.history
      PROVE  Known(q) /\ q # None /\ q \in Quote
  BY Fields DEF QuotesInv, Known, Bounds
<1>7. \A t : QuoteAt(t) # None => QuoteAt(t) \in collector.history
  BY QuoteAtFinds
<1>8. /\ NewEvaluation.entry = QuoteAt(now)
      /\ NewEvaluation.fresh => QuoteAt(now) # None
  BY DEF NewEvaluation, Fresh
<1>9. ASSUME NEW s \in Slot, NEW e, Row(s, e)'
      PROVE  (e.entry # None => Known(e.entry)) /\ (e.fresh => e.entry # None)
  <2>1. CASE Row(s, e)
    BY <2>1 DEF RowsInv
  <2>2. CASE e = NewEvaluation
    BY <1>6, <1>7, <1>8, <2>2
  <2> QED  BY <1>2, <1>9, <2>1, <2>2
<1>10. \A e, h : /\ NewLabel(e, h).exit = QuoteAt(e.at + h)
                 /\ NewLabel(e, h).complete => /\ e.fresh /\ QuoteAt(e.at + h) # None
                                               /\ e.entry.epoch = QuoteAt(e.at + h).epoch
  BY DEF NewLabel, Fresh, SameEpoch
<1>11. ASSUME NEW s \in Slot, NEW h \in Horizons, NEW l, Lab(s, h, l)', l.exit # None
       PROVE  Known(l.exit)
  <2>1. CASE Lab(s, h, l)
    BY <1>11, <2>1 DEF RowsInv
  <2>2. CASE l = NewLabel(Pending[s], h)
    BY <1>6, <1>7, <1>10, <1>11, <2>2
  <2> QED  BY <1>3, <1>11, <2>1, <2>2
<1>12. ASSUME NEW s \in Slot, NEW h \in Horizons, <<s, h>> \in Resolved, NEW e, Row(s, e)'
       PROVE  e = Pending[s]
  <2>1. Pending[s] # None
    BY <1>12 DEF Resolved
  <2>2. Pending[s] = IF s \in Evaluated THEN NewEvaluation ELSE collector.pending[s]
    BY DEF Pending
  <2>3. CASE s \in Evaluated
    <3>1. ~ HasRow(s)
      BY <1>1, <2>3, NewRowsAreNew
    <3> QED  BY <1>2, <1>12, <2>2, <2>3, <3>1 DEF HasRow
  <2>4. CASE s \notin Evaluated
    <3>1. Row(s, Pending[s])
      BY <1>1, <2>1, <2>2, <2>4 DEF ProgressInv, SlotInv
    <3> QED  BY <1>2, <1>12, <2>4, <3>1, OneRow
  <2> QED  BY <2>3, <2>4
<1>13. ASSUME NEW s \in Slot, NEW h \in Horizons, NEW e, NEW l, Row(s, e)', Lab(s, h, l)', l.complete
       PROVE  e.entry # None /\ l.exit # None /\ Unbroken(e.entry, l.exit)
  <2>1. CASE Lab(s, h, l)
    <3>1. Row(s, e)
      BY <1>2, <1>4, <1>13, <2>1 DEF HasLab
    <3> QED  BY <1>13, <2>1, <3>1 DEF RowsInv
  <2>2. CASE <<s, h>> \in Resolved /\ l = NewLabel(Pending[s], h)
    <3>1. e = Pending[s]
      BY <1>12, <1>13, <2>2
    <3>2. /\ l.exit # None /\ l.exit = QuoteAt(e.at + h)
          /\ e.fresh /\ e.entry.epoch = l.exit.epoch
      BY <1>10, <1>13, <2>2, <3>1
    <3>3. l.exit \in collector.history
      BY <1>7, <3>2
    <3>4. e.entry # None /\ Known(e.entry)
      BY <1>9, <1>13, <3>2
    <3>5. e.entry.epoch[1] = faults
      BY <3>2, <3>3 DEF QuotesInv
    <3>6. e.entry \in collector.history
      BY <3>4, <3>5 DEF Known
    <3> QED  BY <3>2, <3>3, <3>4, <3>6 DEF QuotesInv
  <2> QED  BY <1>3, <1>13, <2>1, <2>2
<1>14. \A s \in Slot : \A e : Row(s, e)' => /\ e.entry # None => Known(e.entry)'
                                            /\ e.fresh => e.entry # None
  BY <1>5, <1>9
<1>15. \A s \in Slot, h \in Horizons : \A l : Lab(s, h, l)' /\ l.exit # None => Known(l.exit)'
  BY <1>5, <1>11
<1>16. \A s \in Slot, h \in Horizons : \A e, l :
         Row(s, e)' /\ Lab(s, h, l)' /\ l.complete =>
             e.entry # None /\ l.exit # None /\ Unbroken(e.entry, l.exit)'
  BY <1>5, <1>13
<1> QED  BY ONLY <1>14, <1>15, <1>16 DEF RowsInv

-----------------------------------------------------------------------------
(* The tape *)

\* Every step keeps the quotes of this process on the tape or on their way there.
LEMMA TapeNext ==
  ASSUME Bounds, Typed, Typed', SealInv, TapeInv, [Next]_vars
  PROVE  TapeInv'
<1>1. CASE Start
  <2>1. collector'.history = {}
    BY <1>1, Recovered
  <2> QED  BY <2>1 DEF TapeInv
<1>2. CASE Crash
  <2>1. collector'.history = {}
    BY <1>2 DEF Crash, NewCollector
  <2> QED  BY <2>1 DEF TapeInv
<1>3. CASE Receive
  <2>0. PICK broken \in BOOLEAN, id \in Id, epoch \in Nat, quote \in Quote :
           Reception(broken, id, epoch, quote)
    BY <1>3, Received
  <2>1. /\ dataset' = dataset
        /\ quote = [id |-> id, at |-> now, epoch |-> <<faults, epoch>>]
        /\ collector' = [collector EXCEPT !.epoch = epoch, !.history = @ \cup {quote}]
        /\ \/ /\ source_batch' = {}
              /\ writer_queue' = Append(writer_queue, Tape(source_batch \cup {id}))
           \/ source_batch' = source_batch \cup {id} /\ writer_queue' = writer_queue
    BY ONLY <2>0 DEF Reception
  <2>2. collector'.history = collector.history \cup {quote} /\ quote.id = id
    BY <2>1 DEF Typed
  <2>3. CASE source_batch' = source_batch \cup {id} /\ writer_queue' = writer_queue
    BY <2>1, <2>2, <2>3 DEF TapeInv
  <2>4. CASE writer_queue' = Append(writer_queue, Tape(source_batch \cup {id}))
    <3> DEFINE n == Len(writer_queue)
               x == Tape(source_batch \cup {id})
    <3>1. /\ n \in Nat /\ Len(writer_queue') = n + 1 /\ writer_queue'[n + 1] = x
          /\ \A i \in 1..n : writer_queue'[i] = writer_queue[i]
      <4>1. x \in Item
        BY Fields DEF Tape, Item, TapeItem
      <4>2. writer_queue \in Seq(Item) /\ writer_queue' = Append(writer_queue, x)
        BY <2>4, Fields
      <4> HIDE DEF x
      <4> QED  BY ONLY <4>1, <4>2, AppendProperties, LenProperties
    <3>2. x.kind = "tape" /\ x.ids = source_batch \cup {id}
      BY DEF Tape
    <3> HIDE DEF n, x
    <3>3. n + 1 \in 1..Len(writer_queue') /\ \A i \in 1..n : i \in 1..Len(writer_queue')
      BY <3>1
    <3>4. ASSUME NEW q \in collector'.history
          PROVE  \/ q.id \in dataset'.tape
                 \/ \E i \in 1..Len(writer_queue') :
                       writer_queue'[i].kind = "tape" /\ q.id \in writer_queue'[i].ids
      <4>1. CASE q = quote \/ q.id \in source_batch
        BY <2>2, <3>1, <3>2, <3>3, <4>1
      <4>2. CASE q.id \in dataset.tape
        BY <2>1, <4>2
      <4>3. ASSUME NEW i \in 1..n, writer_queue[i].kind = "tape", q.id \in writer_queue[i].ids
            PROVE  \E j \in 1..Len(writer_queue') :
                      writer_queue'[j].kind = "tape" /\ q.id \in writer_queue'[j].ids
        BY <3>1, <3>3, <4>3
      <4>4. q = quote \/ q \in collector.history
        BY <2>2
      <4>5. q \in collector.history => \/ q.id \in dataset.tape \/ q.id \in source_batch
                                       \/ \E i \in 1..n : /\ writer_queue[i].kind = "tape"
                                                          /\ q.id \in writer_queue[i].ids
        BY DEF TapeInv, n
      <4> QED  BY <4>1, <4>2, <4>3, <4>4, <4>5
    <3> QED  BY <3>4 DEF TapeInv
  <2> QED  BY <2>1, <2>3, <2>4
<1>4. CASE Stop \/ TimePasses \/ Sealed \/ Analyse \/ UNCHANGED vars
  <2>1. /\ collector' = collector /\ source_batch' = source_batch /\ writer_queue' = writer_queue
        /\ dataset'.tape = dataset.tape
    BY <1>4, Fields DEF Stop, TimePasses, Sealed, Analyse, vars, memory, Typed
  <2> QED  BY <2>1 DEF TapeInv
<1>5. CASE Pause \/ Work
  <2> DEFINE r == writer_queue'
  <2>1. /\ collector'.history = collector.history /\ dataset' = dataset
        /\ \A i \in 1..Len(writer_queue) : i \in 1..Len(r) /\ r[i] = writer_queue[i]
        /\ \/ source_batch' = source_batch
           \/ source_batch = {}
           \/ \E i \in 1..Len(r) : r[i] = Tape(source_batch)
    <3>1. CASE Pause
      BY <3>1, Paused
    <3>2. CASE Work
      BY <3>2, Worked, WorkQueues
    <3> QED  BY <1>5, <3>1, <3>2
  <2>2. Tape(source_batch).kind = "tape" /\ Tape(source_batch).ids = source_batch
    BY DEF Tape
  <2> HIDE DEF r
  <2>3. ASSUME NEW q \in collector.history
        PROVE  \/ q.id \in dataset.tape \cup source_batch'
               \/ \E i \in 1..Len(r) : r[i].kind = "tape" /\ q.id \in r[i].ids
    <3>1. CASE q.id \in source_batch
      BY <2>1, <2>2, <3>1
    <3>2. ASSUME NEW i \in 1..Len(writer_queue), writer_queue[i].kind = "tape", q.id \in writer_queue[i].ids
          PROVE  \E j \in 1..Len(r) : r[j].kind = "tape" /\ q.id \in r[j].ids
      BY <2>1, <3>2
    <3> QED  BY <3>1, <3>2 DEF TapeInv
  <2> QED  BY <2>1, <2>3 DEF TapeInv, r
<1>6. CASE Write
  <2> DEFINE x == writer_queue[1]
             n == Len(writer_queue)
  <2>1. /\ n \in Nat \ {0} /\ x \in Item /\ Len(writer_queue') = n - 1
        /\ \A i \in 1..Len(writer_queue') : writer_queue'[i] = writer_queue[i + 1]
        /\ dataset' = Written(x)
    BY <1>6, Writes
  <2>2. /\ dataset.tape \subseteq dataset'.tape
        /\ x.kind = "tape" => x.ids \subseteq dataset'.tape
    BY <2>1, Kinds, WriteChanges
  <2>3. UNCHANGED <<collector, source_batch>>
    BY <1>6 DEF Write
  <2>4. ASSUME NEW q \in collector.history
        PROVE  \/ q.id \in dataset'.tape \cup source_batch
               \/ \E i \in 1..Len(writer_queue') :
                     writer_queue'[i].kind = "tape" /\ q.id \in writer_queue'[i].ids
    <3>1. ASSUME NEW i \in 1..n, writer_queue[i].kind = "tape", q.id \in writer_queue[i].ids
          PROVE  \/ q.id \in dataset'.tape
                 \/ \E j \in 1..Len(writer_queue') :
                       writer_queue'[j].kind = "tape" /\ q.id \in writer_queue'[j].ids
      <4>1. CASE i = 1
        BY <2>2, <3>1, <4>1
      <4>2. CASE i # 1
        <5>1. i - 1 \in 1..Len(writer_queue') /\ (i - 1) + 1 = i
          BY <2>1, <4>2
        <5> QED  BY <2>1, <3>1, <5>1
      <4> QED  BY <4>1, <4>2
    <3> QED  BY <2>2, <3>1 DEF TapeInv
  <2> QED  BY <2>3, <2>4 DEF TapeInv
<1> QED  BY <1>1, <1>2, <1>3, <1>4, <1>5, <1>6 DEF Next


-----------------------------------------------------------------------------
(* The seal *)

\* A start of a sealed dataset leaves it to the analysis.
LEMMA StartSeal ==
  ASSUME Bounds, Typed, Typed', SealInv, Start
  PROVE  SealInv'
<1>1. writer_queue' = <<>> /\ source_batch' = {} /\ dataset' = dataset
  BY DEF Start, SealInv
<1>2. loop'.pc = IF dataset.sealed THEN "archive" ELSE "running"
  BY Fields DEF Start, Typed
<1>3. Stored' = Stored /\ \A s : Labelled(s)' = Labelled(s)
  BY <1>1 DEF Stored, Labelled
<1>4. Len(writer_queue') = 0
  BY <1>1
<1>5. \A s \in Slot : collector'.pending[s] = IF s \in Unfinished THEN dataset.evaluations[s] ELSE None
  BY Recovered
<1>6. dataset.sealed => Unfinished = {}
  BY DEF Unfinished, SealInv
<1> QED  BY <1>1, <1>2, <1>3, <1>4, <1>5, <1>6 DEF SealInv, Seals

\* Quotes are received before the seal is queued.
LEMMA ReceiveSeal ==
  ASSUME Bounds, Typed, Typed', SealInv, Receive
  PROVE  SealInv'
<1>0. PICK broken \in BOOLEAN, id \in Id, epoch \in Nat, quote \in Quote :
         Reception(broken, id, epoch, quote)
  BY Received
<1>1. /\ loop.pc = "running" /\ loop' = loop /\ dataset' = dataset
      /\ \/ /\ source_batch' = {}
            /\ writer_queue' = Append(writer_queue, Tape(source_batch \cup {id}))
         \/ source_batch' = source_batch \cup {id} /\ writer_queue' = writer_queue
  BY ONLY <1>0 DEF Reception
<1>2. ~ dataset.sealed /\ \A i \in 1..Len(writer_queue) : ~ Seals(i)
  BY <1>1 DEF SealInv
<1>3. ASSUME NEW i \in 1..Len(writer_queue') PROVE ~ Seals(i)'
  <2>1. CASE writer_queue' = writer_queue
    BY <1>2, <2>1 DEF Seals
  <2>2. CASE writer_queue' = Append(writer_queue, Tape(source_batch \cup {id}))
    <3> DEFINE n == Len(writer_queue)
               x == Tape(source_batch \cup {id})
    <3>1. x \in Item /\ x.kind = "tape"
      BY Fields DEF Tape, Item, TapeItem
    <3>2. writer_queue \in Seq(Item) /\ writer_queue' = Append(writer_queue, x)
      BY <2>2, Fields
    <3> HIDE DEF x
    <3>3. /\ n \in Nat /\ Len(writer_queue') = n + 1 /\ writer_queue'[n + 1] = x
          /\ \A j \in 1..n : writer_queue'[j] = writer_queue[j]
      BY ONLY <3>1, <3>2, AppendProperties, LenProperties
    <3>4. i = n + 1 \/ i \in 1..n
      BY <3>3
    <3> QED  BY <1>2, <3>1, <3>3, <3>4 DEF Seals
  <2> QED  BY <1>1, <2>1, <2>2
<1> QED  BY <1>1, <1>2, <1>3 DEF SealInv

\* A stop adds a reason that is no seal, behind the seal if there is one.
LEMMA PauseSeal ==
  ASSUME Bounds, Typed, Typed', SealInv, Pause
  PROVE  SealInv'
<1> DEFINE q == writer_queue
           r == writer_queue'
<1>1. /\ Len(r) \in Nat /\ Len(q) \in Nat
      /\ \A i \in 1..Len(q) : i \in 1..Len(r) /\ r[i] = q[i]
      /\ \A i \in 1..Len(r) : i \notin 1..Len(q) =>
            \/ r[i] = Tape(source_batch) /\ source_batch # {}
            \/ r[i] = [kind |-> "quality", sealed |-> FALSE]
      /\ source_batch' = {} /\ loop'.pc = loop.pc /\ loop.pc \in {"running", "sealed"}
      /\ collector' = collector /\ dataset' = dataset
  BY Paused
<1>2. Stored' = Stored /\ \A s : Labelled(s)' = Labelled(s)
  BY <1>1 DEF Stored, Labelled
<1>3. ASSUME NEW i \in 1..Len(r), i \notin 1..Len(q)
      PROVE  ~ Seals(i)' /\ (source_batch = {} => r[i].kind = "quality")
  <2>1. \/ r[i] = Tape(source_batch) /\ source_batch # {}
        \/ r[i] = [kind |-> "quality", sealed |-> FALSE]
    BY <1>1, <1>3
  <2> QED  BY <2>1 DEF Seals, Tape
<1>4. \A i \in 1..Len(q) : Seals(i)' <=> Seals(i)
  BY <1>1 DEF Seals
<1>5. CASE loop.pc = "running"
  <2>1. ~ dataset.sealed /\ \A i \in 1..Len(q) : ~ Seals(i)
    BY <1>5 DEF SealInv
  <2>2. \A i \in 1..Len(r) : ~ Seals(i)'
    BY <1>3, <1>4, <2>1
  <2> QED  BY <1>1, <1>5, <2>1, <2>2 DEF SealInv
<1>6. CASE loop.pc = "sealed"
  <2>1. source_batch = {} /\ \A s \in Slot : collector.pending[s] = None
    BY <1>6 DEF SealInv
  <2>2. ASSUME NEW i \in 1..Len(r), NEW j \in 1..Len(r), Seals(i)', i < j PROVE r[j].kind = "quality"
    <3>1. CASE j \notin 1..Len(q)
      BY <1>3, <2>1, <3>1
    <3>2. CASE j \in 1..Len(q)
      <4>1. i \in 1..Len(q) /\ Seals(i)
        BY <1>3, <1>4, <2>2
      <4> QED  BY <1>1, <2>2, <3>2, <4>1 DEF SealInv
    <3> QED  BY <3>1, <3>2
  <2>3. ASSUME dataset.sealed, NEW j \in 1..Len(r) PROVE r[j].kind = "quality"
    BY <1>1, <1>3, <2>1, <2>3 DEF SealInv
  <2>4. dataset.sealed => \A s \in Stored : Labelled(s) = Horizons
    BY DEF SealInv
  <2> HIDE DEF q
  <2> QED  BY <1>1, <1>2, <1>6, <2>1, <2>2, <2>3, <2>4 DEF SealInv
<1> QED  BY <1>1, <1>5, <1>6

\* The iteration that queues the seal leaves nothing pending.
LEMMA WorkSeal ==
  ASSUME Bounds, Typed, Typed', SealInv, Work
  PROVE  SealInv'
<1> DEFINE q == writer_queue
           r == writer_queue'
<1>1. /\ Len(r) \in Nat /\ Len(q) \in Nat
      /\ \A i \in 1..Len(q) : i \in 1..Len(r) /\ r[i] = q[i]
      /\ \A i \in 1..Len(r) : i \notin 1..Len(q) =>
            \/ i = Len(q) + 1 /\ r[i] = Rows
            \/ r[i] = Tape(source_batch)
            \/ /\ r[i] = [kind |-> "quality", sealed |-> TRUE] /\ i = Len(r)
               /\ loop'.pc = "sealing" /\ source_batch' = {} /\ StillPending = {}
      /\ \/ loop' = loop
         \/ /\ loop' = [loop EXCEPT !.pc = "sealing"]
            /\ source_batch' = {} /\ StillPending = {}
  BY WorkQueues
<1>2. loop.pc = "running" /\ dataset' = dataset
  BY Worked
<1>3. ~ dataset.sealed /\ \A i \in 1..Len(q) : ~ Seals(i)
  BY <1>2 DEF SealInv
<1>4. \A s \in Slot : collector'.pending[s] = IF s \in StillPending THEN Pending[s] ELSE None
  BY Worked
<1>5. ASSUME NEW i \in 1..Len(r), Seals(i)'
      PROVE  i = Len(r) /\ loop'.pc = "sealing"
  <2>1. CASE i \in 1..Len(q)
    BY <1>1, <1>3, <1>5, <2>1 DEF Seals
  <2>2. CASE i \notin 1..Len(q)
    <3>1. r[i] # Rows /\ r[i] # Tape(source_batch)
      BY <1>5 DEF Seals, Rows, Tape
    <3> QED  BY <1>1, <2>2, <3>1
  <2> QED  BY <2>1, <2>2
<1>6. \/ loop'.pc = "running"
      \/ loop'.pc = "sealing" /\ source_batch' = {} /\ StillPending = {}
  BY <1>1, <1>2 DEF Typed
<1>7. loop'.pc = "sealing" => \A s \in Slot : collector'.pending[s] = None
  BY <1>4, <1>6
<1>8. \A i, j \in 1..Len(r) : Seals(i)' /\ i < j => r[j].kind = "quality"
  BY <1>1, <1>5
<1>9. loop'.pc = "running" => \A i \in 1..Len(r) : ~ Seals(i)'
  BY <1>5
<1> HIDE DEF q
<1> QED  BY ONLY <1>2, <1>3, <1>6, <1>7, <1>8, <1>9 DEF SealInv

\* The seal is written when every row before it is.
LEMMA WriteSeal ==
  ASSUME Bounds, Typed, Typed', RowsAreMadeOnce, ProgressInv, SealInv, Write
  PROVE  SealInv'
<1> DEFINE x == writer_queue[1]
           n == Len(writer_queue)
<1>1. /\ n \in Nat \ {0} /\ x \in Item /\ Len(writer_queue') = n - 1
      /\ \A i \in 1..Len(writer_queue') : writer_queue'[i] = writer_queue[i + 1]
      /\ dataset' = Written(x)
  BY Writes
<1>2. UNCHANGED <<collector, loop, source_batch>> /\ loop.pc # "down"
  BY DEF Write
<1>3. ASSUME NEW i \in 1..Len(writer_queue')
      PROVE  /\ i + 1 \in 1..n /\ writer_queue'[i] = writer_queue[i + 1]
             /\ Seals(i)' <=> Seals(i + 1)
  BY <1>1 DEF Seals
<1>4. dataset'.sealed => dataset.sealed \/ Seals(1)
  <2>1. x.kind # "quality" => dataset'.sealed = dataset.sealed
    BY <1>1, Kinds, WriteChanges
  <2>2. x.kind = "quality" => dataset'.sealed = x.sealed
    BY <1>1, WriteChanges
  <2> QED  BY <2>1, <2>2 DEF Seals
<1>5. 1 \in 1..n
  BY <1>1
<1>6. \A i, j \in 1..n : Seals(i) /\ i < j => writer_queue[j].kind = "quality"
  BY DEF SealInv
<1>7. dataset.sealed => \A j \in 1..n : writer_queue[j].kind = "quality"
  BY DEF SealInv
<1>8. loop.pc = "running" => ~ dataset.sealed /\ ~ Seals(1)
  BY <1>5 DEF SealInv
<1>9. ASSUME loop.pc = "running" PROVE ~ dataset'.sealed /\ \A i \in 1..Len(writer_queue') : ~ Seals(i)'
  BY <1>3, <1>4, <1>8, <1>9 DEF SealInv
<1>10. ASSUME NEW i \in 1..Len(writer_queue'), NEW j \in 1..Len(writer_queue'), Seals(i)', i < j
       PROVE  writer_queue'[j].kind = "quality"
  <2>1. i + 1 < j + 1
    BY <1>10, <1>1
  <2> QED  BY <1>3, <1>6, <1>10, <2>1
<1>11. ASSUME dataset'.sealed
       PROVE  /\ \A j \in 1..Len(writer_queue') : writer_queue'[j].kind = "quality"
              /\ \A s \in Stored' : Labelled(s)' = Horizons
  <2>1. \A j \in 1..n : writer_queue[j].kind = "quality"
    <3>1. CASE dataset.sealed
      BY <1>7, <3>1
    <3>2. CASE Seals(1)
      <4>1. \A j \in 1..n : j = 1 \/ 1 < j
        BY <1>1
      <4> QED  BY <1>5, <1>6, <3>2, <4>1 DEF Seals
    <3> QED  BY <1>4, <1>11, <3>1, <3>2
  <2>2. loop.pc \in {"sealing", "sealed", "archive"}
    BY <1>2, <1>4, <1>8, <1>11, Fields
  <2>3. \A s \in Slot : collector.pending[s] = None
    BY <2>2 DEF SealInv
  <2>4. QueuedRows = {}
    BY <2>1 DEF QueuedRows
  <2>5. ASSUME NEW s \in Stored' PROVE Labelled(s)' = Horizons
    <3>1. s \in Slot /\ s \in Stored
      BY <2>4, <2>5, WriteMovesRows DEF Stored
    <3>2. HasRow(s)
      BY <3>1 DEF HasRow, Row
    <3>3. \A h \in Horizons : HasLab(s, h)
      BY <1>2, <2>3, <3>1, <3>2 DEF ProgressInv, SlotInv
    <3>4. \A h \in Horizons : h \in Labelled(s)
      BY <2>4, <3>3 DEF HasLab, Lab
    <3>5. \A h \in Horizons : h \in Labelled(s)'
      BY <3>1, <3>4, WriteMovesRows
    <3>6. Labelled(s)' \subseteq Horizons
      BY DEF Labelled
    <3> QED  BY <3>5, <3>6
  <2> QED  BY <1>3, <2>1, <2>5
<1>12. loop.pc \in {"sealing", "sealed", "archive"} =>
          source_batch = {} /\ \A s \in Slot : collector.pending[s] = None
  BY DEF SealInv
<1> HIDE DEF n, x
<1> QED  BY ONLY <1>2, <1>9, <1>10, <1>11, <1>12 DEF SealInv

\* After every step the seal comes last.
LEMMA SealNext ==
  ASSUME Bounds, Typed, Typed', RowsAreMadeOnce, ProgressInv, SealInv, [Next]_vars
  PROVE  SealInv'
<1>1. CASE Start
  BY <1>1, StartSeal
<1>2. CASE Crash
  <2>1. /\ writer_queue' = <<>> /\ source_batch' = {} /\ dataset' = dataset
        /\ collector' = NewCollector /\ loop'.pc = "down"
    BY <1>2 DEF Crash
  <2>2. Stored' = Stored /\ (\A s : Labelled(s)' = Labelled(s)) /\ NewCollector' = NewCollector
    BY <2>1 DEF Stored, Labelled, NewCollector, NoRows
  <2>3. Len(writer_queue') = 0
    BY <2>1
  <2> QED  BY <2>1, <2>2, <2>3 DEF SealInv, Seals
<1>3. CASE Receive
  BY <1>3, ReceiveSeal
<1>4. CASE Pause
  BY <1>4, PauseSeal
<1>5. CASE Work
  BY <1>5, WorkSeal
<1>6. CASE Write
  BY <1>6, WriteSeal
<1>7. CASE Stop \/ TimePasses \/ Sealed \/ Analyse \/ UNCHANGED vars
  <2>1. /\ collector' = collector /\ source_batch' = source_batch /\ writer_queue' = writer_queue
        /\ dataset'.evaluations = dataset.evaluations /\ dataset'.labels = dataset.labels
        /\ dataset'.sealed = dataset.sealed
        /\ loop'.pc = loop.pc \/ (loop.pc = "sealing" /\ loop'.pc = "sealed")
    BY <1>7, Fields DEF Stop, TimePasses, Sealed, Analyse, vars, memory, Typed
  <2>2. /\ Stored' = Stored /\ (\A s : Labelled(s)' = Labelled(s))
        /\ \A i : Seals(i)' <=> Seals(i)
    BY <2>1 DEF Stored, Labelled, Seals
  <2>3. NewCollector' = NewCollector
    BY DEF NewCollector, NoRows
  <2> QED  BY <2>1, <2>2, <2>3 DEF SealInv
<1> QED  BY <1>1, <1>2, <1>3, <1>4, <1>5, <1>6, <1>7 DEF Next

-----------------------------------------------------------------------------
(* Theorems *)

\* At the start nothing was received, made or stored.
LEMMA InvInit ==
  ASSUME Bounds, Init
  PROVE  Inv
<1>1. Typed
  BY TypedInit
<1>2. /\ writer_queue = <<>> /\ source_batch = {} /\ collector = NewCollector
      /\ loop.pc = "down" /\ now = 0 /\ market.quotes = 0 /\ market.breaks = {}
      /\ dataset.evaluations = NoRows /\ dataset.labels = [s \in Slot |-> Unlabelled]
      /\ dataset.sealed = FALSE
  BY DEF Init
<1>3. QueuedRows = {} /\ Len(writer_queue) = 0
  BY <1>2 DEF QueuedRows
<1>4. Stored = {} /\ \A s \in Slot : Labelled(s) = {}
  BY <1>2 DEF Stored, Labelled, NoRows, Unlabelled
<1>5. \A s, e : ~ Row(s, e)
  BY <1>3, <1>4 DEF Row
<1>6. \A s \in Slot : \A h, l : ~ Lab(s, h, l)
  BY <1>3, <1>4 DEF Lab
<1>7. collector.history = {} /\ collector.last_slot = -1
  BY <1>2 DEF NewCollector
<1>8. RowsAreMadeOnce /\ FollowInv
  BY <1>3, <1>4 DEF RowsAreMadeOnce, FollowInv
<1>9. ProgressInv
  <2>1. now \div Every \in Nat
    BY <1>1, SlotOfNow
  <2> QED  BY <1>2, <1>5, <1>7, <2>1 DEF ProgressInv, HasRow
<1>10. QuotesInv /\ TapeInv
  BY <1>2, <1>7 DEF QuotesInv, TapeInv
<1>11. RowsInv
  BY <1>5, <1>6 DEF RowsInv
<1>12. SealInv
  BY <1>2, <1>3, <1>4 DEF SealInv, Seals
<1> QED  BY <1>1, <1>8, <1>9, <1>10, <1>11, <1>12 DEF Inv

\* The invariant is inductive.
LEMMA InvNext ==
  ASSUME Bounds, Inv, [Next]_vars
  PROVE  Inv'
<1>1. /\ Typed /\ RowsAreMadeOnce /\ FollowInv /\ ProgressInv /\ QuotesInv /\ RowsInv
      /\ TapeInv /\ SealInv
  BY DEF Inv
<1>2. Typed'
  BY <1>1, TypedNext
<1>3. RowsAreMadeOnce' /\ FollowInv'
  BY <1>1, <1>2, OnceNext
<1>4. ProgressInv'
  BY <1>1, <1>2, ProgressNext
<1>5. QuotesInv'
  BY <1>1, <1>2, QuotesNext
<1>6. RowsInv'
  <2>1. CASE Work
    BY <1>1, <1>2, <1>3, <2>1, WorkRows
  <2>2. CASE ~ Work
    BY <1>1, <1>2, <2>2, KeptRows
  <2> QED  BY <2>1, <2>2
<1>7. TapeInv'
  BY <1>1, <1>2, TapeNext
<1>8. SealInv'
  BY <1>1, <1>2, SealNext
<1> QED  BY <1>2, <1>3, <1>4, <1>5, <1>6, <1>7, <1>8 DEF Inv

\* A stored label has its evaluation stored, so it is one of RowsInv.
LEMMA StoredLabels ==
  ASSUME Inv
  PROVE  LabelsAreContinuous
<1> SUFFICES ASSUME NEW s \in Slot, NEW h \in Horizons, dataset.labels[s][h] # None,
                    dataset.labels[s][h].complete
             PROVE  Unbroken(dataset.evaluations[s].entry, dataset.labels[s][h].exit)
  BY DEF LabelsAreContinuous, Unbroken
<1>1. h \in Labelled(s)
  BY DEF Labelled
<1>2. Lab(s, h, dataset.labels[s][h])
  BY <1>1 DEF Lab
<1>3. s \in Stored
  BY <1>1 DEF Inv, FollowInv
<1>4. Row(s, dataset.evaluations[s])
  BY <1>3 DEF Row
<1> QED  BY <1>2, <1>4 DEF Inv, RowsInv

\* What the seal leaves behind it.
LEMMA SealedDataset ==
  ASSUME Bounds, Inv
  PROVE  DatasetInv
<1>1. Typed /\ RowsInv /\ TapeInv /\ SealInv
  BY DEF Inv
<1>2. TypeOK
  BY <1>1, TypedIsTypeOK
<1>3. ASSUME dataset.sealed
      PROVE  /\ \A e \in Stored : Labelled(e) = Horizons
             /\ QueuedRows = {}
             /\ \A q \in Referenced : q.epoch[1] = faults => q.id \in dataset.tape
  <2>1. /\ \A j \in 1..Len(writer_queue) : writer_queue[j].kind = "quality"
        /\ \A s \in Stored : Labelled(s) = Horizons
    BY <1>1, <1>3 DEF SealInv
  <2>2. QueuedRows = {}
    BY <2>1 DEF QueuedRows
  <2>3. source_batch = {}
    BY <1>1, <1>3, Fields DEF SealInv
  <2>4. ASSUME NEW q \in Referenced PROVE Known(q)
    <3>1. CASE \E s \in Stored : q = dataset.evaluations[s].entry
      <4>1. PICK s \in Stored : q = dataset.evaluations[s].entry
        BY <3>1
      <4>2. s \in Slot /\ Row(s, dataset.evaluations[s]) /\ q # None
        BY DEF Row, Stored, Referenced
      <4> QED  BY <1>1, <4>1, <4>2 DEF RowsInv
    <3>2. CASE \E s \in Slot : \E h \in Labelled(s) : q = dataset.labels[s][h].exit
      <4>1. PICK s \in Slot : \E h \in Labelled(s) : q = dataset.labels[s][h].exit
        BY <3>2
      <4>2. PICK h \in Labelled(s) : q = dataset.labels[s][h].exit
        BY <4>1
      <4>3. h \in Horizons /\ Lab(s, h, dataset.labels[s][h]) /\ q # None
        BY DEF Lab, Labelled, Referenced
      <4> QED  BY <1>1, <4>2, <4>3 DEF RowsInv
    <3> QED  BY <3>1, <3>2 DEF Referenced
  <2>5. ASSUME NEW q \in Referenced, q.epoch[1] = faults PROVE q.id \in dataset.tape
    <3>1. q \in collector.history
      BY <2>4, <2>5 DEF Known
    <3>2. \A i \in 1..Len(writer_queue) : writer_queue[i].kind # "tape"
      BY <2>1
    <3> QED  BY <1>1, <2>3, <3>1, <3>2 DEF TapeInv
  <2> QED  BY <2>1, <2>2, <2>5
<1> QED  BY <1>2, <1>3 DEF DatasetInv

\* The inductive invariant: what the collector, the queue of the writer and the
\* tables hold fits together, over crashes and restarts.
THEOREM DatasetInvariant == Bounds => (Spec => []Inv)
<1> SUFFICES ASSUME Bounds PROVE Spec => []Inv
  OBVIOUS
<1>1. Init => Inv
  BY InvInit
<1>2. Inv /\ [Next]_vars => Inv'
  BY InvNext
<1> QED  BY <1>1, <1>2, PTL DEF Spec

\* No row is made twice: what is queued for the writer is neither stored nor
\* queued again, over restarts too (recover_pending, ShadowDatasetStore.write).
THEOREM MadeOnce == Bounds => (Spec => []RowsAreMadeOnce)
<1>1. Inv => RowsAreMadeOnce
  BY DEF Inv
<1> QED  BY <1>1, DatasetInvariant, PTL

\* A complete label spans no reset, gap, reconnection or restart (resolve).
THEOREM Continuous == Bounds => (Spec => []LabelsAreContinuous)
<1>1. Inv => LabelsAreContinuous
  BY StoredLabels
<1> QED  BY <1>1, DatasetInvariant, PTL

\* A sealed dataset lacks no label of an evaluation that was stored, no row is on
\* its way, and the quotes of its rows are on the tape, but for those of a process
\* that crashed (clock, update_quality, persist_tape).
THEOREM SealedIsFinished == Bounds => (Spec => []DatasetInv)
<1> SUFFICES ASSUME Bounds PROVE Spec => []DatasetInv
  OBVIOUS
<1>1. Inv => DatasetInv
  BY SealedDataset
<1> QED  BY <1>1, DatasetInvariant, PTL
=============================================================================
