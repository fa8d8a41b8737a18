---------------------- MODULE ConfirmationJournalProofs ----------------------
(***************************************************************************)
(* Proofs about ConfirmationJournal for any number of launches, rows,      *)
(* slots and faults: the journal is the record of one claim, it is closed  *)
(* once the lease of the claim is gone, and when it is sealed as completed *)
(* it holds every submission in order.  FlattenSeq is a recursive          *)
(* function; what one more append makes of it goes by SetInduction.        *)
(***************************************************************************)
EXTENDS ConfirmationJournal, Sums, SequenceTheorems, TLAPS

-----------------------------------------------------------------------------
(* The claim and its journal *)

\* An append on its way is never a claim: the protocol is written by claim()
\* and not by append_metadata().
CallsInv == \A c \in calls : "kind" \in DOMAIN c /\ c.kind # "protocol"

LeaseType == lease \in [owner : Process \cup {NoProcess}, age : {"fresh", "aging", "expired"}]

\* The owner of the journal has made its claim and will not ask again.
ClaimantInv ==
    journal # <<>> =>
        /\ journal[1].owner \in Process
        /\ launch[journal[1].owner] \in {"claimed", "refused"}

JournalInv ==
    /\ launch \in [Process -> {"new", "checked", "holder", "refused", "claimed"}]
    /\ \E S : journal \in Seq(S)
    /\ CallsInv
    /\ ClaimantInv
    /\ JournalIsSound

-----------------------------------------------------------------------------
(* Lemmas *)

\* An allowed append that is not the claim leaves a sound journal of the same
\* owner behind.
LEMMA AppendKeeps ==
  ASSUME \E S : journal \in Seq(S), JournalIsSound,
         NEW kind, kind # "protocol", NEW rows, NEW at, NEW completed,
         MayAppend(run.owner, kind, at),
         journal' = Append(journal, Entry(run.owner, kind, rows, at, completed))
  PROVE  /\ \E S : journal' \in Seq(S)
         /\ JournalIsSound'
         /\ journal'[1].owner = journal[1].owner
         /\ journal # <<>>
<1> DEFINE record == Entry(run.owner, kind, rows, at, completed)
<1>1. PICK S : journal \in Seq(S)
  OBVIOUS
<1>2. /\ journal # <<>>
      /\ Last(journal).owner = run.owner
      /\ Last(journal).kind # "terminal"
  BY DEF MayAppend
<1>3. journal \in Seq(S \cup {record}) /\ record \in S \cup {record}
  BY <1>1
<1>4. journal' \in Seq(S \cup {record})
  BY <1>3
<1>5. /\ Len(journal) \in Nat \ {0}
      /\ DOMAIN journal = 1..Len(journal)
      /\ Len(journal') = Len(journal) + 1
      /\ DOMAIN journal' = 1..(Len(journal) + 1)
      /\ \A i \in 1..Len(journal) : journal'[i] = journal[i]
      /\ journal'[Len(journal) + 1] = record
  BY <1>2, <1>3, <1>4
<1>6. /\ journal[Len(journal)].owner = run.owner
      /\ journal[Len(journal)].kind # "terminal"
  BY <1>2 DEF Last
<1>7. record.owner = run.owner /\ record.kind = kind
  BY DEF Entry
<1> HIDE DEF record
<1>8. JournalIsSound'
  <2> SUFFICES ASSUME NEW i \in 1..(Len(journal) + 1)
               PROVE  /\ journal'[i].owner = journal'[1].owner
                      /\ (journal'[i].kind = "protocol") <=> i = 1
                      /\ journal'[i].kind = "terminal" => i = Len(journal) + 1
    BY <1>5 DEF JournalIsSound
  <2>1. CASE i \in 1..Len(journal)
    BY <2>1, <1>5, <1>6 DEF JournalIsSound
  <2>2. CASE i = Len(journal) + 1
    BY <2>2, <1>5, <1>6, <1>7 DEF JournalIsSound
  <2> QED  BY <1>5, <2>1, <2>2
<1> QED  BY <1>2, <1>4, <1>5, <1>8

\* What one record makes of an empty sequence.
LEMMA FirstRecord ==
  ASSUME NEW S, NEW r \in S
  PROVE  /\ Append(<<>>, r) \in Seq(S)
         /\ Len(Append(<<>>, r)) = 1
         /\ Append(<<>>, r)[1] = r
         /\ DOMAIN Append(<<>>, r) = 1..1
         /\ Append(<<>>, r) # <<>>
<1>1. <<>> \in Seq(S) /\ Len(<<>>) = 0
  OBVIOUS
<1>2. Append(<<>>, r) \in Seq(S)
  BY <1>1
<1>3. Len(Append(<<>>, r)) = 1 /\ Append(<<>>, r)[1] = r
  BY <1>1
<1>4. DOMAIN Append(<<>>, r) = 1..1
  BY <1>2, <1>3
<1> QED  BY <1>1, <1>2, <1>3, <1>4

\* The claim is the first record of a sound journal.
LEMMA ClaimStarts ==
  ASSUME NEW p, NEW at, journal = <<>>,
         journal' = Append(journal, Entry(p, "protocol", <<>>, at, FALSE))
  PROVE  /\ \E S : journal' \in Seq(S)
         /\ JournalIsSound'
         /\ journal' # <<>>
         /\ journal'[1].owner = p
<1> DEFINE record == Entry(p, "protocol", <<>>, at, FALSE)
<1>1. record.owner = p /\ record.kind = "protocol"
  BY DEF Entry
<1>2. journal' = Append(<<>>, record)
  OBVIOUS
<1> HIDE DEF record
<1>3. /\ journal' \in Seq({record})
      /\ Len(journal') = 1
      /\ journal'[1] = record
      /\ DOMAIN journal' = 1..1
      /\ journal' # <<>>
  BY <1>2, FirstRecord, Zenon
<1>4. JournalIsSound'
  <2> SUFFICES ASSUME NEW i \in DOMAIN journal'
               PROVE  /\ journal'[i].owner = journal'[1].owner
                      /\ (journal'[i].kind = "protocol") <=> i = 1
                      /\ journal'[i].kind = "terminal" => i = Len(journal')
    BY DEF JournalIsSound
  <2>1. i = 1
    BY <1>3
  <2>2. journal'[i].kind = "protocol"
    BY <1>1, <1>3, <2>1
  <2> QED  BY <2>1, <2>2
<1> QED  BY <1>1, <1>3, <1>4

-----------------------------------------------------------------------------
(* The invariant is inductive *)

LEMMA InitJournal == Init => JournalInv
<1> SUFFICES ASSUME Init PROVE JournalInv
  OBVIOUS
<1>1. <<>> \in Seq({}) /\ DOMAIN <<>> = {}
  OBVIOUS
<1>2. journal = <<>> /\ calls = {} /\ launch = [p \in Process |-> "new"]
  BY DEF Init
<1>3. \E S : journal \in Seq(S)
  BY <1>1, <1>2
<1> QED  BY <1>1, <1>2, <1>3 DEF JournalInv, CallsInv, ClaimantInv, JournalIsSound

\* A step that writes neither the journal nor a claim keeps the invariant.
LEMMA QuietStep ==
  ASSUME JournalInv, UNCHANGED <<launch, journal>>, CallsInv'
  PROVE  JournalInv'
  BY DEF JournalInv, ClaimantInv, JournalIsSound

LEMMA CallKeeps ==
  ASSUME CallsInv, NEW by, NEW kind, kind # "protocol", NEW rows, Call(by, kind, rows)
  PROVE  CallsInv'
<1> DEFINE c == [by |-> by, kind |-> kind, rows |-> rows, at |-> clock + 1, live |-> TRUE,
                 completed |-> kind = "terminal" /\ ~ run.failed]
<1>1. "kind" \in DOMAIN c /\ c.kind = kind
  OBVIOUS
<1>2. calls' = calls \cup {c}
  BY DEF Call
<1> HIDE DEF c
<1> QED  BY <1>1, <1>2 DEF CallsInv

\* The task of an append may be cancelled; its thread does not change.
LEMMA Orphan ==
  ASSUME NEW c, "kind" \in DOMAIN c
  PROVE  "kind" \in DOMAIN [c EXCEPT !.live = FALSE] /\ [c EXCEPT !.live = FALSE].kind = c.kind
  OBVIOUS

LEMMA OrphanedKeeps ==
  ASSUME CallsInv, NEW by, calls' = Orphaned(by)
  PROVE  CallsInv'
<1> SUFFICES ASSUME NEW d \in calls' PROVE "kind" \in DOMAIN d /\ d.kind # "protocol"
  BY DEF CallsInv
<1>1. PICK c \in calls : d = IF c.by = by THEN [c EXCEPT !.live = FALSE] ELSE c
  BY DEF Orphaned
<1>2. "kind" \in DOMAIN c /\ c.kind # "protocol"
  BY DEF CallsInv
<1>3. CASE d = c
  BY <1>2, <1>3
<1>4. CASE d = [c EXCEPT !.live = FALSE]
  BY <1>2, <1>4, Orphan
<1> QED  BY <1>1, <1>3, <1>4

LEMMA JournalStep == JournalInv /\ [Next]_vars => JournalInv'
<1> SUFFICES ASSUME JournalInv, [Next]_vars PROVE JournalInv'
  OBVIOUS
<1> USE DEF JournalInv
<1>1. CASE Tick \/ Refresh \/ UNCHANGED vars
  BY <1>1, QuietStep DEF Tick, Refresh, vars, CallsInv
<1>2. ASSUME NEW p \in Process, Check(p) PROVE JournalInv'
  BY <1>2 DEF Check, CallsInv, ClaimantInv, JournalIsSound
<1>3. ASSUME NEW p \in Process, Acquire(p) PROVE JournalInv'
  BY <1>3 DEF Acquire, CallsInv, ClaimantInv, JournalIsSound
<1>4. ASSUME NEW p \in Process, Claim(p) PROVE JournalInv'
  <2>1. /\ launch' \in [Process -> {"new", "checked", "holder", "refused", "claimed"}]
        /\ launch'[p] \in {"claimed", "refused"}
        /\ \A q \in Process \ {p} : launch'[q] = launch[q]
    BY <1>4 DEF Claim
  <2>2. CallsInv'
    BY <1>4 DEF Claim, CallsInv
  <2>3. CASE journal' = journal
    BY <2>1, <2>2, <2>3 DEF ClaimantInv, JournalIsSound
  <2>4. CASE MayAppend(p, "protocol", clock)
             /\ journal' = Append(journal, Entry(p, "protocol", <<>>, clock, FALSE))
    BY <2>1, <2>2, <2>4, ClaimStarts DEF ClaimantInv, MayAppend
  <2> QED  BY <1>4, <2>3, <2>4 DEF Claim
<1>5. ASSUME NEW c \in calls, Transact(c) PROVE JournalInv'
  <2>1. CallsInv'
    BY <1>5 DEF Transact, CallsInv
  <2>2. UNCHANGED launch
    BY <1>5 DEF Transact
  <2>3. CASE journal' = journal
    BY <2>1, <2>2, <2>3, QuietStep
  <2>4. CASE MayAppend(run.owner, c.kind, c.at)
             /\ journal' = Append(journal, Entry(run.owner, c.kind, c.rows, c.at, c.completed))
    <3>1. c.kind # "protocol"
      BY DEF CallsInv
    <3>2. /\ \E S : journal' \in Seq(S)
          /\ JournalIsSound'
          /\ journal'[1].owner = journal[1].owner
          /\ journal # <<>>
      BY <2>4, <3>1, AppendKeeps
    <3> QED  BY <2>1, <2>2, <3>2 DEF ClaimantInv
  <2> QED  BY <1>5, <2>3, <2>4 DEF Transact
<1>6. ASSUME NEW kind, Submit(kind) PROVE JournalInv'
  BY <1>6, QuietStep DEF Submit, CallsInv
<1>7. CASE Write
  BY <1>7, CallKeeps, QuietStep DEF Write
<1>8. CASE Watch
  BY <1>8, CallKeeps, QuietStep DEF Watch
<1>9. CASE Finish \/ Release
  BY <1>9, QuietStep DEF Finish, Release, CallsInv
<1>10. CASE CancelWatch
  BY <1>10, OrphanedKeeps, QuietStep DEF CancelWatch
<1>11. CASE GiveUp
  <2>1. calls' = {[c EXCEPT !.live = FALSE] : c \in calls} /\ UNCHANGED <<launch, journal>>
    BY <1>11 DEF GiveUp
  <2>2. ASSUME NEW d \in calls' PROVE "kind" \in DOMAIN d /\ d.kind # "protocol"
    <3>1. PICK c \in calls : d = [c EXCEPT !.live = FALSE]
      BY <2>1
    <3>2. "kind" \in DOMAIN c /\ c.kind # "protocol"
      BY DEF CallsInv
    <3> QED  BY <3>1, <3>2, Orphan
  <2>3. CallsInv'
    BY <2>2 DEF CallsInv
  <2> QED  BY <2>1, <2>3, QuietStep DEF GiveUp
<1>12. CASE Flush
  <2>1. CallsInv'
    BY <1>12, OrphanedKeeps DEF Flush, CallsInv
  <2> QED  BY <1>12, <2>1, QuietStep DEF Flush
<1>13. CASE RecordQuality
  <2>1. CallsInv'
    BY <1>13, CallKeeps DEF RecordQuality, CallsInv
  <2> QED  BY <1>13, <2>1, QuietStep DEF RecordQuality
<1>14. CASE Verify
  BY <1>14, OrphanedKeeps, QuietStep DEF Verify
<1>15. CASE GuardFinally
  <2>1. CallsInv'
    BY <1>15, CallKeeps DEF GuardFinally, CallsInv
  <2> QED  BY <1>15, <2>1, QuietStep DEF GuardFinally
<1>16. CASE Seal
  BY <1>16, CallKeeps, QuietStep DEF Seal
<1>17. CASE Crash
  BY <1>17, QuietStep DEF Crash, CallsInv
<1> QED
  BY <1>1, <1>2, <1>3, <1>4, <1>5, <1>6, <1>7, <1>8, <1>9, <1>10, <1>11, <1>12, <1>13, <1>14,
     <1>15, <1>16, <1>17
  DEF Next, RunStep, DatabaseStep

\* JournalInv holds in every state that a study can reach.
THEOREM JournalInvariant == Spec => []JournalInv
  BY InitJournal, JournalStep, PTL DEF Spec

-----------------------------------------------------------------------------
(* One claim, closed for ever *)

\* The evidence of a study is one claim, by one process, with its terminal
\* record last, for any interleaving of launches, threads that were left
\* behind, lost leases and failures (ConfirmationStore.append).
THEOREM OneSoundJournal == Spec => []JournalIsSound
<1>1. JournalInv => JournalIsSound
  BY DEF JournalInv
<1> QED  BY <1>1, JournalInvariant, PTL

\* These steps alone write to the store.
LEMMA OtherSteps ==
  ASSUME [Next]_vars
  PROVE  \/ Tick \/ Refresh \/ Release
         \/ \E p \in Process : Acquire(p) \/ Claim(p)
         \/ \E c \in calls : Transact(c) /\ UNCHANGED lease
         \/ UNCHANGED <<journal, lease>>
<1>1. ASSUME NEW p \in Process, Check(p) PROVE UNCHANGED <<journal, lease>>
  BY <1>1 DEF Check
<1>2. ASSUME NEW kind, Submit(kind) PROVE UNCHANGED <<journal, lease>>
  BY <1>2 DEF Submit
<1>3. ASSUME Write \/ Watch \/ Finish \/ CancelWatch \/ GiveUp \/ Flush \/ RecordQuality \/ Verify
             \/ GuardFinally \/ Seal \/ Crash \/ UNCHANGED vars
      PROVE  UNCHANGED <<journal, lease>>
  BY <1>3 DEF Write, Watch, Finish, CancelWatch, GiveUp, Flush, RecordQuality, Verify,
              GuardFinally, Seal, Crash, vars
<1>4. ASSUME NEW c \in calls, Transact(c) PROVE UNCHANGED lease
  BY <1>4 DEF Transact
<1> QED  BY <1>1, <1>2, <1>3, <1>4 DEF Next, RunStep, DatabaseStep

\* The lease is held by a process or by none.
LEMMA LeaseTyped == Spec => []LeaseType
<1>1. Init => LeaseType
  BY DEF Init, LeaseType, Free
<1>2. LeaseType /\ [Next]_vars => LeaseType'
  <2> SUFFICES ASSUME LeaseType, [Next]_vars PROVE LeaseType'
    OBVIOUS
  <2>1. CASE Tick
    BY <2>1 DEF Tick, LeaseType
  <2>2. CASE Refresh
    BY <2>2 DEF Refresh, LeaseType
  <2>3. ASSUME NEW p \in Process, Acquire(p) PROVE LeaseType'
    BY <2>3 DEF Acquire, LeaseType
  <2>4. ASSUME NEW p \in Process, Claim(p) PROVE LeaseType'
    <3>1. lease' = lease \/ lease' = Free
      BY <2>4 DEF Claim
    <3> QED  BY <3>1 DEF LeaseType, Free
  <2>5. CASE Release
    BY <2>5 DEF Release, LeaseType, Free
  <2>6. CASE UNCHANGED lease
    BY <2>6 DEF LeaseType
  <2> QED
    BY <2>1, <2>2, <2>3, <2>4, <2>5, <2>6, OtherSteps
<1> QED  BY <1>1, <1>2, PTL DEF Spec

\* No step revives the lease of a claim or adds to its journal.
LEMMA DeadStaysDead ==
  ASSUME NoProcess \notin Process, JournalInv, LeaseType, [Next]_vars, Dead
  PROVE  Dead' /\ journal' = journal
<1>1. journal # <<>> /\ ~ LeaseHeld(Head(journal).owner)
  BY DEF Dead
<1>2. PICK S : journal \in Seq(S)
  BY DEF JournalInv
<1>3. Len(journal) \in DOMAIN journal /\ Head(journal) = journal[1]
  BY <1>1, <1>2
<1>4. PICK h \in Process : h = journal[1].owner /\ launch[h] \in {"claimed", "refused"}
  BY <1>1 DEF JournalInv, ClaimantInv
<1>5. h # NoProcess /\ ~ (lease.owner = h /\ lease.age # "expired")
  BY <1>1, <1>3, <1>4 DEF LeaseHeld
<1>6. ASSUME journal' = journal, ~ (lease'.owner = h /\ lease'.age # "expired")
      PROVE  Dead' /\ journal' = journal
  BY <1>1, <1>3, <1>4, <1>6 DEF Dead, LeaseHeld
<1>7. Last(journal).owner = h
  BY <1>3, <1>4 DEF JournalInv, JournalIsSound, Last
<1>8. CASE Tick
  BY <1>5, <1>6, <1>8 DEF Tick, LeaseType
<1>9. CASE Refresh
  BY <1>5, <1>6, <1>9 DEF Refresh, Refreshable, LeaseHeld, LeaseType
<1>10. ASSUME NEW p \in Process, Acquire(p) PROVE Dead' /\ journal' = journal
  BY <1>4, <1>5, <1>6, <1>10 DEF Acquire
<1>11. ASSUME NEW p \in Process, Claim(p) PROVE Dead' /\ journal' = journal
  <2>1. ~ MayAppend(p, "protocol", clock)
    BY <1>1 DEF MayAppend
  <2>2. journal' = journal /\ (lease' = lease \/ lease' = Free)
    BY <1>11, <2>1 DEF Claim
  <2> QED  BY <1>5, <1>6, <2>2 DEF Free
<1>12. ASSUME NEW c \in calls, Transact(c) PROVE Dead' /\ journal' = journal
  <2>1. ~ MayAppend(run.owner, c.kind, c.at)
    BY <1>5, <1>7 DEF MayAppend, LeaseHeld, JournalInv, CallsInv
  <2> QED  BY <1>5, <1>6, <1>12, <2>1 DEF Transact
<1>13. CASE Release
  BY <1>5, <1>6, <1>13 DEF Release, Free
<1>14. CASE UNCHANGED <<journal, lease>>
  BY <1>5, <1>6, <1>14
<1> QED  BY <1>8, <1>9, <1>10, <1>11, <1>12, <1>13, <1>14, OtherSteps

\* Once the lease of the claim is gone the study is over, for any launches
\* and threads (refresh, append, acquire_worker_lock): "none" is no process.
THEOREM DeadStudyStays == NoProcess \notin Process => (Spec => DeathIsFinal)
<1> SUFFICES ASSUME NoProcess \notin Process PROVE Spec => DeathIsFinal
  OBVIOUS
<1>1. JournalInv /\ LeaseType /\ [Next]_vars => [Dead => Dead' /\ journal' = journal]_vars
  BY DeadStaysDead
<1> QED  BY <1>1, JournalInvariant, LeaseTyped, PTL DEF Spec, DeathIsFinal

-----------------------------------------------------------------------------
(* Types *)

\* The bounds of the model are numbers.
Bounds == MaxRows \in Nat /\ Slots \in Nat /\ MaxWatch \in Nat /\ MaxFaults \in Nat

Owners == Process \cup {NoProcess}
Submissions == [n : 1..MaxRows, kind : {"capture", "evaluation"}]
Appends == [by : {"writer", "watch", "main"}, kind : Kind, rows : Rows, at : Nat, live : BOOLEAN,
            completed : BOOLEAN]
Entries == [owner : Owners, kind : Kind, rows : Rows, at : Nat, completed : BOOLEAN]
Runs == [owner : Owners, stage : Stage, failed : BOOLEAN, rows : 0..MaxRows,
         writer : {"idle", "appending", "dead"}, watch : {"on", "appending", "dead", "gone"},
         watched : 0..MaxWatch]
Leases == [owner : Owners, age : {"fresh", "aging", "expired"}]

\* Which task appends what; only the chunks of the writer have rows.
Sorted(c) ==
    /\ c.by = "writer" => c.kind = "chunk"
    /\ c.by = "watch" => c.kind = "watch"
    /\ c.by = "main" => c.kind \in {"quality", "guard", "terminal"}
    /\ c.by # "writer" => c.rows = <<>>

TypeInv ==
    /\ launch \in [Process -> {"new", "checked", "holder", "refused", "claimed"}]
    /\ run \in Runs
    /\ queue \in Seq(Submissions) /\ Len(queue) <= Slots
    /\ calls \subseteq Appends
    /\ \A c \in calls : c.at <= clock /\ Sorted(c)
    /\ clock \in Nat
    /\ lease \in Leases
    /\ journal \in Seq(Entries)
    /\ faults \in 0..MaxFaults

\* The invariant says more than the types that the runs check.
LEMMA TypeInvIs == ASSUME TypeInv PROVE TypeOK
<1>1. /\ \A i \in DOMAIN queue : queue[i] \in Submissions
      /\ \A i \in DOMAIN journal : journal[i] \in Entries
      /\ \A c \in calls : c \in Appends /\ c.at <= clock
      /\ clock \in Nat
  BY DEF TypeInv
<1>2. \A i \in DOMAIN queue : queue[i].n \in 1..MaxRows
  BY <1>1 DEF Submissions
<1>3. \A i \in DOMAIN journal : journal[i].kind \in Kind /\ journal[i].rows \in Rows
  BY <1>1 DEF Entries
<1>4. \A c \in calls : /\ c.by \in {"writer", "watch", "main"} /\ c.kind \in Kind
                       /\ c.rows \in Rows /\ c.at \in 0..clock
  BY <1>1 DEF Appends
<1> QED  BY <1>2, <1>3, <1>4 DEF TypeOK, TypeInv, Runs, Leases, Owners

LEMMA InitTypes == ASSUME Bounds, Init PROVE TypeInv
<1>1. <<>> \in Seq(Submissions) /\ Len(<<>>) = 0 /\ <<>> \in Seq(Entries)
  OBVIOUS
<1>2. run \in Runs
  BY DEF Init, Bounds, Runs, Owners, Stage
<1>3. lease \in Leases
  BY DEF Init, Free, Leases, Owners
<1> QED  BY <1>1, <1>2, <1>3 DEF Init, Bounds, TypeInv

LEMMA EntryTyped ==
  ASSUME NEW p \in Owners, NEW kind \in Kind, NEW rows \in Rows, NEW at \in Nat,
         NEW completed \in BOOLEAN
  PROVE  Entry(p, kind, rows, at, completed) \in Entries
  BY DEF Entry, Entries

\* An append on its way makes the set of calls one larger.
LEMMA CallTyped ==
  ASSUME TypeInv, NEW by \in {"writer", "watch", "main"}, NEW kind \in Kind, NEW rows \in Rows,
         by = "writer" => kind = "chunk",
         by = "watch" => kind = "watch",
         by = "main" => kind \in {"quality", "guard", "terminal"},
         by # "writer" => rows = <<>>,
         Call(by, kind, rows)
  PROVE  /\ calls' \subseteq Appends /\ clock' \in Nat
         /\ \A c \in calls' : c.at <= clock' /\ Sorted(c)
<1> DEFINE done == kind = "terminal" /\ ~ run.failed
           new == [by |-> by, kind |-> kind, rows |-> rows, at |-> clock + 1, live |-> TRUE,
                   completed |-> done]
<1>1. calls' = calls \cup {new} /\ clock' = clock + 1 /\ clock \in Nat
  BY DEF Call, TypeInv
<1>2. done \in BOOLEAN
  OBVIOUS
<1> HIDE DEF done
<1>3. new \in Appends
  BY <1>1, <1>2 DEF Appends
<1>4. new.at <= clock' /\ Sorted(new)
  BY <1>1 DEF Sorted
<1> HIDE DEF new
<1>5. \A c \in calls : c.at <= clock' /\ Sorted(c)
  <2> SUFFICES ASSUME NEW c \in calls PROVE c.at <= clock' /\ Sorted(c)
    OBVIOUS
  <2>1. c \in Appends /\ c.at <= clock /\ Sorted(c)
    BY DEF TypeInv
  <2>2. c.at \in Nat
    BY <2>1 DEF Appends
  <2> QED  BY <1>1, <2>1, <2>2
<1> QED  BY <1>1, <1>3, <1>4, <1>5 DEF TypeInv

\* Cancelling leaves an append as it is but for who waits for it.
LEMMA Cancelled ==
  ASSUME NEW c \in Appends
  PROVE  /\ [c EXCEPT !.live = FALSE] \in Appends
         /\ [c EXCEPT !.live = FALSE].by = c.by /\ [c EXCEPT !.live = FALSE].kind = c.kind
         /\ [c EXCEPT !.live = FALSE].rows = c.rows /\ [c EXCEPT !.live = FALSE].at = c.at
         /\ [c EXCEPT !.live = FALSE].completed = c.completed
         /\ ~ [c EXCEPT !.live = FALSE].live
  BY DEF Appends

\* What cancelling some tasks makes of the calls.
LEMMA CancelledTyped ==
  ASSUME TypeInv, UNCHANGED clock,
         \A d \in calls' : \E c \in calls : d = c \/ d = [c EXCEPT !.live = FALSE]
  PROVE  calls' \subseteq Appends /\ \A d \in calls' : d.at <= clock' /\ Sorted(d)
<1> SUFFICES ASSUME NEW d \in calls' PROVE d \in Appends /\ d.at <= clock' /\ Sorted(d)
  OBVIOUS
<1>1. PICK c \in calls : d = c \/ d = [c EXCEPT !.live = FALSE]
  OBVIOUS
<1>2. c \in Appends /\ c.at <= clock /\ Sorted(c)
  BY DEF TypeInv
<1>3. d \in Appends /\ d.by = c.by /\ d.kind = c.kind /\ d.rows = c.rows /\ d.at = c.at
  BY <1>1, <1>2, Cancelled
<1> QED  BY <1>2, <1>3 DEF Sorted

\* Each kind of append and what its task makes of the answer.
LEMMA AnswerIs ==
  ASSUME TypeInv, NEW c \in calls, NEW ok \in BOOLEAN
  PROVE  /\ ~ c.live => Answered(c, ok) = run
         /\ c.live /\ c.by = "writer" =>
               Answered(c, ok) = [run EXCEPT !.writer = IF ok THEN "idle" ELSE "dead"]
         /\ c.live /\ c.by = "watch" =>
               Answered(c, ok) = [run EXCEPT !.watch = IF ok THEN "on" ELSE "dead"]
         /\ c.live /\ c.by = "main" /\ c.kind = "quality" =>
               Answered(c, ok) = [run EXCEPT !.stage = IF ok THEN "verifying" ELSE "unsealed"]
         /\ c.live /\ c.by = "main" /\ c.kind = "guard" =>
               Answered(c, ok) = [run EXCEPT !.stage = "guarded", !.failed = @ \/ ~ ok]
         /\ c.live /\ c.by = "main" /\ c.kind = "terminal" =>
               Answered(c, ok) = [run EXCEPT !.stage = IF ok THEN "sealed" ELSE "unsealed"]
         /\ c.by \in {"writer", "watch", "main"} /\ c.live \in BOOLEAN
         /\ c.by = "main" => c.kind \in {"quality", "guard", "terminal"}
<1>1. c \in Appends /\ Sorted(c)
  BY DEF TypeInv
<1>2. /\ c.by \in {"writer", "watch", "main"} /\ c.live \in BOOLEAN
      /\ c.by = "writer" => c.kind = "chunk"
      /\ c.by = "watch" => c.kind = "watch"
      /\ c.by = "main" => c.kind \in {"quality", "guard", "terminal"}
  BY <1>1 DEF Appends, Sorted
<1> QED  BY <1>2 DEF Answered

LEMMA AnswerTyped ==
  ASSUME TypeInv, NEW c \in calls, NEW ok \in BOOLEAN
  PROVE  Answered(c, ok) \in Runs
<1>0. run \in Runs
  BY DEF TypeInv
<1>1. CASE ~ c.live
  BY <1>0, <1>1, AnswerIs
<1>2. CASE c.live /\ c.by = "writer"
  <2>1. PICK st \in {"idle", "dead"} : Answered(c, ok) = [run EXCEPT !.writer = st]
    BY <1>2, AnswerIs
  <2> QED  BY <1>0, <2>1 DEF Runs
<1>3. CASE c.live /\ c.by = "watch"
  <2>1. PICK st \in {"on", "dead"} : Answered(c, ok) = [run EXCEPT !.watch = st]
    BY <1>3, AnswerIs
  <2> QED  BY <1>0, <2>1 DEF Runs
<1>4. CASE c.live /\ c.by = "main" /\ c.kind = "quality"
  <2>1. PICK st \in {"verifying", "unsealed"} : Answered(c, ok) = [run EXCEPT !.stage = st]
    BY <1>4, AnswerIs
  <2> QED  BY <1>0, <2>1 DEF Runs, Stage
<1>5. CASE c.live /\ c.by = "main" /\ c.kind = "guard"
  <2>1. PICK b \in BOOLEAN : Answered(c, ok) = [run EXCEPT !.stage = "guarded", !.failed = b]
    <3> DEFINE b == run.failed \/ ~ ok
    <3>1. b \in BOOLEAN
      OBVIOUS
    <3>2. Answered(c, ok) = [run EXCEPT !.stage = "guarded", !.failed = b]
      BY <1>5, AnswerIs
    <3> QED  BY <3>1, <3>2
  <2> QED  BY <1>0, <2>1 DEF Runs, Stage
<1>6. CASE c.live /\ c.by = "main" /\ c.kind = "terminal"
  <2>1. PICK st \in {"sealed", "unsealed"} : Answered(c, ok) = [run EXCEPT !.stage = st]
    BY <1>6, AnswerIs
  <2> QED  BY <1>0, <2>1 DEF Runs, Stage
<1> QED  BY <1>1, <1>2, <1>3, <1>4, <1>5, <1>6, AnswerIs

\* What an append makes of the store and of the run.
LEMMA TransactIs ==
  ASSUME TypeInv, NEW c \in calls, Transact(c)
  PROVE  \E ok \in BOOLEAN, done \in BOOLEAN :
            /\ run' = Answered(c, ok)
            /\ ok => done
            /\ IF done
               THEN /\ MayAppend(run.owner, c.kind, c.at)
                    /\ journal' = Append(journal, Entry(run.owner, c.kind, c.rows, c.at, c.completed))
               ELSE journal' = journal
            /\ calls' = calls \ {c}
            /\ UNCHANGED <<launch, queue, clock, lease>>
            /\ NoFault \/ Fault
<1> DEFINE record == Entry(run.owner, c.kind, c.rows, c.at, c.completed)
           allowed == MayAppend(run.owner, c.kind, c.at)
<1>1. allowed \in BOOLEAN
  BY DEF MayAppend, LeaseHeld
<1>2. /\ \/ /\ journal' = IF allowed THEN Append(journal, record) ELSE journal
            /\ run' = Answered(c, allowed)
            /\ NoFault
         \/ /\ Fault
            /\ journal' \in {journal} \cup (IF allowed THEN {Append(journal, record)} ELSE {})
            /\ run' = Answered(c, FALSE)
      /\ calls' = calls \ {c}
      /\ UNCHANGED <<launch, queue, clock, lease>>
  BY DEF Transact
<1> HIDE DEF allowed, record
<1>3. CASE /\ journal' = IF allowed THEN Append(journal, record) ELSE journal
           /\ run' = Answered(c, allowed)
           /\ NoFault
  BY <1>1, <1>2, <1>3 DEF allowed, record
<1>4. CASE /\ Fault
           /\ journal' \in {journal} \cup (IF allowed THEN {Append(journal, record)} ELSE {})
           /\ run' = Answered(c, FALSE)
  <2>1. journal' = journal \/ (allowed /\ journal' = Append(journal, record))
    BY <1>4
  <2>2. Fault /\ run' = Answered(c, FALSE)
    BY <1>4
  <2>3. CASE journal' = journal
    <3> WITNESS FALSE \in BOOLEAN, FALSE \in BOOLEAN
    <3> QED  BY <1>2, <2>2, <2>3
  <2>4. CASE allowed /\ journal' = Append(journal, record)
    <3> WITNESS FALSE \in BOOLEAN, TRUE \in BOOLEAN
    <3> QED  BY <1>2, <2>2, <2>4 DEF allowed, record
  <2> QED  BY <2>1, <2>3, <2>4
<1> QED  BY <1>2, <1>3, <1>4

\* The variables whose type the other steps may touch.
LEMMA TypesFrom ==
  ASSUME TypeInv, UNCHANGED <<launch, lease, journal>>,
         run' \in Runs, queue' \in Seq(Submissions), Len(queue') <= Slots,
         calls' \subseteq Appends, \A c \in calls' : c.at <= clock' /\ Sorted(c),
         clock' \in Nat, faults' \in 0..MaxFaults
  PROVE  TypeInv'
<1>1. /\ launch' \in [Process -> {"new", "checked", "holder", "refused", "claimed"}]
      /\ lease' \in Leases /\ journal' \in Seq(Entries)
  BY DEF TypeInv
<1> QED  BY <1>1 DEF TypeInv, Sorted

\* The steps of the store leave the run and its appends alone.
LEMMA StoreTypes ==
  ASSUME Bounds, TypeInv,
         Tick \/ Refresh \/ Release \/ (\E p \in Process : Check(p) \/ Acquire(p) \/ Claim(p))
  PROVE  TypeInv'
<1> USE DEF Bounds
<1>0. /\ launch \in [Process -> {"new", "checked", "holder", "refused", "claimed"}]
      /\ run \in Runs /\ lease \in Leases /\ journal \in Seq(Entries)
      /\ faults \in 0..MaxFaults /\ clock \in Nat
  BY DEF TypeInv
<1>1. ASSUME UNCHANGED <<queue, calls, clock>>, run' \in Runs, lease' \in Leases,
             journal' \in Seq(Entries), faults' \in 0..MaxFaults,
             launch' \in [Process -> {"new", "checked", "holder", "refused", "claimed"}]
      PROVE  TypeInv'
  BY <1>1 DEF TypeInv, Sorted
<1>2. Free \in Leases
  BY DEF Free, Leases, Owners
<1>3. CASE Tick
  <2>1. lease' \in Leases
    <3>1. PICK age \in {"aging", "expired"} : lease' = [lease EXCEPT !.age = age]
      BY <1>3 DEF Tick
    <3> QED  BY <1>0, <3>1 DEF Leases
  <2>2. faults' \in 0..MaxFaults
    BY <1>0, <1>3 DEF Tick, Fault, NoFault
  <2> QED  BY <1>0, <1>1, <1>3, <2>1, <2>2 DEF Tick
<1>4. CASE Refresh
  <2>1. lease' \in Leases
    BY <1>0, <1>4 DEF Refresh, Leases
  <2> QED  BY <1>0, <1>1, <1>4, <2>1 DEF Refresh
<1>5. CASE Release
  BY <1>0, <1>1, <1>2, <1>5 DEF Release
<1>6. ASSUME NEW p \in Process, Check(p) PROVE TypeInv'
  <2>1. launch' \in [Process -> {"new", "checked", "holder", "refused", "claimed"}]
    BY <1>0, <1>6 DEF Check
  <2> QED  BY <1>0, <1>1, <1>6, <2>1 DEF Check
<1>7. ASSUME NEW p \in Process, Acquire(p) PROVE TypeInv'
  <2>1. launch' \in [Process -> {"new", "checked", "holder", "refused", "claimed"}]
    BY <1>0, <1>7 DEF Acquire
  <2>2. lease' \in Leases
    BY <1>0, <1>7 DEF Acquire, Leases, Owners
  <2> QED  BY <1>0, <1>1, <1>7, <2>1, <2>2 DEF Acquire
<1>8. ASSUME NEW p \in Process, Claim(p) PROVE TypeInv'
  <2> DEFINE record == Entry(p, "protocol", <<>>, clock, FALSE)
  <2>1. launch' \in [Process -> {"new", "checked", "holder", "refused", "claimed"}]
    BY <1>0, <1>8 DEF Claim
  <2>2. lease' \in Leases
    BY <1>0, <1>2, <1>8 DEF Claim
  <2>3. record \in Entries
    <3>1. p \in Owners /\ "protocol" \in Kind /\ <<>> \in Rows
      BY DEF Owners, Kind, Rows
    <3> QED  BY <1>0, <3>1, EntryTyped
  <2>4. journal' = journal \/ journal' = Append(journal, record)
    BY <1>8 DEF Claim
  <2> HIDE DEF record
  <2>5. journal' \in Seq(Entries)
    BY <1>0, <2>3, <2>4
  <2>6. run' \in Runs
    <3>1. run' = run \/ run' = [run EXCEPT !.owner = p, !.stage = "running"]
      BY <1>8 DEF Claim
    <3> QED  BY <1>0, <3>1 DEF Runs, Stage, Owners
  <2>7. UNCHANGED <<queue, calls, clock>> /\ (NoFault \/ Fault)
    BY <1>8 DEF Claim
  <2>8. faults' \in 0..MaxFaults
    BY <1>0, <2>7 DEF Fault, NoFault
  <2> QED  BY <1>1, <2>1, <2>2, <2>5, <2>6, <2>7, <2>8
<1> QED  BY <1>3, <1>4, <1>5, <1>6, <1>7, <1>8

LEMMA TransactTypes ==
  ASSUME Bounds, TypeInv, NEW c \in calls, Transact(c)
  PROVE  TypeInv'
<1>0. /\ run \in Runs /\ journal \in Seq(Entries) /\ faults \in 0..MaxFaults /\ c \in Appends
  BY DEF TypeInv
<1>1. PICK ok \in BOOLEAN, done \in BOOLEAN :
            /\ run' = Answered(c, ok)
            /\ ok => done
            /\ IF done
               THEN /\ MayAppend(run.owner, c.kind, c.at)
                    /\ journal' = Append(journal, Entry(run.owner, c.kind, c.rows, c.at, c.completed))
               ELSE journal' = journal
            /\ calls' = calls \ {c}
            /\ UNCHANGED <<launch, queue, clock, lease>>
            /\ NoFault \/ Fault
  BY TransactIs
<1>2. run' \in Runs
  BY <1>1, AnswerTyped
<1>3. journal' \in Seq(Entries)
  <2>1. run.owner \in Owners
    BY <1>0 DEF Runs
  <2>2. c.kind \in Kind /\ c.rows \in Rows /\ c.at \in Nat /\ c.completed \in BOOLEAN
    BY <1>0 DEF Appends
  <2>3. Entry(run.owner, c.kind, c.rows, c.at, c.completed) \in Entries
    BY <2>1, <2>2, EntryTyped
  <2> QED  BY <1>0, <1>1, <2>3
<1>4. faults' \in 0..MaxFaults
  BY <1>0, <1>1 DEF Bounds, NoFault, Fault
<1> QED  BY <1>1, <1>2, <1>3, <1>4 DEF TypeInv, Sorted

\* A slice of the queue that goes into a chunk, and what stays behind.
LEMMA PackIs ==
  ASSUME TypeInv, NEW pack \in Pack
  PROVE  \E k \in 1..Len(queue) :
            /\ pack = SubSeq(queue, 1, k) /\ Len(pack) = k
            /\ [i \in DOMAIN pack |-> pack[i].n] \in Rows
            /\ Len([i \in DOMAIN pack |-> pack[i].n]) = k
            /\ \A i \in 1..k : [j \in DOMAIN pack |-> pack[j].n][i] = queue[i].n
            /\ SubSeq(queue, k + 1, Len(queue)) \in Seq(Submissions)
            /\ Len(SubSeq(queue, k + 1, Len(queue))) = Len(queue) - k
            /\ \A i \in 1..(Len(queue) - k) :
                  SubSeq(queue, k + 1, Len(queue))[i] = queue[k + i]
<1>0. queue \in Seq(Submissions) /\ Len(queue) \in Nat /\ DOMAIN queue = 1..Len(queue)
  BY DEF TypeInv
<1>1. PICK k \in 1..Len(queue) : pack = SubSeq(queue, 1, k)
  BY <1>0 DEF Pack
<1>2. pack \in Seq(Submissions) /\ Len(pack) = k /\ \A i \in 1..k : pack[i] = queue[i]
  BY ONLY <1>0, <1>1
<1>3. DOMAIN pack = 1..k /\ \A i \in 1..k : pack[i].n \in 1..MaxRows
  <2>1. DOMAIN pack = 1..k /\ \A i \in 1..k : pack[i] \in Submissions
    BY ONLY <1>2
  <2> QED  BY <2>1 DEF Submissions
<1> DEFINE rows == [i \in DOMAIN pack |-> pack[i].n]
<1>4. rows \in [1..k -> 1..MaxRows] /\ \A i \in 1..k : rows[i] = queue[i].n
  BY <1>2, <1>3
<1>5. rows \in Rows /\ Len(rows) = k
  <2> HIDE DEF rows
  <2>1. k \in Nat
    BY <1>0, <1>1
  <2>2. rows \in Seq(1..MaxRows)
    BY ONLY <1>4, <2>1, SeqDef
  <2> QED  BY <1>4, <2>1, <2>2 DEF Rows
<1> DEFINE rest == SubSeq(queue, k + 1, Len(queue))
<1>6. /\ rest \in Seq(Submissions) /\ Len(rest) = Len(queue) - k
      /\ \A i \in 1..(Len(queue) - k) : rest[i] = queue[k + i]
  <2>1. /\ k \in Nat /\ k + 1 \in Int /\ Len(queue) \in Int /\ k <= Len(queue)
        /\ \A i \in (k + 1)..Len(queue) : queue[i] \in Submissions
    BY ONLY <1>0, <1>1
  <2>2. /\ rest \in Seq(Submissions)
        /\ Len(rest) = IF k + 1 <= Len(queue) THEN Len(queue) - (k + 1) + 1 ELSE 0
        /\ \A i \in 1..(Len(queue) - (k + 1) + 1) : rest[i] = queue[k + 1 + i - 1]
    BY ONLY <2>1, SubSeqProperties
  <2>3. Len(rest) = Len(queue) - k
    BY ONLY <2>1, <2>2
  <2>4. ASSUME NEW i \in 1..(Len(queue) - k) PROVE rest[i] = queue[k + i]
    <3>1. i \in 1..(Len(queue) - (k + 1) + 1) /\ k + 1 + i - 1 = k + i
      BY <2>1
    <3> QED  BY <2>2, <3>1
  <2> QED  BY <2>2, <2>3, <2>4
<1> QED  BY <1>1, <1>2, <1>4, <1>5, <1>6

LEMMA RunTypes ==
  ASSUME Bounds, TypeInv,
         (\E kind \in {"capture", "evaluation"} : Submit(kind)) \/ Write \/ Watch \/ Crash
  PROVE  TypeInv'
<1> USE DEF Bounds
<1>0. /\ run \in Runs /\ queue \in Seq(Submissions) /\ Len(queue) <= Slots /\ calls \subseteq Appends
      /\ clock \in Nat /\ faults \in 0..MaxFaults
      /\ \A c \in calls : c.at <= clock /\ Sorted(c)
  BY DEF TypeInv
<1>1. <<>> \in Rows
  BY DEF Rows
<1>2. ASSUME NEW kind \in {"capture", "evaluation"}, Submit(kind) PROVE TypeInv'
  <2>1. run.rows + 1 \in 1..MaxRows /\ run' = [run EXCEPT !.rows = @ + 1] /\ Len(queue) < Slots
    BY <1>0, <1>2 DEF Submit, Runs
  <2>2. run' \in Runs
    BY <1>0, <2>1 DEF Runs
  <2>3. [n |-> run.rows + 1, kind |-> kind] \in Submissions
    BY <2>1 DEF Submissions
  <2>4. queue' = Append(queue, [n |-> run.rows + 1, kind |-> kind])
    BY <1>2 DEF Submit
  <2>5. queue' \in Seq(Submissions) /\ Len(queue') = Len(queue) + 1
    BY <1>0, <2>3, <2>4
  <2>6. Len(queue') <= Slots
    BY <1>0, <2>1, <2>5
  <2> QED  BY <1>0, <1>2, <2>2, <2>5, <2>6, TypesFrom DEF Submit
<1>3. CASE Write
  <2>1. PICK pack \in Pack :
           /\ Call("writer", "chunk", [i \in DOMAIN pack |-> pack[i].n])
           /\ queue' = SubSeq(queue, Len(pack) + 1, Len(queue))
    BY <1>3 DEF Write
  <2>2. PICK k \in 1..Len(queue) :
            /\ Len(pack) = k
            /\ [i \in DOMAIN pack |-> pack[i].n] \in Rows
            /\ SubSeq(queue, k + 1, Len(queue)) \in Seq(Submissions)
            /\ Len(SubSeq(queue, k + 1, Len(queue))) = Len(queue) - k
    BY PackIs
  <2>3. queue' \in Seq(Submissions) /\ Len(queue') <= Slots
    BY <1>0, <2>1, <2>2
  <2> DEFINE rows == [i \in DOMAIN pack |-> pack[i].n]
  <2>4. rows \in Rows /\ Call("writer", "chunk", rows)
    BY <2>1, <2>2
  <2> HIDE DEF rows
  <2>5. /\ calls' \subseteq Appends /\ clock' \in Nat
        /\ \A c \in calls' : c.at <= clock' /\ Sorted(c)
    <3>1. "chunk" \in Kind
      BY DEF Kind
    <3> QED  BY <2>4, <3>1, CallTyped
  <2>6. run' \in Runs
    BY <1>0, <1>3 DEF Write, Runs
  <2> QED  BY <1>0, <1>3, <2>3, <2>5, <2>6, TypesFrom DEF Write
<1>4. CASE Watch
  <2>1. /\ calls' \subseteq Appends /\ clock' \in Nat
        /\ \A c \in calls' : c.at <= clock' /\ Sorted(c)
    <3>1. "watch" \in Kind
      BY DEF Kind
    <3> QED  BY <1>1, <1>4, <3>1, CallTyped DEF Watch
  <2>2. run' \in Runs
    <3>1. run.watched + 1 \in 0..MaxWatch
      BY <1>0, <1>4 DEF Watch, Runs
    <3>2. run' = [run EXCEPT !.watch = "appending", !.watched = run.watched + 1]
      BY <1>4 DEF Watch
    <3> QED  BY <1>0, <3>1, <3>2 DEF Runs
  <2> QED  BY <1>0, <1>4, <2>1, <2>2, TypesFrom DEF Watch
<1>5. CASE Crash
  <2>1. run' \in Runs
    BY <1>0, <1>5 DEF Crash, Runs, Stage
  <2>2. faults' \in 0..MaxFaults /\ calls' = {} /\ UNCHANGED <<launch, queue, clock, lease, journal>>
    BY <1>0, <1>5 DEF Crash, Fault
  <2> QED  BY <1>0, <2>1, <2>2, TypesFrom
<1> QED  BY <1>2, <1>3, <1>4, <1>5

\* Every task or thread that is left behind was one of the calls.
LEMMA OrphanedIs ==
  ASSUME NEW by, NEW d \in Orphaned(by)
  PROVE  \E c \in calls : IF c.by = by THEN d = [c EXCEPT !.live = FALSE] ELSE d = c
  BY DEF Orphaned

LEMMA EndTypes ==
  ASSUME Bounds, TypeInv,
         Finish \/ CancelWatch \/ GiveUp \/ Flush \/ RecordQuality \/ Verify \/ GuardFinally \/ Seal
  PROVE  TypeInv'
<1> USE DEF Bounds
<1>0. /\ run \in Runs /\ queue \in Seq(Submissions) /\ Len(queue) <= Slots /\ calls \subseteq Appends
      /\ clock \in Nat /\ faults \in 0..MaxFaults
      /\ \A c \in calls : c.at <= clock /\ Sorted(c)
  BY DEF TypeInv
<1>1. <<>> \in Rows /\ {"quality", "guard", "terminal"} \subseteq Kind
  BY DEF Rows, Kind
<1>2. ASSUME NoFault \/ Fault PROVE faults' \in 0..MaxFaults
  BY <1>0, <1>2 DEF NoFault, Fault
<1>3. ASSUME UNCHANGED clock, NEW by, calls' = Orphaned(by)
      PROVE  calls' \subseteq Appends /\ \A c \in calls' : c.at <= clock' /\ Sorted(c)
  <2>1. \A d \in calls' : \E c \in calls : d = c \/ d = [c EXCEPT !.live = FALSE]
    BY <1>3, OrphanedIs
  <2> QED  BY <1>3, <2>1, CancelledTyped
<1>4. ASSUME NEW kind \in {"quality", "guard", "terminal"}, Call("main", kind, <<>>)
      PROVE  /\ calls' \subseteq Appends /\ clock' \in Nat
             /\ \A c \in calls' : c.at <= clock' /\ Sorted(c)
  BY <1>1, <1>4, CallTyped
<1>5. CASE Finish
  <2>1. PICK b \in BOOLEAN : run' = [run EXCEPT !.stage = "stopping", !.failed = b]
    <3> DEFINE b == run.writer = "dead" \/ run.watch = "dead" \/ ~ LeaseHeld(run.owner)
    <3>1. b \in BOOLEAN
      OBVIOUS
    <3>2. \/ run' = [run EXCEPT !.stage = "stopping", !.failed = b]
          \/ run' = [run EXCEPT !.stage = "stopping", !.failed = TRUE]
      BY <1>5 DEF Finish
    <3> HIDE DEF b
    <3> QED  BY <3>1, <3>2
  <2>2. run' \in Runs
    BY <1>0, <2>1 DEF Runs, Stage
  <2>3. UNCHANGED <<launch, queue, calls, clock, lease, journal>> /\ (NoFault \/ Fault)
    BY <1>5 DEF Finish
  <2> QED  BY <1>0, <1>2, <2>2, <2>3, TypesFrom
<1>6. CASE CancelWatch
  <2>1. run' \in Runs
    BY <1>0, <1>6 DEF CancelWatch, Runs
  <2>2. UNCHANGED <<launch, queue, clock, lease, journal, faults>> /\ calls' = Orphaned("watch")
    BY <1>6 DEF CancelWatch
  <2> QED  BY <1>0, <1>3, <2>1, <2>2, TypesFrom
<1>7. CASE GiveUp
  <2>1. run' \in Runs
    BY <1>0, <1>7 DEF GiveUp, Runs, Stage
  <2>2. UNCHANGED <<launch, queue, clock, lease, journal, faults>>
        /\ calls' = {[c EXCEPT !.live = FALSE] : c \in calls}
    BY <1>7 DEF GiveUp
  <2>3. calls' \subseteq Appends /\ \A c \in calls' : c.at <= clock' /\ Sorted(c)
    BY <2>2, CancelledTyped
  <2> QED  BY <1>0, <2>1, <2>2, <2>3, TypesFrom
<1>8. CASE Flush
  <2>1. run' \in Runs
    <3>1. \/ run' = [run EXCEPT !.stage = "flushed"]
          \/ run' = [run EXCEPT !.stage = "flushed", !.failed = TRUE, !.writer = "dead"]
      BY <1>8 DEF Flush
    <3> QED  BY <1>0, <3>1 DEF Runs, Stage
  <2>2. UNCHANGED <<launch, queue, clock, lease, journal>> /\ (NoFault \/ Fault)
        /\ (calls' = calls \/ calls' = Orphaned("writer"))
    BY <1>8 DEF Flush
  <2> QED  BY <1>0, <1>2, <1>3, <2>1, <2>2, TypesFrom
<1>9. CASE RecordQuality
  <2>1. PICK st \in {"finishing", "unsealed"} : run' = [run EXCEPT !.stage = st]
    BY <1>9 DEF RecordQuality
  <2>2. run' \in Runs
    BY <1>0, <2>1 DEF Runs, Stage
  <2>3. UNCHANGED <<launch, queue, lease, journal, faults>>
        /\ (Call("main", "quality", <<>>) \/ UNCHANGED <<calls, clock>>)
    BY <1>9 DEF RecordQuality
  <2> QED  BY <1>0, <1>4, <2>2, <2>3, TypesFrom
<1>10. CASE Verify
  <2>1. PICK b \in BOOLEAN : run' = [run EXCEPT !.stage = "closing", !.failed = b, !.watch = "gone"]
    <3> DEFINE b == run.failed \/ run.watch = "dead" \/ ~ LeaseHeld(run.owner)
    <3>1. b \in BOOLEAN
      OBVIOUS
    <3>2. \/ run' = [run EXCEPT !.stage = "closing", !.failed = b, !.watch = "gone"]
          \/ run' = [run EXCEPT !.stage = "closing", !.failed = TRUE, !.watch = "gone"]
      BY <1>10 DEF Verify
    <3> HIDE DEF b
    <3> QED  BY <3>1, <3>2
  <2>2. run' \in Runs
    BY <1>0, <2>1 DEF Runs, Stage
  <2>3. UNCHANGED <<launch, queue, clock, lease, journal>> /\ (NoFault \/ Fault)
        /\ calls' = Orphaned("watch")
    BY <1>10 DEF Verify
  <2> QED  BY <1>0, <1>2, <1>3, <2>2, <2>3, TypesFrom
<1>11. CASE GuardFinally
  <2>1. run' \in Runs
    <3>1. \/ run' = [run EXCEPT !.stage = "guarding"]
          \/ run' = [run EXCEPT !.stage = "guarded", !.failed = TRUE]
      BY <1>11 DEF GuardFinally
    <3> QED  BY <1>0, <3>1 DEF Runs, Stage
  <2>2. UNCHANGED <<launch, queue, lease, journal>> /\ (NoFault \/ Fault)
        /\ (Call("main", "guard", <<>>) \/ UNCHANGED <<calls, clock>>)
    BY <1>11 DEF GuardFinally
  <2> QED  BY <1>0, <1>2, <1>4, <2>1, <2>2, TypesFrom
<1>12. CASE Seal
  <2>1. run' \in Runs
    BY <1>0, <1>12 DEF Seal, Runs, Stage
  <2>2. UNCHANGED <<launch, queue, lease, journal, faults>> /\ Call("main", "terminal", <<>>)
    BY <1>12 DEF Seal
  <2> QED  BY <1>0, <1>4, <2>1, <2>2, TypesFrom
<1> QED  BY <1>5, <1>6, <1>7, <1>8, <1>9, <1>10, <1>11, <1>12

LEMMA TypeStep == ASSUME Bounds, TypeInv, [Next]_vars PROVE TypeInv'
<1>1. CASE UNCHANGED vars
  BY <1>1 DEF vars, TypeInv, Sorted
<1> QED
  BY <1>1, StoreTypes, TransactTypes, RunTypes, EndTypes DEF Next, RunStep, DatabaseStep

LEMMA Typed == Bounds => (Spec => []TypeInv)
<1> SUFFICES ASSUME Bounds PROVE Spec => []TypeInv
  OBVIOUS
<1>1. Init => TypeInv
  BY InitTypes
<1>2. TypeInv /\ [Next]_vars => TypeInv'
  BY TypeStep
<1> QED  BY <1>1, <1>2, PTL DEF Spec

\* Every variable of the study has its type, for any launches and bounds
\* (ConfirmationStore, DurableWriter, _run_v3).
THEOREM TypeCorrect == Bounds => (Spec => []TypeOK)
<1> SUFFICES ASSUME Bounds PROVE Spec => []TypeOK
  OBVIOUS
<1>1. TypeInv => TypeOK
  BY TypeInvIs
<1> QED  BY <1>1, Typed, PTL

-----------------------------------------------------------------------------
(* The rows of the chunks of a journal, one after the other *)

\* What FlattenSeq computes along s.
FlatLaw(f, s) ==
    f = [i \in 1..Len(s) |-> IF i = 1 THEN s[i] ELSE f[i - 1] \o s[i]]

LEMMA FlatExists ==
  ASSUME NEW T, NEW s \in Seq(Seq(T))
  PROVE  \E f \in [1..Len(s) -> Seq(T)] : FlatLaw(f, s)
<1> DEFINE Good(f, n) == \A i \in 1..n : f[i] = IF i = 1 THEN s[i] ELSE f[i - 1] \o s[i]
           M == {n \in Nat : n <= Len(s) => \E f \in [1..n -> Seq(T)] : Good(f, n)}
<1>0. Len(s) \in Nat /\ \A i \in 1..Len(s) : s[i] \in Seq(T)
  OBVIOUS
<1>1. 0 \in M
  <2> DEFINE f == [i \in 1..0 |-> <<>>]
  <2>1. f \in [1..0 -> Seq(T)] /\ Good(f, 0)
    OBVIOUS
  <2> QED  BY <2>1
<1>2. ASSUME NEW n \in M PROVE n + 1 \in M
  <2>1. n \in Nat /\ n + 1 \in Nat
    OBVIOUS
  <2> SUFFICES ASSUME n + 1 <= Len(s) PROVE \E h \in [1..(n + 1) -> Seq(T)] : Good(h, n + 1)
    BY <2>1
  <2>2. PICK f \in [1..n -> Seq(T)] : Good(f, n)
    <3>1. n <= Len(s)
      BY <1>0, <2>1
    <3>2. n <= Len(s) => \E f \in [1..n -> Seq(T)] : Good(f, n)
      BY Zenon
    <3> QED  BY <3>1, <3>2
  <2> DEFINE last == IF n + 1 = 1 THEN s[n + 1] ELSE f[n] \o s[n + 1]
             h == [i \in 1..(n + 1) |-> IF i = n + 1 THEN last ELSE f[i]]
  <2>3. last \in Seq(T)
    <3>1. s[n + 1] \in Seq(T)
      BY <1>0, <2>1
    <3>2. n + 1 # 1 => f[n] \in Seq(T)
      BY <2>1, <2>2
    <3> QED  BY <3>1, <3>2, ConcatProperties
  <2>4. h \in [1..(n + 1) -> Seq(T)]
    BY <2>1, <2>2, <2>3
  <2>5. ASSUME NEW i \in 1..(n + 1) PROVE h[i] = IF i = 1 THEN s[i] ELSE h[i - 1] \o s[i]
    <3>1. CASE i = n + 1
      <4>1. h[i] = last
        BY <3>1
      <4>2. i # 1 => h[i - 1] = f[n]
        BY <2>1, <3>1
      <4> QED  BY <2>1, <3>1, <4>1, <4>2
    <3>2. CASE i # n + 1
      <4>1. i \in 1..n /\ h[i] = f[i]
        BY <2>1, <3>2
      <4>2. i # 1 => h[i - 1] = f[i - 1]
        BY <2>1, <4>1
      <4> QED  BY <2>2, <4>1, <4>2
    <3> QED  BY <3>1, <3>2
  <2> HIDE DEF h
  <2> QED  BY <2>4, <2>5
<1> HIDE DEF M
<1>3. M = Nat
  <2>1. M \subseteq Nat
    BY DEF M
  <2> QED  BY <1>1, <1>2, <2>1, SetInduction
<1>4. PICK f \in [1..Len(s) -> Seq(T)] : Good(f, Len(s))
  <2>1. Len(s) \in M
    BY <1>0, <1>3
  <2>2. Len(s) <= Len(s) => \E f \in [1..Len(s) -> Seq(T)] : Good(f, Len(s))
    BY <2>1, Zenon DEF M
  <2> QED  BY <1>0, <2>2
<1>5. FlatLaw(f, s)
  BY <1>4 DEF FlatLaw
<1> QED  BY <1>5

\* Along the same sequences it computes the same.
LEMMA FlatUnique ==
  ASSUME NEW s, NEW t, NEW f, NEW g, Len(s) \in Nat, Len(t) \in Nat, Len(s) <= Len(t),
         \A i \in 1..Len(s) : s[i] = t[i], FlatLaw(f, s), FlatLaw(g, t)
  PROVE  \A i \in 1..Len(s) : f[i] = g[i]
<1> DEFINE M == {n \in Nat : n \in 1..Len(s) => f[n] = g[n]}
<1>1. 0 \in M
  OBVIOUS
<1>2. ASSUME NEW n \in M PROVE n + 1 \in M
  <2>1. n \in Nat /\ n + 1 \in Nat
    OBVIOUS
  <2> SUFFICES ASSUME n + 1 \in 1..Len(s) PROVE f[n + 1] = g[n + 1]
    BY <2>1
  <2>2. n + 1 \in 1..Len(t) /\ s[n + 1] = t[n + 1] /\ (n + 1) - 1 = n
    BY <2>1
  <2>3. f[n + 1] = IF n + 1 = 1 THEN s[n + 1] ELSE f[n] \o s[n + 1]
    BY <2>2 DEF FlatLaw
  <2>4. g[n + 1] = IF n + 1 = 1 THEN t[n + 1] ELSE g[n] \o t[n + 1]
    BY <2>2 DEF FlatLaw
  <2>5. n + 1 # 1 => f[n] = g[n]
    BY <2>1
  <2> QED  BY <2>2, <2>3, <2>4, <2>5
<1> HIDE DEF M
<1>3. M = Nat
  <2>1. M \subseteq Nat
    BY DEF M
  <2> QED  BY <1>1, <1>2, <2>1, SetInduction
<1> QED  BY <1>3 DEF M

LEMMA FlattenIs ==
  ASSUME NEW T, NEW s \in Seq(Seq(T))
  PROVE  /\ FlattenSeq(s) \in Seq(T)
         /\ Len(s) = 0 => FlattenSeq(s) = s
         /\ \E f : FlatLaw(f, s) /\ (Len(s) # 0 => FlattenSeq(s) = f[Len(s)])
<1> DEFINE F == CHOOSE f : FlatLaw(f, s)
<1>0. Len(s) \in Nat
  OBVIOUS
<1>1. PICK g \in [1..Len(s) -> Seq(T)] : FlatLaw(g, s)
  BY FlatExists
<1>2. FlatLaw(F, s)
  BY <1>1
<1>3. Len(s) = 0 => FlattenSeq(s) = s
  BY DEF FlattenSeq
<1>4. Len(s) # 0 => FlattenSeq(s) = F[Len(s)]
  BY DEF FlattenSeq, FlatLaw
<1> HIDE DEF F
<1>5. \A i \in 1..Len(s) : F[i] = g[i]
  BY <1>0, <1>1, <1>2, FlatUnique
<1>6. FlattenSeq(s) \in Seq(T)
  <2>1. CASE Len(s) = 0
    <3>1. s = <<>> /\ <<>> \in Seq(T)
      BY <2>1, EmptySeq
    <3> QED  BY <1>3, <2>1, <3>1
  <2>2. CASE Len(s) # 0
    <3>1. Len(s) \in 1..Len(s)
      BY <1>0, <2>2
    <3>2. g[Len(s)] \in Seq(T)
      BY <1>1, <3>1
    <3> QED  BY <1>4, <1>5, <2>2, <3>1, <3>2
  <2> QED  BY <2>1, <2>2
<1> QED  BY <1>2, <1>3, <1>4, <1>6

\* One more sequence is joined to the end.
LEMMA FlattenAppend ==
  ASSUME NEW T, NEW s \in Seq(Seq(T)), NEW r \in Seq(T)
  PROVE  FlattenSeq(Append(s, r)) = FlattenSeq(s) \o r
<1> DEFINE t == Append(s, r)
<1>1. /\ t \in Seq(Seq(T)) /\ Len(s) \in Nat /\ Len(t) = Len(s) + 1
      /\ \A i \in 1..Len(s) : s[i] = t[i]
      /\ t[Len(s) + 1] = r
  OBVIOUS
<1> HIDE DEF t
<1>2. PICK F : /\ FlatLaw(F, s)
               /\ Len(s) # 0 => FlattenSeq(s) = F[Len(s)]
  BY FlattenIs
<1>3. PICK G : FlattenSeq(t) = G[Len(t)] /\ FlatLaw(G, t)
  BY <1>1, FlattenIs
<1>4. G[Len(t)] = IF Len(s) + 1 = 1 THEN r ELSE G[Len(s)] \o r
  <2>1. \A i \in 1..Len(t) : G[i] = IF i = 1 THEN t[i] ELSE G[i - 1] \o t[i]
    <3>1. G = [i \in 1..Len(t) |-> IF i = 1 THEN t[i] ELSE G[i - 1] \o t[i]]
      BY <1>3 DEF FlatLaw
    <3> DEFINE body(i) == IF i = 1 THEN t[i] ELSE G[i - 1] \o t[i]
    <3>2. G = [i \in 1..Len(t) |-> body(i)]
      BY <3>1
    <3> HIDE DEF body
    <3>3. \A i \in 1..Len(t) : G[i] = body(i)
      BY <3>2
    <3> QED  BY <3>3 DEF body
  <2>2. Len(s) + 1 \in 1..Len(t) /\ (Len(s) + 1) - 1 = Len(s) /\ Len(t) = Len(s) + 1
    BY <1>1
  <2> QED  BY <1>1, <2>1, <2>2
<1>5. CASE Len(s) = 0
  <2>1. s = <<>> /\ FlattenSeq(s) = <<>>
    BY <1>5, EmptySeq, FlattenIs
  <2>2. <<>> \o r = r
    BY ConcatEmptySeq
  <2> QED  BY <1>1, <1>3, <1>4, <1>5, <2>1, <2>2 DEF t
<1>6. CASE Len(s) # 0
  <2>1. \A i \in 1..Len(s) : F[i] = G[i]
    <3>1. Len(t) \in Nat /\ Len(s) <= Len(t)
      BY <1>1
    <3>2. FlatLaw(F, s) /\ FlatLaw(G, t) /\ \A i \in 1..Len(s) : s[i] = t[i]
      BY <1>1, <1>2, <1>3
    <3>3. Len(s) \in Nat
      BY <1>1
    <3> QED  BY ONLY <3>1, <3>2, <3>3, FlatUnique
  <2>2. Len(s) \in 1..Len(s)
    BY <1>1, <1>6
  <2>3. FlattenSeq(s) = G[Len(s)]
    BY <1>2, <1>6, <2>1, <2>2
  <2> QED  BY <1>1, <1>3, <1>4, <1>6, <2>3 DEF t
<1> QED  BY <1>5, <1>6

-----------------------------------------------------------------------------
(* What the journal, the calls and the queue hold between them *)

On == run.stage \notin {"none"} \cup Over

\* From the final flush to the seal.
Late == {"flushed", "finishing", "verifying", "closing", "guarding", "guarded", "terminating"}

\* Which append the run waits for, and where.  Threads are left behind only by
\* a run that has failed or is over, those of the writer only by a dead writer.
AwaitedInv ==
    /\ \A c, d \in calls : c.live /\ d.live => c = d
    /\ \A c \in calls :
          /\ c.completed => c.kind = "terminal" /\ run.stage = "terminating" /\ ~ run.failed
          /\ c.live /\ c.by = "writer" => run.writer = "appending"
          /\ c.live /\ c.by = "watch" => run.watch = "appending"
          /\ c.live /\ c.kind = "quality" => run.stage = "finishing"
          /\ c.live /\ c.kind = "guard" => run.stage = "guarding"
          /\ c.live /\ c.kind = "terminal" => run.stage = "terminating"
          /\ On /\ ~ run.failed => c.live
          /\ On /\ c.by = "writer" /\ run.writer # "dead" => c.live

\* The submissions are on record, m of them in the chunk on its way, and the
\* others in the queue, in their order.
Holds(m) ==
    /\ \A i \in 1..Len(Recorded) : Recorded[i] = i
    /\ \A i \in 1..Len(queue) : queue[i].n = Len(Recorded) + m + i
    /\ run.rows = Len(Recorded) + m + Len(queue)

Carries(c) == \A i \in 1..Len(c.rows) : c.rows[i] = Len(Recorded) + i

ContentInv ==
    On => /\ run.writer = "idle" => Holds(0)
          /\ run.writer = "appending" =>
                \E c \in calls : c.live /\ c.by = "writer" /\ Carries(c) /\ Holds(Len(c.rows))

\* A run that has not failed has flushed its writer, and nothing comes between
\* the last guard and the seal.
LateInv ==
    ~ run.failed =>
        /\ run.stage \in Late => run.writer = "idle" /\ queue = <<>>
        /\ run.stage \in {"guarded", "terminating"} => journal # <<>> /\ Last(journal).kind = "guard"
        /\ run.stage = "guarded" => calls = {}
        /\ run.stage = "guarding" => \E c \in calls : calls = {c} /\ c.kind = "guard"
        /\ run.stage = "terminating" => \E c \in calls : calls = {c} /\ c.kind = "terminal"

\* There is no run without a claim, and none after the seal.
EndsInv ==
    /\ run.stage = "none" => calls = {} /\ queue = <<>> /\ run.rows = 0 /\ run.writer = "idle"
    /\ run.stage \in {"none", "running"} => ~ run.failed
    /\ run.stage # "none" => journal # <<>>
    /\ \A i \in DOMAIN journal : journal[i].completed => journal[i].kind = "terminal"
    /\ journal # <<>> /\ Last(journal).completed => run.stage \in Over

WholeInv == AwaitedInv /\ ContentInv /\ LateInv /\ EndsInv /\ CompletedIsWhole

LEMMA RecordedTyped == ASSUME TypeInv PROVE Recorded \in Rows
<1> DEFINE s == [i \in DOMAIN journal |-> journal[i].rows]
<1>1. s \in Seq(Seq(1..MaxRows))
  <2>1. /\ journal \in Seq(Entries) /\ Len(journal) \in Nat /\ DOMAIN journal = 1..Len(journal)
        /\ \A i \in 1..Len(journal) : journal[i] \in Entries
    BY DEF TypeInv
  <2>2. \A i \in 1..Len(journal) : journal[i].rows \in Seq(1..MaxRows)
    BY <2>1 DEF Entries, Rows
  <2>3. s \in [1..Len(journal) -> Seq(1..MaxRows)]
    BY <2>1, <2>2
  <2> HIDE DEF s
  <2> QED  BY <2>1, <2>3, SeqDef
<1> HIDE DEF s
<1>2. FlattenSeq(s) \in Seq(1..MaxRows)
  BY <1>1, FlattenIs
<1> QED  BY <1>2 DEF Recorded, Rows, s

\* An append adds its rows.
LEMMA RecordedGrows ==
  ASSUME TypeInv, NEW e \in Entries, journal' = Append(journal, e)
  PROVE  Recorded' = Recorded \o e.rows
<1> DEFINE s == [i \in DOMAIN journal |-> journal[i].rows]
           t == [i \in DOMAIN journal' |-> journal'[i].rows]
<1>1. /\ journal \in Seq(Entries) /\ Len(journal) \in Nat /\ DOMAIN journal = 1..Len(journal)
      /\ \A i \in 1..Len(journal) : journal[i] \in Entries
  BY DEF TypeInv
<1>2. \A i \in 1..Len(journal) : journal[i].rows \in Seq(1..MaxRows)
  BY <1>1 DEF Entries, Rows
<1>3. s \in [1..Len(journal) -> Seq(1..MaxRows)] /\ \A i \in 1..Len(journal) : s[i] = journal[i].rows
  BY <1>1, <1>2
<1>4. s \in Seq(Seq(1..MaxRows)) /\ Len(s) = Len(journal)
  <2> HIDE DEF s
  <2>1. s \in Seq(Seq(1..MaxRows))
    BY <1>1, <1>3, SeqDef
  <2> QED  BY <1>1, <1>3, <2>1
<1>5. /\ DOMAIN journal' = 1..(Len(journal) + 1)
      /\ \A i \in 1..Len(journal) : journal'[i] = journal[i]
      /\ journal'[Len(journal) + 1] = e
  BY <1>1
<1>6. e.rows \in Seq(1..MaxRows)
  BY DEF Entries, Rows
<1>7. t = Append(s, e.rows)
  <2>1. /\ Append(s, e.rows) \in Seq(Seq(1..MaxRows))
        /\ Len(Append(s, e.rows)) = Len(journal) + 1
        /\ \A i \in 1..Len(journal) : Append(s, e.rows)[i] = s[i]
        /\ Append(s, e.rows)[Len(journal) + 1] = e.rows
    <3> HIDE DEF s
    <3> QED  BY <1>4, <1>6
  <2>2. Append(s, e.rows) \in [1..(Len(journal) + 1) -> Seq(1..MaxRows)]
    BY <2>1, LenProperties
  <2>3. t = [i \in 1..(Len(journal) + 1) |-> journal'[i].rows]
    BY <1>5
  <2>4. \A i \in 1..(Len(journal) + 1) : t[i] = Append(s, e.rows)[i]
    <3> SUFFICES ASSUME NEW i \in 1..(Len(journal) + 1) PROVE t[i] = Append(s, e.rows)[i]
      OBVIOUS
    <3>1. t[i] = journal'[i].rows
      BY <2>3
    <3>2. i \in 1..Len(journal) \/ i = Len(journal) + 1
      BY <1>1
    <3> QED  BY <1>3, <1>5, <2>1, <3>1, <3>2
  <2>5. DOMAIN t = 1..(Len(journal) + 1)
    BY <2>3
  <2> DEFINE u == Append(s, e.rows)
  <2> HIDE DEF s, t, u
  <2> QED  BY <2>2, <2>3, <2>4 DEF u
<1> HIDE DEF s, t
<1>8. FlattenSeq(t) = FlattenSeq(s) \o e.rows
  BY <1>4, <1>6, <1>7, FlattenAppend
<1> QED  BY <1>8 DEF Recorded, s, t

LEMMA RecordedStays == ASSUME UNCHANGED journal PROVE Recorded' = Recorded
  BY DEF Recorded

-----------------------------------------------------------------------------
(* A completed journal is whole *)

\* Without an append the journal stays whole, and a study that is over gets no
\* more submissions.
LEMMA EndsKept ==
  ASSUME EndsInv, CompletedIsWhole, UNCHANGED journal,
         run.stage # "none", run'.stage # "none",
         run'.stage = "running" => run.stage = "running" /\ run'.failed = run.failed,
         run.stage \in Over => run'.stage \in Over /\ run'.rows = run.rows
  PROVE  EndsInv' /\ CompletedIsWhole'
<1>1. Recorded' = Recorded
  BY RecordedStays
<1>2. EndsInv'
  BY DEF EndsInv
<1>3. CompletedIsWhole'
  <2> SUFFICES ASSUME journal # <<>>, Last(journal).completed
               PROVE  /\ Recorded = [i \in 1..run'.rows |-> i]
                      /\ journal[Len(journal) - 1].kind = "guard"
    BY <1>1 DEF CompletedIsWhole
  <2>1. run'.rows = run.rows
    BY DEF EndsInv
  <2> QED  BY <2>1 DEF CompletedIsWhole
<1> QED  BY <1>2, <1>3

\* A step that touches neither the rows nor the writer keeps the chunk in hand.
LEMMA ContentStays ==
  ASSUME ContentInv, UNCHANGED queue, Recorded' = Recorded, On' => On,
         run'.rows = run.rows, run'.writer = run.writer,
         \A c \in calls : c.live /\ c.by = "writer" => c \in calls'
  PROVE  ContentInv'
<1> SUFFICES ASSUME On PROVE /\ run.writer = "idle" => Holds(0)'
                             /\ run.writer = "appending" =>
                                   \E c \in calls' : c.live /\ c.by = "writer" /\ Carries(c)'
                                                     /\ Holds(Len(c.rows))'
  BY DEF ContentInv, Holds, Carries
<1>2. ASSUME NEW m, Holds(m) PROVE Holds(m)'
  BY <1>2 DEF Holds
<1>3. CASE run.writer = "idle"
  BY <1>2, <1>3 DEF ContentInv
<1>4. CASE run.writer = "appending"
  <2>1. PICK c \in calls : c.live /\ c.by = "writer" /\ Carries(c) /\ Holds(Len(c.rows))
    BY <1>4 DEF ContentInv
  <2>2. Carries(c)' /\ Holds(Len(c.rows))'
    BY <1>2, <2>1 DEF Carries
  <2> QED  BY <1>4, <2>1, <2>2
<1> QED  BY <1>3, <1>4

LEMMA ContentKept ==
  ASSUME ContentInv, UNCHANGED <<journal, queue>>, On' => On,
         run'.rows = run.rows, run'.writer = run.writer,
         \A c \in calls : c.live /\ c.by = "writer" => c \in calls'
  PROVE  ContentInv'
  BY RecordedStays, ContentStays

\* The steps that do not touch the run or the journal.
LEMMA WholeKept ==
  ASSUME WholeInv, UNCHANGED <<run, queue, calls, journal>>
  PROVE  WholeInv'
<1>1. Recorded' = Recorded
  BY RecordedStays
<1>2. AwaitedInv' /\ LateInv' /\ EndsInv'
  BY DEF WholeInv, AwaitedInv, LateInv, EndsInv, On
<1>3. ContentInv'
  BY ContentKept DEF WholeInv, On
<1>4. CompletedIsWhole'
  BY <1>1 DEF WholeInv, CompletedIsWhole
<1> QED  BY <1>2, <1>3, <1>4 DEF WholeInv

LEMMA InitWhole == ASSUME Init PROVE WholeInv
<1>1. /\ journal = <<>> /\ calls = {} /\ queue = <<>> /\ run.stage = "none" /\ ~ run.failed
      /\ run.rows = 0 /\ run.writer = "idle" /\ DOMAIN <<>> = {}
  BY DEF Init
<1>2. ~ On
  BY <1>1 DEF On
<1>3. AwaitedInv /\ ContentInv /\ EndsInv /\ CompletedIsWhole
  BY <1>1, <1>2 DEF AwaitedInv, ContentInv, EndsInv, CompletedIsWhole
<1>4. LateInv
  BY <1>1 DEF LateInv, Late
<1> QED  BY <1>3, <1>4 DEF WholeInv

\* The claim starts a run with nothing on record; no other step of the store
\* touches the run.
LEMMA StoreWhole ==
  ASSUME TypeInv, WholeInv,
         Tick \/ Refresh \/ Release \/ (\E p \in Process : Check(p) \/ Acquire(p) \/ Claim(p))
  PROVE  WholeInv'
<1>1. CASE UNCHANGED <<run, queue, calls, journal>>
  BY <1>1, WholeKept
<1>2. ASSUME NEW p \in Process, Claim(p), ~ UNCHANGED <<run, queue, calls, journal>>
      PROVE  WholeInv'
  <2> DEFINE record == Entry(p, "protocol", <<>>, clock, FALSE)
  <2>1. /\ journal = <<>> /\ journal' = Append(journal, record)
        /\ UNCHANGED <<queue, calls>>
        /\ run' = [run EXCEPT !.owner = p, !.stage = "running"] \/ run' = run
    BY <1>2 DEF Claim, MayAppend
  <2>2. /\ run.stage = "none" /\ calls = {} /\ queue = <<>> /\ run.rows = 0 /\ run.writer = "idle"
        /\ ~ run.failed
    BY <2>1 DEF WholeInv, EndsInv
  <2>3. /\ run'.stage \in {"none", "running"} /\ run'.rows = 0 /\ run'.writer = "idle"
        /\ ~ run'.failed
    <3>1. run \in Runs
      BY DEF TypeInv
    <3> QED  BY <2>1, <2>2, <3>1 DEF Runs
  <2>4. record \in Entries /\ record.rows = <<>> /\ record.kind = "protocol" /\ ~ record.completed
    <3>1. p \in Owners /\ "protocol" \in Kind /\ <<>> \in Rows /\ clock \in Nat
      BY DEF Owners, Kind, Rows, TypeInv
    <3>2. record \in Entries
      BY <3>1, EntryTyped
    <3> QED  BY <3>2 DEF Entry
  <2> HIDE DEF record
  <2>5. Recorded' = <<>>
    <3>1. Recorded' = Recorded \o <<>>
      BY <2>1, <2>4, RecordedGrows
    <3>2. Recorded = <<>>
      <4>1. [i \in DOMAIN journal |-> journal[i].rows] \in Seq(Rows)
        BY <2>1
      <4>2. Len([i \in DOMAIN journal |-> journal[i].rows]) = 0
        BY <2>1
      <4>3. [i \in DOMAIN journal |-> journal[i].rows] = <<>>
        BY <4>1, <4>2, EmptySeq
      <4> QED  BY <4>1, <4>2, <4>3, FlattenIs DEF Recorded, Rows
    <3> QED  BY <3>1, <3>2
  <2>6. /\ journal' \in Seq({record}) /\ Len(journal') = 1 /\ journal'[1] = record
        /\ DOMAIN journal' = 1..1 /\ journal' # <<>>
    BY <2>1, FirstRecord, Zenon
  <2>7. Last(journal') = record
    BY <2>6 DEF Last
  <2>8. AwaitedInv'
    BY <2>1, <2>2 DEF AwaitedInv
  <2>9. ContentInv'
    <3>1. Len(<<>>) = 0
      OBVIOUS
    <3>2. Holds(0)'
      BY <2>1, <2>2, <2>3, <2>5, <3>1 DEF Holds
    <3> QED  BY <2>3, <3>2 DEF ContentInv
  <2>10. LateInv'
    BY <2>3 DEF LateInv, Late
  <2>11. EndsInv' /\ CompletedIsWhole'
    BY <2>1, <2>2, <2>3, <2>4, <2>6, <2>7 DEF EndsInv, CompletedIsWhole
  <2> QED  BY <2>8, <2>9, <2>10, <2>11 DEF WholeInv
<1> QED
  BY <1>1, <1>2 DEF Tick, Refresh, Release, Check, Acquire

\* A submission goes to the end of the queue, with the next number.
LEMMA SubmitWhole ==
  ASSUME Bounds, TypeInv, WholeInv, NEW kind \in {"capture", "evaluation"}, Submit(kind)
  PROVE  WholeInv'
<1> DEFINE row == [n |-> run.rows + 1, kind |-> kind]
<1>1. /\ run.stage \in {"running", "stopping"}
      /\ run' = [run EXCEPT !.rows = @ + 1]
      /\ queue' = Append(queue, row)
      /\ UNCHANGED <<calls, journal>>
  BY DEF Submit
<1>2. run'.rows = run.rows + 1 /\ run.rows \in Nat
      /\ run'.stage = run.stage /\ run'.failed = run.failed /\ run'.writer = run.writer
      /\ run'.watch = run.watch
  <2>1. run \in Runs
    BY DEF TypeInv
  <2> QED  BY <1>1, <2>1 DEF Runs, Bounds
<1>3. row \in Submissions /\ row.n = run.rows + 1
  <2>1. run.rows + 1 \in 1..MaxRows
    BY <1>2 DEF Submit, Bounds
  <2> QED  BY <2>1 DEF Submissions
<1> HIDE DEF row
<1>4. /\ Len(queue') = Len(queue) + 1 /\ Len(queue) \in Nat
      /\ \A i \in 1..Len(queue) : queue'[i] = queue[i]
      /\ queue'[Len(queue) + 1] = row
  <2>1. queue \in Seq(Submissions)
    BY DEF TypeInv
  <2> QED  BY ONLY <1>1, <1>3, <2>1
<1>5. Recorded' = Recorded /\ Len(Recorded) \in Nat
  <2>1. Recorded \in Rows
    BY RecordedTyped
  <2> QED  BY <1>1, <2>1, RecordedStays DEF Rows
<1>6. ASSUME NEW m \in Nat, Holds(m) PROVE Holds(m)'
  <2>1. /\ \A i \in 1..Len(Recorded) : Recorded[i] = i
        /\ \A i \in 1..Len(queue) : queue[i].n = Len(Recorded) + m + i
        /\ run.rows = Len(Recorded) + m + Len(queue)
    BY <1>6 DEF Holds
  <2>2. run'.rows = Len(Recorded) + m + Len(queue')
    BY <1>2, <1>4, <1>5, <2>1
  <2>3. ASSUME NEW i \in 1..Len(queue') PROVE queue'[i].n = Len(Recorded) + m + i
    <3>1. i \in 1..Len(queue) \/ i = Len(queue) + 1
      BY <1>4
    <3>2. CASE i \in 1..Len(queue)
      BY <1>4, <2>1, <3>2
    <3>3. CASE i = Len(queue) + 1
      BY <1>2, <1>3, <1>4, <1>5, <2>1, <3>3
    <3> QED  BY <3>1, <3>2, <3>3
  <2> QED  BY <1>5, <2>1, <2>2, <2>3 DEF Holds
<1>7. ContentInv'
  <2>1. On /\ On'
    BY <1>1, <1>2 DEF On, Over
  <2>2. CASE run.writer = "idle"
    BY <1>2, <1>6, <2>1, <2>2 DEF WholeInv, ContentInv
  <2>3. CASE run.writer = "appending"
    <3>1. PICK c \in calls : c.live /\ c.by = "writer" /\ Carries(c) /\ Holds(Len(c.rows))
      BY <2>1, <2>3 DEF WholeInv, ContentInv
    <3>2. Len(c.rows) \in Nat
      <4>1. c.rows \in Rows
        BY DEF TypeInv, Appends
      <4> QED  BY <4>1 DEF Rows
    <3>3. Holds(Len(c.rows))' /\ Carries(c)'
      BY <1>5, <1>6, <3>1, <3>2 DEF Carries
    <3> QED  BY <1>1, <1>2, <2>3, <3>1, <3>3 DEF ContentInv
  <2> QED  BY <1>2, <2>2, <2>3 DEF ContentInv
<1>8. AwaitedInv'
  BY <1>1, <1>2 DEF WholeInv, AwaitedInv, On
<1>9. LateInv'
  BY <1>1, <1>2 DEF LateInv, Late
<1>10. EndsInv' /\ CompletedIsWhole'
  <2>1. run.stage \notin Over /\ run.stage # "none"
    BY <1>1 DEF Over
  <2> QED  BY <1>1, <1>2, <2>1, EndsKept DEF WholeInv
<1> QED  BY <1>7, <1>8, <1>9, <1>10 DEF WholeInv

\* A new append is the only one that a task waits for.
LEMMA CallIs ==
  ASSUME NEW by, NEW kind, NEW rows, Call(by, kind, rows)
  PROVE  \E c : /\ calls' = calls \cup {c}
                /\ c.by = by /\ c.kind = kind /\ c.rows = rows /\ c.live
                /\ c.completed = (kind = "terminal" /\ ~ run.failed)
                /\ \A d \in calls : ~ d.live
<1> DEFINE c == [by |-> by, kind |-> kind, rows |-> rows, at |-> clock + 1, live |-> TRUE,
                 completed |-> kind = "terminal" /\ ~ run.failed]
<1>1. calls' = calls \cup {c} /\ \A d \in calls : ~ d.live
  BY DEF Call, Live
<1>2. /\ c.by = by /\ c.kind = kind /\ c.rows = rows /\ c.live
      /\ c.completed = (kind = "terminal" /\ ~ run.failed)
  OBVIOUS
<1> HIDE DEF c
<1> QED  BY <1>1, <1>2

LEMMA AwaitedCalled ==
  ASSUME AwaitedInv, NEW by, NEW kind, NEW rows, Call(by, kind, rows),
         run.stage # "terminating", On, run'.failed = run.failed,
         by = "writer" => run'.writer = "appending",
         by # "writer" => run'.writer = run.writer,
         by = "watch" => run'.watch = "appending",
         kind = "quality" => run'.stage = "finishing",
         kind = "guard" => run'.stage = "guarding",
         kind = "terminal" => run'.stage = "terminating",
         by = "writer" => run.writer # "dead"
  PROVE  AwaitedInv'
<1>1. PICK c : /\ calls' = calls \cup {c}
               /\ c.by = by /\ c.kind = kind /\ c.rows = rows /\ c.live
               /\ c.completed = (kind = "terminal" /\ ~ run.failed)
               /\ \A d \in calls : ~ d.live
  BY CallIs
<1>2. \A d \in calls : /\ ~ d.completed /\ run.failed
                       /\ d.by = "writer" => run.writer = "dead"
  BY <1>1 DEF AwaitedInv
<1> QED  BY <1>1, <1>2 DEF AwaitedInv

\* The head of the queue goes into the chunk that is on its way.
LEMMA WriteWhole ==
  ASSUME TypeInv, WholeInv, Write
  PROVE  WholeInv'
<1>1. PICK pack \in Pack :
         /\ Call("writer", "chunk", [i \in DOMAIN pack |-> pack[i].n])
         /\ queue' = SubSeq(queue, Len(pack) + 1, Len(queue))
  BY DEF Write
<1> DEFINE rows == [i \in DOMAIN pack |-> pack[i].n]
           rest == SubSeq(queue, Len(pack) + 1, Len(queue))
<1>2. PICK k \in 1..Len(queue) :
         /\ Len(pack) = k /\ Len(rows) = k
         /\ \A i \in 1..k : rows[i] = queue[i].n
         /\ Len(rest) = Len(queue) - k
         /\ \A i \in 1..(Len(queue) - k) : rest[i] = queue[k + i]
  <2> HIDE DEF rows
  <2>1. PICK k \in 1..Len(queue) :
            /\ Len(pack) = k /\ Len(rows) = k
            /\ \A i \in 1..k : rows[i] = queue[i].n
            /\ Len(SubSeq(queue, k + 1, Len(queue))) = Len(queue) - k
            /\ \A i \in 1..(Len(queue) - k) :
                  SubSeq(queue, k + 1, Len(queue))[i] = queue[k + i]
    BY PackIs DEF rows
  <2> QED  BY <2>1
<1> HIDE DEF rows, rest
<1>3. /\ run.stage \in {"running", "stopping"} /\ run.writer = "idle"
      /\ run' = [run EXCEPT !.writer = "appending"]
      /\ queue' = rest /\ Call("writer", "chunk", rows) /\ UNCHANGED journal
  BY <1>1 DEF Write, rows, rest
<1>4. /\ run'.stage = run.stage /\ run'.failed = run.failed /\ run'.rows = run.rows
      /\ run'.watch = run.watch /\ run'.writer = "appending"
  <2>1. run \in Runs
    BY DEF TypeInv
  <2> QED  BY <1>3, <2>1 DEF Runs
<1>5. On /\ On' /\ run.stage \notin Over /\ run.stage # "none"
  BY <1>3, <1>4 DEF On, Over
<1>6. PICK c : calls' = calls \cup {c} /\ c.by = "writer" /\ c.rows = rows /\ c.live
  BY <1>3, CallIs
<1>7. ContentInv'
  <2>1. /\ \A i \in 1..Len(Recorded) : Recorded[i] = i
        /\ \A i \in 1..Len(queue) : queue[i].n = Len(Recorded) + 0 + i
        /\ run.rows = Len(Recorded) + 0 + Len(queue)
    BY <1>3, <1>5 DEF WholeInv, ContentInv, Holds
  <2>2. Recorded' = Recorded /\ Len(Recorded) \in Nat /\ Len(queue) \in Nat
    <3>1. Recorded \in Rows /\ queue \in Seq(Submissions)
      BY RecordedTyped DEF TypeInv
    <3> QED  BY <1>3, <3>1, RecordedStays DEF Rows
  <2>3. \A i \in 1..Len(rows) : rows[i] = Len(Recorded) + i
    BY <1>2, <2>1, <2>2
  <2>4. ASSUME NEW i \in 1..Len(rest) PROVE rest[i].n = Len(Recorded) + k + i
    <3>1. i \in 1..(Len(queue) - k) /\ k + i \in 1..Len(queue)
      BY <1>2, <2>2
    <3>2. rest[i] = queue[k + i]
      BY <1>2, <3>1
    <3>3. queue[k + i].n = Len(Recorded) + 0 + (k + i)
      BY <2>1, <3>1
    <3> QED  BY <2>2, <3>2, <3>3
  <2>5. run'.rows = Len(Recorded) + k + Len(rest)
    BY <1>2, <1>4, <2>1, <2>2
  <2>6. Holds(k)'
    BY <1>3, <2>1, <2>2, <2>4, <2>5 DEF Holds
  <2>7. Carries(c)' /\ Holds(Len(c.rows))'
    BY <1>2, <1>6, <2>2, <2>3, <2>6 DEF Carries
  <2> QED  BY <1>4, <1>6, <2>7 DEF ContentInv
<1>8. AwaitedInv'
  BY <1>3, <1>4, <1>5, AwaitedCalled DEF WholeInv
<1>9. LateInv'
  BY <1>3, <1>4 DEF LateInv, Late
<1>10. EndsInv' /\ CompletedIsWhole'
  BY <1>3, <1>4, <1>5, EndsKept DEF WholeInv
<1> QED  BY <1>7, <1>8, <1>9, <1>10 DEF WholeInv

\* The other appends of the run have no rows.
LEMMA WatchWhole ==
  ASSUME TypeInv, WholeInv, Watch
  PROVE  WholeInv'
<1>1. /\ run.stage \in {"running", "stopping", "flushed", "verifying"}
      /\ run' = [run EXCEPT !.watch = "appending", !.watched = @ + 1]
      /\ Call("watch", "watch", <<>>) /\ UNCHANGED <<queue, journal>>
  BY DEF Watch
<1>2. /\ run'.stage = run.stage /\ run'.failed = run.failed /\ run'.rows = run.rows
      /\ run'.writer = run.writer /\ run'.watch = "appending"
  <2>1. run \in Runs
    BY DEF TypeInv
  <2> QED  BY <1>1, <2>1 DEF Runs
<1>3. On /\ run.stage \notin Over /\ run.stage # "none" /\ calls \subseteq calls'
  BY <1>1, CallIs DEF On, Over
<1>4. AwaitedInv'
  BY <1>1, <1>2, <1>3, AwaitedCalled DEF WholeInv
<1>5. ContentInv'
  BY <1>1, <1>2, <1>3, ContentKept DEF WholeInv
<1>6. LateInv'
  BY <1>1, <1>2 DEF WholeInv, LateInv, Late
<1>7. EndsInv' /\ CompletedIsWhole'
  BY <1>1, <1>2, <1>3, EndsKept DEF WholeInv
<1> QED  BY <1>4, <1>5, <1>6, <1>7 DEF WholeInv

LEMMA RecordQualityWhole ==
  ASSUME TypeInv, WholeInv, RecordQuality
  PROVE  WholeInv'
<1>1. /\ run.stage = "flushed" /\ UNCHANGED <<queue, journal>>
      /\ \/ run' = [run EXCEPT !.stage = "finishing"] /\ Call("main", "quality", <<>>)
         \/ run' = [run EXCEPT !.stage = "unsealed"] /\ UNCHANGED calls
  BY DEF RecordQuality
<1>2. /\ run'.failed = run.failed /\ run'.rows = run.rows
      /\ run'.writer = run.writer /\ run'.watch = run.watch
      /\ \/ run'.stage = "finishing" /\ Call("main", "quality", <<>>)
         \/ run'.stage = "unsealed" /\ UNCHANGED calls
  <2>1. run \in Runs
    BY DEF TypeInv
  <2> QED  BY <1>1, <2>1 DEF Runs
<1>3. On /\ run.stage \notin Over /\ run.stage # "none" /\ run'.stage \notin {"none", "running"}
  BY <1>1, <1>2 DEF On, Over
<1>4. calls \subseteq calls'
  BY <1>2, CallIs
<1>5. AwaitedInv'
  <2>1. CASE run'.stage = "finishing" /\ Call("main", "quality", <<>>)
    BY <1>1, <1>2, <1>3, <2>1, AwaitedCalled DEF WholeInv
  <2>2. CASE run'.stage = "unsealed" /\ UNCHANGED calls
    BY <1>1, <1>2, <2>2 DEF WholeInv, AwaitedInv, On, Over
  <2> QED  BY <1>2, <2>1, <2>2
<1>6. ContentInv'
  BY <1>1, <1>2, <1>3, <1>4, ContentKept DEF WholeInv
<1>7. LateInv'
  BY <1>1, <1>2 DEF WholeInv, LateInv, Late
<1>8. EndsInv' /\ CompletedIsWhole'
  BY <1>1, <1>2, <1>3, EndsKept DEF WholeInv
<1> QED  BY <1>5, <1>6, <1>7, <1>8 DEF WholeInv

\* Nothing is left on its way beside the last guard of a run that has not failed.
LEMMA GuardFinallyWhole ==
  ASSUME TypeInv, WholeInv, GuardFinally
  PROVE  WholeInv'
<1>1. /\ run.stage = "closing" /\ UNCHANGED <<queue, journal>>
      /\ \/ /\ run' = [run EXCEPT !.stage = "guarding"] /\ Call("main", "guard", <<>>)
            /\ ~ run.failed
         \/ run' = [run EXCEPT !.stage = "guarded", !.failed = TRUE] /\ UNCHANGED calls
  BY DEF GuardFinally
<1>2. /\ run'.rows = run.rows /\ run'.writer = run.writer /\ run'.watch = run.watch
      /\ \/ /\ run'.stage = "guarding" /\ Call("main", "guard", <<>>)
            /\ ~ run.failed /\ run'.failed = run.failed
         \/ run'.stage = "guarded" /\ run'.failed /\ UNCHANGED calls
  <2>1. run \in Runs
    BY DEF TypeInv
  <2> QED  BY <1>1, <2>1 DEF Runs
<1>3. On /\ run.stage \notin Over /\ run.stage # "none" /\ run'.stage \notin {"none", "running"}
  BY <1>1, <1>2 DEF On, Over
<1>4. calls \subseteq calls'
  BY <1>2, CallIs
<1>5. AwaitedInv'
  <2>1. CASE run'.stage = "guarding" /\ Call("main", "guard", <<>>) /\ run'.failed = run.failed
    BY <1>1, <1>2, <1>3, <2>1, AwaitedCalled DEF WholeInv
  <2>2. CASE run'.stage = "guarded" /\ run'.failed /\ UNCHANGED calls
    BY <1>1, <1>2, <1>3, <2>2 DEF WholeInv, AwaitedInv, On, Over
  <2> QED  BY <1>2, <2>1, <2>2
<1>6. ContentInv'
  BY <1>1, <1>2, <1>3, <1>4, ContentKept DEF WholeInv
<1>7. LateInv'
  <2>1. CASE run'.stage = "guarding" /\ Call("main", "guard", <<>>) /\ ~ run.failed
    <3>1. PICK c : calls' = calls \cup {c} /\ c.kind = "guard" /\ \A d \in calls : ~ d.live
      BY <2>1, CallIs
    <3>2. \A d \in calls : d.live
      BY <1>3, <2>1 DEF WholeInv, AwaitedInv
    <3>3. calls' = {c}
      BY <3>1, <3>2
    <3>4. run.writer = "idle" /\ queue = <<>>
      BY <1>1, <2>1 DEF WholeInv, LateInv, Late
    <3> QED  BY <1>1, <1>2, <2>1, <3>1, <3>3, <3>4 DEF LateInv, Late
  <2>2. CASE run'.failed
    BY <2>2 DEF LateInv
  <2> QED  BY <1>2, <2>1, <2>2
<1>8. EndsInv' /\ CompletedIsWhole'
  BY <1>1, <1>2, <1>3, EndsKept DEF WholeInv
<1> QED  BY <1>5, <1>6, <1>7, <1>8 DEF WholeInv

LEMMA SealWhole ==
  ASSUME TypeInv, WholeInv, Seal
  PROVE  WholeInv'
<1>1. /\ run.stage = "guarded" /\ UNCHANGED <<queue, journal>>
      /\ run' = [run EXCEPT !.stage = "terminating"] /\ Call("main", "terminal", <<>>)
  BY DEF Seal
<1>2. /\ run'.failed = run.failed /\ run'.rows = run.rows
      /\ run'.writer = run.writer /\ run'.watch = run.watch /\ run'.stage = "terminating"
  <2>1. run \in Runs
    BY DEF TypeInv
  <2> QED  BY <1>1, <2>1 DEF Runs
<1>3. On /\ run.stage \notin Over /\ run.stage # "none" /\ run'.stage \notin {"none", "running"}
  BY <1>1, <1>2 DEF On, Over
<1>4. PICK c : calls' = calls \cup {c} /\ c.kind = "terminal"
  BY <1>1, CallIs
<1>5. AwaitedInv'
  BY <1>1, <1>2, <1>3, AwaitedCalled DEF WholeInv
<1>6. ContentInv'
  BY <1>1, <1>2, <1>3, <1>4, ContentKept DEF WholeInv
<1>7. LateInv'
  <2> SUFFICES ASSUME ~ run.failed PROVE LateInv'
    BY <1>2 DEF LateInv
  <2>1. /\ run.writer = "idle" /\ queue = <<>> /\ calls = {}
        /\ journal # <<>> /\ Last(journal).kind = "guard"
    BY <1>1 DEF WholeInv, LateInv, Late
  <2>2. calls' = {c}
    BY <1>4, <2>1
  <2> QED  BY <1>1, <1>2, <1>4, <2>1, <2>2 DEF LateInv, Late
<1>8. EndsInv' /\ CompletedIsWhole'
  BY <1>1, <1>2, <1>3, EndsKept DEF WholeInv
<1> QED  BY <1>5, <1>6, <1>7, <1>8 DEF WholeInv

\* A step that cancels tasks or goes on, without an append.
LEMMA FinishWhole ==
  ASSUME TypeInv, WholeInv, Finish
  PROVE  WholeInv'
<1>1. /\ run.stage = "running" /\ UNCHANGED <<queue, calls, journal>>
      /\ \E b : run' = [run EXCEPT !.stage = "stopping", !.failed = b]
  BY DEF Finish
<1>2. /\ run'.rows = run.rows /\ run'.writer = run.writer /\ run'.watch = run.watch
      /\ run'.stage = "stopping"
  <2>1. run \in Runs
    BY DEF TypeInv
  <2> QED  BY <1>1, <2>1 DEF Runs
<1>3. On /\ run.stage \notin Over /\ run.stage # "none" /\ ~ run.failed
  BY <1>1 DEF On, Over, WholeInv, EndsInv
<1>4. AwaitedInv'
  BY <1>1, <1>2, <1>3 DEF WholeInv, AwaitedInv
<1>5. ContentInv'
  BY <1>1, <1>2, <1>3, ContentKept DEF WholeInv
<1>6. LateInv'
  BY <1>2 DEF LateInv, Late
<1>7. EndsInv' /\ CompletedIsWhole'
  BY <1>1, <1>2, <1>3, EndsKept DEF WholeInv
<1> QED  BY <1>4, <1>5, <1>6, <1>7 DEF WholeInv

\* The calls of the watch that are left behind are those of a run that has failed.
LEMMA WatchEnds ==
  ASSUME TypeInv, AwaitedInv, calls' = Orphaned("watch"), On,
         run.stage # "terminating",
         run'.failed = FALSE => ~ run.failed /\ run.watch # "appending",
         run'.failed \in BOOLEAN,
         run'.writer = run.writer,
         run'.stage = run.stage \/ (run.stage = "verifying" /\ run'.stage = "closing"),
         run.stage = "finishing" => run'.stage = run.stage
  PROVE  /\ AwaitedInv'
         /\ \A c \in calls : c.live /\ c.by = "writer" => c \in calls'
<1>1. \A d \in calls' : \E c \in calls : IF c.by = "watch" THEN d = [c EXCEPT !.live = FALSE] ELSE d = c
  BY OrphanedIs
<1>2. \A c \in calls : c.by # "watch" => c \in calls'
  BY DEF Orphaned
<1>3. ASSUME NEW d \in calls'
      PROVE  /\ d.live => d \in calls /\ d.by # "watch"
             /\ ~ d.completed
             /\ ~ run'.failed => d \in calls /\ d.by # "watch"
             /\ d.by = "writer" => d \in calls
  <2>1. PICK c \in calls : IF c.by = "watch" THEN d = [c EXCEPT !.live = FALSE] ELSE d = c
    BY <1>1
  <2>2. c \in Appends
    BY DEF TypeInv
  <2>3. ~ c.completed
    BY DEF AwaitedInv
  <2>4. CASE c.by = "watch"
    <3>1. ~ d.live /\ d.by = "watch" /\ ~ d.completed
      BY <2>1, <2>2, <2>3, <2>4, Cancelled
    <3>2. run'.failed
      BY <2>4 DEF AwaitedInv
    <3> QED  BY <3>1, <3>2
  <2>5. CASE c.by # "watch"
    BY <2>1, <2>3, <2>5
  <2> QED  BY <2>4, <2>5
<1>4. AwaitedInv'
  BY <1>3 DEF AwaitedInv
<1> QED  BY <1>2, <1>4

LEMMA CancelWatchWhole ==
  ASSUME TypeInv, WholeInv, CancelWatch
  PROVE  WholeInv'
<1>1. /\ run.stage \in {"stopping", "flushed", "verifying"} /\ UNCHANGED <<queue, journal>>
      /\ run.failed /\ run' = [run EXCEPT !.watch = "gone"] /\ calls' = Orphaned("watch")
  BY DEF CancelWatch
<1>2. /\ run'.rows = run.rows /\ run'.writer = run.writer /\ run'.stage = run.stage
      /\ run'.failed = run.failed /\ run'.failed \in BOOLEAN
  <2>1. run \in Runs
    BY DEF TypeInv
  <2> QED  BY <1>1, <2>1 DEF Runs
<1>3. On /\ run.stage \notin Over /\ run.stage # "none"
  BY <1>1 DEF On, Over
<1>4. /\ AwaitedInv'
      /\ \A c \in calls : c.live /\ c.by = "writer" => c \in calls'
  BY <1>1, <1>2, <1>3, WatchEnds DEF WholeInv
<1>5. ContentInv'
  BY <1>1, <1>2, <1>3, <1>4, ContentKept DEF WholeInv
<1>6. LateInv'
  BY <1>1, <1>2 DEF LateInv
<1>7. EndsInv' /\ CompletedIsWhole'
  BY <1>1, <1>2, <1>3, EndsKept DEF WholeInv
<1> QED  BY <1>4, <1>5, <1>6, <1>7 DEF WholeInv

LEMMA VerifyWhole ==
  ASSUME TypeInv, WholeInv, Verify
  PROVE  WholeInv'
<1>1. /\ run.stage = "verifying" /\ UNCHANGED <<queue, journal>> /\ calls' = Orphaned("watch")
      /\ \E b \in BOOLEAN : /\ run' = [run EXCEPT !.stage = "closing", !.failed = b, !.watch = "gone"]
                            /\ ~ b => ~ run.failed /\ run.watch # "appending"
  <2> DEFINE b == run.failed \/ run.watch = "dead" \/ ~ LeaseHeld(run.owner)
  <2>1. b \in BOOLEAN /\ (~ b => ~ run.failed)
    OBVIOUS
  <2>2. /\ run.stage = "verifying" /\ UNCHANGED <<queue, journal>> /\ calls' = Orphaned("watch")
        /\ \/ /\ run' = [run EXCEPT !.stage = "closing", !.failed = b, !.watch = "gone"]
              /\ b \/ run.watch # "appending"
           \/ run' = [run EXCEPT !.stage = "closing", !.failed = TRUE, !.watch = "gone"]
    BY DEF Verify
  <2> HIDE DEF b
  <2> QED  BY <2>1, <2>2
<1>2. /\ run'.rows = run.rows /\ run'.writer = run.writer /\ run'.stage = "closing"
      /\ run'.failed \in BOOLEAN
      /\ ~ run'.failed => ~ run.failed /\ run.watch # "appending"
  <2>1. run \in Runs
    BY DEF TypeInv
  <2> QED  BY <1>1, <2>1 DEF Runs
<1>3. On /\ run.stage \notin Over /\ run.stage # "none"
  BY <1>1 DEF On, Over
<1>4. /\ AwaitedInv'
      /\ \A c \in calls : c.live /\ c.by = "writer" => c \in calls'
  BY <1>1, <1>2, <1>3, WatchEnds DEF WholeInv
<1>5. ContentInv'
  BY <1>1, <1>2, <1>3, <1>4, ContentKept DEF WholeInv
<1>6. LateInv'
  BY <1>1, <1>2 DEF WholeInv, LateInv, Late
<1>7. EndsInv' /\ CompletedIsWhole'
  BY <1>1, <1>2, <1>3, EndsKept DEF WholeInv
<1> QED  BY <1>4, <1>5, <1>6, <1>7 DEF WholeInv

\* The flush ends with an idle writer and an empty queue, or fails the run.
LEMMA FlushWhole ==
  ASSUME TypeInv, WholeInv, Flush
  PROVE  WholeInv'
<1>1. /\ run.stage = "stopping" /\ UNCHANGED <<queue, journal>>
      /\ \/ /\ queue = <<>> /\ run.writer = "idle" /\ UNCHANGED calls
            /\ run' = [run EXCEPT !.stage = "flushed"]
         \/ /\ run' = [run EXCEPT !.stage = "flushed", !.failed = TRUE, !.writer = "dead"]
            /\ calls' = Orphaned("writer")
  BY DEF Flush
<1>2. /\ run'.rows = run.rows /\ run'.watch = run.watch /\ run'.stage = "flushed"
      /\ \/ /\ queue = <<>> /\ run.writer = "idle" /\ UNCHANGED calls
            /\ run'.writer = "idle" /\ run'.failed = run.failed
         \/ run'.failed /\ run'.writer = "dead" /\ calls' = Orphaned("writer")
  <2>1. run \in Runs
    BY DEF TypeInv
  <2> QED  BY <1>1, <2>1 DEF Runs
<1>3. On /\ On' /\ run.stage \notin Over /\ run.stage # "none"
  BY <1>1, <1>2 DEF On, Over
<1>4. EndsInv' /\ CompletedIsWhole'
  BY <1>1, <1>2, <1>3, EndsKept DEF WholeInv
<1>5. CASE /\ queue = <<>> /\ run.writer = "idle" /\ UNCHANGED calls
           /\ run'.writer = "idle" /\ run'.failed = run.failed
  <2>1. AwaitedInv'
    BY <1>1, <1>2, <1>3, <1>5 DEF WholeInv, AwaitedInv
  <2>2. ContentInv'
    BY <1>1, <1>2, <1>3, <1>5, ContentKept DEF WholeInv
  <2>3. LateInv'
    BY <1>1, <1>2, <1>5 DEF LateInv
  <2> QED  BY <1>4, <2>1, <2>2, <2>3 DEF WholeInv
<1>6. CASE run'.failed /\ run'.writer = "dead" /\ calls' = Orphaned("writer")
  <2>1. ASSUME NEW d \in calls' PROVE (d.live => d \in calls /\ d.by # "writer") /\ ~ d.completed
    <3>1. PICK c \in calls : IF c.by = "writer" THEN d = [c EXCEPT !.live = FALSE] ELSE d = c
      BY <1>6, OrphanedIs
    <3>2. c \in Appends /\ ~ c.completed
      BY <1>1 DEF TypeInv, WholeInv, AwaitedInv
    <3>3. CASE c.by = "writer"
      BY <3>1, <3>2, <3>3, Cancelled
    <3>4. CASE c.by # "writer"
      BY <3>1, <3>2, <3>4
    <3> QED  BY <3>3, <3>4
  <2>2. AwaitedInv'
    BY <1>1, <1>2, <1>6, <2>1 DEF WholeInv, AwaitedInv
  <2>3. ContentInv'
    BY <1>6 DEF ContentInv
  <2>4. LateInv'
    BY <1>6 DEF LateInv
  <2> QED  BY <1>4, <2>2, <2>3, <2>4 DEF WholeInv
<1> QED  BY <1>2, <1>5, <1>6

\* A study that is given up or whose process dies is over.
LEMMA StopWhole ==
  ASSUME TypeInv, WholeInv, GiveUp \/ Crash
  PROVE  WholeInv'
<1>1. /\ run.stage \notin {"none"} \cup Over /\ UNCHANGED <<queue, journal>>
      /\ run.stage # "terminating" \/ calls' = {}
      /\ \E st \in {"unsealed", "crashed"} : run' = [run EXCEPT !.stage = st]
      /\ calls' = {} \/ calls' = {[c EXCEPT !.live = FALSE] : c \in calls}
  BY DEF GiveUp, Crash, Over
<1>2. run'.rows = run.rows /\ run'.stage \in {"unsealed", "crashed"}
  <2>1. run \in Runs
    BY DEF TypeInv
  <2> QED  BY <1>1, <2>1 DEF Runs
<1>3. run'.stage \in Over /\ ~ On'
  BY <1>2 DEF On, Over
<1>4. \A d \in calls' : ~ d.live /\ ~ d.completed
  <2> SUFFICES ASSUME NEW d \in calls' PROVE ~ d.live /\ ~ d.completed
    OBVIOUS
  <2>1. PICK c \in calls : d = [c EXCEPT !.live = FALSE] /\ run.stage # "terminating"
    BY <1>1
  <2>2. c \in Appends /\ ~ c.completed
    BY <2>1 DEF TypeInv, WholeInv, AwaitedInv
  <2> QED  BY <2>1, <2>2, Cancelled
<1>5. AwaitedInv' /\ ContentInv'
  BY <1>3, <1>4 DEF AwaitedInv, ContentInv
<1>6. LateInv'
  BY <1>2 DEF LateInv, Late
<1>7. EndsInv' /\ CompletedIsWhole'
  BY <1>1, <1>2, <1>3, EndsKept DEF WholeInv
<1> QED  BY <1>5, <1>6, <1>7 DEF WholeInv

\* What the journal says after an append that was allowed, or without one.
LEMMA GrownJournal ==
  ASSUME TypeInv, NEW c \in calls, NEW done \in BOOLEAN,
         IF done
         THEN /\ MayAppend(run.owner, c.kind, c.at)
              /\ journal' = Append(journal, Entry(run.owner, c.kind, c.rows, c.at, c.completed))
         ELSE journal' = journal,
         c.kind # "protocol"
  PROVE  /\ done => /\ journal # <<>> /\ Last(journal).kind # "terminal"
                    /\ Len(journal) \in Nat \ {0}
                    /\ Len(journal') = Len(journal) + 1
                    /\ DOMAIN journal = 1..Len(journal) /\ DOMAIN journal' = 1..(Len(journal) + 1)
                    /\ \A i \in 1..Len(journal) : journal'[i] = journal[i]
                    /\ journal'[Len(journal) + 1].kind = c.kind
                    /\ journal'[Len(journal) + 1].completed = c.completed
                    /\ Recorded' = Recorded \o c.rows
         /\ ~ done => journal' = journal /\ Recorded' = Recorded
<1>1. CASE done
  <2> DEFINE record == Entry(run.owner, c.kind, c.rows, c.at, c.completed)
  <2>1. journal # <<>> /\ Last(journal).kind # "terminal" /\ journal' = Append(journal, record)
    BY <1>1 DEF MayAppend
  <2>2. record \in Entries /\ record.kind = c.kind /\ record.completed = c.completed
        /\ record.rows = c.rows
    <3>1. run \in Runs /\ c \in Appends
      BY DEF TypeInv
    <3>2. run.owner \in Owners /\ c.kind \in Kind /\ c.rows \in Rows /\ c.at \in Nat
          /\ c.completed \in BOOLEAN
      BY <3>1 DEF Runs, Appends
    <3>3. record \in Entries
      BY <3>2, EntryTyped
    <3> QED  BY <3>3 DEF Entry
  <2> HIDE DEF record
  <2>3. Recorded' = Recorded \o c.rows
    BY <2>1, <2>2, RecordedGrows
  <2>4. journal \in Seq(Entries)
    BY DEF TypeInv
  <2>5. /\ Len(journal) \in Nat \ {0}
        /\ Len(journal') = Len(journal) + 1
        /\ DOMAIN journal = 1..Len(journal) /\ DOMAIN journal' = 1..(Len(journal) + 1)
        /\ \A i \in 1..Len(journal) : journal'[i] = journal[i]
        /\ journal'[Len(journal) + 1] = record
    BY ONLY <2>1, <2>2, <2>4
  <2> QED  BY <1>1, <2>1, <2>2, <2>3, <2>5
<1>2. CASE ~ done
  BY <1>2, RecordedStays
<1> QED  BY <1>1, <1>2

\* What the answer to an append does to the run that waits for it.
LEMMA AnsweredRun ==
  ASSUME TypeInv, AwaitedInv, NEW c \in calls, NEW ok \in BOOLEAN, run' = Answered(c, ok)
  PROVE  /\ ~ c.live => run' = run
         /\ run'.rows = run.rows
         /\ run.failed => run'.failed
         /\ IF c.live /\ c.by = "writer"
            THEN run.writer = "appending" /\ run'.writer = IF ok THEN "idle" ELSE "dead"
            ELSE run'.writer = run.writer
         /\ c.live /\ c.kind = "quality" =>
               /\ run.stage = "finishing" /\ run'.stage \in {"verifying", "unsealed"}
               /\ run'.failed = run.failed
         /\ c.live /\ c.kind = "guard" =>
               /\ run.stage = "guarding" /\ run'.stage = "guarded"
               /\ ~ run'.failed => ok
         /\ c.live /\ c.kind = "terminal" =>
               /\ run.stage = "terminating" /\ run'.stage \in {"sealed", "unsealed"}
               /\ run'.failed = run.failed
         /\ ~ (c.live /\ c.kind \in {"quality", "guard", "terminal"}) =>
               run'.stage = run.stage /\ run'.failed = run.failed
         /\ c.kind # "protocol"
         /\ c.by # "writer" => c.rows = <<>>
<1>0. run \in Runs /\ c \in Appends /\ Sorted(c)
  BY DEF TypeInv
<1>1. /\ c.by \in {"writer", "watch", "main"}
      /\ c.by = "writer" => c.kind = "chunk"
      /\ c.by = "watch" => c.kind = "watch"
      /\ c.by = "main" => c.kind \in {"quality", "guard", "terminal"}
      /\ c.kind # "protocol"
      /\ c.by # "writer" => c.rows = <<>>
  BY <1>0 DEF Sorted, Appends
<1>2. /\ c.live /\ c.by = "writer" => run.writer = "appending"
      /\ c.live /\ c.kind = "quality" => run.stage = "finishing"
      /\ c.live /\ c.kind = "guard" => run.stage = "guarding"
      /\ c.live /\ c.kind = "terminal" => run.stage = "terminating"
  BY DEF AwaitedInv
<1>3. CASE ~ c.live
  BY <1>1, <1>3, AnswerIs
<1>4. CASE c.live /\ c.by = "writer"
  <2>1. PICK st : run' = [run EXCEPT !.writer = st] /\ st = IF ok THEN "idle" ELSE "dead"
    BY <1>4, AnswerIs
  <2>2. /\ run'.writer = st /\ run'.rows = run.rows /\ run'.stage = run.stage
        /\ run'.failed = run.failed
    BY <1>0, <2>1 DEF Runs
  <2> QED  BY <1>1, <1>2, <1>4, <2>1, <2>2
<1>5. CASE c.live /\ c.by = "watch"
  <2>1. PICK st : run' = [run EXCEPT !.watch = st]
    BY <1>5, AnswerIs
  <2>2. /\ run'.writer = run.writer /\ run'.rows = run.rows /\ run'.stage = run.stage
        /\ run'.failed = run.failed
    BY <1>0, <2>1 DEF Runs
  <2> QED  BY <1>1, <1>5, <2>2
<1>6. CASE c.live /\ c.by = "main" /\ c.kind = "quality"
  <2>1. PICK st \in {"verifying", "unsealed"} : run' = [run EXCEPT !.stage = st]
    BY <1>6, AnswerIs
  <2>2. /\ run'.writer = run.writer /\ run'.rows = run.rows /\ run'.stage = st
        /\ run'.failed = run.failed
    BY <1>0, <2>1 DEF Runs
  <2> QED  BY <1>1, <1>2, <1>6, <2>2
<1>7. CASE c.live /\ c.by = "main" /\ c.kind = "guard"
  <2>1. run' = [run EXCEPT !.stage = "guarded", !.failed = @ \/ ~ ok]
    BY <1>7, AnswerIs
  <2>2. /\ run'.writer = run.writer /\ run'.rows = run.rows /\ run'.stage = "guarded"
        /\ run'.failed = (run.failed \/ ~ ok)
    BY <1>0, <2>1 DEF Runs
  <2> QED  BY <1>1, <1>2, <1>7, <2>2
<1>8. CASE c.live /\ c.by = "main" /\ c.kind = "terminal"
  <2>1. PICK st \in {"sealed", "unsealed"} : run' = [run EXCEPT !.stage = st]
    BY <1>8, AnswerIs
  <2>2. /\ run'.writer = run.writer /\ run'.rows = run.rows /\ run'.stage = st
        /\ run'.failed = run.failed
    BY <1>0, <2>1 DEF Runs
  <2> QED  BY <1>1, <1>2, <1>8, <2>2
<1> QED  BY <1>1, <1>3, <1>4, <1>5, <1>6, <1>7, <1>8

\* An answer: the chunk in hand goes on record, a guard is the last record
\* before the seal, and the seal ends the run.
LEMMA TransactWhole ==
  ASSUME TypeInv, WholeInv, NEW c \in calls, Transact(c)
  PROVE  WholeInv'
<1>1. PICK ok \in BOOLEAN, done \in BOOLEAN :
         /\ run' = Answered(c, ok)
         /\ ok => done
         /\ IF done
            THEN /\ MayAppend(run.owner, c.kind, c.at)
                 /\ journal' = Append(journal, Entry(run.owner, c.kind, c.rows, c.at, c.completed))
            ELSE journal' = journal
         /\ calls' = calls \ {c} /\ UNCHANGED queue
  BY TransactIs
<1>2. /\ ~ c.live => run' = run
      /\ run'.rows = run.rows
      /\ run.failed => run'.failed
      /\ IF c.live /\ c.by = "writer"
         THEN run.writer = "appending" /\ run'.writer = IF ok THEN "idle" ELSE "dead"
         ELSE run'.writer = run.writer
      /\ c.live /\ c.kind = "quality" =>
            /\ run.stage = "finishing" /\ run'.stage \in {"verifying", "unsealed"}
            /\ run'.failed = run.failed
      /\ c.live /\ c.kind = "guard" =>
            /\ run.stage = "guarding" /\ run'.stage = "guarded"
            /\ ~ run'.failed => ok
      /\ c.live /\ c.kind = "terminal" =>
            /\ run.stage = "terminating" /\ run'.stage \in {"sealed", "unsealed"}
            /\ run'.failed = run.failed
      /\ ~ (c.live /\ c.kind \in {"quality", "guard", "terminal"}) =>
            run'.stage = run.stage /\ run'.failed = run.failed
      /\ c.kind # "protocol"
      /\ c.by # "writer" => c.rows = <<>>
  BY <1>1, AnsweredRun DEF WholeInv
<1>3. /\ done => /\ journal # <<>> /\ Last(journal).kind # "terminal"
                 /\ Len(journal) \in Nat \ {0}
                 /\ Len(journal') = Len(journal) + 1
                 /\ DOMAIN journal = 1..Len(journal) /\ DOMAIN journal' = 1..(Len(journal) + 1)
                 /\ \A i \in 1..Len(journal) : journal'[i] = journal[i]
                 /\ journal'[Len(journal) + 1].kind = c.kind
                 /\ journal'[Len(journal) + 1].completed = c.completed
                 /\ Recorded' = Recorded \o c.rows
      /\ ~ done => journal' = journal /\ Recorded' = Recorded
  BY <1>1, <1>2, GrownJournal
<1>4. run.stage # "none"
  BY DEF WholeInv, EndsInv
<1>5. /\ run.stage \in Over => run'.stage \in Over
      /\ run'.stage \in Late => run.stage \in Late
      /\ run'.stage \in {"none", "running"} => run'.stage = run.stage /\ run'.failed = run.failed
      /\ On' => On
      /\ ~ run'.failed => ~ run.failed
  BY <1>2 DEF On, Over, Late
<1>6. done => journal' # <<>> /\ Last(journal') = journal'[Len(journal) + 1]
  <2> SUFFICES ASSUME done PROVE journal' # <<>> /\ Last(journal') = journal'[Len(journal) + 1]
    OBVIOUS
  <2>1. Last(journal') = journal'[Len(journal) + 1]
    BY <1>3 DEF Last
  <2>2. 1 \in DOMAIN journal'
    BY <1>3
  <2> QED  BY <2>1, <2>2
\* A run that has not failed waits for the only call there is.
<1>7. ASSUME On, ~ run.failed PROVE c.live
  BY <1>7 DEF WholeInv, AwaitedInv
<1>8. AwaitedInv'
  <2>1. \A d, e \in calls' : d.live /\ e.live => d = e
    BY <1>1 DEF WholeInv, AwaitedInv
  <2>2. ASSUME NEW d \in calls'
        PROVE  /\ d.completed => d.kind = "terminal" /\ run'.stage = "terminating" /\ ~ run'.failed
               /\ d.live /\ d.by = "writer" => run'.writer = "appending"
               /\ d.live /\ d.by = "watch" => run'.watch = "appending"
               /\ d.live /\ d.kind = "quality" => run'.stage = "finishing"
               /\ d.live /\ d.kind = "guard" => run'.stage = "guarding"
               /\ d.live /\ d.kind = "terminal" => run'.stage = "terminating"
               /\ On' /\ ~ run'.failed => d.live
               /\ On' /\ d.by = "writer" /\ run'.writer # "dead" => d.live
    <3>1. d \in calls /\ d # c
      BY <1>1
    <3>2. CASE d.live
      <4>1. ~ c.live /\ run' = run
        BY <1>2, <3>1, <3>2 DEF WholeInv, AwaitedInv
      <4> QED  BY <3>1, <3>2, <4>1 DEF WholeInv, AwaitedInv
    <3>3. CASE ~ d.live
      <4>1. On => run.failed /\ (d.by = "writer" => run.writer = "dead")
        BY <3>1, <3>3 DEF WholeInv, AwaitedInv
      <4>2. ~ d.completed
        BY <3>1, <4>1 DEF WholeInv, AwaitedInv, On, Over
      <4> QED  BY <1>2, <1>5, <3>3, <4>1, <4>2
    <3> QED  BY <3>2, <3>3
  <2> QED  BY <2>1, <2>2 DEF AwaitedInv
<1>9. ContentInv'
  <2>1. CASE c.by # "writer"
    <3>1. Recorded' = Recorded
      <4>1. Recorded \o <<>> = Recorded
        BY RecordedTyped DEF Rows
      <4> QED  BY <1>2, <1>3, <2>1, <4>1
    <3>2. \A d \in calls : d.live /\ d.by = "writer" => d \in calls'
      BY <1>1, <2>1
    <3> QED  BY <1>1, <1>2, <1>5, <2>1, <3>1, <3>2, ContentStays DEF WholeInv
  <2>2. CASE c.by = "writer" /\ ~ c.live
    <3>1. On => run'.writer = "dead"
      BY <1>2, <2>2 DEF WholeInv, AwaitedInv
    <3> QED  BY <1>5, <3>1 DEF ContentInv
  <2>3. CASE c.by = "writer" /\ c.live /\ ~ ok
    BY <1>2, <2>3 DEF ContentInv
  <2>4. CASE c.by = "writer" /\ c.live /\ ok
    <3> SUFFICES ASSUME On PROVE Holds(0)'
      BY <1>2, <1>5, <2>4 DEF ContentInv
    <3>1. Carries(c) /\ Holds(Len(c.rows))
      <4>1. PICK w \in calls : w.live /\ w.by = "writer" /\ Carries(w) /\ Holds(Len(w.rows))
        BY <1>2, <2>4 DEF WholeInv, ContentInv
      <4>2. w = c
        BY <2>4, <4>1 DEF WholeInv, AwaitedInv
      <4> QED  BY <4>1, <4>2
    <3>2. Recorded' = Recorded \o c.rows
      BY <1>1, <1>3, <2>4
    <3>3. Recorded \in Seq(1..MaxRows) /\ c.rows \in Seq(1..MaxRows)
      <4>1. c \in Appends
        BY DEF TypeInv
      <4> QED  BY <4>1, RecordedTyped DEF Appends, Rows
    <3> DEFINE r == Recorded
               s == c.rows
               t == Recorded'
    <3> HIDE DEF r, s, t
    <3>4. /\ Len(r) \in Nat /\ Len(s) \in Nat /\ Len(t) = Len(r) + Len(s)
          /\ \A i \in 1..(Len(r) + Len(s)) : t[i] = IF i <= Len(r) THEN r[i] ELSE s[i - Len(r)]
      <4>1. r \in Seq(1..MaxRows) /\ s \in Seq(1..MaxRows) /\ t = r \o s
        BY <3>2, <3>3 DEF r, s, t
      <4> QED  BY ONLY <4>1, ConcatProperties, LenProperties
    <3>5. /\ \A i \in 1..Len(r) : r[i] = i
          /\ \A i \in 1..Len(s) : s[i] = Len(r) + i
          /\ \A i \in 1..Len(queue) : queue[i].n = Len(r) + Len(s) + i
          /\ run.rows = Len(r) + Len(s) + Len(queue)
      BY <3>1 DEF Carries, Holds, r, s
    <3>6. \A i \in 1..Len(t) : t[i] = i
      <4> SUFFICES ASSUME NEW i \in 1..Len(t) PROVE t[i] = i
        OBVIOUS
      <4>1. i \in 1..(Len(r) + Len(s))
        BY <3>4
      <4>2. CASE i <= Len(r)
        BY <3>4, <3>5, <4>1, <4>2
      <4>3. CASE ~ (i <= Len(r))
        <5>1. i - Len(r) \in 1..Len(s)
          BY <3>4, <4>1, <4>3
        <5>2. t[i] = Len(r) + (i - Len(r))
          BY <3>4, <3>5, <4>1, <4>3, <5>1
        <5> QED  BY <3>4, <4>1, <5>2
      <4> QED  BY <4>2, <4>3
    <3>7. /\ \A i \in 1..Len(queue) : queue[i].n = Len(t) + 0 + i
          /\ run.rows = Len(t) + 0 + Len(queue)
      <4>1. Len(t) + 0 = Len(r) + Len(s)
        BY <3>4
      <4> QED  BY <3>5, <4>1
    <3> QED  BY <1>1, <1>2, <3>6, <3>7 DEF Holds, t
  <2> QED  BY <2>1, <2>2, <2>3, <2>4
<1>10. LateInv'
  <2> SUFFICES ASSUME ~ run'.failed PROVE LateInv'
    BY DEF LateInv
  <2>1. ~ run.failed
    BY <1>2
  <2>2. run'.stage \in Late => run'.writer = "idle" /\ queue' = <<>>
    <3> SUFFICES ASSUME run'.stage \in Late PROVE run'.writer = "idle" /\ queue' = <<>>
      OBVIOUS
    <3>1. run.writer = "idle" /\ queue = <<>>
      BY <1>5, <2>1 DEF WholeInv, LateInv
    <3> QED  BY <1>1, <1>2, <3>1
  <2>3. On => c.live
    BY <1>7, <2>1
  <2>4. run'.stage # "terminating"
    <3> SUFFICES ASSUME run'.stage = "terminating" PROVE FALSE
      OBVIOUS
    <3>1. run.stage = "terminating"
      BY <1>2
    <3>2. c.kind = "terminal" /\ c.live
      BY <2>1, <2>3, <3>1 DEF WholeInv, LateInv, On, Over
    <3> QED  BY <1>2, <3>2
  <2>5. run'.stage # "guarding"
    <3> SUFFICES ASSUME run'.stage = "guarding" PROVE FALSE
      OBVIOUS
    <3>1. run.stage = "guarding"
      BY <1>2
    <3>2. c.kind = "guard" /\ c.live
      BY <2>1, <2>3, <3>1 DEF WholeInv, LateInv, On, Over
    <3> QED  BY <1>2, <3>2
  <2>6. ASSUME run'.stage = "guarded"
        PROVE  journal' # <<>> /\ Last(journal').kind = "guard" /\ calls' = {}
    <3>1. run.stage # "guarded"
      BY <2>1 DEF WholeInv, LateInv
    <3>2. run.stage = "guarding" /\ c.kind = "guard" /\ ok
      BY <1>2, <2>6, <3>1
    <3>3. calls = {c}
      BY <2>1, <3>2 DEF WholeInv, LateInv
    <3> QED  BY <1>1, <1>3, <1>6, <3>2, <3>3
  <2> QED  BY <2>2, <2>4, <2>5, <2>6 DEF LateInv
<1>11. c.completed => /\ run.stage = "terminating" /\ ~ run.failed /\ c.kind = "terminal"
                      /\ run'.stage \in Over
  <2> SUFFICES ASSUME c.completed
               PROVE  /\ run.stage = "terminating" /\ ~ run.failed /\ c.kind = "terminal"
                      /\ run'.stage \in Over
    OBVIOUS
  <2>1. run.stage = "terminating" /\ ~ run.failed /\ c.kind = "terminal"
    BY DEF WholeInv, AwaitedInv
  <2>2. c.live
    BY <1>7, <2>1 DEF On, Over
  <2> QED  BY <1>2, <2>1, <2>2 DEF Over
<1>12. EndsInv'
  <2>1. CASE done
    <3>1. \A i \in DOMAIN journal' : journal'[i].completed => journal'[i].kind = "terminal"
      <4> SUFFICES ASSUME NEW i \in 1..(Len(journal) + 1), journal'[i].completed
                   PROVE  journal'[i].kind = "terminal"
        BY <1>3, <2>1
      <4>1. i \in 1..Len(journal) \/ i = Len(journal) + 1
        BY <1>3, <2>1
      <4> QED  BY <1>3, <1>11, <2>1, <4>1 DEF WholeInv, EndsInv
    <3>2. Last(journal').completed => run'.stage \in Over
      BY <1>3, <1>6, <1>11, <2>1
    <3> QED  BY <1>4, <1>5, <1>6, <2>1, <3>1, <3>2 DEF WholeInv, EndsInv
  <2>2. CASE ~ done
    BY <1>3, <1>4, <1>5, <2>2 DEF WholeInv, EndsInv
  <2> QED  BY <2>1, <2>2
<1>13. CompletedIsWhole'
  <2>1. CASE ~ done
    <3>1. journal' = journal /\ Recorded' = Recorded /\ run'.rows = run.rows
      BY <1>2, <1>3, <2>1
    <3> QED  BY <3>1 DEF WholeInv, CompletedIsWhole
  <2>2. CASE done /\ ~ c.completed
    BY <1>3, <1>6, <2>2 DEF CompletedIsWhole
  <2>3. CASE done /\ c.completed
    <3>1. /\ run.writer = "idle" /\ queue = <<>> /\ On
          /\ Last(journal).kind = "guard"
      BY <1>11, <2>3 DEF WholeInv, LateInv, Late, On, Over
    <3>2. Holds(0)
      BY <3>1 DEF WholeInv, ContentInv
    <3>3. Recorded' = Recorded
      <4>1. c.rows = <<>>
        <5>1. c \in Appends /\ Sorted(c) /\ c.kind = "terminal"
          BY <1>11, <2>3 DEF TypeInv
        <5> QED  BY <5>1 DEF Sorted
      <4>2. Recorded \o <<>> = Recorded
        BY RecordedTyped DEF Rows
      <4> QED  BY <1>3, <2>3, <4>1, <4>2
    <3>4. Recorded = [i \in 1..run.rows |-> i]
      <4>1. Recorded \in Seq(1..MaxRows) /\ Len(<<>>) = 0
        BY RecordedTyped DEF Rows
      <4> DEFINE r == Recorded
      <4> HIDE DEF r
      <4>2. /\ \A i \in 1..Len(r) : r[i] = i
            /\ run.rows = Len(r) + 0 + Len(<<>>)
        BY <3>1, <3>2 DEF Holds, r
      <4>3. r \in [1..Len(r) -> 1..MaxRows] /\ Len(r) \in Nat
        BY <4>1, LenProperties DEF r
      <4>4. run.rows = Len(r)
        BY <4>1, <4>2, <4>3
      <4>5. r = [i \in 1..Len(r) |-> i]
        BY <4>2, <4>3
      <4> QED  BY <4>4, <4>5 DEF r
    <3>5. journal'[Len(journal') - 1].kind = "guard"
      <4>1. Last(journal) = journal[Len(journal)]
        BY DEF Last
      <4>2. Len(journal') - 1 = Len(journal) /\ Len(journal) \in 1..Len(journal)
        BY <1>3, <2>3
      <4> QED  BY <1>3, <2>3, <3>1, <4>1, <4>2
    <3> QED  BY <1>2, <3>3, <3>4, <3>5 DEF CompletedIsWhole
  <2> QED  BY <2>1, <2>2, <2>3
<1> QED  BY <1>8, <1>9, <1>10, <1>12, <1>13 DEF WholeInv

LEMMA WholeStep == ASSUME Bounds, TypeInv, WholeInv, [Next]_vars PROVE WholeInv'
<1>1. CASE UNCHANGED vars
  BY <1>1, WholeKept DEF vars
<1> QED
  BY <1>1, StoreWhole, TransactWhole, SubmitWhole, WriteWhole, WatchWhole, FinishWhole,
     CancelWatchWhole, StopWhole, FlushWhole, RecordQualityWhole, VerifyWhole,
     GuardFinallyWhole, SealWhole
  DEF Next, RunStep, DatabaseStep

\* A journal sealed as completed holds every submission in the order in which
\* it was made, and the last guard before the seal, whatever threads were left
\* behind, leases lost and appends committed unseen (DurableWriter, append,
\* flush, _run_v3).
THEOREM CompletedJournalIsWhole == Bounds => (Spec => []CompletedIsWhole)
<1> SUFFICES ASSUME Bounds PROVE Spec => []CompletedIsWhole
  OBVIOUS
<1>1. Init => WholeInv
  BY InitWhole
<1>2. TypeInv /\ TypeInv' /\ WholeInv /\ [Next]_vars => WholeInv'
  BY WholeStep
<1>3. WholeInv => CompletedIsWhole
  BY DEF WholeInv
<1> QED  BY <1>1, <1>2, <1>3, Typed, PTL DEF Spec
=============================================================================
