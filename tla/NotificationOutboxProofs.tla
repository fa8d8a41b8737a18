----------------------- MODULE NotificationOutboxProofs -----------------------
(***************************************************************************)
(* Proofs about NotificationOutbox for any notifiers, days and messages:   *)
(* OutboxInv is an invariant, an attempted message stands as written, and  *)
(* the outbox implements DailyEmail.                                       *)
(*                                                                         *)
(* The first lemmas say what the kinds of update do to the rows and to the *)
(* notifiers; then each part of the invariant gets a lemma on what         *)
(* preserves it; then there is one lemma for each action or group of       *)
(* actions that touch the same state.                                      *)
(***************************************************************************)
EXTENDS NotificationOutbox, TLAPS

-----------------------------------------------------------------------------
(* What updates do *)

\* Notifier e goes to a new local state; the others stay where they are.
Becomes(e, pc, now, last, note, content) ==
    /\ nf' \in [Notifier -> Local]
    /\ nf'[e].pc = pc
    /\ nf'[e].now = now
    /\ nf'[e].last = last
    /\ nf'[e].note = note
    /\ nf'[e].content = content
    /\ \A f \in Notifier \ {e} : nf'[f] = nf[f]

\* Row n becomes r; the others stay as they are.
Writes(n, r) ==
    /\ outbox' \in [Note -> Row \cup {NoRow}]
    /\ outbox'[n] = r
    /\ \A m \in Note \ {n} : outbox'[m] = outbox[m]

\* A local state is made of five typed parts.
LEMMA LocalFields ==
  ASSUME NEW l \in Local
  PROVE  /\ l.pc \in Pc /\ l.now \in Time /\ l.last \in 0..LastDay
         /\ l.note \in Note \cup {NoNote} /\ l.content \in Content \cup {"none"}
BY DEF Local

\* Clocks and the idle notifier are typed.
LEMMA Constants ==
  /\ Midnight \in Time
  /\ Off \in Local
  /\ NoRow \in Row \cup {NoRow}
BY LastDayAssumption DEF Midnight, Off, Time, Local, Day, Pc

\* A notifier moves on to another place.
LEMMA GotoEffect ==
  ASSUME nf \in [Notifier -> Local], NEW e \in Notifier, NEW pc \in Pc, Goto(e, pc)
  PROVE  Becomes(e, pc, nf[e].now, nf[e].last, nf[e].note, nf[e].content)
<1>1. [nf[e] EXCEPT !.pc = pc] \in Local
  BY DEF Local
<1>2. nf' \in [Notifier -> Local]
  BY <1>1 DEF Goto
<1>3. nf'[e] = [nf[e] EXCEPT !.pc = pc] /\ \A f \in Notifier \ {e} : nf'[f] = nf[f]
  BY DEF Goto
<1>4. QED
  BY <1>2, <1>3 DEF Becomes, Local

\* It reads the clock on the way.
LEMMA ReadClockEffect ==
  ASSUME nf \in [Notifier -> Local], time \in Time, NEW e \in Notifier, NEW pc \in Pc,
         ReadClock(e, pc)
  PROVE  Becomes(e, pc, time, nf[e].last, nf[e].note, nf[e].content)
<1>1. [nf[e] EXCEPT !.pc = pc, !.now = time] \in Local
  BY DEF Local
<1>2. nf' \in [Notifier -> Local]
  BY <1>1 DEF ReadClock
<1>3. /\ nf'[e] = [nf[e] EXCEPT !.pc = pc, !.now = time]
      /\ \A f \in Notifier \ {e} : nf'[f] = nf[f]
  BY DEF ReadClock
<1>4. QED
  BY <1>2, <1>3 DEF Becomes, Local

\* It keeps only the last day dealt with.
LEMMA ResumeEffect ==
  ASSUME nf \in [Notifier -> Local], NEW e \in Notifier, NEW pc \in Pc,
         NEW last \in 0..LastDay, Resume(e, pc, last)
  PROVE  Becomes(e, pc, Midnight, last, NoNote, "none")
<1>1. [Off EXCEPT !.pc = pc, !.last = last] \in Local
  BY Constants DEF Local, Off
<1>2. nf' \in [Notifier -> Local]
  BY <1>1 DEF Resume
<1>3. /\ nf'[e] = [Off EXCEPT !.pc = pc, !.last = last]
      /\ \A f \in Notifier \ {e} : nf'[f] = nf[f]
  BY DEF Resume
<1>4. QED
  BY <1>2, <1>3 DEF Becomes, Off

\* It is gone.
LEMMA OffEffect ==
  ASSUME nf \in [Notifier -> Local], NEW e \in Notifier, nf' = [nf EXCEPT ![e] = Off]
  PROVE  Becomes(e, "down", Midnight, 0, NoNote, "none")
<1>1. nf' \in [Notifier -> Local]
  BY Constants
<1>2. nf'[e] = Off /\ \A f \in Notifier \ {e} : nf'[f] = nf[f]
  OBVIOUS
<1>3. QED
  BY <1>1, <1>2 DEF Becomes, Off

\* It holds a message.
LEMMA ClaimEffect ==
  ASSUME nf \in [Notifier -> Local], NEW e \in Notifier, NEW n \in Note,
         NEW content \in Content \cup {"none"},
         nf' = [nf EXCEPT ![e].pc = "claimed", ![e].note = n, ![e].content = content]
  PROVE  Becomes(e, "claimed", nf[e].now, nf[e].last, n, content)
<1>1. [nf[e] EXCEPT !.pc = "claimed", !.note = n, !.content = content] \in Local
  BY DEF Local, Pc
<1>2. nf' \in [Notifier -> Local]
  BY <1>1
<1>3. /\ nf'[e] = [nf[e] EXCEPT !.pc = "claimed", !.note = n, !.content = content]
      /\ \A f \in Notifier \ {e} : nf'[f] = nf[f]
  OBVIOUS
<1>4. QED
  BY <1>2, <1>3 DEF Becomes, Local

\* A row written as a whole.
LEMMA WriteEffect ==
  ASSUME outbox \in [Note -> Row \cup {NoRow}], NEW n \in Note, NEW r \in Row,
         outbox' = [outbox EXCEPT ![n] = r]
  PROVE  Writes(n, r)
BY DEF Writes

\* A row is made of four typed parts; the absent one has parts, too.
LEMMA RowFields ==
  ASSUME NEW r \in Row \cup {NoRow}
  PROVE  /\ r.tried \in BOOLEAN /\ r.accepted \in BOOLEAN
         /\ r.status # "absent" => r \in Row
         /\ r.tried => r \in Row
         /\ r # NoRow => r \in Row
<1>1. CASE r \in Row
  <2>1. r.tried \in BOOLEAN /\ r.accepted \in BOOLEAN
    BY <1>1 DEF Row
  <2>2. QED
    BY <1>1, <2>1
<1>2. CASE r = NoRow
  <2>1. r.tried = FALSE /\ r.accepted = FALSE /\ r.status = "absent"
    BY <1>2 DEF NoRow
  <2>2. QED
    BY <1>2, <2>1
<1>3. QED
  BY <1>1, <1>2

\* A row gets another status, or is rewritten.
LEMMA RowWritten ==
  ASSUME NEW r \in Row, NEW status \in NotificationStatus
  PROVE  /\ [r EXCEPT !.status = status] \in Row
         /\ [r EXCEPT !.status = status].status = status
         /\ [r EXCEPT !.status = status].tried = r.tried
         /\ [r EXCEPT !.status = status].content = r.content
         /\ [r EXCEPT !.status = status, !.tried = TRUE] \in Row
         /\ [r EXCEPT !.status = status, !.tried = TRUE].status = status
         /\ [r EXCEPT !.status = status, !.tried = TRUE].tried
         /\ [r EXCEPT !.status = status, !.tried = TRUE].content = r.content
         /\ [r EXCEPT !.status = status, !.accepted = TRUE] \in Row
         /\ [r EXCEPT !.status = status, !.accepted = TRUE].status = status
         /\ [r EXCEPT !.status = status, !.accepted = TRUE].tried = r.tried
         /\ [r EXCEPT !.status = status, !.accepted = TRUE].content = r.content
         /\ [r EXCEPT !.content = "summary", !.status = "pending"] \in Row
         /\ [r EXCEPT !.content = "summary", !.status = "pending"].status = "pending"
         /\ [r EXCEPT !.content = "summary", !.status = "pending"].tried = r.tried
<1> DEFINE a == [r EXCEPT !.status = status]
           b == [r EXCEPT !.status = status, !.tried = TRUE]
           c == [r EXCEPT !.status = status, !.accepted = TRUE]
           d == [r EXCEPT !.content = "summary", !.status = "pending"]
<1>1. a \in Row /\ a.status = status /\ a.tried = r.tried /\ a.content = r.content
  BY DEF Row
<1>2. b \in Row /\ b.status = status /\ b.tried /\ b.content = r.content
  BY DEF Row
<1>3. c \in Row /\ c.status = status /\ c.tried = r.tried /\ c.content = r.content
  BY DEF Row
<1>4. d \in Row /\ d.status = "pending" /\ d.tried = r.tried
  BY DEF Row, NotificationStatus, Unsent, Content
<1>5. QED
  BY <1>1, <1>2, <1>3, <1>4

\* A new row is pending and counts no attempt.
LEMMA QueuedRow ==
  ASSUME NEW content \in Content
  PROVE  /\ Queued(content) \in Row
         /\ Queued(content).status = "pending" /\ ~Queued(content).tried
BY DEF Queued, Row, NotificationStatus, Unsent

-----------------------------------------------------------------------------
(* What preserves the parts of the invariant *)

\* The local clock goes on.
Onward ==
    /\ time' \in Time
    /\ time.day <= time'.day
    /\ \A d \in Day : Reached(d) => Reached(d)'

\* No attempt is undone.
AttemptsStay == \A n \in Note : outbox[n].tried => outbox'[n].tried

\* A notifier that is to claim a message was on its way or reads the clock now.
NoneReturns(f) ==
    nf'[f].pc \in Dispatching =>
        \/ nf[f].pc \in Dispatching /\ nf'[f].now.day = Today(f)
        \/ nf'[f].now.day = time.day

\* The clock goes on while it stands.
LEMMA ClockStands ==
  ASSUME time \in Time, time' = time
  PROVE  Onward
BY DEF Onward, Reached, Time, Day

\* A notifier that does not move stays right, whatever the others do.
LEMMA UnmovedStaysRight ==
  ASSUME TypeOK, NEW f \in Notifier, NotifierOK(f), nf'[f] = nf[f],
         Onward, AttemptsStay, \A n \in Note : mailbox[n] > 0 => mailbox'[n] > 0
  PROVE  NotifierOK(f)'
<1>1. nf[f] \in Local /\ time \in Time
  BY DEF TypeOK
<1>2. nf[f].pc \in Pc /\ nf[f].now \in Time /\ nf[f].note \in Note \cup {NoNote}
  BY <1>1, LocalFields
<1>3. Today(f) \in Day /\ Today(f) \in Note
  BY <1>2 DEF Today, Time, Note
<1>4. Today(f)' = Today(f) /\ At(f, "accepted")' = At(f, "accepted")
  BY DEF Today, At
<1>5. (Today(f) <= time.day)'
  BY <1>1, <1>3, <1>4 DEF NotifierOK, Onward, Time, Day
<1>6. (nf[f].now.due => Reached(Today(f)))'
  BY <1>3, <1>4 DEF NotifierOK, Onward, Reached
<1>7. (nf[f].pc \in {"inserting", "refreshing", "claim"} \cup Holding => nf[f].now.due)'
  BY DEF NotifierOK
<1>8. (nf[f].pc \in Holding => nf[f].note = Today(f) /\ outbox[nf[f].note].tried)'
  BY <1>3, <1>4 DEF NotifierOK, AttemptsStay
<1>9. (At(f, "accepted") => mailbox[nf[f].note] > 0)'
  BY <1>3, <1>4 DEF NotifierOK, Holding, At
<1>10. QED
  BY <1>5, <1>6, <1>7, <1>8, <1>9 DEF NotifierOK

\* A message out of reach stays out of reach unless a request for it is sent.
LEMMA StaysOutOfReach ==
  ASSUME TypeOK, Onward, \A f \in Notifier : NoneReturns(f),
         NEW n \in Day, OutOfReach(n), n \notin late'
  PROVE  OutOfReach(n)'
<1>1. n < time'.day
  BY DEF OutOfReach, Onward, TypeOK, Time, Day
<1>2. ASSUME NEW f \in Notifier, nf'[f].pc \in Dispatching PROVE nf'[f].now.day # n
  BY <1>2 DEF OutOfReach, NoneReturns, Today, TypeOK, Time, Day
<1>3. QED
  BY <1>1, <1>2 DEF OutOfReach, Today

\* The emails stay right when the provider does nothing and nobody takes an
\* old day up again.
LEMMA MailStaysRight ==
  ASSUME TypeOK, MailInv, Onward, UNCHANGED provider,
         \A f \in Notifier : NoneReturns(f)
  PROVE  MailInv'
<1> SUFFICES ASSUME NEW n \in Note
             PROVE  /\ mailbox[n] <= 1
                    /\ mailbox[n] > 0 \/ n \in late => n \in Day /\ Reached(n)'
                    /\ n \in key => mailbox[n] > 0
                    /\ mailbox[n] > 0 => n \in key \/ OutOfReach(n)'
  BY DEF MailInv, provider
<1>1. /\ mailbox[n] <= 1 /\ (n \in key => mailbox[n] > 0)
      /\ mailbox[n] > 0 \/ n \in late => n \in Day /\ Reached(n)'
      /\ mailbox[n] > 0 => n \in key \/ OutOfReach(n)
  BY DEF MailInv, Onward
<1>2. ASSUME n \in Day, OutOfReach(n) PROVE OutOfReach(n)'
  <2>1. n \notin late'
    BY <1>2 DEF OutOfReach, provider
  <2>2. QED
    BY <1>2, <2>1, StaysOutOfReach
<1>3. QED
  BY <1>1, <1>2

\* The rows stay true when the provider does nothing and a message is marked
\* as sent only after its delivery.
LEMMA RowsStayTrue ==
  ASSUME RowsTellTruth, UNCHANGED provider, AttemptsStay,
         \A n \in Note : outbox'[n].status = "sent" => outbox[n].status = "sent" \/ mailbox[n] > 0,
         \A n \in Other : outbox'[n].tried => outbox[n].tried
  PROVE  RowsTellTruth'
BY DEF RowsTellTruth, AttemptsStay, provider

\* Every notifier that moves ends up right, and none returns to an old day.
MovesRight ==
    /\ nf' \in [Notifier -> Local]
    /\ \A f \in Notifier : nf'[f] = nf[f] \/ (NotifierOK(f)' /\ NoneReturns(f))

LEMMA OneMovesRight ==
  ASSUME NEW e \in Notifier, NotifierOK(e)', NoneReturns(e),
         NEW pc, NEW now, NEW last, NEW note, NEW content,
         Becomes(e, pc, now, last, note, content)
  PROVE  MovesRight
BY DEF MovesRight, Becomes

\* A notifier that dropped what it held is right: its clock says midnight.
LEMMA RestIsRight ==
  ASSUME TypeOK, time' = time, NEW e \in Notifier,
         NEW pc \in {"down", "loop", "dispatch"}, NEW last,
         Becomes(e, pc, Midnight, last, NoNote, "none")
  PROVE  MovesRight
<1>1. 1 <= time.day
  BY DEF TypeOK, Time, Day
<1>2. nf'[e].pc = pc /\ nf'[e].now = Midnight
  BY DEF Becomes
<1>3. /\ pc \notin {"inserting", "refreshing", "claim"} \cup Holding
      /\ pc \notin Dispatching /\ pc # "accepted"
  BY DEF Holding, Dispatching
<1>4. NotifierOK(e)' /\ NoneReturns(e)
  BY <1>1, <1>2, <1>3 DEF NotifierOK, NoneReturns, Midnight, Today, At
<1>5. QED
  BY <1>4, OneMovesRight

LEMMA NotifiersKeep ==
  ASSUME OutboxInv, UNCHANGED <<time, provider>>, AttemptsStay, MovesRight
  PROVE  NotifierInv' /\ MailInv'
<1>1. Onward
  BY ClockStands DEF OutboxInv, TypeOK
<1>2. ASSUME NEW f \in Notifier PROVE NotifierOK(f)'
  <2>1. CASE nf'[f] = nf[f]
    <3>1. NotifierOK(f) /\ TypeOK
      BY DEF OutboxInv, NotifierInv
    <3>2. \A n \in Note : mailbox[n] > 0 => mailbox'[n] > 0
      BY DEF provider
    <3>3. QED
      BY <1>1, <2>1, <3>1, <3>2, UnmovedStaysRight
  <2>2. QED
    BY <2>1 DEF MovesRight
<1>3. ASSUME NEW f \in Notifier PROVE NoneReturns(f)
  BY DEF MovesRight, NoneReturns, Today
<1>4. QED
  BY <1>1, <1>2, <1>3, MailStaysRight DEF OutboxInv, NotifierInv

\* A row says no more than it did, or than what happened.
RowRight(m) ==
    /\ outbox'[m].status = "sent" => outbox[m].status = "sent" \/ mailbox[m] > 0
    /\ outbox[m].tried => outbox'[m].tried
    /\ outbox'[m].tried => outbox[m].tried \/ m \in Day
    /\ m \in idle' \cup old' => outbox'[m].status = "sending"

LeaseTypeOK == lease \in [owner : Notifier \cup {NoNotifier}, fresh : BOOLEAN]

\* What any step of a notifier that leaves the provider alone has to show.
LEMMA RowsKeep ==
  ASSUME OutboxInv, UNCHANGED <<time, provider>>, LeaseTypeOK', MovesRight,
         outbox' \in [Note -> Row \cup {NoRow}], idle' \subseteq idle, old' \subseteq old,
         \A m \in Note : RowRight(m)
  PROVE  OutboxInv'
<1>1. AttemptsStay
  BY DEF AttemptsStay, RowRight
<1>2. TypeOK'
  <2>1. idle' \subseteq {m \in Note : outbox'[m].status = "sending"}
    BY DEF OutboxInv, TypeOK, RowRight
  <2>2. old' \subseteq {d \in Day : outbox'[d].status = "sending"}
    BY DEF OutboxInv, TypeOK, RowRight, Note
  <2>3. QED
    BY <2>1, <2>2 DEF OutboxInv, TypeOK, provider, LeaseTypeOK, MovesRight
<1>3. RowsTellTruth'
  <2>1. \A m \in Note :
           outbox'[m].status = "sent" => outbox[m].status = "sent" \/ mailbox[m] > 0
    BY DEF RowRight
  <2>2. \A m \in Other : outbox'[m].tried => outbox[m].tried
    BY OtherAssumption DEF RowRight, Note
  <2>3. QED
    BY <1>1, <2>1, <2>2, RowsStayTrue DEF OutboxInv
<1>4. NotifierInv' /\ MailInv'
  BY <1>1, NotifiersKeep
<1>5. QED
  BY <1>2, <1>3, <1>4 DEF OutboxInv

\* A row that is left alone is right.
LEMMA UnwrittenIsRight ==
  ASSUME TypeOK, NEW m \in Note, outbox'[m] = outbox[m], idle' \subseteq idle, old' \subseteq old
  PROVE  RowRight(m)
BY DEF RowRight, TypeOK

\* A step that touches neither rows nor provider.
LEMMA RowsAlone ==
  ASSUME OutboxInv, UNCHANGED <<time, outbox, idle, old, provider>>, LeaseTypeOK', MovesRight
  PROVE  OutboxInv'
<1>1. \A m \in Note : RowRight(m)
  BY UnwrittenIsRight DEF OutboxInv
<1>2. outbox' \in [Note -> Row \cup {NoRow}]
  BY DEF OutboxInv, TypeOK
<1>3. UNCHANGED <<time, provider>> /\ idle' \subseteq idle /\ old' \subseteq old
  OBVIOUS
<1>4. QED
  BY <1>1, <1>2, <1>3, RowsKeep

\* A step that writes one row.
LEMMA OneRowKeeps ==
  ASSUME OutboxInv, UNCHANGED <<time, lease, provider>>, MovesRight,
         NEW n \in Note, NEW r, Writes(n, r), RowRight(n),
         idle' \subseteq idle, old' \subseteq old
  PROVE  OutboxInv'
<1>1. \A m \in Note : RowRight(m)
  BY UnwrittenIsRight DEF OutboxInv, Writes
<1>2. outbox' \in [Note -> Row \cup {NoRow}] /\ LeaseTypeOK'
  BY DEF Writes, OutboxInv, TypeOK, LeaseTypeOK
<1>3. QED
  BY <1>1, <1>2, RowsKeep

-----------------------------------------------------------------------------
(* Steps that touch neither rows nor provider *)

\* The clock, the position and the lease are typed.
LEMMA Typed ==
  ASSUME TypeOK
  PROVE  /\ nf \in [Notifier -> Local] /\ time \in Time /\ LeaseTypeOK
         /\ time.day \in Day /\ time.due \in BOOLEAN
BY DEF TypeOK, Time, LeaseTypeOK

LEMMA NotifierTyped ==
  ASSUME TypeOK, NEW e \in Notifier
  PROVE  /\ nf[e].last \in 0..LastDay /\ nf[e].now \in Time
         /\ nf[e].note \in Note \cup {NoNote} /\ nf[e].content \in Content \cup {"none"}
         /\ Today(e) \in Day /\ Today(e) \in Note /\ Today(e) \in 0..LastDay
<1>1. nf[e] \in Local
  BY DEF TypeOK
<1>2. nf[e].last \in 0..LastDay /\ nf[e].now \in Time
      /\ nf[e].note \in Note \cup {NoNote} /\ nf[e].content \in Content \cup {"none"}
  BY <1>1, LocalFields
<1>3. Today(e) \in Day
  BY <1>2 DEF Today, Time
<1>4. QED
  BY <1>2, <1>3, LastDayAssumption DEF Note, Day

\* A notifier starts, ends or drops what it held, for whatever reason.
LEMMA RestsAlone ==
  ASSUME OutboxInv, UNCHANGED <<time, outbox, idle, old, provider>>, LeaseTypeOK',
         NEW e \in Notifier, NEW pc \in {"down", "loop", "dispatch"}, NEW last,
         Becomes(e, pc, Midnight, last, NoNote, "none")
  PROVE  OutboxInv'
<1>1. MovesRight
  BY RestIsRight DEF OutboxInv
<1>2. QED
  BY <1>1, RowsAlone

LEMMA LifeKeeps ==
  ASSUME OutboxInv, NEW e \in Notifier, Acquire(e) \/ LeaseLost(e) \/ Stop(e) \/ Crash(e)
  PROVE  OutboxInv'
<1>1. TypeOK /\ UNCHANGED <<time, outbox, idle, old, provider>>
  BY DEF OutboxInv, Acquire, LeaseLost, Stop, Crash
<1>2. LeaseTypeOK'
  <2>1. lease' \in {lease, [owner |-> NoNotifier, fresh |-> FALSE], [owner |-> e, fresh |-> TRUE]}
    BY DEF Acquire, LeaseLost, Stop, Crash
  <2>2. QED
    <3>1. lease \in [owner : Notifier \cup {NoNotifier}, fresh : BOOLEAN]
      BY <1>1 DEF TypeOK
    <3>2. /\ [owner |-> NoNotifier, fresh |-> FALSE] \in [owner : Notifier \cup {NoNotifier}, fresh : BOOLEAN]
          /\ [owner |-> e, fresh |-> TRUE] \in [owner : Notifier \cup {NoNotifier}, fresh : BOOLEAN]
      OBVIOUS
    <3>3. QED
      BY <2>1, <3>1, <3>2 DEF LeaseTypeOK
<1>3. CASE Acquire(e)
  <2>1. nf[e].last \in 0..LastDay /\ nf \in [Notifier -> Local]
    BY <1>1, NotifierTyped, Typed
  <2>2. Becomes(e, "loop", Midnight, nf[e].last, NoNote, "none")
    BY <1>3, <2>1, ResumeEffect DEF Acquire, Return, Pc
  <2>3. QED
    BY <1>1, <1>2, <2>2, RestsAlone
<1>4. CASE LeaseLost(e) \/ Stop(e) \/ Crash(e)
  <2>1. Becomes(e, "down", Midnight, 0, NoNote, "none")
    BY <1>1, <1>4, OffEffect DEF LeaseLost, Stop, Crash, TypeOK
  <2>2. QED
    BY <1>1, <1>2, <2>1, RestsAlone
<1>5. QED
  BY <1>3, <1>4

\* A notifier reads the clock, before enqueue_due or before dispatch_one.
LEMMA ClockReadKeeps ==
  ASSUME OutboxInv, NEW e \in Notifier, BeginDispatch(e) \/ BeginSend(e)
  PROVE  OutboxInv'
<1>1. PICK pc \in {"enqueue", "suppress"} : ReadClock(e, pc)
  BY DEF BeginDispatch, BeginSend
<1>2. TypeOK /\ UNCHANGED <<time, outbox, idle, old, provider>>
  BY DEF OutboxInv, BeginDispatch, BeginSend
<1>3. pc \in Pc /\ time \in Time /\ nf \in [Notifier -> Local] /\ time.day \in Day
  BY <1>2, Typed DEF Pc
<1>4. Becomes(e, pc, time, nf[e].last, nf[e].note, nf[e].content)
  BY <1>1, <1>3, ReadClockEffect
<1>5. LeaseTypeOK'
  BY <1>2, Typed DEF LeaseTypeOK, BeginDispatch, BeginSend
<1>6. NotifierOK(e)' /\ NoneReturns(e)
  <2>1. nf'[e].pc = pc /\ nf'[e].now = time
    BY <1>4 DEF Becomes
  <2>2. pc \notin {"inserting", "refreshing", "claim"} \cup Holding /\ pc # "accepted"
    BY DEF Holding
  <2>3. time.day <= time.day
    BY <1>3 DEF Day
  <2>4. QED
    BY <1>2, <2>1, <2>2, <2>3 DEF NotifierOK, NoneReturns, Today, At, Reached
<1>7. MovesRight
  BY <1>4, <1>6, OneMovesRight
<1>8. QED
  BY <1>2, <1>5, <1>7, RowsAlone

\* enqueue_due ends without a write.
LEMMA EnqueueEndsKeeps ==
  ASSUME OutboxInv, NEW e \in Notifier, NothingDue(e) \/ ReportBusy(e)
  PROVE  OutboxInv'
<1>1. TypeOK /\ UNCHANGED <<time, lease, outbox, idle, old, provider>>
  BY DEF OutboxInv, NothingDue, ReportBusy
<1>2. nf \in [Notifier -> Local] /\ nf[e].last \in 0..LastDay /\ LeaseTypeOK
  BY <1>1, NotifierTyped, Typed
<1>3. Becomes(e, "dispatch", Midnight, nf[e].last, NoNote, "none")
  BY <1>2, ResumeEffect DEF NothingDue, ReportBusy, Pc
<1>4. QED
  BY <1>1, <1>2, <1>3, RestsAlone DEF LeaseTypeOK

\* A notifier that goes on with the clock it read before.
LEMMA ClockKept ==
  ASSUME TypeOK, NEW e \in Notifier, NotifierOK(e), time' = time,
         NEW pc, NEW last, NEW note, NEW content,
         Becomes(e, pc, nf[e].now, last, note, content),
         pc \in {"inserting", "refreshing", "claim"} \cup Holding => nf[e].now.due,
         pc \in Holding => note = Today(e) /\ outbox'[note].tried,
         pc = "accepted" => mailbox'[note] > 0,
         pc \in Dispatching => nf[e].pc \in Dispatching
  PROVE  NotifierOK(e)' /\ NoneReturns(e)
<1>1. nf'[e].pc = pc /\ nf'[e].now = nf[e].now /\ nf'[e].note = note
  BY DEF Becomes
<1>2. Today(e)' = Today(e) /\ nf'[e].now.day = Today(e)
  BY <1>1 DEF Today
<1>3. (Today(e) <= time.day)' /\ (nf[e].now.due => Reached(Today(e)))'
  BY <1>1, <1>2 DEF NotifierOK, Reached
<1>4. (nf[e].pc \in Holding => nf[e].note = Today(e) /\ outbox[nf[e].note].tried)'
  BY <1>1, <1>2
<1>5. (At(e, "accepted") => mailbox[nf[e].note] > 0)'
  BY <1>1 DEF At
<1>6. (nf[e].pc \in {"inserting", "refreshing", "claim"} \cup Holding => nf[e].now.due)'
  BY <1>1
<1>7. QED
  BY <1>1, <1>2, <1>3, <1>4, <1>5, <1>6 DEF NotifierOK, NoneReturns

\* enqueue_due looks at the outbox.
LEMMA CheckOutboxKeeps ==
  ASSUME OutboxInv, NEW e \in Notifier, CheckOutbox(e)
  PROVE  OutboxInv'
<1>1. TypeOK /\ NotifierOK(e) /\ UNCHANGED <<time, lease, outbox, idle, old, provider>>
  BY DEF OutboxInv, NotifierInv, CheckOutbox
<1>2. nf \in [Notifier -> Local] /\ Today(e) \in 0..LastDay /\ LeaseTypeOK
  BY <1>1, NotifierTyped, Typed
<1>3. nf[e].now.due
  BY DEF CheckOutbox
<1>4. CASE Resume(e, "dispatch", Today(e))
  <2>1. Becomes(e, "dispatch", Midnight, Today(e), NoNote, "none")
    BY <1>2, <1>4, ResumeEffect DEF Pc
  <2>2. QED
    BY <1>1, <1>2, <2>1, RestsAlone DEF LeaseTypeOK
<1>5. ASSUME NEW pc \in {"inserting", "refreshing"}, Goto(e, pc) PROVE OutboxInv'
  <2>1. pc \in Pc /\ pc \notin Holding /\ pc # "accepted" /\ pc \notin Dispatching
    BY <1>5 DEF Pc, Holding, Dispatching
  <2>2. Becomes(e, pc, nf[e].now, nf[e].last, nf[e].note, nf[e].content)
    BY <1>2, <1>5, <2>1, GotoEffect
  <2>3. NotifierOK(e)' /\ NoneReturns(e)
    BY <1>1, <1>3, <2>1, <2>2, ClockKept
  <2>4. MovesRight
    BY <2>2, <2>3, OneMovesRight
  <2>5. QED
    BY <1>1, <1>2, <2>4, RowsAlone DEF LeaseTypeOK
<1>6. QED
  BY <1>4, <1>5 DEF CheckOutbox

\* The request is refused.
LEMMA PostRefusedKeeps ==
  ASSUME OutboxInv, NEW e \in Notifier, PostRefused(e)
  PROVE  OutboxInv'
<1>1. TypeOK /\ NotifierOK(e) /\ UNCHANGED <<time, lease, outbox, idle, old, provider>>
  BY DEF OutboxInv, NotifierInv, PostRefused
<1>2. nf \in [Notifier -> Local] /\ LeaseTypeOK
  BY <1>1, Typed
<1>3. nf[e].now.due /\ nf[e].note = Today(e) /\ outbox'[nf[e].note].tried
  BY <1>1 DEF NotifierOK, PostRefused, At, Holding
<1>4. Becomes(e, "refused", nf[e].now, nf[e].last, nf[e].note, nf[e].content)
  BY <1>2, GotoEffect DEF PostRefused, Pc
<1>5. NotifierOK(e)' /\ NoneReturns(e)
  <2>1. "refused" \notin Dispatching /\ "refused" # "accepted"
    BY DEF Dispatching
  <2>2. QED
    BY <1>1, <1>3, <1>4, <2>1, ClockKept
<1>6. MovesRight
  BY <1>4, <1>5, OneMovesRight
<1>7. QED
  BY <1>1, <1>2, <1>6, RowsAlone DEF LeaseTypeOK

-----------------------------------------------------------------------------
(* Steps that write rows *)

\* A row that is not being sent has no age.
LEMMA OnlyClaimsAge ==
  ASSUME TypeOK, NEW n \in Note, outbox[n].status # "sending"
  PROVE  n \notin idle \cup old
BY DEF TypeOK

\* The summary of the day is queued, unless there is one.
LEMMA InsertKeeps ==
  ASSUME OutboxInv, NEW e \in Notifier, Insert(e)
  PROVE  OutboxInv'
<1> DEFINE d == Today(e)
<1>1. TypeOK /\ UNCHANGED <<time, lease, idle, old, provider>>
  BY DEF OutboxInv, Insert
<1>2. /\ nf \in [Notifier -> Local] /\ LeaseTypeOK
      /\ d \in 0..LastDay /\ d \in Note
  BY <1>1, NotifierTyped, Typed
<1>3. Becomes(e, "dispatch", Midnight, d, NoNote, "none")
  BY <1>2, ResumeEffect DEF Insert, Pc
<1>4. MovesRight
  BY <1>1, <1>3, RestIsRight
<1>5. CASE outbox[d] = NoRow
  <2> DEFINE r == Queued("summary")
  <2>1. r \in Row /\ r.status = "pending" /\ ~r.tried
    BY QueuedRow DEF Content
  <2>2. outbox' = [outbox EXCEPT ![d] = r]
    BY <1>5 DEF Insert
  <2> HIDE DEF r
  <2>3. Writes(d, r)
    BY <1>1, <1>2, <2>1, <2>2, WriteEffect DEF TypeOK
  <2>4. outbox[d].status = "absent" /\ ~outbox[d].tried
    BY <1>5 DEF NoRow
  <2>5. d \notin idle' \cup old'
    BY <1>1, <1>2, <2>4, OnlyClaimsAge
  <2>6. RowRight(d)
    BY <2>1, <2>3, <2>4, <2>5 DEF RowRight, Writes
  <2>7. QED
    BY <1>1, <1>2, <1>4, <2>3, <2>6, OneRowKeeps
<1>6. CASE outbox[d] # NoRow
  <2>1. outbox' = outbox
    BY <1>6 DEF Insert
  <2>2. QED
    BY <1>1, <1>2, <1>4, <2>1, RowsAlone DEF LeaseTypeOK
<1>7. QED
  BY <1>5, <1>6

\* A legacy message of the day is rewritten, unless it was attempted.
LEMMA RefreshKeeps ==
  ASSUME OutboxInv, NEW e \in Notifier, Refresh(e)
  PROVE  OutboxInv'
<1> DEFINE d == Today(e)
<1>1. TypeOK /\ UNCHANGED <<time, lease, idle, old, provider>>
  BY DEF OutboxInv, Refresh
<1>2. /\ nf \in [Notifier -> Local] /\ LeaseTypeOK
      /\ d \in 0..LastDay /\ d \in Note
  BY <1>1, NotifierTyped, Typed
<1>3. Becomes(e, "dispatch", Midnight, d, NoNote, "none")
  BY <1>2, ResumeEffect DEF Refresh, Pc
<1>4. MovesRight
  BY <1>1, <1>3, RestIsRight
<1>5. CASE NeedsRefresh(d)
  <2> DEFINE r == [outbox[d] EXCEPT !.content = "summary", !.status = "pending"]
  <2>1. outbox[d].status \in Unsent /\ ~outbox[d].tried
    BY <1>5 DEF NeedsRefresh
  <2>2. outbox[d] \in Row
    BY <1>1, <1>2, <2>1, RowFields DEF TypeOK, Unsent
  <2>3. r \in Row /\ r.status = "pending" /\ r.tried = outbox[d].tried
    BY <2>2, RowWritten DEF NotificationStatus, Unsent
  <2>4. outbox' = [outbox EXCEPT ![d] = r]
    BY <1>1, <1>5 DEF Refresh, TypeOK
  <2> HIDE DEF r
  <2>5. Writes(d, r)
    BY <1>1, <1>2, <2>3, <2>4, WriteEffect DEF TypeOK
  <2>6. d \notin idle' \cup old'
    BY <1>1, <1>2, <2>1, OnlyClaimsAge DEF Unsent
  <2>7. RowRight(d)
    BY <2>1, <2>3, <2>5, <2>6 DEF RowRight, Writes
  <2>8. QED
    BY <1>1, <1>2, <1>4, <2>5, <2>7, OneRowKeeps
<1>6. CASE ~NeedsRefresh(d)
  <2>1. outbox' = outbox
    BY <1>6 DEF Refresh
  <2>2. QED
    BY <1>1, <1>2, <1>4, <2>1, RowsAlone DEF LeaseTypeOK
<1>7. QED
  BY <1>5, <1>6

\* Nobody moves.
LEMMA NobodyMoves ==
  ASSUME TypeOK, nf' = nf
  PROVE  MovesRight
BY DEF TypeOK, MovesRight

\* Another producer queues its message.
LEMMA ProduceKeeps ==
  ASSUME OutboxInv, NEW n \in Note, Produce(n)
  PROVE  OutboxInv'
<1> DEFINE r == Queued("other")
<1>1. TypeOK /\ UNCHANGED <<time, lease, idle, old, nf, provider>>
  BY DEF OutboxInv, Produce
<1>2. r \in Row /\ r.status = "pending" /\ ~r.tried
  BY QueuedRow DEF Content
<1>3. outbox' = [outbox EXCEPT ![n] = r]
  BY DEF Produce
<1> HIDE DEF r
<1>4. Writes(n, r)
  BY <1>1, <1>2, <1>3, WriteEffect DEF TypeOK
<1>5. outbox[n].status = "absent" /\ ~outbox[n].tried
  BY DEF Produce, NoRow
<1>6. n \notin idle' \cup old'
  BY <1>1, <1>5, OnlyClaimsAge
<1>7. RowRight(n)
  BY <1>2, <1>4, <1>5, <1>6 DEF RowRight, Writes
<1>8. MovesRight
  BY <1>1, NobodyMoves
<1>9. QED
  BY <1>1, <1>4, <1>7, <1>8, OneRowKeeps

\* Every other unsent message is suppressed.
LEMMA SuppressKeeps ==
  ASSUME OutboxInv, NEW e \in Notifier, Suppress(e)
  PROVE  OutboxInv'
<1>1. TypeOK /\ NotifierOK(e) /\ UNCHANGED <<time, lease, idle, old, provider>>
  BY DEF OutboxInv, NotifierInv, Suppress
<1>2. nf \in [Notifier -> Local] /\ LeaseTypeOK' /\ nf[e].last \in 0..LastDay
  BY <1>1, NotifierTyped, Typed DEF LeaseTypeOK
<1>3. ASSUME NEW m \in Note PROVE outbox'[m] \in Row \cup {NoRow} /\ RowRight(m)
  <2>1. outbox[m] \in Row \cup {NoRow}
    BY <1>1 DEF TypeOK
  <2> DEFINE r == [outbox[m] EXCEPT !.status = "suppressed"]
  <2>2. outbox'[m] = outbox[m] \/ (outbox[m].status \in Unsent /\ outbox'[m] = r)
    BY DEF Suppress
  <2>3. CASE outbox'[m] = outbox[m]
    <3>1. idle' \subseteq idle /\ old' \subseteq old
      BY <1>1
    <3>2. QED
      BY <1>1, <2>1, <2>3, <3>1, UnwrittenIsRight
  <2>4. CASE outbox[m].status \in Unsent /\ outbox'[m] = r
    <3>1. outbox[m] \in Row /\ m \notin idle' \cup old'
      BY <1>1, <2>1, <2>4, RowFields, OnlyClaimsAge DEF Unsent
    <3>2. r \in Row /\ r.status = "suppressed" /\ r.tried = outbox[m].tried
      BY <3>1, RowWritten DEF NotificationStatus
    <3>3. QED
      BY <2>4, <3>1, <3>2 DEF RowRight
  <2>5. QED
    BY <2>2, <2>3, <2>4
<1>4. outbox' \in [Note -> Row \cup {NoRow}]
  <2>1. \A m \in Note : outbox'[m] \in Row \cup {NoRow}
    BY <1>3
  <2>2. outbox' = [m \in Note |-> outbox'[m]]
    BY DEF Suppress
  <2>3. QED
    BY <2>1, <2>2
<1>5. MovesRight
  <2>1. CASE nf[e].now.due /\ Goto(e, "claim")
    <3>1. Becomes(e, "claim", nf[e].now, nf[e].last, nf[e].note, nf[e].content)
      BY <1>2, <2>1, GotoEffect DEF Pc
    <3>2. "claim" \notin Holding /\ "claim" # "accepted" /\ nf[e].pc \in Dispatching
      BY DEF Holding, Dispatching, Suppress, At
    <3>3. NotifierOK(e)' /\ NoneReturns(e)
      BY <1>1, <2>1, <3>1, <3>2, ClockKept
    <3>4. QED
      BY <3>1, <3>3, OneMovesRight
  <2>2. CASE Return(e)
    <3>1. Becomes(e, "loop", Midnight, nf[e].last, NoNote, "none")
      BY <1>2, <2>2, ResumeEffect DEF Return, Pc
    <3>2. QED
      BY <1>1, <3>1, RestIsRight
  <2>3. QED
    BY <2>1, <2>2 DEF Suppress
<1>6. QED
  BY <1>1, <1>2, <1>3, <1>4, <1>5, RowsKeep

\* A row is written as a whole and its claim has no age.
LEMMA SettleEffect ==
  ASSUME TypeOK, NEW n \in Note, NEW r \in Row, Settle(n, r)
  PROVE  /\ Writes(n, r)
         /\ idle' \subseteq idle /\ old' \subseteq old
         /\ n \notin idle' \cup old'
BY WriteEffect DEF Settle, TypeOK

\* The row of a notifier's day is claimed: it counts an attempt from now on.
LEMMA ClaimKeeps ==
  ASSUME OutboxInv, NEW e \in Notifier, NEW n \in Note, Claim(e, n)
  PROVE  OutboxInv'
<1> DEFINE r == [outbox[n] EXCEPT !.status = "sending", !.tried = TRUE]
<1>1. TypeOK /\ NotifierOK(e) /\ UNCHANGED <<time, lease, provider>>
  BY DEF OutboxInv, NotifierInv, Claim
<1>2. /\ nf \in [Notifier -> Local] /\ outbox[n] \in Row \cup {NoRow}
      /\ Today(e) \in Day /\ n = Today(e) /\ nf[e].pc = "claim" /\ nf[e].now.due
  BY <1>1, NotifierTyped, Typed DEF TypeOK, Claim, Candidate, At, NotifierOK
<1>3. outbox[n] \in Row
  BY <1>2, RowFields DEF Claim, Candidate, Claimable, Unsent
<1>4. r \in Row /\ r.status = "sending" /\ r.tried
  BY <1>3, RowWritten DEF NotificationStatus
<1>5. Settle(n, r)
  BY DEF Claim
<1>6. outbox[n].content \in Content \cup {"none"}
  BY <1>3 DEF Row
<1> HIDE DEF r
<1>7. /\ Writes(n, r) /\ idle' \subseteq idle /\ old' \subseteq old
      /\ n \notin idle' \cup old'
  BY <1>1, <1>4, <1>5, SettleEffect
<1>8. RowRight(n)
  BY <1>2, <1>4, <1>7 DEF RowRight, Writes
<1>9. Becomes(e, "claimed", nf[e].now, nf[e].last, n, outbox[n].content)
  BY <1>2, <1>6, ClaimEffect DEF Claim
<1>10. NotifierOK(e)' /\ NoneReturns(e)
  <2>1. outbox'[n].tried /\ nf[e].pc \in Dispatching
    BY <1>2, <1>4, <1>7 DEF Writes, Dispatching
  <2>2. "claimed" # "accepted"
    OBVIOUS
  <2>3. QED
    BY <1>1, <1>2, <1>9, <2>1, <2>2, ClockKept, ZenonT(60)
<1>11. MovesRight
  BY <1>9, <1>10, OneMovesRight
<1>12. QED
  BY <1>1, <1>7, <1>8, <1>11, OneRowKeeps

\* A notifier ends its dispatch with a last word on a row that exists.
LEMMA LastWordKeeps ==
  ASSUME OutboxInv, NEW e \in Notifier, NEW n \in Note, NEW r \in Row,
         Settle(n, r), Return(e), UNCHANGED <<time, lease, provider>>,
         r.tried = outbox[n].tried, r.status = "sent" => mailbox[n] > 0
  PROVE  OutboxInv'
<1>1. TypeOK
  BY DEF OutboxInv
<1>2. nf \in [Notifier -> Local] /\ nf[e].last \in 0..LastDay
  BY <1>1, NotifierTyped, Typed
<1>3. Becomes(e, "loop", Midnight, nf[e].last, NoNote, "none")
  BY <1>2, ResumeEffect DEF Return, Pc
<1>4. MovesRight
  BY <1>1, <1>3, RestIsRight
<1>5. /\ Writes(n, r) /\ idle' \subseteq idle /\ old' \subseteq old
      /\ n \notin idle' \cup old'
  BY <1>1, SettleEffect
<1>6. RowRight(n)
  BY <1>5 DEF RowRight, Writes
<1>7. QED
  BY <1>4, <1>5, <1>6, OneRowKeeps

LEMMA NothingToClaimKeeps ==
  ASSUME OutboxInv, NEW e \in Notifier, NothingToClaim(e)
  PROVE  OutboxInv'
<1> DEFINE d == Today(e)
           r == [outbox[d] EXCEPT !.status = "needs_review"]
<1>1. TypeOK /\ Return(e) /\ UNCHANGED <<time, lease, provider>>
  BY DEF OutboxInv, NothingToClaim
<1>2. /\ nf \in [Notifier -> Local] /\ nf[e].last \in 0..LastDay /\ LeaseTypeOK
      /\ d \in Note /\ outbox[d] \in Row \cup {NoRow}
  BY <1>1, NotifierTyped, Typed DEF TypeOK
<1>3. CASE d \in old
  <2>1. outbox[d].status = "sending"
    BY <1>1, <1>2, <1>3, OnlyClaimsAge
  <2>2. outbox[d] \in Row
    BY <1>2, <2>1, RowFields
  <2>3. r \in Row /\ r.status = "needs_review" /\ r.tried = outbox[d].tried
    BY <2>2, RowWritten DEF NotificationStatus
  <2>4. Settle(d, r)
    BY <1>3 DEF NothingToClaim
  <2> HIDE DEF r
  <2>5. QED
    BY <1>1, <1>2, <2>3, <2>4, LastWordKeeps
<1>4. CASE d \notin old
  <2>1. UNCHANGED <<outbox, idle, old>>
    BY <1>4 DEF NothingToClaim
  <2>2. Becomes(e, "loop", Midnight, nf[e].last, NoNote, "none")
    BY <1>1, <1>2, ResumeEffect DEF Return, Pc
  <2>3. QED
    BY <1>1, <1>2, <2>1, <2>2, RestsAlone DEF LeaseTypeOK
<1>5. QED
  BY <1>3, <1>4

\* mark_review_required, mark_sent and mark_failed.
LEMMA MarksKeep ==
  ASSUME OutboxInv, NEW e \in Notifier, ReviewContent(e) \/ MarkSent(e) \/ MarkFailed(e)
  PROVE  OutboxInv'
<1> DEFINE n == nf[e].note
<1>1. /\ TypeOK /\ NotifierOK(e) /\ nf[e].pc \in Holding
      /\ Return(e) /\ UNCHANGED <<time, lease, provider>>
  BY DEF OutboxInv, NotifierInv, ReviewContent, MarkSent, MarkFailed, At, Holding
<1>2. n \in Note /\ outbox[n].tried /\ outbox[n] \in Row \cup {NoRow}
  BY <1>1, NotifierTyped DEF NotifierOK, TypeOK
<1>3. outbox[n] \in Row
  BY <1>2, RowFields
<1>4. ASSUME NEW status \in {"needs_review", "failed"},
             Settle(n, [outbox[n] EXCEPT !.status = status])
      PROVE  OutboxInv'
  <2> DEFINE r == [outbox[n] EXCEPT !.status = status]
  <2>1. r \in Row /\ r.status # "sent" /\ r.tried = outbox[n].tried
    BY <1>3, RowWritten DEF NotificationStatus, Unsent
  <2>2. Settle(n, r)
    BY <1>4
  <2> HIDE DEF r
  <2>3. QED
    BY <1>1, <1>2, <2>1, <2>2, LastWordKeeps
<1>5. CASE MarkSent(e)
  <2> DEFINE r == [outbox[n] EXCEPT !.status = "sent", !.accepted = TRUE]
  <2>1. r \in Row /\ r.tried = outbox[n].tried
    BY <1>3, RowWritten DEF NotificationStatus
  <2>2. Settle(n, r) /\ mailbox[n] > 0
    BY <1>1, <1>5 DEF MarkSent, NotifierOK
  <2> HIDE DEF r
  <2>3. QED
    BY <1>1, <1>2, <2>1, <2>2, LastWordKeeps
<1>6. QED
  BY <1>4, <1>5 DEF ReviewContent, MarkFailed

-----------------------------------------------------------------------------
(* Steps of the provider *)

\* A request for message n may be under way or about to be sent.
Expected(n) ==
    \/ n \in late
    \/ \E e \in Notifier : nf[e].pc = "claimed" /\ Today(e) = n

\* A message that is expected was attempted, and its time has come.
LEMMA ExpectedIsAttempted ==
  ASSUME OutboxInv, NEW n \in Note, Expected(n)
  PROVE  /\ n \in Day /\ Reached(n) /\ outbox[n].tried
         /\ mailbox[n] > 0 <=> n \in key
<1>1. CASE n \in late
  BY <1>1 DEF OutboxInv, MailInv, RowsTellTruth, OutOfReach
<1>2. ASSUME NEW e \in Notifier, nf[e].pc = "claimed", Today(e) = n
      PROVE  /\ n \in Day /\ Reached(n) /\ outbox[n].tried
             /\ mailbox[n] > 0 <=> n \in key
  <2>1. NotifierOK(e) /\ TypeOK /\ nf[e].pc \in Holding /\ nf[e].pc \in Dispatching
    BY <1>2 DEF OutboxInv, NotifierInv, Holding, Dispatching
  <2>2. Today(e) \in Day /\ Reached(n) /\ outbox[n].tried
    BY <1>2, <2>1, NotifierTyped DEF NotifierOK
  <2>3. ~OutOfReach(n)
    BY <1>2, <2>1 DEF OutOfReach
  <2>4. QED
    BY <1>2, <2>2, <2>3 DEF OutboxInv, MailInv
<1>3. QED
  BY <1>1, <1>2 DEF Expected

\* The provider takes an expected request: the message is in the mailbox, once.
LEMMA DeliverEffect ==
  ASSUME OutboxInv, NEW n \in Note, Expected(n), Deliver(n)
  PROVE  /\ mailbox' \in [Note -> Nat] /\ mailbox'[n] = 1
         /\ \A m \in Note \ {n} : mailbox'[m] = mailbox[m]
         /\ key' = key \cup {n} /\ key' \subseteq Note
<1>1. mailbox \in [Note -> Nat] /\ key \subseteq Note /\ mailbox[n] <= 1
  BY DEF OutboxInv, TypeOK, MailInv
<1>2. mailbox[n] > 0 <=> n \in key
  BY ExpectedIsAttempted
<1>3. QED
  BY <1>1, <1>2 DEF Deliver, KeyUnknown

\* The invariant after a delivery.
LEMMA DeliveryKeeps ==
  ASSUME OutboxInv, NEW n \in Note, Expected(n), Deliver(n), late' \subseteq late,
         UNCHANGED <<time, lease, outbox, idle, old>>, nf' \in [Notifier -> Local],
         \A f \in Notifier : NoneReturns(f) /\ (nf'[f] = nf[f] \/ NotifierOK(f)')
  PROVE  OutboxInv'
<1>1. /\ mailbox' \in [Note -> Nat] /\ mailbox'[n] = 1
      /\ \A m \in Note \ {n} : mailbox'[m] = mailbox[m]
      /\ key' = key \cup {n} /\ key' \subseteq Note
  BY DeliverEffect
<1>2. n \in Day /\ Reached(n) /\ outbox[n].tried /\ TypeOK /\ Onward
  BY ExpectedIsAttempted, ClockStands DEF OutboxInv, TypeOK
<1>3. TypeOK'
  BY <1>1 DEF OutboxInv, TypeOK
<1>4. RowsTellTruth'
  BY <1>1, <1>2 DEF OutboxInv, RowsTellTruth
<1>5. NotifierInv'
  <2>1. ASSUME NEW f \in Notifier, nf'[f] = nf[f] PROVE NotifierOK(f)'
    <3>1. NotifierOK(f) /\ AttemptsStay
      BY DEF OutboxInv, NotifierInv, AttemptsStay
    <3>2. \A m \in Note : mailbox[m] > 0 => mailbox'[m] > 0
      BY <1>1
    <3>3. QED
      BY <1>2, <2>1, <3>1, <3>2, UnmovedStaysRight
  <2>2. QED
    BY <2>1 DEF NotifierInv
<1>6. MailInv'
  <2> SUFFICES ASSUME NEW m \in Note
               PROVE  /\ mailbox'[m] <= 1
                      /\ mailbox'[m] > 0 \/ m \in late' => m \in Day /\ Reached(m)'
                      /\ m \in key' => mailbox'[m] > 0
                      /\ mailbox'[m] > 0 => m \in key' \/ OutOfReach(m)'
    BY DEF MailInv
  <2>1. CASE m = n
    BY <1>1, <1>2, <2>1 DEF Onward
  <2>2. CASE m # n
    <3>1. /\ mailbox'[m] <= 1 /\ (m \in key' => mailbox'[m] > 0)
          /\ mailbox'[m] > 0 \/ m \in late' => m \in Day /\ Reached(m)
          /\ mailbox'[m] > 0 => m \in key \/ OutOfReach(m)
      BY <1>1, <2>2 DEF OutboxInv, MailInv
    <3>2. ASSUME m \in Day, OutOfReach(m) PROVE OutOfReach(m)'
      <4>1. m \notin late'
        BY <3>2 DEF OutOfReach
      <4>2. QED
        BY <1>2, <3>2, <4>1, StaysOutOfReach
    <3>3. QED
      BY <1>1, <1>2, <3>1, <3>2 DEF Onward
  <2>3. QED
    BY <2>1, <2>2
<1>7. QED
  BY <1>3, <1>4, <1>5, <1>6 DEF OutboxInv

LEMMA ClaimedIsExpected ==
  ASSUME OutboxInv, NEW e \in Notifier, At(e, "claimed")
  PROVE  /\ nf[e].note \in Note /\ nf[e].note = Today(e) /\ Expected(nf[e].note)
         /\ outbox[nf[e].note].tried /\ nf[e].now.due
<1>1. NotifierOK(e) /\ TypeOK /\ nf[e].pc \in Holding
  BY DEF OutboxInv, NotifierInv, Holding, At
<1>2. QED
  BY <1>1, NotifierTyped DEF NotifierOK, Expected, At

\* The request is taken, and the answer arrives.
LEMMA PostAcceptedKeeps ==
  ASSUME OutboxInv, NEW e \in Notifier, PostAccepted(e)
  PROVE  OutboxInv'
<1> DEFINE n == nf[e].note
<1>1. /\ TypeOK /\ NotifierOK(e) /\ At(e, "claimed") /\ Deliver(n)
      /\ UNCHANGED <<time, lease, outbox, idle, old, late>>
  BY DEF OutboxInv, NotifierInv, PostAccepted
<1>2. n \in Note /\ n = Today(e) /\ Expected(n) /\ outbox'[n].tried /\ nf[e].now.due
  BY <1>1, ClaimedIsExpected
<1>3. mailbox'[n] > 0
  BY <1>1, <1>2, DeliverEffect
<1>4. Becomes(e, "accepted", nf[e].now, nf[e].last, n, nf[e].content)
  BY <1>1, Typed, GotoEffect DEF PostAccepted, Pc
<1>5. "accepted" \notin Dispatching
  BY DEF Dispatching
<1>6. NotifierOK(e)' /\ NoneReturns(e)
  BY <1>1, <1>2, <1>3, <1>4, <1>5, ClockKept
<1>7. /\ nf' \in [Notifier -> Local]
      /\ \A f \in Notifier : NoneReturns(f) /\ (nf'[f] = nf[f] \/ NotifierOK(f)')
  BY <1>4, <1>6 DEF Becomes, NoneReturns, Today
<1>8. QED
  BY <1>1, <1>2, <1>7, DeliveryKeeps

\* The request goes out, and no answer arrives.
LEMMA PostUnknownKeeps ==
  ASSUME OutboxInv, NEW e \in Notifier, PostUnknown(e)
  PROVE  OutboxInv'
<1> DEFINE n == nf[e].note
<1>1. /\ TypeOK /\ At(e, "claimed") /\ Return(e)
      /\ UNCHANGED <<time, lease, outbox, idle, old>>
  BY DEF OutboxInv, PostUnknown
<1>2. n \in Note /\ n = Today(e) /\ Expected(n)
  BY <1>1, ClaimedIsExpected
<1>3. Becomes(e, "loop", Midnight, nf[e].last, NoNote, "none")
  BY <1>1, Typed, NotifierTyped, ResumeEffect DEF Return, Pc
<1>4. MovesRight
  BY <1>1, <1>3, RestIsRight
<1>5. \A f \in Notifier : NoneReturns(f)
  BY <1>4 DEF MovesRight, NoneReturns, Today
<1>6. CASE Deliver(n) /\ UNCHANGED late
  <2>1. /\ nf' \in [Notifier -> Local] /\ late' \subseteq late
        /\ \A f \in Notifier : NoneReturns(f) /\ (nf'[f] = nf[f] \/ NotifierOK(f)')
    BY <1>4, <1>5, <1>6 DEF MovesRight
  <2>2. QED
    BY <1>1, <1>2, <1>6, <2>1, DeliveryKeeps
<1>7. CASE late' = late \cup {n} /\ UNCHANGED <<mailbox, key>>
  <2>1. n \in Day /\ Reached(n) /\ outbox[n].tried /\ (mailbox[n] > 0 <=> n \in key)
    BY <1>2, ExpectedIsAttempted
  <2>2. Onward /\ AttemptsStay
    BY <1>1, ClockStands DEF TypeOK, AttemptsStay
  <2>3. TypeOK'
    BY <1>1, <1>2, <1>4, <1>7 DEF TypeOK, MovesRight
  <2>4. RowsTellTruth'
    BY <1>1, <1>7, <2>1 DEF OutboxInv, RowsTellTruth
  <2>5. NotifierInv'
    <3>1. ASSUME NEW f \in Notifier, nf'[f] = nf[f] PROVE NotifierOK(f)'
      <4>1. NotifierOK(f) /\ \A m \in Note : mailbox[m] > 0 => mailbox'[m] > 0
        BY <1>7 DEF OutboxInv, NotifierInv
      <4>2. QED
        BY <1>1, <2>2, <3>1, <4>1, UnmovedStaysRight
    <3>2. QED
      BY <1>4, <3>1 DEF NotifierInv, MovesRight
  <2>6. MailInv'
    <3> SUFFICES ASSUME NEW m \in Note
                 PROVE  /\ mailbox[m] <= 1
                        /\ mailbox[m] > 0 \/ m \in late' => m \in Day /\ Reached(m)'
                        /\ m \in key => mailbox[m] > 0
                        /\ mailbox[m] > 0 => m \in key \/ OutOfReach(m)'
      BY <1>7 DEF MailInv
    <3>1. /\ mailbox[m] <= 1 /\ (m \in key => mailbox[m] > 0)
          /\ mailbox[m] > 0 \/ m \in late => m \in Day /\ Reached(m)
          /\ mailbox[m] > 0 => m \in key \/ OutOfReach(m)
      BY DEF OutboxInv, MailInv
    <3>2. CASE m = n
      BY <2>1, <2>2, <3>1, <3>2 DEF Onward
    <3>3. ASSUME m # n, m \in Day, OutOfReach(m) PROVE OutOfReach(m)'
      <4>1. m \notin late'
        BY <1>7, <3>3 DEF OutOfReach
      <4>2. QED
        BY <1>1, <1>5, <2>2, <3>3, <4>1, StaysOutOfReach
    <3>4. CASE m # n
      BY <1>7, <2>2, <3>1, <3>3, <3>4 DEF Onward
    <3>5. QED
      BY <3>2, <3>4
  <2>7. QED
    BY <2>3, <2>4, <2>5, <2>6 DEF OutboxInv
<1>8. CASE UNCHANGED <<mailbox, key, late>>
  BY <1>1, <1>4, <1>8, RowsAlone, Typed DEF LeaseTypeOK, provider
<1>9. QED
  BY <1>6, <1>7, <1>8 DEF PostUnknown

\* A request arrives after its client is gone.
LEMMA LateDeliveryKeeps ==
  ASSUME OutboxInv, NEW n \in Note, LateDelivery(n)
  PROVE  OutboxInv'
<1>1. /\ Expected(n) /\ Deliver(n) /\ late' \subseteq late
      /\ UNCHANGED <<time, lease, outbox, idle, old, nf>>
  BY DEF LateDelivery, Expected
<1>2. nf' \in [Notifier -> Local]
  BY <1>1 DEF OutboxInv, TypeOK
<1>3. \A f \in Notifier : NoneReturns(f) /\ (nf'[f] = nf[f] \/ NotifierOK(f)')
  BY <1>1 DEF NoneReturns, Today
<1>4. QED
  BY <1>1, <1>2, <1>3, DeliveryKeeps

\* The provider forgets a key: the message is out of reach by then.
LEMMA ForgetKeyKeeps ==
  ASSUME OutboxInv, NEW n \in Note, ForgetKey(n)
  PROVE  OutboxInv'
<1>1. /\ TypeOK /\ n \in key /\ n \notin late /\ key' = key \ {n}
      /\ UNCHANGED <<time, lease, outbox, idle, old, nf, mailbox, late>>
  BY DEF OutboxInv, ForgetKey
<1>2. n \in Day
  BY <1>1 DEF OutboxInv, MailInv
<1>3. OutOfReach(n)
  BY <1>1, <1>2 DEF ForgetKey, OutOfReach, Dispatching
<1>4. TypeOK'
  BY <1>1 DEF TypeOK
<1>5. RowsTellTruth'
  BY <1>1 DEF OutboxInv, RowsTellTruth
<1>6. NotifierInv'
  BY <1>1 DEF OutboxInv, NotifierInv, NotifierOK, Today, At, Reached
<1>7. MailInv'
  <2>1. \A m \in Note : OutOfReach(m)' <=> OutOfReach(m)
    BY <1>1 DEF OutOfReach, Today
  <2>2. \A m \in Note : Reached(m)' <=> Reached(m)
    BY <1>1 DEF Reached
  <2>3. QED
    BY <1>1, <1>3, <2>1, <2>2 DEF OutboxInv, MailInv
<1>8. QED
  BY <1>4, <1>5, <1>6, <1>7 DEF OutboxInv

-----------------------------------------------------------------------------
(* Time *)

\* Days and delivery times come one after the other.
LEMMA TimeIsOnward ==
  ASSUME TypeOK, TimePasses
  PROVE  Onward
<1>1. time \in Time /\ time.day \in Day /\ time.due \in BOOLEAN
  BY Typed
<1>2. CASE ~time.due /\ time' = [time EXCEPT !.due = TRUE]
  <2>1. time' \in Time /\ time'.day = time.day /\ time'.due
    BY <1>1, <1>2 DEF Time
  <2>2. QED
    BY <1>1, <2>1 DEF Onward, Reached, Day
<1>3. CASE time.day < LastDay /\ time' = [day |-> time.day + 1, due |-> AllDay]
  <2>1. time.day + 1 \in Day
    BY <1>1, <1>3, LastDayAssumption DEF Day
  <2>2. time' \in Time /\ time'.day = time.day + 1
    BY <1>3, <2>1, AllDayAssumption DEF Time
  <2>3. QED
    BY <1>1, <2>2 DEF Onward, Reached, Day
<1>4. QED
  BY <1>2, <1>3 DEF TimePasses

LEMMA TimePassesKeeps ==
  ASSUME OutboxInv, TimePasses
  PROVE  OutboxInv'
<1>1. TypeOK /\ UNCHANGED <<lease, outbox, idle, old, nf, provider>>
  BY DEF OutboxInv, TimePasses
<1>2. Onward /\ AttemptsStay
  BY <1>1, TimeIsOnward DEF AttemptsStay
<1>3. TypeOK'
  BY <1>1, <1>2 DEF TypeOK, Onward, provider
<1>4. RowsTellTruth'
  BY <1>1 DEF OutboxInv, RowsTellTruth, provider
<1>5. NotifierInv'
  <2>1. ASSUME NEW f \in Notifier PROVE NotifierOK(f)'
    <3>1. NotifierOK(f) /\ nf'[f] = nf[f] /\ \A n \in Note : mailbox[n] > 0 => mailbox'[n] > 0
      BY <1>1 DEF OutboxInv, NotifierInv, provider
    <3>2. QED
      BY <1>1, <1>2, <3>1, UnmovedStaysRight
  <2>2. QED
    BY <2>1 DEF NotifierInv
<1>6. MailInv'
  <2>1. \A f \in Notifier : NoneReturns(f)
    BY <1>1 DEF NoneReturns, Today
  <2>2. MailInv /\ UNCHANGED provider
    BY <1>1 DEF OutboxInv
  <2>3. QED
    BY <1>1, <1>2, <2>1, <2>2, MailStaysRight
<1>7. QED
  BY <1>3, <1>4, <1>5, <1>6 DEF OutboxInv

LEMMA AgingKeeps ==
  ASSUME OutboxInv, LeaseAges \/ (\E n \in Note : ClaimAges(n) \/ RowAges(n)) \/ UNCHANGED vars
  PROVE  OutboxInv'
<1>1. TypeOK /\ UNCHANGED <<time, outbox, nf, provider>>
  BY DEF OutboxInv, LeaseAges, ClaimAges, RowAges, vars, provider
<1>2. TypeOK'
  <2>1. CASE LeaseAges
    <3>1. LeaseTypeOK'
      BY <1>1, <2>1, Typed DEF LeaseAges, LeaseTypeOK
    <3>2. QED
      BY <1>1, <2>1, <3>1 DEF LeaseAges, TypeOK, LeaseTypeOK, provider
  <2>2. ASSUME NEW n \in Note, ClaimAges(n) \/ RowAges(n) PROVE TypeOK'
    BY <1>1, <2>2 DEF ClaimAges, RowAges, TypeOK, provider
  <2>3. CASE UNCHANGED vars
    BY <1>1, <2>3 DEF vars, TypeOK
  <2>4. QED
    BY <2>1, <2>2, <2>3
<1>3. RowsTellTruth'
  BY <1>1 DEF OutboxInv, RowsTellTruth, provider
<1>4. NotifierInv' /\ MailInv'
  <2>1. AttemptsStay /\ MovesRight /\ UNCHANGED <<time, provider>>
    BY <1>1, NobodyMoves DEF AttemptsStay
  <2>2. QED
    BY <2>1, NotifiersKeep
<1>5. QED
  BY <1>2, <1>3, <1>4 DEF OutboxInv

-----------------------------------------------------------------------------
(* The theorems *)

LEMMA NotifierStepKeeps ==
  ASSUME OutboxInv, NEW e \in Notifier, NotifierStep(e)
  PROVE  OutboxInv'
BY LifeKeeps, ClockReadKeeps, EnqueueEndsKeeps, CheckOutboxKeeps, PostRefusedKeeps,
   InsertKeeps, RefreshKeeps, SuppressKeeps, ClaimKeeps, NothingToClaimKeeps, MarksKeep,
   PostAcceptedKeeps, PostUnknownKeeps
   DEF NotifierStep

LEMMA StepKeeps ==
  ASSUME OutboxInv, [Next]_vars
  PROVE  OutboxInv'
<1>1. ASSUME NEW n \in Note, NoteStep(n) PROVE OutboxInv'
  BY <1>1, AgingKeeps, ProduceKeeps, LateDeliveryKeeps, ForgetKeyKeeps DEF NoteStep
<1>2. QED
  BY <1>1, TimePassesKeeps, AgingKeeps, NotifierStepKeeps DEF Next

LEMMA InitIsRight ==
  ASSUME Init
  PROVE  OutboxInv
<1>1. \A s \in {"pending", "failed"}, b \in BOOLEAN :
         Legacy(s, b) \in Row /\ Legacy(s, b).status = s /\ Legacy(s, b).tried = b
  BY DEF Legacy, Row, NotificationStatus, Unsent, Content
<1>2. NoRow.status = "absent" /\ ~NoRow.tried
  BY DEF NoRow
<1> DEFINE First == {NoRow, Legacy("pending", FALSE), Legacy("failed", TRUE)}
<1>3. \A r \in First : r \in Row \cup {NoRow} /\ r.status # "sent"
  <2>1. /\ Legacy("pending", FALSE) \in Row /\ Legacy("pending", FALSE).status = "pending"
        /\ Legacy("failed", TRUE) \in Row /\ Legacy("failed", TRUE).status = "failed"
    BY <1>1
  <2>2. QED
    BY <1>2, <2>1
<1>4. \E r \in First : outbox = [n \in Note |-> IF n = 1 THEN r ELSE NoRow]
  BY Zenon DEF Init
<1> HIDE DEF First
<1>5. ASSUME NEW n \in Note
      PROVE  /\ outbox[n] \in Row \cup {NoRow} /\ outbox[n].status # "sent"
             /\ outbox[n].tried => n \in Day
  <2>1. PICK r \in First : outbox = [m \in Note |-> IF m = 1 THEN r ELSE NoRow]
    BY <1>4
  <2>2. CASE n = 1
    <3>1. outbox[n] = r /\ n \in Day
      BY <2>1, <2>2, LastDayAssumption DEF Day
    <3>2. QED
      BY <1>3, <3>1
  <2>3. CASE n # 1
    <3>1. outbox[n] = NoRow
      BY <2>1, <2>3
    <3>2. QED
      BY <1>2, <3>1
  <2>4. QED
    BY <2>2, <2>3
<1>6. TypeOK
  <2>1. time \in Time
    BY LastDayAssumption, AllDayAssumption DEF Init, Time, Day
  <2>2. outbox \in [Note -> Row \cup {NoRow}]
    <3>1. PICK r \in First : outbox = [n \in Note |-> IF n = 1 THEN r ELSE NoRow]
      BY <1>4
    <3>2. QED
      BY <1>5, <3>1
  <2>3. nf \in [Notifier -> Local]
    BY Constants DEF Init
  <2>4. QED
    BY <2>1, <2>2, <2>3 DEF Init, TypeOK
<1>7. RowsTellTruth
  <2>1. \A n \in Note : mailbox[n] = 0 /\ n \notin late
    BY DEF Init
  <2>2. \A n \in Other : n \notin Day
    BY OtherAssumption
  <2>3. QED
    BY <1>5, <2>1, <2>2 DEF RowsTellTruth
<1>8. NotifierInv
  <2> SUFFICES ASSUME NEW e \in Notifier PROVE NotifierOK(e)
    BY DEF NotifierInv
  <2>1. nf[e].pc = "down" /\ nf[e].now.day = 1 /\ ~nf[e].now.due /\ time.day = 1
    BY DEF Init, Off, Midnight
  <2>2. "down" \notin {"inserting", "refreshing", "claim"} \cup Holding /\ "down" # "accepted"
    BY DEF Holding
  <2>3. QED
    BY <2>1, <2>2 DEF NotifierOK, Today, At
<1>9. MailInv
  <2>1. \A n \in Note : mailbox[n] = 0 /\ n \notin late /\ n \notin key
    BY DEF Init
  <2>2. QED
    BY <2>1 DEF MailInv
<1>10. QED
  BY <1>6, <1>7, <1>8, <1>9 DEF OutboxInv

\* Rows, notifiers and emails always agree: a message recorded as sent was
\* delivered, one that counts no attempt was not, nobody holds a message that
\* is not of the day the clock showed, and a message whose key is forgotten is
\* out of reach - the transactions of notifications.py and the one clock of
\* dispatch_one, whatever is interleaved, lost or restarted.
THEOREM OutboxInvariant == Spec => []OutboxInv
<1>1. Init => OutboxInv
  BY InitIsRight
<1>2. OutboxInv /\ [Next]_vars => OutboxInv'
  BY StepKeeps
<1>3. QED
  BY <1>1, <1>2, PTL DEF Spec

\* No step rewrites a message that was attempted.
LEMMA StepLeavesContent ==
  ASSUME OutboxInv, Next, NEW n \in Note, outbox[n].tried
  PROVE  outbox'[n].content = outbox[n].content
<1>1. TypeOK /\ outbox[n] \in Row \cup {NoRow}
  BY DEF OutboxInv, TypeOK
<1>2. outbox[n] \in Row /\ outbox[n] # NoRow
  BY <1>1, RowFields DEF NoRow
<1>3. ASSUME NEW m \in Note, NEW status \in NotificationStatus,
             \/ outbox' = [outbox EXCEPT ![m] = [outbox[m] EXCEPT !.status = status]]
             \/ outbox' = [outbox EXCEPT ![m] = [outbox[m] EXCEPT !.status = status, !.tried = TRUE]]
             \/ outbox' = [outbox EXCEPT ![m] = [outbox[m] EXCEPT !.status = status, !.accepted = TRUE]]
      PROVE  outbox'[n].content = outbox[n].content
  <2>1. CASE n = m
    <3>1. \A r : outbox' = [outbox EXCEPT ![m] = r] => outbox'[n] = r
      BY <1>1, <2>1 DEF TypeOK
    <3>2. \/ outbox'[n] = [outbox[n] EXCEPT !.status = status]
          \/ outbox'[n] = [outbox[n] EXCEPT !.status = status, !.tried = TRUE]
          \/ outbox'[n] = [outbox[n] EXCEPT !.status = status, !.accepted = TRUE]
      BY <1>3, <2>1, <3>1
    <3>3. QED
      BY <1>2, <3>2 DEF Row
  <2>2. CASE n # m
    <3>1. \A r : outbox' = [outbox EXCEPT ![m] = r] => outbox'[n] = outbox[n]
      BY <1>1, <2>2 DEF TypeOK
    <3>2. QED
      BY <1>3, <3>1
  <2>3. QED
    BY <2>1, <2>2
<1>4. ASSUME NEW e \in Notifier, Insert(e) PROVE outbox'[n].content = outbox[n].content
  BY <1>1, <1>2, <1>4 DEF Insert, TypeOK
<1>5. ASSUME NEW e \in Notifier, Refresh(e) PROVE outbox'[n].content = outbox[n].content
  BY <1>1, <1>5 DEF Refresh, NeedsRefresh, TypeOK
<1>6. ASSUME NEW m \in Note, Produce(m) PROVE outbox'[n].content = outbox[n].content
  BY <1>1, <1>2, <1>6 DEF Produce, TypeOK
<1>7. ASSUME NEW e \in Notifier, Suppress(e) PROVE outbox'[n].content = outbox[n].content
  <2>1. outbox'[n] = outbox[n] \/ outbox'[n] = [outbox[n] EXCEPT !.status = "suppressed"]
    BY <1>7 DEF Suppress
  <2>2. QED
    BY <1>2, <2>1 DEF Row
<1>8. ASSUME NEW e \in Notifier, NEW m \in Note, Claim(e, m)
      PROVE  outbox'[n].content = outbox[n].content
  BY <1>3, <1>8 DEF Claim, Settle, NotificationStatus
<1>9. ASSUME NEW e \in Notifier, NothingToClaim(e) PROVE outbox'[n].content = outbox[n].content
  BY <1>1, <1>3, <1>9, NotifierTyped DEF NothingToClaim, Settle, NotificationStatus
<1>10. ASSUME NEW e \in Notifier, ReviewContent(e) \/ MarkSent(e) \/ MarkFailed(e)
       PROVE  outbox'[n].content = outbox[n].content
  <2>1. NotifierOK(e) /\ nf[e].pc \in Holding
    BY <1>10 DEF OutboxInv, NotifierInv, ReviewContent, MarkSent, MarkFailed, At, Holding
  <2>2. nf[e].note \in Note
    BY <1>1, <2>1, NotifierTyped DEF NotifierOK
  <2>3. QED
    BY <1>3, <1>10, <2>2 DEF ReviewContent, MarkSent, MarkFailed, Settle, NotificationStatus, Unsent
<1>11. outbox' = outbox
       \/ (\E e \in Notifier : \/ Insert(e) \/ Refresh(e) \/ Suppress(e) \/ NothingToClaim(e)
                              \/ ReviewContent(e) \/ MarkSent(e) \/ MarkFailed(e)
                              \/ \E m \in Note : Claim(e, m))
       \/ (\E m \in Note : Produce(m))
  BY DEF Next, NotifierStep, NoteStep, TimePasses, LeaseAges, ClaimAges, RowAges, LateDelivery,
         ForgetKey, Acquire, BeginDispatch, LeaseLost, Stop, Crash, NothingDue, CheckOutbox,
         ReportBusy, BeginSend, PostAccepted, PostUnknown, PostRefused
<1>12. QED
  BY <1>4, <1>5, <1>6, <1>7, <1>8, <1>9, <1>10, <1>11

\* The content of a message that was attempted stands as written, so that the
\* retries of one idempotency key ask for one thing: refresh_unattempted_daily
\* looks at the row again, and every other write leaves the content alone.
THEOREM AttemptedStands == Spec => AttemptedStandsAsWritten
<1>1. OutboxInv /\ [Next]_vars
        => [\A n \in Note : outbox[n].tried => outbox'[n].content = outbox[n].content]_vars
  BY StepLeavesContent
<1>2. QED
  BY <1>1, OutboxInvariant, PTL DEF Spec, AttemptedStandsAsWritten

-----------------------------------------------------------------------------
(* The outbox implements DailyEmail *)

\* A delivery is the one of its day, after its time, or a request repeated.
LEMMA DeliveryIsPromised ==
  ASSUME OutboxInv, NEW n \in Note, Expected(n), Deliver(n), UNCHANGED time
  PROVE  [Promise!Next]_<<mailbox, time>>
<1>1. n \in Day /\ Reached(n) /\ (mailbox[n] > 0 <=> n \in key) /\ mailbox \in [Note -> Nat]
  BY ExpectedIsAttempted DEF OutboxInv, TypeOK
<1>2. CASE n \in key
  BY <1>2 DEF Deliver, KeyUnknown
<1>3. CASE n \notin key
  <2>1. mailbox[n] = 0
    BY <1>1, <1>3
  <2>2. mailbox' = [mailbox EXCEPT ![n] = 1]
    BY <1>1, <1>3, <2>1 DEF Deliver, KeyUnknown
  <2>3. Promise!Reached(n, time)
    BY <1>1 DEF Promise!Reached, Reached
  <2>4. Promise!Deliver(n) /\ n \in Promise!Day
    BY <1>1, <2>1, <2>2, <2>3 DEF Promise!Deliver, Promise!Day, Day
  <2>5. QED
    BY <2>4 DEF Promise!Next
<1>4. QED
  BY <1>2, <1>3

LEMMA StepIsPromised ==
  ASSUME OutboxInv, [Next]_vars
  PROVE  [Promise!Next]_<<mailbox, time>>
<1>1. CASE UNCHANGED <<mailbox, time>>
  BY <1>1
<1>2. CASE TimePasses
  <2>1. Onward
    BY <1>2, TimeIsOnward DEF OutboxInv
  <2>2. time' \in [day : Promise!Day, due : BOOLEAN]
    BY <2>1 DEF Onward, Time, Promise!Day, Day
  <2>3. \A d \in Promise!Day : Promise!Reached(d, time) => Promise!Reached(d, time')
    <3>1. \A d \in Day : Promise!Reached(d, time) <=> Reached(d)
      BY <1>2, Typed DEF OutboxInv, Promise!Reached, Reached, Day
    <3>2. \A d \in Day : Promise!Reached(d, time') <=> Reached(d)'
      BY <2>1 DEF Onward, Promise!Reached, Reached, Day, Time
    <3>3. QED
      BY <2>1, <3>1, <3>2 DEF Onward, Promise!Day, Day
  <2>4. QED
    BY <1>2, <2>2, <2>3 DEF Promise!Next, Promise!Passes, TimePasses, provider
<1>3. ASSUME NEW e \in Notifier, PostAccepted(e) \/ PostUnknown(e)
      PROVE  [Promise!Next]_<<mailbox, time>>
  <2>1. nf[e].note \in Note /\ Expected(nf[e].note) /\ UNCHANGED time
    BY <1>3, ClaimedIsExpected DEF PostAccepted, PostUnknown
  <2>2. Deliver(nf[e].note) \/ UNCHANGED mailbox
    BY <1>3 DEF PostAccepted, PostUnknown
  <2>3. QED
    BY <2>1, <2>2, DeliveryIsPromised
<1>4. ASSUME NEW n \in Note, LateDelivery(n)
      PROVE  [Promise!Next]_<<mailbox, time>>
  BY <1>4, DeliveryIsPromised DEF LateDelivery, Expected
<1>5. \/ UNCHANGED <<mailbox, time>> \/ TimePasses
      \/ \E e \in Notifier : PostAccepted(e) \/ PostUnknown(e)
      \/ \E n \in Note : LateDelivery(n)
  BY DEF Next, NotifierStep, NoteStep, LeaseAges, ClaimAges, RowAges, Produce, ForgetKey,
         Acquire, BeginDispatch, LeaseLost, Stop, Crash, NothingDue, CheckOutbox, ReportBusy,
         Insert, Refresh, BeginSend, Suppress, Claim, NothingToClaim, ReviewContent,
         PostRefused, MarkSent, MarkFailed, provider, vars
<1>6. QED
  BY <1>1, <1>2, <1>3, <1>4, <1>5

\* However many notifiers there are and however they are interleaved, delayed,
\* killed and answered, the outbox delivers one email per reporting day, never
\* before its time, and no other email: the detailed protocol implements the
\* promise of docs/DAILY_EMAIL.md.
THEOREM ImplementsDailyEmail == Spec => OneEmailPerDay
<1>1. Init => Promise!Init
  <2> SUFFICES ASSUME Init PROVE Promise!Init
    OBVIOUS
  <2>1. time \in [day : {1}, due : BOOLEAN]
    BY AllDayAssumption DEF Init
  <2>2. mailbox = [n \in Promise!Day \cup Other |-> 0]
    BY DEF Init, Note, Day, Promise!Day
  <2>3. QED
    BY <2>1, <2>2 DEF Promise!Init
<1>2. OutboxInv /\ [Next]_vars => [Promise!Next]_<<mailbox, time>>
  BY StepIsPromised
<1>3. QED
  BY <1>1, <1>2, OutboxInvariant, PTL DEF Spec, OneEmailPerDay, Promise!Spec, Promise!vars
=============================================================================
