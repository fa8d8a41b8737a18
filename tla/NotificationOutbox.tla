-------------------------- MODULE NotificationOutbox --------------------------
(***************************************************************************)
(* The email outbox and its notifiers (notifications.py, notifier.py,      *)
(* email_schedule.py, daily_status.py) under the daily-only policy, the    *)
(* only one the command line starts.  Notifiers that hand one lease to     *)
(* each other enqueue the summary of the local day, suppress every other   *)
(* message, claim the row of the day, POST it with the row's id as         *)
(* idempotency key and record the answer, each in a transaction of its     *)
(* own.  A notifier may be delayed or die between any two of them, and     *)
(* the answer to a POST may get lost.                                      *)
(*                                                                         *)
(* Left out: the text of a summary (it is the current format or a legacy   *)
(* one), the audit events, backoff (a notifier may wait at any time), and  *)
(* more than 100 messages to suppress at once.                             *)
(***************************************************************************)
EXTENDS Integers

CONSTANTS
    Notifier,     \* processes that compete for the delivery lease
    LastDay,      \* bound on the local days that pass
    Other,        \* messages of other producers: trades, digests, operators
    AllDay,       \* TRUE when the delivery time is midnight (hour = minute = 0)
    NoNotifier,   \* "no owner"
    NoNote        \* "no message claimed"

ASSUME LastDayAssumption == LastDay \in Nat \ {0}
ASSUME AllDayAssumption == AllDay \in BOOLEAN
ASSUME NoNotifierAssumption == NoNotifier \notin Notifier

Day == 1..LastDay

ASSUME OtherAssumption == Other \cap Day = {}
ASSUME NoNoteAssumption == NoNote \notin Day \cup Other

\* A message is named by its notification id, a daily one by its day.
Note == Day \cup Other

VARIABLES
    time,       \* local day, and whether its delivery time has come
    lease,      \* the "tradeagent-notifier" row of worker_locks
    outbox,     \* rows of notification_outbox
    idle,       \* rows being sent that were claimed more than two minutes ago
    old,        \* rows being sent, created or claimed more than 23 hours ago
    nf,         \* local state of each notifier
    mailbox,    \* emails delivered for each message (external)
    key,        \* idempotency keys the provider remembers (external)
    late        \* messages whose request outlives its client (external)

provider == <<mailbox, key, late>>
vars == <<time, lease, outbox, idle, old, nf, mailbox, key, late>>

-----------------------------------------------------------------------------
Unsent == {"pending", "failed"}
NotificationStatus == Unsent \cup {"sending", "sent", "needs_review", "suppressed"}
Content == {"legacy", "summary", "other"}

\* tried: attempts > 0; accepted: provider_message_id and sent_at are set.
Row == [status : NotificationStatus, content : Content, tried : BOOLEAN, accepted : BOOLEAN]
NoRow == [status |-> "absent", content |-> "none", tried |-> FALSE, accepted |-> FALSE]

Queued(content) == [status |-> "pending", content |-> content, tried |-> FALSE, accepted |-> FALSE]

Time == [day : Day, due : BOOLEAN]

\* now: the clock as last read; last: _last_enqueued_day; note, content: the
\* message claimed.
Pc == {"down", "loop", "enqueue", "inserting", "refreshing", "dispatch",
       "suppress", "claim", "claimed", "accepted", "refused"}
Local == [pc : Pc, now : Time, last : 0..LastDay,
          note : Note \cup {NoNote}, content : Content \cup {"none"}]

Midnight == [day |-> 1, due |-> FALSE]
Off == [pc |-> "down", now |-> Midnight, last |-> 0, note |-> NoNote, content |-> "none"]

At(e, pc) == nf[e].pc = pc
Today(e) == nf[e].now.day
Goto(e, pc) == nf' = [nf EXCEPT ![e].pc = pc]
ReadClock(e, pc) == nf' = [nf EXCEPT ![e].pc = pc, ![e].now = time]

\* On to dispatch_one, or back to the loop of run(): what is kept is the last
\* day dealt with.
Resume(e, pc, last) == nf' = [nf EXCEPT ![e] = [Off EXCEPT !.pc = pc, !.last = last]]
Return(e) == Resume(e, "loop", nf[e].last)

\* A row is claimed anew or leaves the status "sending": its claim has no age.
Settle(n, row) ==
    /\ outbox' = [outbox EXCEPT ![n] = row]
    /\ idle' = idle \ {n}
    /\ old' = old \ {n}

\* An older release may have left a daily message of its own format.
Legacy(status, tried) ==
    [status |-> status, content |-> "legacy", tried |-> tried, accepted |-> FALSE]

Init ==
    /\ time = [day |-> 1, due |-> AllDay]
    /\ lease = [owner |-> NoNotifier, fresh |-> FALSE]
    /\ \E first \in {NoRow, Legacy("pending", FALSE), Legacy("failed", TRUE)} :
          outbox = [n \in Note |-> IF n = 1 THEN first ELSE NoRow]
    /\ idle = {}
    /\ old = {}
    /\ nf = [e \in Notifier |-> Off]
    /\ mailbox = [n \in Note |-> 0]
    /\ key = {}
    /\ late = {}

-----------------------------------------------------------------------------
(* Time *)

\* The delivery time of the day comes, or the next day begins.
TimePasses ==
    /\ \/ ~time.due /\ time' = [time EXCEPT !.due = TRUE]
       \/ time.due /\ time.day < LastDay /\ time' = [day |-> time.day + 1, due |-> AllDay]
    /\ UNCHANGED <<lease, outbox, idle, old, nf, provider>>

\* More than 120 seconds since the lease was refreshed.
LeaseAges ==
    /\ lease.fresh
    /\ lease' = [lease EXCEPT !.fresh = FALSE]
    /\ UNCHANGED <<time, outbox, idle, old, nf, provider>>

ClaimAges(n) ==
    /\ outbox[n].status = "sending"
    /\ n \notin idle
    /\ idle' = idle \cup {n}
    /\ UNCHANGED <<time, lease, outbox, old, nf, provider>>

\* 23 hours on: another day, or late on a day that was due from midnight.
RowAges(n) ==
    /\ n \in Day \ old
    /\ outbox[n].status = "sending"
    /\ n < time.day \/ AllDay
    /\ old' = old \cup {n}
    /\ UNCHANGED <<time, lease, outbox, idle, nf, provider>>

-----------------------------------------------------------------------------
(* The lease and the life of a notifier *)

\* A notifier is started and gets the lease, which it asks for again and again
\* (_acquire_initial_lock, acquire_worker_lock).
Acquire(e) ==
    /\ At(e, "down")
    /\ lease.owner = NoNotifier \/ ~lease.fresh
    /\ lease' = [owner |-> e, fresh |-> TRUE]
    /\ Return(e)
    /\ UNCHANGED <<time, outbox, idle, old, provider>>

\* _dispatch_one begins with the only check of the lease.
BeginDispatch(e) ==
    /\ At(e, "loop")
    /\ lease.owner = e
    /\ lease' = [lease EXCEPT !.fresh = TRUE]
    /\ ReadClock(e, "enqueue")
    /\ UNCHANGED <<time, outbox, idle, old, provider>>

\* NotifierAlreadyRunningError ends the service.
LeaseLost(e) ==
    /\ At(e, "loop")
    /\ lease.owner # e
    /\ nf' = [nf EXCEPT ![e] = Off]
    /\ UNCHANGED <<time, lease, outbox, idle, old, provider>>

\* The service is stopped, or ended by any other exception, and releases the
\* lease if that is still its own.
Stop(e) ==
    /\ ~At(e, "down")
    /\ nf' = [nf EXCEPT ![e] = Off]
    /\ lease' = IF lease.owner = e THEN [owner |-> NoNotifier, fresh |-> FALSE] ELSE lease
    /\ UNCHANGED <<time, outbox, idle, old, provider>>

Crash(e) ==
    /\ ~At(e, "down")
    /\ nf' = [nf EXCEPT ![e] = Off]
    /\ UNCHANGED <<time, lease, outbox, idle, old, provider>>

-----------------------------------------------------------------------------
(* enqueue_due *)

\* needs_daily_content_refresh
NeedsRefresh(n) ==
    /\ outbox[n].status \in Unsent
    /\ ~outbox[n].tried
    /\ ~outbox[n].accepted
    /\ outbox[n].content = "legacy"

\* Before the delivery time, or on a day already dealt with.
NothingDue(e) ==
    /\ At(e, "enqueue")
    /\ ~nf[e].now.due \/ nf[e].last = Today(e)
    /\ Resume(e, "dispatch", nf[e].last)
    /\ UNCHANGED <<time, lease, outbox, idle, old, provider>>

CheckOutbox(e) ==
    LET d == Today(e) IN
    /\ At(e, "enqueue")
    /\ nf[e].now.due
    /\ nf[e].last # d
    /\ \/ outbox[d] = NoRow /\ Goto(e, "inserting")
       \/ NeedsRefresh(d) /\ Goto(e, "refreshing")
       \/ /\ outbox[d] # NoRow /\ ~NeedsRefresh(d)
          /\ Resume(e, "dispatch", d)
    /\ UNCHANGED <<time, lease, outbox, idle, old, provider>>

\* Variant: the day counts as dealt with.
ReportBusyForToday(e) ==
    /\ nf[e].pc \in {"inserting", "refreshing"}
    /\ Resume(e, "dispatch", Today(e))
    /\ UNCHANGED <<time, lease, outbox, idle, old, provider>>

\* The report is busy: deferred, the day stays open.
ReportBusy(e) ==
    /\ nf[e].pc \in {"inserting", "refreshing"}
    /\ Resume(e, "dispatch", nf[e].last)
    /\ UNCHANGED <<time, lease, outbox, idle, old, provider>>

\* enqueue_status: on conflict do nothing.
Insert(e) ==
    LET d == Today(e) IN
    /\ At(e, "inserting")
    /\ outbox' = IF outbox[d] = NoRow THEN [outbox EXCEPT ![d] = Queued("summary")] ELSE outbox
    /\ Resume(e, "dispatch", d)
    /\ UNCHANGED <<time, lease, idle, old, provider>>

\* Variant: the row is replaced on the strength of the earlier check.
RefreshUnchecked(e) ==
    LET d == Today(e) IN
    /\ At(e, "refreshing")
    /\ outbox' = [outbox EXCEPT ![d].content = "summary", ![d].status = "pending"]
    /\ Resume(e, "dispatch", d)
    /\ UNCHANGED <<time, lease, idle, old, provider>>

\* refresh_unattempted_daily looks again, with the row locked.
Refresh(e) ==
    LET d == Today(e) IN
    /\ At(e, "refreshing")
    /\ outbox' = IF NeedsRefresh(d)
                 THEN [outbox EXCEPT ![d].content = "summary", ![d].status = "pending"]
                 ELSE outbox
    /\ Resume(e, "dispatch", d)
    /\ UNCHANGED <<time, lease, idle, old, provider>>

\* Any other producer queues its message, once.
Produce(n) ==
    /\ n \in Other
    /\ outbox[n] = NoRow
    /\ outbox' = [outbox EXCEPT ![n] = Queued("other")]
    /\ UNCHANGED <<time, lease, idle, old, nf, provider>>

-----------------------------------------------------------------------------
(* dispatch_one *)

\* The clock is read once, for the policy and for the claim.
BeginSend(e) ==
    /\ At(e, "dispatch")
    /\ ReadClock(e, "suppress")
    /\ UNCHANGED <<time, lease, outbox, idle, old, provider>>

\* suppress_non_daily; before the delivery time nothing is claimed.
Suppress(e) ==
    LET unsent(n) == n # Today(e) /\ outbox[n].status \in Unsent /\ ~outbox[n].accepted IN
    /\ At(e, "suppress")
    /\ outbox' = [n \in Note |->
          IF unsent(n) THEN [outbox[n] EXCEPT !.status = "suppressed"] ELSE outbox[n]]
    /\ IF nf[e].now.due THEN Goto(e, "claim") ELSE Return(e)
    /\ UNCHANGED <<time, lease, idle, old, provider>>

\* Rows claim_next may take: unsent, or claimed for long but not for too long.
Claimable(n) ==
    \/ outbox[n].status \in Unsent
    \/ outbox[n].status = "sending" /\ n \in idle \ old

\* Only the message of the day that dispatch_one read from the clock.
Candidate(e, n) == n = Today(e) /\ Claimable(n)

\* claim_next takes such a row, or puts it up for review.
Claim(e, n) ==
    /\ At(e, "claim")
    /\ Candidate(e, n)
    /\ Settle(n, [outbox[n] EXCEPT !.status = "sending", !.tried = TRUE])
    /\ nf' = [nf EXCEPT ![e].pc = "claimed", ![e].note = n, ![e].content = outbox[n].content]
    /\ UNCHANGED <<time, lease, provider>>

NothingToClaim(e) ==
    LET d == Today(e) IN
    /\ At(e, "claim")
    /\ ~Claimable(d)
    /\ IF d \in old THEN Settle(d, [outbox[d] EXCEPT !.status = "needs_review"])
                    ELSE UNCHANGED <<outbox, idle, old>>
    /\ Return(e)
    /\ UNCHANGED <<time, lease, provider>>

\* validates_payload: the current format, and of the day.
Valid(e) == nf[e].content = "summary" /\ nf[e].note = Today(e)

\* It is not: mark_review_required, by notification id only.
ReviewContent(e) ==
    LET n == nf[e].note IN
    /\ At(e, "claimed")
    /\ ~Valid(e)
    /\ Settle(n, [outbox[n] EXCEPT !.status = "needs_review"])
    /\ Return(e)
    /\ UNCHANGED <<time, lease, provider>>

\* Variant: every attempt has an idempotency key of its own.
KeyUnknownEachTime(n) == TRUE

\* The Idempotency-Key is the notification id: the provider has not seen it.
KeyUnknown(n) == n \notin key

\* The provider takes a request: it delivers the first one with a key and
\* answers the others as it did the first (external).
Deliver(n) ==
    /\ mailbox' = IF KeyUnknown(n) THEN [mailbox EXCEPT ![n] = @ + 1] ELSE mailbox
    /\ key' = key \cup {n}

PostAccepted(e) ==
    /\ At(e, "claimed") /\ Valid(e)
    /\ Deliver(nf[e].note)
    /\ Goto(e, "accepted")
    /\ UNCHANGED <<time, lease, outbox, idle, old, late>>

\* Variant: a request without an answer counts as accepted.
PostUnknownAccepted(e) ==
    /\ At(e, "claimed") /\ Valid(e)
    /\ Goto(e, "accepted")
    /\ UNCHANGED <<time, lease, outbox, idle, old, provider>>

\* No answer, a 5xx or one without an id: the row stays claimed.
PostUnknown(e) ==
    LET n == nf[e].note IN
    /\ At(e, "claimed") /\ Valid(e)
    /\ \/ Deliver(n) /\ UNCHANGED late
       \/ late' = late \cup {n} /\ UNCHANGED <<mailbox, key>>
       \/ UNCHANGED <<mailbox, key, late>>
    /\ Return(e)
    /\ UNCHANGED <<time, lease, outbox, idle, old>>

\* A 4xx: this request is not taken.
PostRefused(e) ==
    /\ At(e, "claimed") /\ Valid(e)
    /\ Goto(e, "refused")
    /\ UNCHANGED <<time, lease, outbox, idle, old, provider>>

\* mark_sent and mark_failed, by notification id only.
MarkSent(e) ==
    LET n == nf[e].note IN
    /\ At(e, "accepted")
    /\ Settle(n, [outbox[n] EXCEPT !.status = "sent", !.accepted = TRUE])
    /\ Return(e)
    /\ UNCHANGED <<time, lease, provider>>

MarkFailed(e) ==
    LET n == nf[e].note IN
    /\ At(e, "refused")
    /\ Settle(n, [outbox[n] EXCEPT !.status = "failed"])
    /\ Return(e)
    /\ UNCHANGED <<time, lease, provider>>

-----------------------------------------------------------------------------
(* The provider (external) *)

LateDelivery(n) ==
    /\ n \in late
    /\ Deliver(n)
    /\ late' = late \ {n}
    /\ UNCHANGED <<time, lease, outbox, idle, old, nf>>

\* Keys are kept for 24 hours, longer than any request is under way and longer
\* than a dispatch_one can be delayed.
ForgetKey(n) ==
    /\ n \in key \ late
    /\ n \in Day => n < time.day /\ time.due
    /\ \A e \in Notifier : nf[e].pc \in {"suppress", "claim", "claimed"} => n \notin {Today(e), nf[e].note}
    /\ key' = key \ {n}
    /\ UNCHANGED <<time, lease, outbox, idle, old, nf, mailbox, late>>

-----------------------------------------------------------------------------
NotifierStep(e) ==
    \/ Acquire(e) \/ BeginDispatch(e) \/ LeaseLost(e) \/ Stop(e) \/ Crash(e)
    \/ NothingDue(e) \/ CheckOutbox(e) \/ ReportBusy(e) \/ Insert(e) \/ Refresh(e)
    \/ BeginSend(e) \/ Suppress(e) \/ (\E n \in Note : Claim(e, n)) \/ NothingToClaim(e) \/ ReviewContent(e)
    \/ PostAccepted(e) \/ PostUnknown(e) \/ PostRefused(e) \/ MarkSent(e) \/ MarkFailed(e)

NoteStep(n) ==
    \/ ClaimAges(n) \/ RowAges(n) \/ Produce(n) \/ LateDelivery(n) \/ ForgetKey(n)

Next ==
    \/ TimePasses \/ LeaseAges
    \/ \E e \in Notifier : NotifierStep(e)
    \/ \E n \in Note : NoteStep(n)

Spec == Init /\ [][Next]_vars

-----------------------------------------------------------------------------
(* Safety *)

TypeOK ==
    /\ time \in Time
    /\ lease \in [owner : Notifier \cup {NoNotifier}, fresh : BOOLEAN]
    /\ outbox \in [Note -> Row \cup {NoRow}]
    /\ idle \subseteq {n \in Note : outbox[n].status = "sending"}
    /\ old \subseteq {d \in Day : outbox[d].status = "sending"}
    /\ nf \in [Notifier -> Local]
    /\ mailbox \in [Note -> Nat]
    /\ key \subseteq Note
    /\ late \subseteq Note

\* The rows say no more than what happened: a message recorded as sent was
\* delivered, one that counts no attempt was not and never will be without one,
\* and a message of another producer is never attempted.
RowsTellTruth ==
    \A n \in Note :
        /\ outbox[n].status = "sent" => mailbox[n] > 0
        /\ ~outbox[n].tried => mailbox[n] = 0 /\ n \notin late
        /\ n \in Other => ~outbox[n].tried

\* One email per reporting day, never before its time, whatever notifiers,
\* retries and lost answers do; and no other email at all.
Promise == INSTANCE DailyEmail WITH
    LastDay <- LastDay, Other <- Other, mailbox <- mailbox, time <- time
OneEmailPerDay == Promise!Spec

\* "Already-attempted or accepted daily messages are not rewritten", so that
\* every request with one idempotency key has the same content.
AttemptedStandsAsWritten ==
    [][\A n \in Note : outbox[n].tried => outbox'[n].content = outbox[n].content]_vars

\* "suppress only unsent work": a suppressed message was not delivered.
SuppressedWasUnsent == \A n \in Note : outbox[n].status = "suppressed" => mailbox[n] = 0

-----------------------------------------------------------------------------
(* The inductive invariant behind the safety properties *)

\* The delivery time of day d has come, on that day or since.
Reached(d) == d < time.day \/ (d = time.day /\ time.due)

Dispatching == {"suppress", "claim", "claimed"}
Holding == {"claimed", "accepted", "refused"}

\* A notifier acts on a clock that may be late but never early, on a day whose
\* delivery time has come, and holds an attempted message of that day.
NotifierOK(e) ==
    /\ Today(e) <= time.day
    /\ nf[e].now.due => Reached(Today(e))
    /\ nf[e].pc \in {"inserting", "refreshing", "claim"} \cup Holding => nf[e].now.due
    /\ nf[e].pc \in Holding => nf[e].note = Today(e) /\ outbox[nf[e].note].tried
    /\ At(e, "accepted") => mailbox[nf[e].note] > 0

NotifierInv == \A e \in Notifier : NotifierOK(e)

\* A message whose key the provider forgot is out of every notifier's reach.
OutOfReach(n) ==
    /\ n < time.day
    /\ n \notin late
    /\ \A e \in Notifier : nf[e].pc \in Dispatching => Today(e) # n

MailInv ==
    \A n \in Note :
        /\ mailbox[n] <= 1
        /\ mailbox[n] > 0 \/ n \in late => n \in Day /\ Reached(n)
        /\ n \in key => mailbox[n] > 0
        /\ mailbox[n] > 0 => n \in key \/ OutOfReach(n)

OutboxInv ==
    /\ TypeOK
    /\ RowsTellTruth
    /\ NotifierInv
    /\ MailInv

-----------------------------------------------------------------------------
(* Liveness *)

\* The service is restarted, its loop goes on, the report is not busy for
\* ever and the provider takes a request now and then.
Progress(e) ==
    \/ BeginDispatch(e) \/ LeaseLost(e) \/ NothingDue(e) \/ CheckOutbox(e)
    \/ ReportBusy(e) \/ Insert(e) \/ Refresh(e) \/ BeginSend(e) \/ Suppress(e)
    \/ (\E n \in Note : Claim(e, n)) \/ NothingToClaim(e) \/ ReviewContent(e) \/ PostAccepted(e) \/ PostUnknown(e)
    \/ PostRefused(e) \/ MarkSent(e) \/ MarkFailed(e)

Fairness ==
    /\ WF_vars(LeaseAges)
    /\ \A n \in Note : WF_vars(ClaimAges(n))
    /\ \A e \in Notifier :
          /\ SF_vars(Acquire(e)) /\ WF_vars(Progress(e))
          /\ SF_vars(Insert(e)) /\ SF_vars(PostAccepted(e))

\* Crashes and stops end, some time.
Settles == <>[][\A e \in Notifier : ~Stop(e) /\ ~Crash(e)]_vars

FairSpec == Spec /\ Fairness /\ Settles

\* The email of a day is delivered in the end, unless the day ends before or
\* the row needs a review.
DayIsServed ==
    \A d \in Day :
        []<>(time = [day |-> d, due |-> TRUE]
                => mailbox[d] > 0 \/ outbox[d].status = "needs_review")
=============================================================================
