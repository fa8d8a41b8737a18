------------------------------ MODULE DailyEmail ------------------------------
(***************************************************************************)
(* What the notifier promises (docs/DAILY_EMAIL.md): one automatic email   *)
(* per reporting day, never before that day's delivery time, and no other  *)
(* email at all.  The recipient's mailbox and the local clock are all the  *)
(* state there is.                                                         *)
(***************************************************************************)
EXTENDS Naturals

CONSTANTS
    LastDay,  \* bound on the local days that pass
    Other     \* messages of any other kind

Day == 1..LastDay

VARIABLES
    mailbox,  \* how often each message was delivered
    time      \* local day, and whether its delivery time has come

vars == <<mailbox, time>>

\* The delivery time of day d has come, on that day or since.
Reached(d, t) == t.day > d \/ (t.day = d /\ t.due)

Init ==
    /\ mailbox = [n \in Day \cup Other |-> 0]
    /\ time \in [day : {1}, due : BOOLEAN]

Deliver(d) ==
    /\ mailbox[d] = 0
    /\ Reached(d, time)
    /\ mailbox' = [mailbox EXCEPT ![d] = 1]
    /\ UNCHANGED time

Passes ==
    /\ time' \in [day : Day, due : BOOLEAN]
    /\ \A d \in Day : Reached(d, time) => Reached(d, time')
    /\ UNCHANGED mailbox

Next == Passes \/ \E d \in Day : Deliver(d)

Spec == Init /\ [][Next]_vars
=============================================================================
