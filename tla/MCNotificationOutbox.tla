------------------------ MODULE MCNotificationOutbox ------------------------
(* Small instances of NotificationOutbox: two local days, a message of     *)
(* another producer, one notifier or two.                                  *)
EXTENDS NotificationOutbox, TLC

CONSTANTS n1, n2, x

MCNotifier == {n1, n2}
MCOneNotifier == {n1}
MCOther == {x}
MCNone == {}

NotifierSymmetry == Permutations(MCNotifier)
=============================================================================
