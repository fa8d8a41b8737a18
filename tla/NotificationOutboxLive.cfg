\* One notifier and a foreign message; delivery time at midnight, so that a row
\* may get old on its own day.
SPECIFICATION FairSpec
CONSTANTS
  n1 = n1
  n2 = n2
  x = x
  NoNotifier = NoNotifier
  NoNote = NoNote
  Notifier <- MCOneNotifier
  Other <- MCOther
  LastDay = 2
  AllDay = TRUE
PROPERTIES
  DayIsServed
