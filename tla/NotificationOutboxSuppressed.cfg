\* One notifier, a lost answer, a refused retry and the end of the day.
SPECIFICATION Spec
CONSTANTS
  n1 = n1
  n2 = n2
  x = x
  NoNotifier = NoNotifier
  NoNote = NoNote
  Notifier <- MCOneNotifier
  Other <- MCNone
  LastDay = 2
  AllDay = FALSE
INVARIANTS
  SuppressedWasUnsent
