\* Two notifiers that hand the lease over, two days.
SPECIFICATION Spec
CONSTANTS
  n1 = n1
  n2 = n2
  x = x
  NoNotifier = NoNotifier
  NoNote = NoNote
  Notifier <- MCNotifier
  Other <- MCNone
  LastDay = 2
  AllDay = FALSE
SYMMETRY NotifierSymmetry
INVARIANTS
  OutboxInv
PROPERTIES
  OneEmailPerDay
  AttemptedStandsAsWritten
