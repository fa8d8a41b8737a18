\* Two workers that hand the lease over, two events of which one may be
\* entered, and one fault.
SPECIFICATION Spec
CONSTANTS
  a = a
  b = b
  Worker <- MCWorker
  Events = 2
  MaxExits = 2
  Qty = 1
  EntryLimit = 1
  MaxFaults = 1
  NoWorker = NoWorker
SYMMETRY WorkerSymmetry
INVARIANTS
  TypeOK
  ReleasedStaysUnsent
  EntriesWithinLimit
PROPERTIES
  FillsStand
