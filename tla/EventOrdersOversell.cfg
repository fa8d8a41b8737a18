\* One event, two workers, one lapse of the lease while an exit is open.
SPECIFICATION Spec
CONSTANTS
  a = a
  b = b
  Worker <- MCWorker
  Events = 1
  MaxExits = 2
  Qty = 1
  EntryLimit = 1
  MaxFaults = 1
  NoWorker = NoWorker
SYMMETRY WorkerSymmetry
INVARIANTS
  NoOversell
