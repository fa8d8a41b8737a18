\* Cycles whose answers, rechecks and syncs go wrong.  Two coins make an
\* order, so that an odd coin is dust.
SPECIFICATION Spec
CONSTANTS
  MaxCycles = 1
  EntryQty = 2
  MinOrder = 2
  NoOne = NoOne
  Scenes <- TroubledScenes
INVARIANTS
  TypeOK
  OwnedIsBacked
