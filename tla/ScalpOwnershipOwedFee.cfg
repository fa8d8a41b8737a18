\* A base fee of the owner is not posted yet when the first cycle begins.
SPECIFICATION Spec
CONSTANTS
  MaxCycles = 1
  EntryQty = 2
  MinOrder = 1
  NoOne = NoOne
  Scenes <- OwedFeeScene
INVARIANTS
  SellsOnlyOwn
