SPECIFICATION FairSpec
CONSTANTS
  None = None
  Symbols <- TwoSymbols
  BookCapacity = 3
  BookBatchSize = 2
  MaxVersion = 2
  MaxMarketFaults = 1
  MaxEvents = 4
  ShadowCapacity = 2
  ShadowBatchSize = 2
  Attempts = 2
  MaxLives = 2
  MaxShadowFaults = 2
INVARIANTS
  TypesOK
  NoOversell
  BooksAreWhole
  DrainedAgrees
  EventsAccounted
  JournalIsSound
  CompletedIsWhole
  DatasetInv
  RowsAreMadeOnce
  LabelsAreContinuous
PROPERTIES
  NoEntryIntoUnknown
  ExitsComplete
  SnapshotsRecover
  TerminalBeatStands
  EventsSettle
  DeathIsFinal
  RunEnds
  DatasetSettles
CHECK_DEADLOCK FALSE
