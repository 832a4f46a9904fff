\* Fewer slots than commands in the first batch.
CONSTANTS
  Cmd = {"llc1", "copy", "llc2", "llc3", "ld"}
  Internal = {"copy"}
  Slots = 3
  commandList <- MCCommandList
SPECIFICATION FairSpec
INVARIANTS TypeOK SlotsAccounted BatchesInOrder ResultIsExact DeletionIsExclusive AtMostOneLate
PROPERTIES Termination
CHECK_DEADLOCK FALSE
