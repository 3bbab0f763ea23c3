SPECIFICATION FairSpec
CONSTANTS
  MaxEntries = 5
  Live = {"a"}
INVARIANTS
  Partition
PROPERTIES
  LiveReadersEnd
