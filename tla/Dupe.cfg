SPECIFICATION FairSpec
CONSTANTS
  MaxEntries = 4
  Live = {"a", "b"}
INVARIANTS
  TypeOK
  NoSendOnClosed
  CompleteAtEnd
  BoundedLag
  BoundedReordering
PROPERTIES
  BothEnd
  ImplementsBroadcast
