SPECIFICATION FairSpec
CONSTANTS
  MaxEntries = 3
  Stalled = {"b"}
INVARIANTS
  Interleaves
  EndsAfterBoth
PROPERTIES
  StallHarmless
  OutputEnds
