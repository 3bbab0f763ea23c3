SPECIFICATION TagSpec
CONSTANTS
  MaxEntries = 2
  Live = {"a", "b"}
  Tagged = {"a"}
INVARIANT
  TagStaysOnBranch
