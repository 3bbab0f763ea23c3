SPECIFICATION Spec
CONSTANTS
  Ids = {a, b, c, d}
  ArgIds = {a, b, c, d}
  a = a
  b = b
  c = c
  d = d
  Class = {"known", "unknown"}
  Literals = {"good"}
  MaxStatements = 4
SYMMETRY IdSymmetry
INVARIANTS
  ParserChecksNames
  VetPredictsStatic
  SingleReader
  LateReadStable
  NothingLost
