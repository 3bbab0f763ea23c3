SPECIFICATION FairSpec
CONSTANTS
  Sources <- MCSources
  Scripts <- MCScripts
  Compiles = {"^S"}
  Matches <- MCMatches
INVARIANTS
  LinesInOrder
  MessagesAsPromised
  CutKeepsWords
  FailureReported
  IndexExact
  PanicOnlyInRace
PROPERTIES
  UpstreamReleased
