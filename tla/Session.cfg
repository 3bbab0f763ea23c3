SPECIFICATION FairSpec
CONSTANTS
  Lines = 3
  TooLong = {3}
  Kinds = {"file", "in", "tail"}
  Sinks = {"file", "std"}
  Aware = {"std"}
  Failing = {"file", "std"}
  BadArgs = {"file"}
  Scripts <- MCScripts
INVARIANTS
  OutputIsPrefix
  StoppingAfterSinks
PROPERTIES
  StopReturns
  SourceReleased
