SPECIFICATION FairSpec
CONSTANTS
  Lines = 2
  TooLong = {}
  Kinds = {"file"}
  Sinks = {"a", "b"}
  Aware = {"a"}
  Failing = {}
  BadArgs = {}
  Scripts <- MCScripts
PROPERTY StopReturns
CHECK_DEADLOCK FALSE
