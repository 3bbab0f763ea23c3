SPECIFICATION FairSpec
CONSTANTS
  Lines = 2
  TooLong = {}
  Kinds = {"file"}
  Sinks = {"a", "b"}
  Aware = {}
  Failing = {}
  BadArgs = {}
  Scripts <- MCSyncScripts
PROPERTY ExecuteEnds
CHECK_DEADLOCK FALSE
