SPECIFICATION FairSpec
CONSTANTS
  Lines = 3
  TooLong = {}
  Kinds = {"file"}
  Sinks = {"a", "b"}
  Aware = {}
  Failing = {"a"}
  BadArgs = {}
  Scripts <- MCScripts
PROPERTIES
  StopReturns
  ErrorReleasesSource
