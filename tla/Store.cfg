SPECIFICATION FairSpec
CONSTANTS
  Sinks = {"x", "y"}
  Failing = {"y"}
  BadArgs = {"y"}
  Targets <- MCTargets
  Inputs <- MCInputs
  Scripts <- MCScripts
  Column <- MCColumn
INVARIANTS
  LossExplained
  EverythingClosed
  NoUseAfterClose
PROPERTIES
  SourceReleased
