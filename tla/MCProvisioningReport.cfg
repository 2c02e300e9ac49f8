CONSTANTS
  Blocks = 1
  Records = 1
  MaxVersion = 1
  Configs <- CommandLine
SPECIFICATION Spec
INVARIANT ReportedState
