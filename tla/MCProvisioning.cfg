CONSTANTS
  Blocks = 2
  Records = 2
  MaxVersion = 3
  Configs <- Config
SPECIFICATION CooperativeSpec
INVARIANTS
  TypeOK
  IrreversibleIsComplete
  SuccessIsProgrammed
PROPERTY RetrySucceeds
