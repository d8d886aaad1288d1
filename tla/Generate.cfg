SPECIFICATION Spec
CONSTANTS
  Normal <- MCNormal
  Sources <- MCSources
  Edits <- MCEdits
  Commands <- MCCommands
  MaxRuns = 2
  MaxFaults = 1
INVARIANTS
  TypeOK
  SuccessIsWhole
  PublicKeepsSchema
  CommentsAreCopied
PROPERTY
  ParserAdvances
CHECK_DEADLOCK FALSE
