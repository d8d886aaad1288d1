SPECIFICATION Spec
CONSTANTS
  Normal <- MCNormal
  Catalogue <- MCCatalogue
  Migrations <- MCMigrations
  Values <- MCValues
INVARIANTS
  TypeOK
  AcceptedMessagesArrive
  AcceptedKeepsCids
  NothingIsMisread
CHECK_DEADLOCK FALSE
