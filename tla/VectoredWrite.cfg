SPECIFICATION FairSpec
CONSTANTS
  Byte <- Bytes
  Headers <- HeaderChoices
  Packets <- PacketChoices
  Trailers <- TrailerChoices
  MaxCalls = 2
INVARIANTS
  TypeOK
  StreamIsFramed
  OkMeansWholeFrame
  CursorInBounds
PROPERTIES
  CallEnds
  ImplementsFrameStream
CHECK_DEADLOCK FALSE
