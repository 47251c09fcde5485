CONSTANTS
  CR = "cr"
  LF = "lf"
  NUL = "nul"
  Text <- MCText
  HeaderText <- MCHeaderText
  FieldName <- MCFieldName
  Name <- MCName
  Number <- MCNumber
  BufInit = 4
  ChunkMax = 3
  Streams <- BodyPairs
SPECIFICATION Spec
INVARIANT BodiesDelivered
CHECK_DEADLOCK FALSE
