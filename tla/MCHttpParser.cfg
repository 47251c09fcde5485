CONSTANTS
  CR = "cr"
  LF = "lf"
  NUL = "nul"
  Text <- MCText
  HeaderText <- MCHeaderText
  FieldName <- MCFieldName
  Name <- MCName
  Number <- MCNumber
  BufInit = 3
  ChunkMax = 3
  Streams <- AllStreams
SPECIFICATION FairSpec
INVARIANTS TypeOK IndicesInBuffer WindowIsStreamTail ChunkingInvisible
PROPERTY ParseReturns
CHECK_DEADLOCK FALSE
