CONSTANTS
  BSIZE = 2
  NDIRECT = 1
  FSSIZE = 9
  NMETA = 2
  MaxChunk = 3
  Writers = {1, 2}
  Lengths = {1, 4}
  MaxIo = 4
  Opened <- Opens
  Images <- OneFile
  Units = 10
  MinCore = 3
  Requests = {2, 3, 4}
  MaxMallocs = 7
  Texts <- SomeTexts
  Docs <- SomeDocs
  NumTokens = 9
  BufferSize = 32
  ParsedLines <- SomeLines
  MAXARGS = 3
  NPid = 6
  NFd = 5
  TypedLines <- Typed
  MaxLines = 2
SPECIFICATION Spec
CHECK_DEADLOCK FALSE
INVARIANTS
  BlocksExact
  HeapSound
  TextParsed
  LineParsed
  LineRunsClean
PROPERTIES
  FilesAreBytes
