\* One session, without and with an encoding to force.
SPECIFICATION LoopSpec
CONSTANTS
  CR = "CR"
  LF = "LF"
  Space = " "
  Tab = "TAB"
  Bad = "bad"
  Byte <- MCByte
  Char <- MCChar
  Ascii <- MCAscii
  Encoder <- MCEncoder
  Decoder <- MCDecoder
  Wide = {}
  Marks <- MCMarks
  Encodings = {"Latin1"}
  NoEncoding = NoEncoding
  Typed <- MCTyped
  Digit <- MCDigit
  UsizeMax = 100
  Paths <- MCPaths
  NoPath = NoPath
  FirstFiles <- MCFirstFiles
  Scripts <- MCScripts
  MaxLines = 5
  MaxEdits = 3
  MaxSessions = 1
PROPERTIES ActsAsTyped EditsOnlyAsTyped OnlyNamedFilesChange SessionEnds
\* The session may have ended.
CHECK_DEADLOCK FALSE
