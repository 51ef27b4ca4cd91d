\* An encoding that lacks a character of ASCII.
SPECIFICATION MSpec
CONSTANTS
  p = p
  CR = "CR"
  LF = "LF"
  Bad = "bad"
  Byte <- MCByte
  Char <- MCChar
  Ascii <- MCAscii
  Encoder <- MCEncoder
  Decoder <- MCDecoder
  Wide = {"UTF-16LE"}
  Marks <- MCMarks
  Encodings = {"ISO-2022-JP"}
  NoEncoding = NoEncoding
  Typed <- MCTypedAscii
  Paths = {p}
  NoPath = NoPath
  FirstFiles <- MCNoFiles
  MaxLines = 2
  MaxEdits = 2
  MaxSessions = 2
INVARIANT AlwaysRepresentable
\* The last session may have ended.
CHECK_DEADLOCK FALSE
