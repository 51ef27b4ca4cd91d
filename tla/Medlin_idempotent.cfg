\* Two sessions, the second of which loads what the first saved.
SPECIFICATION MSpec
CONSTANTS
  p = p
  CR = "CR"
  LF = "LF"
  Bad = "bad"
  Byte <- MCByte
  Char <- MCChar
  Ascii <- MCAscii
  Encoder <- MCEncoder
  Decoder <- MCDecoder
  Wide = {"UTF-16LE"}
  Marks <- MCMarks
  Encodings = {"UTF-8"}
  NoEncoding = NoEncoding
  Typed <- MCTypedPlain
  Paths = {p}
  NoPath = NoPath
  FirstFiles <- MCNoFiles
  MaxLines = 2
  MaxEdits = 2
  MaxSessions = 2
INVARIANT ForcedSaveIdempotent
\* The last session may have ended.
CHECK_DEADLOCK FALSE
