\* Two sessions, in encodings with all of ASCII and without, in UTF-16, and in
\* none.
SPECIFICATION MSpec
CONSTANTS
  p = p
  CR = "CR"
  LF = "LF"
  Bad = "bad"
  Byte <- MCByte
  Char <- MCChar
  Ascii <- MCAscii
  Encoder <- MCEncoder
  Decoder <- MCDecoder
  Wide = {"UTF-16LE"}
  Marks <- MCMarks
  Encodings <- MCEncodings
  NoEncoding = NoEncoding
  Typed <- MCTyped
  Paths = {p}
  NoPath = NoPath
  FirstFiles <- MCFirstFiles
  MaxLines = 2
  MaxEdits = 2
  MaxSessions = 2
INVARIANTS MTypeOK NeverMixed SavedUnlessDiskFails AsciiRepresentable
INVARIANTS ReloadShowsSaved UneditedSaveKeepsLines
\* The last session may have ended.
CHECK_DEADLOCK FALSE
