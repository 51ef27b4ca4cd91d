\* Small buffers, written and loaded again, and all short files.
SPECIFICATION RoundTripSpec
CONSTANTS
  CR = "CR"
  LF = "LF"
  Lead = "lead"
  Cont = "cont"
  Byte <- MCByte
  Texts = {}
  Buffers <- MCBuffers
  Files <- MCFiles
  NoBuffer = NoBuffer
INVARIANTS SplitTypeOK SplitRight SlicesAtBoundaries LinesAreBare RoundTripLaw TextComesBack
PROPERTY Returns
\* The function returns.
CHECK_DEADLOCK FALSE
