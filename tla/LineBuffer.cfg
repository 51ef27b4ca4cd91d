\* Three contents, one of them ASCII; one fork.
SPECIFICATION LSpec
CONSTANTS
  x = x
  z = z
  w = w
  Branches = {root, fork}
  Root = root
  Content = {x, z, w}
  NonAscii <- MCNonAscii
  Rejects <- MCRejects
  Sources <- MCSources
  NoError = NoError
  Validators <- MCValidators
  IdSpace = 3
  MaxLines = 2
  MaxHistory = 2
INVARIANTS RootAccepted UndoStopsAtLoad FirstErrorReported
\* A rejected load is the end.
CHECK_DEADLOCK FALSE
