\* Two threads, two locking calls each.
SPECIFICATION CSpec
CONSTANTS
  x = x
  Root = b1
  Branches = {b1, b2}
  Content = {x, y}
  Validators <- MCValidators
  IdSpace = 2
  MaxLines = 2
  MaxHistory = 2
  MaxCalls = 2
  NoOne = NoOne
  Separator = sep
INVARIANT LockedOnlyToIntern
\* The clients may stop calling.
CHECK_DEADLOCK FALSE
