\* Two threads, three locking calls each.
SPECIFICATION CSpec
CONSTANTS
  x = x
  Root = b1
  Branches = {b1, b2}
  Content = {x, y}
  Validators <- MCValidators
  IdSpace = 2
  MaxLines = 2
  MaxHistory = 1
  MaxCalls = 3
  NoOne = NoOne
  Separator = sep
INVARIANTS CTypeOK InternedOnce WritesTheText
PROPERTIES EditShowsContent PoisonFreezesPool ImplementsUndoHistory CallsReturn
\* The clients may stop calling.
CHECK_DEADLOCK FALSE
