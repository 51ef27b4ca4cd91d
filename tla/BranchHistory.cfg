\* Two branches that share a pool, with every interleaving of their edits.
SPECIFICATION HSpec
CONSTANTS
  Branches = {b1, b2}
  Content = {x, y}
  Validators <- MCValidators
  IdSpace = 2
  MaxLines = 3
  MaxHistory = 2
SYMMETRY MCSymmetry
INVARIANTS HTypeOK NoIndexPanic UndoChain RedoChain NoDanglingId
PROPERTY ImplementsUndoHistory
