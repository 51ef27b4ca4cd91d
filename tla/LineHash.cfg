\* As many ids as contents: the last id is the largest one.
SPECIFICATION HashSpec
CONSTANTS
  Content = {a, b, c}
  IdSpace = 3
  Readers = {r1, r2}
  NoOne = NoOne
  None = None
INVARIANTS HashTypeOK InternedOnce IdsResolve ComputedOnce DigestsRight
PROPERTY AppendOnly
