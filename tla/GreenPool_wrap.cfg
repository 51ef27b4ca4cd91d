\* One content more than there are ids, as with 2^32 + 1 distinct lines.
SPECIFICATION PoolSpec
CONSTANTS
  Content = {a, b, c, d, e}
  IdSpace = 4
INVARIANT DistinctIds
