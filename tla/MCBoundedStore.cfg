\* Two requests at a time over a store of each kind, with a cap of two, four keys and
\* a clock that rows expire by.
CONSTANTS
  Request = {w1, w2}
  Store = {evicting, refusing}
  Evicting = {evicting}
  Key = {k1, k2, k3, k4}
  MaxEntries = 2
  Ttl = 2
  MaxTime = 1
  NoKey = NoKey
SPECIFICATION StoreSpec
SYMMETRY Interchangeable
INVARIANTS OverflowIsBounded
PROPERTIES StaysUntilDue
CHECK_DEADLOCK FALSE
