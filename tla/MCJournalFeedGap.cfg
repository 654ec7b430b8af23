\* An id committed after the reader went past it.
CONSTANTS
  Writer = {w1, w2}
  Entity = {t1, t2}
  Actor = {owner, scheduled}
  Watched = {owner}
  Limit = 2
  Nobody = Nobody
  MaxIds = 3
SPECIFICATION Spec
SYMMETRY Interchangeable
INVARIANTS FeedIsWhole
CHECK_DEADLOCK FALSE
