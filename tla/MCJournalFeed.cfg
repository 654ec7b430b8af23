\* Two transactions over two entities, four ids, windows of one entry and of two.
CONSTANTS
  Writer = {w1, w2}
  Entity = {t1, t2}
  Actor = {owner, scheduled}
  Watched = {owner}
  Limit = 2
  Nobody = Nobody
  MaxIds = 4
SPECIFICATION Spec
SYMMETRY Interchangeable
INVARIANTS QuietFeedIsWhole
PROPERTIES TruncationIsTold HistoryShowsNow
CHECK_DEADLOCK FALSE
