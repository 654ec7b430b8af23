\* Two requests at a time over one Thing until two ids were drawn and those in flight
\* have ended: every pair of writes that can race for a row does.  No symmetry: whether
\* every request ends is checked too.
CONSTANTS
  heartbeat = heartbeat
  preference = preference
  rejected = rejected
  new = new
  Worker = {w1, w2}
  Thing = {t1}
  Tag <- MCTag
  TagChoice <- MCTagChoice
  ScheduledTask = heartbeat
  Preference = preference
  Rejected = rejected
  New = new
  InternalTag <- MCInternalTag
  NoRow = NoRow
  None = None
  MaxIds = 2
SPECIFICATION FairSpec
INVARIANTS TypeOK HistoryInIdOrder
PROPERTIES HeartbeatsAreKept GuardedWritesDropNothing RejectionExtends WritesAreJournalled RequestsEnd
CHECK_DEADLOCK FALSE
