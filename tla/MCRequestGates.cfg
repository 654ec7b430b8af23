\* Two requests in flight, from one address, with a session and an access token of one
\* owner: three keys for two buckets.  A minute is three ticks, and credentials expire after
\* the first.
CONSTANTS
  Req = {r1, r2}
  Address = {a1}
  Cookie = {c1}
  Bearer = {b1}
  Account = {owner}
  Subject <- OneOwner
  Ask <- Asks
  Limit <- SmallLimits
  Minute = 3
  MaxBuckets = 2
  Expires = 1
  None = None
  MaxClock = 2
SPECIFICATION Spec
SYMMETRY Interchangeable
INVARIANTS TypeOK BudgetHolds RetryAfterHolds
PROPERTIES LeastRecentGoes EndedStaysOut
CHECK_DEADLOCK FALSE
