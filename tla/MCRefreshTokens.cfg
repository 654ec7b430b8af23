\* Three requests at once over two sign-ins: two that present one token and one that
\* redeems a code or rotates another token; a store that two rows fill.
CONSTANTS
  Worker = {w1, w2, w3}
  Code = {c1, c2}
  Family = {f1, f2}
  Token = {t1, t2, t3, t4}
  TokenCap = 2
  NoRow = NoRow
  None = None
SPECIFICATION Spec
SYMMETRY Interchangeable
INVARIANTS ConsumedHasSuccessor CodesRedeemOnce NoCircle
PROPERTIES ReplayKillsSuccessor ImplementsChain
CHECK_DEADLOCK FALSE
