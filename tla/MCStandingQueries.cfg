\* Three Things, three edges at once over two types: a chain, a fork, a triangle that
\* has a short way and a long one, and lists of two of which a limit of one cuts one.
CONSTANTS
  Thing = {t1, t2, t3}
  Type = {"ChildOf", "RelatedTo"}
  NeedsInput = needsInput
  Excluded = {preference}
  MaxDepth = 2
  MaxLimit = 1
  NoAsk = NoAsk
  MaxEdges = 3
  MaxTagged = 2
SPECIFICATION StandingSpec
SYMMETRY Interchangeable
INVARIANTS NothingDropsOut RelatedIsNeighbourhood
PROPERTIES SettledAskIsWhole
CHECK_DEADLOCK FALSE
