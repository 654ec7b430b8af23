\* Two edges ever, of every type, between two Things: an edge and one it may clash or
\* close a cycle with, two requests at a time, so that every wait happens.  No symmetry:
\* whether every request ends is checked too.
CONSTANTS
  Worker = {w1, w2}
  Thing = {t1, t2}
  EdgeId = {e1, e2}
  Type = {"ChildOf", "EvidenceFor", "References"}
  NoEdge = NoEdge
  None = None
SPECIFICATION FairSpec
INVARIANTS NoChildOfCycle EvidenceIsSingle
PROPERTIES ChangesAreJournalled RequestsEnd
CHECK_DEADLOCK FALSE
