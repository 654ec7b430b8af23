\* Two requests remove one edge at once.
CONSTANTS
  Worker = {w1, w2}
  Thing = {t1, t2}
  EdgeId = {e1}
  Type = {"References"}
  NoEdge = NoEdge
  None = None
SPECIFICATION Spec
PROPERTIES EntriesAreChanges
CHECK_DEADLOCK FALSE
