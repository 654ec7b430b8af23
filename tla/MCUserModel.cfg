\* Two requests at a time, two preferences, two pieces of evidence each.
CONSTANTS
  Worker = {w1, w2}
  Preference = {p1, p2}
  Evidence = {e1, e2}
  None = None
SPECIFICATION Spec
SYMMETRY Interchangeable
INVARIANTS AnchorIsOne ShownIsWhole AnswersStood
CHECK_DEADLOCK FALSE
