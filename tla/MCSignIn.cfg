\* Two sign-ins, of one connector or of the web view, two requests at a time, two
\* browsers, and a clock that registrations and sessions expire by.
CONSTANTS
  Worker = {w1, w2}
  Browser = {b1, b2}
  Client = {c1}
  State = {s1, s2}
  GraceTtl = 1
  FamilyTtl = 2
  SessionTtl = 2
  MaxTime = 2
  Web = Web
  None = None
SPECIFICATION Spec
SYMMETRY Interchangeable
INVARIANTS ConsentInThisBrowser OneAnswerPerState RegistrationServes
PROPERTIES LoggedOutStaysOut
CHECK_DEADLOCK FALSE
