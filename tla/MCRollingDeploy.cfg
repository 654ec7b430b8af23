\* Three servers: one of the first image that goes on writing, and two that boot at once
\* through the four rewriting revisions, the table of the head and a later revision that
\* destroys something; a Thing, a refresh token, a client's secret and a pair of evidence
\* that is written twice.
CONSTANTS
  Server = {s1, s2, s3}
  Image = {0, 3, 6}
  Capture = {c1}
  Token = {k1}
  Refresh = {k1}
  Secret = {p1}
  MaxCopies = 2
  Unmarked = {6}
  MaxBoots = 3
SPECIFICATION Spec
SYMMETRY Interchangeable
INVARIANTS ServesItsSchema EvidenceIsKept
PROPERTIES CredentialsCarryOver DestroysOnlyIfAllowed
CHECK_DEADLOCK FALSE
