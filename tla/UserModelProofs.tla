-------------------------- MODULE UserModelProofs --------------------------
(***************************************************************************)
(* UserModel for every number of requests, preferences and pieces of       *)
(* evidence.  A recording has a preference of its own that nobody can      *)
(* list or add to until it commits; the primary key lets one request at a  *)
(* time make the anchor; and an edge that comes to stand is noticed by     *)
(* every add of the same pair.                                             *)
(***************************************************************************)
EXTENDS UserModel, TLAPS

Recording == {"checking", "anchoring", "anchored", "recording"}

Adding == {"looking", "inserting", "inserted", "duplicate"}

\* A request has a preference once it records or adds, and lists preferences only if
\* it reads.
InFlight(w) ==
  /\ pc[w] = "idle" => pref[w] = None /\ listed[w] = {}
  /\ pc[w] \in Recording => pref[w] \in Preference
  /\ pc[w] \in Adding => pref[w] \in anchored /\ \E e \in Evidence : wanted[w] = {e}
  /\ pc[w] = "listed" => pref[w] = None
  /\ pref[w] # None => listed[w] = {}

Typed == TypeOK /\ \A w \in Worker : InFlight(w)

\* What is being recorded is not there yet, for anybody.
OwnPreference ==
  \A w \in Worker : pc[w] \in Recording =>
    pref[w] \notin anchored /\ \A v \in Worker \ {w} : pref[v] # pref[w]

\* The anchor is being made by one request, or is made.
AnchorMade ==
  /\ AnchorIsOne
  /\ \A w \in Worker : /\ pc[w] = "recording" => Anchor
                       /\ pc[w] = "anchored" => ~ Anchor
  /\ \A v, w \in Worker : pc[v] = "anchored" /\ pc[w] = "anchored" => v = w

\* The evidence a preference was recorded with stands or was cut, and what was recorded
\* has a scope.
RecordedWhole ==
  /\ \A p \in Preference : given[p] # {} => p \in scoped
  /\ \A p \in Preference : Edges(given[p], p) \subseteq links \cup cut

\* An add knows of the edge it would write, if that edge stands.
AddsKnow ==
  /\ \A w \in Worker : pc[w] \in Adding /\ Linked(w) => stood[w]
  /\ AnswersStood

IInv == Typed /\ OwnPreference /\ AnchorMade /\ RecordedWhole /\ ShownIsWhole /\ AddsKnow

-----------------------------------------------------------------------------
LEMMA TypedInit == Init => Typed
  BY DEF Init, Typed, TypeOK, InFlight, Recording, Adding

\* What a request that closes leaves.
LEMMA Closes ==
  ASSUME Typed, NEW w \in Worker, Close(w), stood' \in [Worker -> BOOLEAN],
         born' \in Nat, anchored' \subseteq Preference, anchored \subseteq anchored',
         scoped' \subseteq anchored', links' \subseteq Evidence \X anchored',
         given' \in [Preference -> SUBSET Evidence], UNCHANGED <<internal, cut>>
  PROVE  Typed'
<1> USE DEF Typed
<1>1. /\ pc' = [pc EXCEPT ![w] = "idle"]
      /\ pref' = [pref EXCEPT ![w] = None]
      /\ wanted' = [wanted EXCEPT ![w] = {}]
      /\ left' = [left EXCEPT ![w] = {}]
      /\ listed' = [listed EXCEPT ![w] = {}]
      /\ shown' = [shown EXCEPT ![w] = {}]
  BY DEF Close, Goto
<1>2. Evidence \X anchored \subseteq Evidence \X anchored'
  OBVIOUS
<1>3. /\ cut' \subseteq Evidence \X anchored' /\ internal' \subseteq Evidence
      /\ pc' \in [Worker -> {"idle", "checking", "anchoring", "anchored", "recording", "looking",
                             "inserting", "inserted", "duplicate", "listed", "answering", "refused"}]
      /\ pref' \in [Worker -> Preference \cup {None}]
      /\ wanted' \in [Worker -> SUBSET Evidence]
      /\ left' \in [Worker -> SUBSET Evidence]
  BY <1>1, <1>2 DEF TypeOK
<1>4. listed' \in [Worker -> SUBSET anchored'] /\ shown' \in [Worker -> SUBSET (Evidence \X anchored')]
  BY <1>1, <1>2 DEF TypeOK
<1>5. TypeOK'
  BY <1>3, <1>4 DEF TypeOK
<1>6. ASSUME NEW v \in Worker PROVE InFlight(v)'
  BY <1>1 DEF TypeOK, InFlight, Recording, Adding
<1>7. QED
  BY <1>5, <1>6

LEMMA TypedStep == Typed /\ [Next]_vars => Typed'
<1> SUFFICES ASSUME Typed, [Next]_vars PROVE Typed'
  OBVIOUS
<1> USE NobodyAssumption DEF Typed, Goto, graph, reads, Recording, Adding
<1>1. ASSUME NEW w \in Worker, BeginRecord(w) PROVE Typed'
  <2>1. PICK p \in Preference, es \in SUBSET Evidence :
          /\ pref' = [pref EXCEPT ![w] = p]
          /\ wanted' = [wanted EXCEPT ![w] = es]
          /\ left' = [left EXCEPT ![w] = es]
    BY <1>1 DEF BeginRecord
  <2>2. QED
    BY <1>1, <2>1 DEF BeginRecord, TypeOK, InFlight
<1>2. ASSUME NEW w \in Worker, CheckEvidence(w) \/ LinkEvidence(w) PROVE Typed'
  <2>1. /\ pc[w] \in {"checking", "recording"}
        /\ \/ pc' = [pc EXCEPT ![w] = "refused"] /\ UNCHANGED left
           \/ UNCHANGED pc /\ \E e \in left[w] : left' = [left EXCEPT ![w] = left[w] \ {e}]
        /\ UNCHANGED <<graph, pref, wanted, stood, reads>>
    BY <1>2 DEF CheckEvidence, LinkEvidence, PassEvidence
  <2>2. left' \in [Worker -> SUBSET Evidence]
    BY <2>1 DEF TypeOK
  <2>3. QED
    BY <2>1, <2>2 DEF TypeOK, InFlight
<1>3. ASSUME NEW w \in Worker, GetAnchor(w) PROVE Typed'
  BY <1>3 DEF GetAnchor, TypeOK, InFlight
<1>4. ASSUME NEW w \in Worker, InsertAnchor(w) PROVE Typed'
  BY <1>4 DEF InsertAnchor, TypeOK, InFlight
<1>5. ASSUME NEW w \in Worker, CommitAnchor(w) PROVE Typed'
  BY <1>5 DEF CommitAnchor, TypeOK, InFlight
<1>6. ASSUME NEW w \in Worker, CommitRecord(w) PROVE Typed'
  <2>1. pref[w] \in Preference /\ wanted[w] \subseteq Evidence
    BY <1>6 DEF CommitRecord, TypeOK, InFlight
  <2>2. Edges(wanted[w] \ left[w], pref[w]) \subseteq Evidence \X (anchored \cup {pref[w]})
    BY <2>1 DEF Edges
  <2>3. links' \subseteq Evidence \X anchored'
    BY <1>6, <2>2 DEF CommitRecord, TypeOK
  <2>4. QED
    BY <1>6, <2>1, <2>3, Closes DEF CommitRecord, Finish, TypeOK
<1>7. ASSUME NEW w \in Worker, BeginAdd(w) PROVE Typed'
  <2>1. PICK p \in anchored, e \in Evidence :
          /\ pref' = [pref EXCEPT ![w] = p]
          /\ wanted' = [wanted EXCEPT ![w] = {e}]
          /\ stood' = [stood EXCEPT ![w] = <<e, p>> \in links]
    BY <1>7 DEF BeginAdd
  <2>2. (<<e, p>> \in links) \in BOOLEAN /\ p \in Preference
    BY DEF TypeOK
  <2>3. stood' \in [Worker -> BOOLEAN]
    BY <2>1, <2>2, Zenon DEF TypeOK
  <2>4. QED
    BY <1>7, <2>1, <2>2, <2>3 DEF BeginAdd, TypeOK, InFlight
<1>8. ASSUME NEW w \in Worker, Look(w) \/ Insert(w) \/ LookAgain(w) PROVE Typed'
  <2>1. /\ pc[w] \in Adding
        /\ pc' \in {[pc EXCEPT ![w] = step] : step \in {"answering", "inserting", "refused", "duplicate", "inserted"}}
        /\ UNCHANGED <<graph, pref, wanted, left, stood, reads>>
    BY <1>8 DEF Look, Insert, LookAgain
  <2>2. QED
    BY <2>1 DEF TypeOK, InFlight
<1>9. ASSUME NEW w \in Worker, CommitAdd(w) PROVE Typed'
  <2>1. pref[w] \in anchored /\ wanted[w] \subseteq Evidence
    BY <1>9 DEF CommitAdd, TypeOK, InFlight
  <2>2. links' \subseteq Evidence \X anchored
    BY <1>9, <2>1 DEF CommitAdd, Edges, TypeOK
  <2>3. stood' \in [Worker -> BOOLEAN]
    BY <1>9, Zenon DEF CommitAdd
  <2>4. QED
    BY <1>9, <2>2, <2>3, Closes DEF CommitAdd, TypeOK
<1>10. ASSUME NEW w \in Worker, ListPreferences(w) PROVE Typed'
  <2>1. PICK asked \in SUBSET anchored : listed' = [listed EXCEPT ![w] = asked]
    BY <1>10 DEF ListPreferences
  <2>2. QED
    BY <1>10, <2>1 DEF ListPreferences, TypeOK, InFlight
<1>11. ASSUME NEW w \in Worker, ReadEvidence(w) PROVE Typed'
  <2>1. {l \in links : l[2] \in listed[w] \cap scoped} \in SUBSET (Evidence \X anchored)
    BY DEF TypeOK
  <2>2. QED
    BY <1>11, <2>1 DEF ReadEvidence, TypeOK, InFlight
<1>12. ASSUME NEW w \in Worker, Leave(w) PROVE Typed'
  BY <1>12, Closes DEF Leave, Finish, TypeOK
<1>13. ASSUME NEW e \in Evidence, Retag(e) PROVE Typed'
  BY <1>13 DEF Retag, TypeOK, InFlight
<1>14. ASSUME NEW l \in links, Unrelate(l) PROVE Typed'
  BY <1>14 DEF Unrelate, TypeOK, InFlight
<1>15. ASSUME NEW p \in Preference, CreateByHand(p) PROVE Typed'
  <2>1. anchored \subseteq anchored' /\ anchored' \subseteq Preference
    BY <1>15 DEF CreateByHand, TypeOK
  <2>2. Evidence \X anchored \subseteq Evidence \X anchored'
    BY <2>1
  <2>3. /\ links' \subseteq Evidence \X anchored' /\ cut' \subseteq Evidence \X anchored'
        /\ scoped' \subseteq anchored'
    BY <1>15, <2>1, <2>2 DEF CreateByHand, TypeOK
  <2>4. listed' \in [Worker -> SUBSET anchored'] /\ shown' \in [Worker -> SUBSET (Evidence \X anchored')]
    BY <1>15, <2>1, <2>2 DEF CreateByHand, TypeOK
  <2>5. TypeOK'
    BY <1>15, <2>1, <2>3, <2>4 DEF CreateByHand, TypeOK
  <2>6. QED
    BY <1>15, <2>1, <2>5 DEF CreateByHand, InFlight
<1>16. CASE UNCHANGED vars
  BY <1>16 DEF vars, TypeOK, InFlight
<1>17. QED
  BY <1>1, <1>2, <1>3, <1>4, <1>5, <1>6, <1>7, <1>8, <1>9, <1>10, <1>11, <1>12, <1>13, <1>14,
     <1>15, <1>16 DEF Next, Record, Add, Read, Others

\* Every variable of the user model keeps its type: what is listed, linked or shown is
\* of preferences that are there.
THEOREM TypeCorrect == Spec => []TypeOK
<1>1. Typed => TypeOK
  BY DEF Typed
<1>2. QED
  BY <1>1, TypedInit, TypedStep, PTL DEF Spec

-----------------------------------------------------------------------------
\* What a step leaves of the requests: its own moves on or ends, the others stand.
SameRequest(v) == /\ pc'[v] = pc[v]
                  /\ pref'[v] = pref[v]
                  /\ wanted'[v] = wanted[v]
                  /\ listed'[v] = listed[v]
                  /\ shown'[v] = shown[v]

Ended(w) == pc'[w] = "idle" /\ pref'[w] = None /\ listed'[w] = {}

Act(w) == Record(w) \/ Add(w) \/ Read(w) \/ Leave(w)

LEMMA CloseEnds ==
  ASSUME Typed, NEW w \in Worker, Close(w)
  PROVE  Ended(w) /\ \A v \in Worker \ {w} : SameRequest(v)
  BY DEF Close, Goto, Ended, SameRequest, Typed, TypeOK

LEMMA OthersStand ==
  ASSUME Typed, NEW w \in Worker, Act(w), NEW v \in Worker \ {w}
  PROVE  SameRequest(v)
<1> USE DEF Goto, reads, Typed, TypeOK
<1>1. CASE Close(w)
  BY <1>1, CloseEnds
<1>2. CASE BeginRecord(w)
  BY <1>2 DEF BeginRecord, SameRequest
<1>3. CASE CheckEvidence(w) \/ LinkEvidence(w)
  BY <1>3 DEF CheckEvidence, LinkEvidence, PassEvidence, SameRequest
<1>4. CASE GetAnchor(w) \/ InsertAnchor(w) \/ CommitAnchor(w)
  BY <1>4 DEF GetAnchor, InsertAnchor, CommitAnchor, SameRequest
<1>5. CASE BeginAdd(w)
  BY <1>5 DEF BeginAdd, SameRequest
<1>6. CASE Look(w) \/ Insert(w) \/ LookAgain(w)
  BY <1>6 DEF Look, Insert, LookAgain, SameRequest
<1>7. CASE ListPreferences(w) \/ ReadEvidence(w)
  BY <1>7 DEF ListPreferences, ReadEvidence, SameRequest
<1>8. QED
  BY <1>1, <1>2, <1>3, <1>4, <1>5, <1>6, <1>7
     DEF Act, Record, Add, Read, Leave, CommitRecord, CommitAdd, Finish

\* Only the commit of a recording and a preference by hand anchor anything.
LEMMA AnchoredBy ==
  ASSUME NEW w \in Worker, Act(w)
  PROVE  \/ CommitRecord(w) /\ anchored' = anchored \cup {pref[w]}
         \/ ~ CommitRecord(w) /\ UNCHANGED <<anchored, scoped, given>>
  BY DEF Act, Record, Add, Read, BeginRecord, CheckEvidence, GetAnchor, InsertAnchor, CommitAnchor,
         LinkEvidence, CommitRecord, BeginAdd, Look, Insert, LookAgain, CommitAdd, ListPreferences,
         ReadEvidence, Leave, graph

LEMMA OwnStep == Typed /\ OwnPreference /\ [Next]_vars => OwnPreference'
<1> SUFFICES ASSUME Typed, OwnPreference, [Next]_vars PROVE OwnPreference'
  OBVIOUS
<1>1. ASSUME NEW w \in Worker, Act(w) PROVE OwnPreference'
  <2>1. \A v \in Worker \ {w} : SameRequest(v)
    BY <1>1, OthersStand
  <2>2. CASE BeginRecord(w)
    <3>1. PICK p \in Preference : Fresh(p) /\ pref' = [pref EXCEPT ![w] = p]
      BY <2>2 DEF BeginRecord
    <3>2. anchored' = anchored /\ pref'[w] = p
      BY <2>2, <3>1 DEF BeginRecord, graph, Typed, TypeOK
    <3>3. QED
      BY <2>1, <3>1, <3>2 DEF OwnPreference, Fresh, SameRequest
  <2>3. CASE BeginAdd(w)
    <3>1. PICK p \in anchored : pref' = [pref EXCEPT ![w] = p]
      BY <2>3 DEF BeginAdd
    <3>2. pref'[w] = p /\ pc'[w] = "looking" /\ anchored' = anchored
      BY <2>3, <3>1 DEF BeginAdd, Goto, graph, Typed, TypeOK
    <3>3. QED
      BY <2>1, <3>1, <3>2 DEF OwnPreference, SameRequest, Recording
  <2>4. CASE Ended(w)
    <3>1. \A v \in Worker \ {w} : pc[v] \in Recording => pref[v] # None
      BY NobodyAssumption DEF Typed, InFlight
    <3>2. \A v \in Worker \ {w} : pc[v] \in Recording => pref[v] \notin anchored'
      BY <1>1, AnchoredBy DEF OwnPreference
    <3>3. QED
      BY <2>1, <2>4, <3>1, <3>2 DEF OwnPreference, SameRequest, Ended, Recording
  <2>5. CASE /\ pref'[w] = pref[w]
             /\ pc'[w] \in Recording => pc[w] \in Recording
             /\ anchored' = anchored
    BY <2>1, <2>5 DEF OwnPreference, SameRequest
  <2>6. QED
    <3>1. ASSUME ~ BeginRecord(w), ~ BeginAdd(w), ~ Close(w)
          PROVE  /\ pref'[w] = pref[w]
                 /\ pc'[w] \in Recording => pc[w] \in Recording
                 /\ anchored' = anchored
      BY <1>1, <3>1 DEF Act, Record, Add, Read, CheckEvidence, PassEvidence, GetAnchor, InsertAnchor,
         CommitAnchor, LinkEvidence, CommitRecord, Look, Insert, LookAgain, CommitAdd,
         ListPreferences, ReadEvidence, Leave, Finish, Goto, graph, Recording, Typed, TypeOK
    <3>2. QED
      BY <2>2, <2>3, <2>4, <2>5, <3>1, CloseEnds
<1>2. ASSUME NEW p \in Preference, CreateByHand(p) PROVE OwnPreference'
  BY <1>2 DEF CreateByHand, Fresh, OwnPreference
<1>3. ASSUME NEW e \in Evidence, Retag(e) PROVE OwnPreference'
  BY <1>3 DEF Retag, OwnPreference
<1>4. ASSUME NEW l \in links, Unrelate(l) PROVE OwnPreference'
  BY <1>4 DEF Unrelate, OwnPreference
<1>5. CASE UNCHANGED vars
  BY <1>5 DEF vars, OwnPreference
<1>6. QED
  BY <1>1, <1>2, <1>3, <1>4, <1>5 DEF Next, Act, Others

-----------------------------------------------------------------------------
LEMMA AnchorStep == Typed /\ AnchorMade /\ [Next]_vars => AnchorMade'
<1> SUFFICES ASSUME Typed, AnchorMade, [Next]_vars PROVE AnchorMade'
  OBVIOUS
<1>1. ASSUME NEW w \in Worker, Act(w) PROVE AnchorMade'
  <2>1. \A v \in Worker \ {w} : pc'[v] = pc[v]
    BY <1>1, OthersStand DEF SameRequest
  <2>2. CASE CommitAnchor(w)
    <3>1. /\ pc[w] = "anchored" /\ pc'[w] = "recording"
          /\ born' = born + 1 /\ anchored' = anchored
      BY <2>2 DEF CommitAnchor, Goto, Typed, TypeOK
    <3>2. born = 0
      BY <3>1 DEF AnchorMade, Anchor, Typed, TypeOK
    <3>3. \A v \in Worker \ {w} : pc[v] # "anchored"
      BY <3>1 DEF AnchorMade
    <3>4. QED
      BY <2>1, <3>1, <3>2, <3>3 DEF AnchorMade, AnchorIsOne, Anchor
  <2>3. CASE ~ CommitAnchor(w)
    <3>1. born' = born
      BY <1>1, <2>3 DEF Act, Record, Add, Read, BeginRecord, CheckEvidence, GetAnchor, InsertAnchor,
         LinkEvidence, CommitRecord, BeginAdd, Look, Insert, LookAgain, CommitAdd,
         ListPreferences, ReadEvidence, Leave, graph
    <3>2. anchored' # {} => Anchor
      BY <1>1, AnchoredBy DEF AnchorMade, AnchorIsOne, CommitRecord
    <3>3. CASE InsertAnchor(w)
      BY <2>1, <3>1, <3>2, <3>3
         DEF InsertAnchor, Goto, AnchorMade, AnchorIsOne, Anchor, Typed, TypeOK
    <3>4. CASE ~ InsertAnchor(w)
      <4>1. /\ pc'[w] = "recording" => Anchor
            /\ pc'[w] # "anchored"
        <5>1. CASE Close(w)
          BY <5>1, CloseEnds DEF Ended
        <5>2. CASE GetAnchor(w)
          BY <5>2 DEF GetAnchor, Goto, Typed, TypeOK
        <5>3. CASE CheckEvidence(w) \/ LinkEvidence(w)
          BY <5>3 DEF CheckEvidence, LinkEvidence, PassEvidence, AnchorMade, Goto, Typed, TypeOK
        <5>4. CASE ~ Close(w) /\ ~ GetAnchor(w) /\ ~ CheckEvidence(w) /\ ~ LinkEvidence(w)
          BY <1>1, <2>3, <3>4, <5>4
             DEF Act, Record, Add, Read, BeginRecord, CommitRecord, BeginAdd, Look, Insert, LookAgain,
                 CommitAdd, ListPreferences, ReadEvidence, Leave, Finish, Goto, Typed, TypeOK
        <5>5. QED
          BY <5>1, <5>2, <5>3, <5>4
      <4>2. QED
        BY <2>1, <3>1, <3>2, <4>1 DEF AnchorMade, AnchorIsOne, Anchor
    <3>5. QED
      BY <3>3, <3>4
  <2>4. QED
    BY <2>2, <2>3
<1>2. ASSUME NEW p \in Preference, CreateByHand(p) PROVE AnchorMade'
  BY <1>2 DEF CreateByHand, AnchorMade, AnchorIsOne, Anchor
<1>3. ASSUME NEW e \in Evidence, Retag(e) PROVE AnchorMade'
  BY <1>3 DEF Retag, AnchorMade, AnchorIsOne, Anchor
<1>4. ASSUME NEW l \in links, Unrelate(l) PROVE AnchorMade'
  BY <1>4 DEF Unrelate, AnchorMade, AnchorIsOne, Anchor
<1>5. CASE UNCHANGED vars
  BY <1>5 DEF vars, AnchorMade, AnchorIsOne, Anchor
<1>6. QED
  BY <1>1, <1>2, <1>3, <1>4, <1>5 DEF Next, Act, Others

-----------------------------------------------------------------------------
\* Edges once written stand or are cut.
LEMMA EdgesLast == [Next]_vars => links \cup cut \subseteq links' \cup cut' /\ cut \subseteq cut'
<1> SUFFICES ASSUME [Next]_vars
             PROVE  links \cup cut \subseteq links' \cup cut' /\ cut \subseteq cut'
  OBVIOUS
<1>1. ASSUME NEW w \in Worker, Act(w) PROVE links \subseteq links' /\ cut' = cut
  BY <1>1 DEF Act, Record, Add, Read, BeginRecord, CheckEvidence, GetAnchor, InsertAnchor, CommitAnchor,
         LinkEvidence, CommitRecord, BeginAdd, Look, Insert, LookAgain, CommitAdd, ListPreferences,
         ReadEvidence, Leave, graph
<1>2. CASE Others
  BY <1>2 DEF Others, Retag, Unrelate, CreateByHand
<1>3. QED
  BY <1>1, <1>2 DEF Next, Act, vars

LEMMA RecordedStep ==
  Typed /\ OwnPreference /\ RecordedWhole /\ [Next]_vars => RecordedWhole'
<1> SUFFICES ASSUME Typed, OwnPreference, RecordedWhole, [Next]_vars PROVE RecordedWhole'
  OBVIOUS
<1>1. ASSUME UNCHANGED given, scoped \subseteq scoped' PROVE RecordedWhole'
  BY <1>1, EdgesLast DEF RecordedWhole
<1>2. ASSUME NEW w \in Worker, CommitRecord(w) PROVE RecordedWhole'
  <2>1. /\ pref[w] \in Preference
        /\ given' = [given EXCEPT ![pref[w]] = wanted[w]]
        /\ links' = links \cup Edges(wanted[w] \ left[w], pref[w])
        /\ scoped' = scoped \cup {pref[w]}
        /\ left[w] = {}
    BY <1>2 DEF CommitRecord, Whole, Typed, InFlight, Recording
  <2>2. given'[pref[w]] = wanted[w] /\ \A p \in Preference \ {pref[w]} : given'[p] = given[p]
    BY <2>1 DEF Typed, TypeOK
  <2>3. Edges(wanted[w], pref[w]) \subseteq links'
    BY <2>1
  <2>4. \A p \in Preference : Edges(given'[p], p) \subseteq links' \cup cut'
    BY <2>2, <2>3, EdgesLast DEF RecordedWhole
  <2>5. \A p \in Preference : given'[p] # {} => p \in scoped'
    BY <2>1, <2>2 DEF RecordedWhole
  <2>6. QED
    BY <2>4, <2>5 DEF RecordedWhole, Edges
<1>3. ASSUME NEW w \in Worker, Act(w), ~ CommitRecord(w) PROVE RecordedWhole'
  BY <1>1, <1>3, AnchoredBy
<1>4. CASE Others \/ UNCHANGED vars
  BY <1>1, <1>4 DEF Others, Retag, Unrelate, CreateByHand, vars
<1>5. QED
  BY <1>2, <1>3, <1>4 DEF Next, Act

LEMMA ShownStep ==
  Typed /\ OwnPreference /\ RecordedWhole /\ ShownIsWhole /\ [Next]_vars => ShownIsWhole'
<1> SUFFICES ASSUME Typed, OwnPreference, RecordedWhole, ShownIsWhole, [Next]_vars,
                    NEW v \in Worker, pc'[v] = "answering", NEW p \in listed'[v]
             PROVE  Edges(given'[p], p) \subseteq shown'[v] \cup cut'
  BY DEF ShownIsWhole, Edges
<1>1. ASSUME pc[v] = "answering", listed'[v] = listed[v], shown'[v] = shown[v],
             p \in Preference => given'[p] = given[p]
      PROVE  Edges(given'[p], p) \subseteq shown'[v] \cup cut'
  <2>1. p \in Preference
    BY <1>1 DEF Typed, TypeOK
  <2>2. QED
    BY <1>1, <2>1, EdgesLast DEF ShownIsWhole
<1>2. ASSUME NEW w \in Worker, Act(w), v # w
      PROVE  Edges(given'[p], p) \subseteq shown'[v] \cup cut'
  <2>1. SameRequest(v)
    BY <1>2, OthersStand
  <2>2. p \in anchored
    BY <2>1 DEF SameRequest, Typed, TypeOK
  <2>3. p \in Preference => given'[p] = given[p]
    <3>1. CASE CommitRecord(w)
      BY <2>2, <3>1 DEF CommitRecord, OwnPreference, Recording, Typed, TypeOK
    <3>2. CASE ~ CommitRecord(w)
      BY <1>2, <3>2, AnchoredBy
    <3>3. QED
      BY <3>1, <3>2
  <2>4. QED
    BY <1>1, <2>1, <2>3 DEF SameRequest
<1>3. CASE ReadEvidence(v)
  <2>1. /\ shown'[v] = {l \in links : l[2] \in listed[v] \cap scoped}
        /\ listed' = listed /\ given' = given
    BY <1>3 DEF ReadEvidence, graph, Typed, TypeOK
  <2>2. p \in listed[v] /\ p \in Preference
    BY <2>1 DEF Typed, TypeOK
  <2>3. ASSUME NEW e \in given[p] PROVE <<e, p>> \in shown'[v] \cup cut'
    <3>1. p \in scoped /\ <<e, p>> \in links \cup cut
      BY <2>2, <2>3 DEF RecordedWhole, Edges
    <3>2. <<e, p>>[2] = p
      OBVIOUS
    <3>3. QED
      BY <2>1, <2>2, <3>1, <3>2, EdgesLast
  <2>4. QED
    BY <2>1, <2>3 DEF Edges
<1>4. CASE (Look(v) \/ LookAgain(v)) /\ UNCHANGED reads
  <2>1. listed[v] = {}
    <3>1. pref[v] # None
      BY <1>4, NobodyAssumption DEF Look, LookAgain, Typed, InFlight, Adding, TypeOK
    <3>2. QED
      BY <3>1 DEF Typed, InFlight
  <2>2. QED
    BY <1>4, <2>1 DEF reads
<1>5. CASE Act(v) /\ ~ ReadEvidence(v) /\ ~ Look(v) /\ ~ LookAgain(v)
  <2>1. ~ Close(v)
    BY CloseEnds DEF Ended
  <2>2. FALSE
    BY <1>5, <2>1 DEF Act, Record, Add, Read, BeginRecord, CheckEvidence, PassEvidence, GetAnchor,
         InsertAnchor, CommitAnchor, LinkEvidence, CommitRecord, BeginAdd, Insert, CommitAdd,
         ListPreferences, Leave, Finish, Goto, Typed, TypeOK
  <2>3. QED
    BY <2>2
<1>6. CASE Others \/ UNCHANGED vars
  BY <1>1, <1>6 DEF Others, Retag, Unrelate, CreateByHand, reads, vars
<1>7. QED
  BY <1>2, <1>3, <1>4, <1>5, <1>6 DEF Next, Act, Look, LookAgain

-----------------------------------------------------------------------------
\* An edge that comes to stand is one that an add of the same pair has just written,
\* or belongs to a preference no add could know.
LEMMA NewEdgeIsKnown ==
  ASSUME Typed, OwnPreference, AddsKnow, NEW w \in Worker, Act(w), NEW v \in Worker \ {w},
         pc[v] \in Adding, Edges(wanted[v], pref[v]) \subseteq links'
  PROVE  stood'[v]
<1>1. PICK e \in Evidence : wanted[v] = {e}
  BY DEF Typed, InFlight
<1>2. Edges(wanted[v], pref[v]) = {<<e, pref[v]>>} /\ pref[v] \in anchored
  BY <1>1 DEF Edges, Typed, InFlight
<1>3. ASSUME Linked(v) PROVE stood[v]
  BY <1>3 DEF AddsKnow
<1>4. CASE CommitAdd(w)
  <2>1. stood'[v] = (stood[v] \/ SamePair(v, w))
    BY <1>4 DEF CommitAdd
  <2>2. CASE <<e, pref[v]>> \in links
    BY <1>2, <1>3, <2>1, <2>2 DEF Linked
  <2>3. CASE <<e, pref[v]>> \notin links
    <3>1. <<e, pref[v]>> \in Edges(wanted[w], pref[w])
      BY <1>2, <1>4, <2>3 DEF CommitAdd
    <3>2. PICK d \in Evidence : wanted[w] = {d}
      BY <1>4 DEF CommitAdd, Typed, InFlight, Adding
    <3>3. SamePair(v, w)
      BY <1>1, <3>1, <3>2 DEF Edges, SamePair
    <3>4. QED
      BY <2>1, <3>3
  <2>4. QED
    BY <2>2, <2>3
<1>5. CASE CommitRecord(w)
  <2>1. pref[w] # pref[v] /\ stood' = [stood EXCEPT ![w] = FALSE]
    BY <1>2, <1>5 DEF CommitRecord, Finish, OwnPreference, Recording
  <2>2. <<e, pref[v]>> \notin Edges(wanted[w] \ left[w], pref[w])
    BY <2>1 DEF Edges
  <2>3. <<e, pref[v]>> \in links
    BY <1>2, <1>5, <2>2 DEF CommitRecord
  <2>4. QED
    BY <1>2, <1>3, <2>1, <2>3 DEF Linked, Typed, TypeOK
<1>6. CASE ~ CommitAdd(w) /\ ~ CommitRecord(w)
  <2>1. links' = links
    BY <1>6 DEF Act, Record, Add, Read, BeginRecord, CheckEvidence, GetAnchor, InsertAnchor, CommitAnchor,
         LinkEvidence, BeginAdd, Look, Insert, LookAgain, ListPreferences, ReadEvidence, Leave, graph
  <2>2. stood'[v] = stood[v]
    BY <1>6 DEF Act, Record, Add, Read, BeginRecord, CheckEvidence, GetAnchor, InsertAnchor, CommitAnchor,
         LinkEvidence, BeginAdd, Look, Insert, LookAgain, ListPreferences, ReadEvidence, Leave, Finish,
         Typed, TypeOK
  <2>3. QED
    BY <1>3, <2>1, <2>2 DEF Linked
<1>7. QED
  BY <1>4, <1>5, <1>6

\* What has stood is remembered until the call ends.
LEMMA StoodLasts ==
  ASSUME Typed, NEW w \in Worker, Act(w), NEW v \in Worker \ {w}, stood[v]
  PROVE  stood'[v]
<1>1. CASE CommitAdd(w)
  BY <1>1 DEF CommitAdd
<1>2. CASE ~ CommitAdd(w)
  BY <1>2 DEF Act, Record, Add, Read, BeginRecord, CheckEvidence, GetAnchor, InsertAnchor, CommitAnchor,
       LinkEvidence, CommitRecord, BeginAdd, Look, Insert, LookAgain, ListPreferences, ReadEvidence,
       Leave, Finish, Typed, TypeOK
<1>3. QED
  BY <1>1, <1>2

LEMMA KnownStep == Typed /\ OwnPreference /\ AddsKnow /\ [Next]_vars => AddsKnow'
<1> SUFFICES ASSUME Typed, OwnPreference, AddsKnow, [Next]_vars PROVE AddsKnow'
  OBVIOUS
<1> DEFINE Knows(v) == /\ pc[v] \in Adding /\ Linked(v) => stood[v]
                       /\ pc[v] = "answering" /\ pref[v] # None => stood[v]
<1>1. AddsKnow <=> \A v \in Worker : Knows(v)
  BY DEF AddsKnow, AnswersStood
<1>2. ASSUME NEW w \in Worker, Act(w) PROVE AddsKnow'
  <2>1. ASSUME NEW v \in Worker \ {w} PROVE Knows(v)'
    <3>1. SameRequest(v)
      BY <1>2, OthersStand
    <3>2. ASSUME pc[v] \in Adding, Linked(v)' PROVE stood'[v]
      <4>1. Edges(wanted[v], pref[v]) \subseteq links'
        BY <3>1, <3>2 DEF Linked, SameRequest
      <4>2. QED
        BY <1>2, <3>2, <4>1, NewEdgeIsKnown
    <3>3. ASSUME pc[v] = "answering", pref[v] # None PROVE stood'[v]
      BY <1>1, <1>2, <3>3, StoodLasts
    <3>4. QED
      BY <3>1, <3>2, <3>3 DEF SameRequest
  <2>2. Knows(w)'
    <3>1. CASE Close(w)
      BY <3>1, CloseEnds DEF Ended, Adding
    <3>2. CASE BeginAdd(w)
      <4>1. PICK p \in anchored, e \in Evidence :
              /\ pref' = [pref EXCEPT ![w] = p]
              /\ wanted' = [wanted EXCEPT ![w] = {e}]
              /\ stood' = [stood EXCEPT ![w] = <<e, p>> \in links]
        BY <3>2 DEF BeginAdd
      <4>2. /\ pref'[w] = p /\ wanted'[w] = {e} /\ pc'[w] = "looking"
            /\ links' = links
        BY <3>2, <4>1 DEF BeginAdd, Goto, graph, Typed, TypeOK
      <4>3. stood'[w] = (<<e, p>> \in links)
        BY <4>1 DEF Typed, TypeOK
      <4>4. Linked(w)' => <<e, p>> \in links
        BY <4>2 DEF Linked, Edges
      <4>5. QED
        BY <4>2, <4>3, <4>4
    <3>3. CASE Look(w) \/ Insert(w) \/ LookAgain(w)
      <4>1. /\ pc[w] \in Adding
            /\ pc'[w] = "answering" => Linked(w)
            /\ pc'[w] \in Adding \cup {"answering", "refused"}
            /\ UNCHANGED <<links, pref, wanted, stood>>
        BY <3>3 DEF Look, Insert, LookAgain, Goto, graph, Adding, Typed, TypeOK
      <4>2. QED
        BY <1>1, <4>1 DEF Linked
    <3>4. CASE ListPreferences(w) \/ ReadEvidence(w)
      <4>1. pref[w] = None /\ pref' = pref /\ pc'[w] \notin Adding
        BY <3>4 DEF ListPreferences, ReadEvidence, Goto, Adding, Typed, TypeOK, InFlight
      <4>2. QED
        BY <4>1
    <3>5. CASE ~ Close(w) /\ ~ Add(w) /\ ~ Read(w)
      <4>1. pc'[w] \notin Adding \cup {"answering"}
        BY <1>2, <3>5
           DEF Act, Record, BeginRecord, CheckEvidence, PassEvidence, GetAnchor, InsertAnchor,
               CommitAnchor, LinkEvidence, CommitRecord, Leave, Finish, Goto, Adding, Typed, TypeOK
      <4>2. QED
        BY <4>1
    <3>6. QED
      BY <1>2, <3>1, <3>2, <3>3, <3>4, <3>5 DEF Act, Add, Read, CommitAdd
  <2>3. QED
    BY <2>1, <2>2 DEF AddsKnow, AnswersStood
<1>3. ASSUME links' \subseteq links, UNCHANGED <<pc, pref, wanted, stood>> PROVE AddsKnow'
  BY <1>3 DEF AddsKnow, AnswersStood, Linked
<1>4. CASE Others \/ UNCHANGED vars
  BY <1>3, <1>4 DEF Others, Retag, Unrelate, CreateByHand, vars
<1>5. QED
  BY <1>2, <1>4 DEF Next, Act

-----------------------------------------------------------------------------
LEMMA Inductive == Spec => []IInv
<1>1. Init => IInv
  <2> SUFFICES ASSUME Init PROVE IInv
    OBVIOUS
  <2>1. OwnPreference /\ AnchorMade /\ ShownIsWhole /\ AddsKnow
    BY DEF Init, OwnPreference, AnchorMade, AnchorIsOne, Anchor, ShownIsWhole, AddsKnow, AnswersStood,
           Recording, Adding
  <2>2. RecordedWhole
    BY DEF Init, RecordedWhole, Edges
  <2>3. QED
    BY <2>1, <2>2, TypedInit DEF IInv
<1>2. IInv /\ [Next]_vars => IInv'
  BY TypedStep, OwnStep, AnchorStep, RecordedStep, ShownStep, KnownStep DEF IInv
<1>3. QED
  BY <1>1, <1>2, PTL DEF Spec

\* One #User anchor is made, however many requests find none, and it is there before any
\* preference is.
THEOREM OneAnchor == Spec => []AnchorIsOne
<1>1. IInv => AnchorIsOne
  BY DEF IInv, AnchorMade
<1>2. QED
  BY <1>1, Inductive, PTL

\* A reader shows each preference it lists with all the evidence it was recorded with,
\* but for what was unrelated, at whatever moments its two statements run.
THEOREM ReadersSeeWhole == Spec => []ShownIsWhole
<1>1. IInv => ShownIsWhole
  BY DEF IInv
<1>2. QED
  BY <1>1, Inductive, PTL

\* An add that answers without a write found its edge standing during the call.
THEOREM AddsFoundTheirEdge == Spec => []AnswersStood
<1>1. IInv => AnswersStood
  BY DEF IInv, AddsKnow
<1>2. QED
  BY <1>1, Inductive, PTL

=============================================================================
