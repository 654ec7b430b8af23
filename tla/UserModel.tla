----------------------------- MODULE UserModel -----------------------------
(***************************************************************************)
(* Reli's model of its user: record_preference with the #User anchor it    *)
(* creates on first use and add_preference_evidence in backend/service.py, *)
(* beside user_model in backend/queries.py, whose statements each see what *)
(* is committed when they start.  A preference is a Thing tagged           *)
(* #Preference that the anchor points at; its strength is the number of    *)
(* its EvidenceFor edges.                                                  *)
(***************************************************************************)
EXTENDS Naturals

CONSTANTS Worker,      \* requests in flight
          Preference,  \* the ids preferences may have: the bound on recordings
          Evidence,    \* the Things that may be evidence; Things are never deleted
          None         \* nobody, nothing

ASSUME NobodyAssumption == None \notin Preference

VARIABLES born,      \* journal: the committed create entries of the #User anchor
          anchored,  \* the #Preference Things the anchor points at
          scoped,    \* those whose notes name a scope
          links,     \* committed EvidenceFor edges: <<evidence, preference>>
          internal,  \* evidence carrying one of _NOT_EVIDENCE_TAGS now
          given,     \* history: the evidence each preference was recorded with
          cut,       \* history: the edges unrelated
          pc,        \* where each request stands
          pref,      \* the preference it records or reinforces
          wanted,    \* the evidence it was given
          left,      \* the evidence it still has to check, or to link
          stood,     \* history: the edge an add is for has stood since it began
          listed,    \* the preferences a reader's first statement found
          shown      \* the edges its second statement found for them

vars == <<born, anchored, scoped, links, internal, given, cut,
          pc, pref, wanted, left, stood, listed, shown>>

graph == <<born, anchored, scoped, links, internal, given, cut>>

reads == <<listed, shown>>

Init == /\ born = 0
        /\ anchored = {}
        /\ scoped = {}
        /\ links = {}
        /\ internal = {}
        /\ given = [p \in Preference |-> {}]
        /\ cut = {}
        /\ pc = [w \in Worker |-> "idle"]
        /\ pref = [w \in Worker |-> None]
        /\ wanted = [w \in Worker |-> {}]
        /\ left = [w \in Worker |-> {}]
        /\ stood = [w \in Worker |-> FALSE]
        /\ listed = [w \in Worker |-> {}]
        /\ shown = [w \in Worker |-> {}]

-----------------------------------------------------------------------------
\* The operators named ...Mutant are each a bug the definition after them could
\* have had; nothing uses them but the mutation runs PROJECT.json lists.

Goto(w, step) == pc' = [pc EXCEPT ![w] = step]

\* The session closes; what it had not committed is gone.
Close(w) == /\ Goto(w, "idle")
            /\ pref' = [pref EXCEPT ![w] = None]
            /\ wanted' = [wanted EXCEPT ![w] = {}]
            /\ left' = [left EXCEPT ![w] = {}]
            /\ listed' = [listed EXCEPT ![w] = {}]
            /\ shown' = [shown EXCEPT ![w] = {}]

Finish(w) == Close(w) /\ stood' = [stood EXCEPT ![w] = FALSE]

Anchor == born > 0

\* uuid4: a preference nobody has named.
Fresh(p) == p \notin anchored /\ \A v \in Worker : pref[v] # p

Edges(es, p) == {<<e, p>> : e \in es}

-----------------------------------------------------------------------------
\* record_preference arrives with its evidence; one without is refused unread.
BeginRecord(w) ==
  /\ pc[w] = "idle"
  /\ \E p \in Preference, es \in SUBSET Evidence \ {{}} :
       /\ Fresh(p)
       /\ pref' = [pref EXCEPT ![w] = p]
       /\ wanted' = [wanted EXCEPT ![w] = es]
       /\ left' = [left EXCEPT ![w] = es]
  /\ Goto(w, "checking")
  /\ UNCHANGED <<graph, stood, reads>>

\* _check_evidence_source on one piece of evidence, as it is tagged now.
PassEvidence(w) ==
  \E e \in left[w] :
    \/ /\ e \in internal
       /\ Goto(w, "refused")
       /\ UNCHANGED left
    \/ /\ e \notin internal
       /\ left' = [left EXCEPT ![w] = left[w] \ {e}]
       /\ UNCHANGED pc

\* Each piece of evidence is read, unlocked, before anything is written.
CheckEvidence(w) ==
  /\ pc[w] = "checking"
  /\ PassEvidence(w)
  /\ UNCHANGED <<graph, pref, wanted, stood, reads>>

\* get_or_create_user_anchor: the anchor is there, or has to be made.
GetAnchor(w) ==
  /\ pc[w] = "checking"
  /\ left[w] = {}
  /\ Goto(w, IF Anchor THEN "recording" ELSE "anchoring")
  /\ left' = [left EXCEPT ![w] = wanted[w]]
  /\ UNCHANGED <<graph, pref, wanted, stood, reads>>

\* Each first write makes an anchor of its own.
InsertAnchorMutant(w) ==
  /\ pc[w] = "anchoring"
  /\ Goto(w, "anchored")
  /\ UNCHANGED <<graph, pref, wanted, left, stood, reads>>

\* The INSERT waits for another one of the same primary key; if that one committed,
\* the loser rolls back and goes on with the winner's row.
InsertAnchor(w) ==
  /\ pc[w] = "anchoring"
  /\ \A v \in Worker \ {w} : pc[v] # "anchored"
  /\ Goto(w, IF Anchor THEN "recording" ELSE "anchored")
  /\ UNCHANGED <<graph, pref, wanted, left, stood, reads>>

\* The anchor is committed with its entry, before the preference is written.
CommitAnchor(w) ==
  /\ pc[w] = "anchored"
  /\ born' = born + 1
  /\ Goto(w, "recording")
  /\ UNCHANGED <<anchored, scoped, links, internal, given, cut,
                 pref, wanted, left, stood, reads>>

\* The preference and its anchor edge are flushed, then an edge for each piece of
\* evidence, its tags read again: a refusal takes back what is not committed.
LinkEvidence(w) ==
  /\ pc[w] = "recording"
  /\ PassEvidence(w)
  /\ UNCHANGED <<graph, pref, wanted, stood, reads>>

\* The first edge commits the preference, and the others are left for later.
WholeMutant(w) == left[w] # wanted[w]

\* Every piece of evidence has its edge.
Whole(w) == left[w] = {}

\* COMMIT: the preference, its anchor edge and its evidence become visible at once.
CommitRecord(w) ==
  /\ pc[w] = "recording"
  /\ Whole(w)
  /\ anchored' = anchored \cup {pref[w]}
  /\ scoped' = scoped \cup {pref[w]}
  /\ links' = links \cup Edges(wanted[w] \ left[w], pref[w])
  /\ given' = [given EXCEPT ![pref[w]] = wanted[w]]
  /\ Finish(w)
  /\ UNCHANGED <<born, internal, cut>>

-----------------------------------------------------------------------------
\* add_preference_evidence: the preference and the evidence are both there.
BeginAdd(w) ==
  /\ pc[w] = "idle"
  /\ \E p \in anchored, e \in Evidence :
       /\ pref' = [pref EXCEPT ![w] = p]
       /\ wanted' = [wanted EXCEPT ![w] = {e}]
       /\ stood' = [stood EXCEPT ![w] = <<e, p>> \in links]
  /\ Goto(w, "looking")
  /\ UNCHANGED <<graph, left, reads>>

\* The lookup forgets which piece of evidence it is about.
LinkedMutant(w) == \E l \in links : l[2] = pref[w]

Linked(w) == Edges(wanted[w], pref[w]) \subseteq links

SamePair(v, w) == pref[v] = pref[w] /\ wanted[v] = wanted[w]

\* The fast path: linked already, the preference is answered as it is.
Look(w) ==
  /\ pc[w] = "looking"
  /\ Goto(w, IF Linked(w) THEN "answering" ELSE "inserting")
  /\ UNCHANGED <<graph, pref, wanted, left, stood, reads>>

\* relate: the evidence's tags are checked.  EVIDENCE_FOR_UNIQUE_INDEX makes the
\* INSERT wait for another one of the pair, and refuses it if the pair stands.
Insert(w) ==
  /\ pc[w] = "inserting"
  /\ \/ /\ wanted[w] \cap internal # {}
        /\ Goto(w, "refused")
     \/ /\ wanted[w] \cap internal = {}
        /\ \A v \in Worker \ {w} : ~ (pc[v] = "inserted" /\ SamePair(v, w))
        /\ Goto(w, IF Linked(w) THEN "duplicate" ELSE "inserted")
  /\ UNCHANGED <<graph, pref, wanted, left, stood, reads>>

\* DuplicateRelationship names the edge that stands and the preference is answered;
\* if that edge was unrelated meanwhile, the IntegrityError goes out instead.
LookAgain(w) ==
  /\ pc[w] = "duplicate"
  /\ Goto(w, IF Linked(w) THEN "answering" ELSE "refused")
  /\ UNCHANGED <<graph, pref, wanted, left, stood, reads>>

\* COMMIT of an add: every other add of the pair has now seen it stand.
CommitAdd(w) ==
  /\ pc[w] = "inserted"
  /\ links' = links \cup Edges(wanted[w], pref[w])
  /\ stood' = [v \in Worker |-> v # w /\ (stood[v] \/ SamePair(v, w))]
  /\ Close(w)
  /\ UNCHANGED <<born, anchored, scoped, internal, given, cut>>

-----------------------------------------------------------------------------
\* user_model, its first statement: preferences of the anchor's, those that the scope
\* asked for and #Rejected leave.
ListPreferences(w) ==
  /\ pc[w] = "idle"
  /\ \E asked \in SUBSET anchored : listed' = [listed EXCEPT ![w] = asked]
  /\ Goto(w, "listed")
  /\ UNCHANGED <<graph, pref, wanted, left, stood, shown>>

\* _evidence_by_preference: their edges as they are by then.  A preference without
\* evidence or without a scope is left out.
ReadEvidence(w) ==
  /\ pc[w] = "listed"
  /\ shown' = [shown EXCEPT ![w] = {l \in links : l[2] \in listed[w] \cap scoped}]
  /\ Goto(w, "answering")
  /\ UNCHANGED <<graph, pref, wanted, left, stood, listed>>

\* The answer or the refusal goes out; or the request dies, wherever it stands.
Leave(w) ==
  /\ pc[w] # "idle"
  /\ Finish(w)
  /\ UNCHANGED graph

-----------------------------------------------------------------------------
\* The writes of the other modules, each one its commit: update_thing tags a Thing
\* as one of Reli's own records, or no longer; unrelate.
Retag(e) ==
  /\ internal' = (internal \cup {e}) \ (internal \cap {e})
  /\ UNCHANGED <<born, anchored, scoped, links, given, cut,
                 pc, pref, wanted, left, stood, reads>>

Unrelate(l) ==
  /\ links' = links \ {l}
  /\ cut' = cut \cup {l}
  /\ UNCHANGED <<born, anchored, scoped, internal, given,
                 pc, pref, wanted, left, stood, reads>>

\* create_thing and relate can write the shape of a preference by hand, without a
\* scope and without evidence.
CreateByHand(p) ==
  /\ Anchor
  /\ Fresh(p)
  /\ anchored' = anchored \cup {p}
  /\ UNCHANGED <<born, scoped, links, internal, given, cut,
                 pc, pref, wanted, left, stood, reads>>

Record(w) == BeginRecord(w) \/ CheckEvidence(w) \/ GetAnchor(w) \/ InsertAnchor(w)
             \/ CommitAnchor(w) \/ LinkEvidence(w) \/ CommitRecord(w)

Add(w) == BeginAdd(w) \/ Look(w) \/ Insert(w) \/ LookAgain(w) \/ CommitAdd(w)

Read(w) == ListPreferences(w) \/ ReadEvidence(w)

Others == \/ \E e \in Evidence : Retag(e)
          \/ \E l \in links : Unrelate(l)
          \/ \E p \in Preference : CreateByHand(p)

Next == (\E w \in Worker : Record(w) \/ Add(w) \/ Read(w) \/ Leave(w)) \/ Others

Spec == Init /\ [][Next]_vars

-----------------------------------------------------------------------------
\* Type correctness.
TypeOK ==
  /\ born \in Nat
  /\ anchored \subseteq Preference
  /\ scoped \subseteq anchored
  /\ links \subseteq Evidence \X anchored
  /\ internal \subseteq Evidence
  /\ given \in [Preference -> SUBSET Evidence]
  /\ cut \subseteq Evidence \X anchored
  /\ pc \in [Worker -> {"idle", "checking", "anchoring", "anchored", "recording", "looking",
                        "inserting", "inserted", "duplicate", "listed", "answering", "refused"}]
  /\ pref \in [Worker -> Preference \cup {None}]
  /\ wanted \in [Worker -> SUBSET Evidence]
  /\ left \in [Worker -> SUBSET Evidence]
  /\ stood \in [Worker -> BOOLEAN]
  /\ listed \in [Worker -> SUBSET anchored]
  /\ shown \in [Worker -> SUBSET (Evidence \X anchored)]

\* There is one #User anchor however many first preferences are recorded at once
\* (service.get_or_create_user_anchor), it is made once, and no preference hangs off
\* an anchor that is not there.
AnchorIsOne == born <= 1 /\ (anchored # {} => Anchor)

\* No reader meets a preference part-way (service.record_preference: "a failure
\* part-way cannot leave behind the evidence-less preference"): what user_model
\* answers shows every preference it lists with all the evidence that preference was
\* recorded with, but for edges unrelated since, although it reads preferences and
\* edges at different moments.
ShownIsWhole ==
  \A w \in Worker : pc[w] = "answering" =>
    \A p \in listed[w] : Edges(given[p], p) \subseteq shown[w] \cup cut

\* Strength is not lost to a race (service.add_preference_evidence): an add that is
\* answered without a write found the very edge it was to write standing at some
\* moment of the call.
AnswersStood ==
  \A w \in Worker : pc[w] = "answering" /\ pref[w] # None => stood[w]

=============================================================================
