-------------------------- MODULE EdgeWritesProofs --------------------------
(***************************************************************************)
(* EdgeWrites for every number of requests, Things and edges: the graph    *)
(* argument behind the advisory lock, then the invariants of the lock, the *)
(* unique index and the ids.                                               *)
(***************************************************************************)
EXTENDS EdgeWrites, TLAPS

-----------------------------------------------------------------------------
\* The walk and the cycles it looks for, over any set of pairs of Things.
Acyclic(pairs) == \A p \in pairs : ~ Reaches(pairs, p[2], p[1])

\* With fewer edges nothing more is reached.
LEMMA FewerReach ==
  ASSUME NEW P, NEW Q, P \subseteq Q, NEW a, NEW b, Reaches(P, a, b)
  PROVE  Reaches(Q, a, b)
<1>1. \A S \in SUBSET Thing : Closed(S, Q) => Closed(S, P)
  BY DEF Closed
<1>2. QED
  BY <1>1 DEF Reaches

LEMMA FewerAcyclic ==
  ASSUME NEW P, NEW Q, P \subseteq Q, Acyclic(Q)
  PROVE  Acyclic(P)
  BY FewerReach DEF Acyclic

\* An edge whose source is not below its target closes no cycle.  For an older
\* edge from x to y there is a closed set with y and without x before the new
\* one; a set that is closed with the new edge too is that set, its union or
\* its intersection with the one that keeps the new edge's source apart.
LEMMA NewEdgeAcyclic ==
  ASSUME NEW P, Acyclic(P), NEW s, NEW t, ~ Reaches(P, t, s)
  PROVE  Acyclic(P \cup {<<s, t>>})
<1> DEFINE Q == P \cup {<<s, t>>}
<1>1. PICK B \in SUBSET Thing : t \in B /\ Closed(B, P) /\ s \notin B
  BY DEF Reaches
<1>2. Closed(B, Q)
  BY <1>1 DEF Closed
<1>3. ~ Reaches(Q, t, s)
  BY <1>1, <1>2 DEF Reaches
<1>4. ASSUME NEW p \in P PROVE ~ Reaches(Q, p[2], p[1])
  <2>1. PICK A \in SUBSET Thing : p[2] \in A /\ Closed(A, P) /\ p[1] \notin A
    BY DEF Acyclic, Reaches
  <2>2. CASE p[1] \notin B
    <3>1. Closed(A \cup B, Q)
      BY <1>1, <2>1 DEF Closed
    <3>2. A \cup B \in SUBSET Thing /\ p[2] \in A \cup B /\ p[1] \notin A \cup B
      BY <2>1, <2>2
    <3>3. QED
      BY <3>1, <3>2 DEF Reaches
  <2>3. CASE p[1] \in B
    <3>1. p[2] \in B
      BY <1>1, <2>3 DEF Closed
    <3>2. Closed(A \cap B, Q)
      BY <1>1, <2>1 DEF Closed
    <3>3. A \cap B \in SUBSET Thing /\ p[2] \in A \cap B /\ p[1] \notin A \cap B
      BY <2>1, <3>1
    <3>4. QED
      BY <3>2, <3>3 DEF Reaches
  <2>4. QED
    BY <2>2, <2>3
<1>5. ASSUME NEW q \in Q PROVE ~ Reaches(Q, q[2], q[1])
  <2>1. CASE q \in P
    BY <1>4, <2>1
  <2>2. CASE q = <<s, t>>
    <3>1. q[1] = s /\ q[2] = t
      BY <2>2
    <3>2. QED
      BY <1>3, <3>1
  <2>3. QED
    BY <2>1, <2>2
<1>6. QED
  BY <1>5 DEF Acyclic

-----------------------------------------------------------------------------
RelateSteps == {"locking", "checking", "inserting", "inserted"}
UnrelateSteps == {"deleting", "deleted"}

\* A request holds an edge and an id exactly while it runs.
InFlight(w) ==
  /\ pc[w] # "idle" => edge[w] \in Edge /\ eid[w] \in EdgeId
  /\ pc[w] \in {"locking", "checking"} => edge[w].type = "ChildOf"

Typed == TypeOK /\ \A w \in Worker : InFlight(w)

LEMMA TypedInit == Init => Typed
  BY DEF Init, Typed, TypeOK, InFlight, Entry

LEMMA TypedStep == Typed /\ [Next]_vars => Typed'
<1> SUFFICES ASSUME Typed, [Next]_vars PROVE Typed'
  OBVIOUS
<1> USE DEF Typed, Goto
<1>1. ASSUME NEW w \in Worker, BeginRelate(w) PROVE Typed'
  BY <1>1 DEF BeginRelate, TypeOK, InFlight
<1>2. ASSUME NEW w \in Worker, LockChildOf(w) PROVE Typed'
  BY <1>2 DEF LockChildOf, TypeOK, InFlight
<1>3. ASSUME NEW w \in Worker, Finish(w), UNCHANGED <<edges, journal>> PROVE Typed'
  BY <1>3 DEF Finish, TypeOK, InFlight
<1>4. ASSUME NEW w \in Worker, CheckCycle(w) PROVE Typed'
  BY <1>3, <1>4 DEF CheckCycle, TypeOK, InFlight
<1>5. ASSUME NEW w \in Worker, Insert(w) PROVE Typed'
  BY <1>3, <1>5 DEF Insert, TypeOK, InFlight
<1>6. ASSUME NEW w \in Worker, CommitRelate(w) PROVE Typed'
  <2>1. edge[w] \in Edge /\ eid[w] \in EdgeId
    BY <1>6 DEF CommitRelate, InFlight
  <2>2. [key |-> eid[w], before |-> NoEdge, after |-> edge[w]] \in Entry
    BY <2>1 DEF Entry
  <2>3. journal' \in Seq(Entry) /\ edges' \in [EdgeId -> Edge \cup {NoEdge}]
    BY <1>6, <2>1, <2>2 DEF CommitRelate, TypeOK
  <2>4. QED
    BY <1>6, <2>3 DEF CommitRelate, Finish, TypeOK, InFlight
<1>7. ASSUME NEW w \in Worker, BeginUnrelate(w) PROVE Typed'
  BY <1>7 DEF BeginUnrelate, TypeOK, InFlight
<1>8. ASSUME NEW w \in Worker, Delete(w) PROVE Typed'
  BY <1>8 DEF Delete, TypeOK, InFlight
<1>9. ASSUME NEW w \in Worker, CommitUnrelate(w) PROVE Typed'
  <2>1. edge[w] \in Edge /\ eid[w] \in EdgeId
    BY <1>9 DEF CommitUnrelate, InFlight
  <2>2. [key |-> eid[w], before |-> edge[w], after |-> NoEdge] \in Entry
    BY <2>1 DEF Entry
  <2>3. journal' \in Seq(Entry) /\ edges' \in [EdgeId -> Edge \cup {NoEdge}]
    BY <1>9, <2>1, <2>2 DEF CommitUnrelate, TypeOK
  <2>4. QED
    BY <1>9, <2>3 DEF CommitUnrelate, Finish, TypeOK, InFlight
<1>10. ASSUME NEW w \in Worker, Abort(w) PROVE Typed'
  BY <1>3, <1>10 DEF Abort
<1>11. CASE UNCHANGED vars
  BY <1>11 DEF vars, TypeOK, InFlight
<1>12. QED
  BY <1>1, <1>2, <1>4, <1>5, <1>6, <1>7, <1>8, <1>9, <1>10, <1>11 DEF Next, Relate, Unrelate

\* Every variable keeps its type.
THEOREM TypeCorrect == Spec => []TypeOK
<1>1. Typed => TypeOK
  BY DEF Typed
<1>2. QED
  BY <1>1, TypedInit, TypedStep, PTL DEF Spec

-----------------------------------------------------------------------------
\* One holder of the lock, and what its walk found stays true while it holds it.
LockInv == \A v, w \in Worker : HoldsChildOfLock(v) /\ HoldsChildOfLock(w) => v = w

WalkStands ==
  \A w \in Worker :
    pc[w] \in {"inserting", "inserted"} /\ edge[w].type = "ChildOf" => ~ ClosesCycle(w)

Tree == LockInv /\ WalkStands /\ Acyclic(ChildOfPairs)

LEMMA TreeInit == Init => Tree
  BY DEF Init, Tree, LockInv, HoldsChildOfLock, WalkStands, Acyclic, ChildOfPairs

\* The tree when one request moves and no ChildOf edge is added.
LEMMA TreeWithout ==
  ASSUME Tree, NEW w \in Worker,
         ChildOfPairs' \subseteq ChildOfPairs,
         \A v \in Worker \ {w} : pc'[v] = pc[v] /\ edge'[v] = edge[v],
         HoldsChildOfLock(w)' => \A v \in Worker \ {w} : ~ HoldsChildOfLock(v),
         pc'[w] \in {"inserting", "inserted"} /\ edge'[w].type = "ChildOf"
           => edge'[w] = edge[w] /\ ~ ClosesCycle(w)
  PROVE  Tree'
<1>1. Acyclic(ChildOfPairs)'
  BY FewerAcyclic DEF Tree
<1>2. LockInv'
  BY DEF Tree, LockInv, HoldsChildOfLock
<1>3. ASSUME NEW v \in Worker, pc'[v] \in {"inserting", "inserted"}, edge'[v].type = "ChildOf"
      PROVE  ~ ClosesCycle(v)'
  <2>1. edge'[v] = edge[v] /\ ~ ClosesCycle(v)
    BY <1>3 DEF Tree, WalkStands
  <2>2. QED
    BY <2>1, FewerReach DEF ClosesCycle
<1>4. QED
  BY <1>1, <1>2, <1>3 DEF Tree, WalkStands

LEMMA TreeStep == Typed /\ Tree /\ [Next]_vars => Tree'
<1> SUFFICES ASSUME Typed, Tree, [Next]_vars PROVE Tree'
  OBVIOUS
<1>1. ASSUME edges' = edges PROVE ChildOfPairs' \subseteq ChildOfPairs
  BY <1>1 DEF ChildOfPairs
<1>2. ASSUME NEW w \in Worker, BeginRelate(w) PROVE Tree'
  <2>1. /\ \A v \in Worker \ {w} : pc'[v] = pc[v] /\ edge'[v] = edge[v]
        /\ edges' = edges
        /\ pc'[w] \in {"locking", "inserting"}
        /\ pc'[w] = "inserting" => edge'[w].type # "ChildOf"
    BY <1>2 DEF BeginRelate, Goto, Typed, TypeOK
  <2>2. ~ HoldsChildOfLock(w)'
    BY <2>1 DEF HoldsChildOfLock
  <2>3. QED
    BY <1>1, <2>1, <2>2, TreeWithout
<1>3. ASSUME NEW w \in Worker, LockChildOf(w) PROVE Tree'
  <2>1. /\ \A v \in Worker \ {w} : pc'[v] = pc[v] /\ edge'[v] = edge[v]
        /\ edges' = edges
        /\ pc'[w] = "checking"
        /\ \A v \in Worker \ {w} : ~ HoldsChildOfLock(v)
    BY <1>3 DEF LockChildOf, Goto, Typed, TypeOK
  <2>2. QED
    BY <1>1, <2>1, TreeWithout
<1>4. ASSUME NEW w \in Worker, Finish(w), ChildOfPairs' \subseteq ChildOfPairs PROVE Tree'
  <2>1. /\ \A v \in Worker \ {w} : pc'[v] = pc[v] /\ edge'[v] = edge[v]
        /\ pc'[w] = "idle"
    BY <1>4 DEF Finish, Typed, TypeOK
  <2>2. ~ HoldsChildOfLock(w)'
    BY <2>1 DEF HoldsChildOfLock
  <2>3. QED
    BY <1>4, <2>1, <2>2, TreeWithout
<1>5. ASSUME NEW w \in Worker, CheckCycle(w) PROVE Tree'
  <2>1. CASE ClosesCycle(w)
    BY <1>1, <1>4, <1>5, <2>1 DEF CheckCycle
  <2>2. CASE ~ ClosesCycle(w)
    <3>1. /\ \A v \in Worker \ {w} : pc'[v] = pc[v] /\ edge'[v] = edge[v]
          /\ edges' = edges /\ edge' = edge
          /\ pc[w] = "checking" /\ pc'[w] = "inserting"
      BY <1>5, <2>2 DEF CheckCycle, Goto, Typed, TypeOK
    <3>2. HoldsChildOfLock(w)
      BY <3>1 DEF HoldsChildOfLock, Typed, InFlight
    <3>3. \A v \in Worker \ {w} : ~ HoldsChildOfLock(v)
      BY <3>2 DEF Tree, LockInv
    <3>4. QED
      BY <1>1, <2>2, <3>1, <3>3, TreeWithout
  <2>3. QED
    BY <2>1, <2>2
<1>6. ASSUME NEW w \in Worker, Insert(w) PROVE Tree'
  <2>1. CASE Finish(w)
    BY <1>1, <1>4, <1>6, <2>1 DEF Insert
  <2>2. CASE ~ Finish(w)
    <3>1. /\ \A v \in Worker \ {w} : pc'[v] = pc[v] /\ edge'[v] = edge[v]
          /\ edges' = edges /\ edge' = edge
          /\ pc[w] = "inserting" /\ pc'[w] = "inserted"
      BY <1>6, <2>2 DEF Insert, Goto, Typed, TypeOK
    <3>2. HoldsChildOfLock(w)' => HoldsChildOfLock(w)
      BY <3>1 DEF HoldsChildOfLock
    <3>3. HoldsChildOfLock(w)' => \A v \in Worker \ {w} : ~ HoldsChildOfLock(v)
      BY <3>2 DEF Tree, LockInv
    <3>4. edge[w].type = "ChildOf" => ~ ClosesCycle(w)
      BY <3>1 DEF Tree, WalkStands
    <3>5. QED
      BY <1>1, <3>1, <3>3, <3>4, TreeWithout
  <2>3. QED
    BY <2>1, <2>2
<1>7. ASSUME NEW w \in Worker, CommitRelate(w) PROVE Tree'
  <2> DEFINE e == edge[w]
             p == <<e.source, e.target>>
  <2>1. /\ pc[w] = "inserted" /\ e \in Edge /\ eid[w] \in EdgeId
        /\ Finish(w)
        /\ edges' = [edges EXCEPT ![eid[w]] = e]
    BY <1>7 DEF CommitRelate, Typed, InFlight
  <2>2. CASE e.type # "ChildOf"
    <3>1. ChildOfPairs' \subseteq ChildOfPairs
      BY <2>1, <2>2 DEF ChildOfPairs, Typed, TypeOK
    <3>2. QED
      BY <1>4, <2>1, <3>1
  <2>3. CASE e.type = "ChildOf"
    <3>1. ChildOfPairs' \subseteq ChildOfPairs \cup {p}
      BY <2>1 DEF ChildOfPairs, Typed, TypeOK
    <3>2. ~ Reaches(ChildOfPairs, e.target, e.source)
      BY <2>1, <2>3 DEF Tree, WalkStands, ClosesCycle
    <3>3. Acyclic(ChildOfPairs \cup {p})
      BY <3>2, NewEdgeAcyclic DEF Tree
    <3>4. Acyclic(ChildOfPairs)'
      BY <3>1, <3>3, FewerAcyclic
    <3>5. /\ \A v \in Worker \ {w} : pc'[v] = pc[v] /\ edge'[v] = edge[v]
          /\ pc'[w] = "idle"
      BY <2>1 DEF Finish, Typed, TypeOK
    <3>6. HoldsChildOfLock(w)
      BY <2>1, <2>3 DEF HoldsChildOfLock
    <3>7. \A v \in Worker : ~ HoldsChildOfLock(v)'
      BY <3>5, <3>6 DEF HoldsChildOfLock, Tree, LockInv
    <3>8. QED
      BY <3>4, <3>7 DEF Tree, LockInv, WalkStands, HoldsChildOfLock
  <2>4. QED
    BY <2>2, <2>3
<1>8. ASSUME NEW w \in Worker, BeginUnrelate(w) \/ Delete(w) PROVE Tree'
  <2>1. /\ \A v \in Worker \ {w} : pc'[v] = pc[v] /\ edge'[v] = edge[v]
        /\ edges' = edges
        /\ pc'[w] \in UnrelateSteps
    BY <1>8 DEF BeginUnrelate, Delete, Goto, Typed, TypeOK, UnrelateSteps
  <2>2. ~ HoldsChildOfLock(w)'
    BY <2>1 DEF HoldsChildOfLock, UnrelateSteps
  <2>3. QED
    BY <1>1, <2>1, <2>2, TreeWithout DEF UnrelateSteps
<1>9. ASSUME NEW w \in Worker, CommitUnrelate(w) PROVE Tree'
  <2>1. edges' = [edges EXCEPT ![eid[w]] = NoEdge] /\ Finish(w)
    BY <1>9 DEF CommitUnrelate
  <2>2. ChildOfPairs' \subseteq ChildOfPairs
    BY <2>1 DEF ChildOfPairs, Typed, TypeOK
  <2>3. QED
    BY <1>4, <2>1, <2>2
<1>10. ASSUME NEW w \in Worker, Abort(w) PROVE Tree'
  BY <1>1, <1>4, <1>10 DEF Abort
<1>11. CASE UNCHANGED vars
  BY <1>11 DEF vars, Tree, LockInv, HoldsChildOfLock, WalkStands, ClosesCycle, Acyclic,
               ChildOfPairs
<1>12. QED
  BY <1>2, <1>3, <1>5, <1>6, <1>7, <1>8, <1>9, <1>10, <1>11 DEF Next, Relate, Unrelate

\* No interleaving of writers closes a ChildOf cycle, however long.
THEOREM ChildOfStaysAcyclic == Spec => []NoChildOfCycle
<1>1. Tree => NoChildOfCycle
  BY DEF Tree, Acyclic, NoChildOfCycle
<1>2. QED
  BY <1>1, TypedInit, TypedStep, TreeInit, TreeStep, PTL DEF Spec

-----------------------------------------------------------------------------
\* The index: what was inserted and not yet committed clashes with no committed
\* edge and with nothing inserted elsewhere.
Single ==
  /\ EvidenceIsSingle
  /\ \A w \in Worker : pc[w] = "inserted" => ~ Taken(edge[w])
  /\ \A v, w \in Worker :
       pc[v] = "inserted" /\ pc[w] = "inserted" /\ Clash(edge[v], edge[w]) => v = w

LEMMA SingleInit == Init => Single
  BY DEF Init, Single, EvidenceIsSingle

\* A request that only ends, or does not insert, adds nothing that may clash.
LEMMA SingleWithout ==
  ASSUME Single, NEW w \in Worker,
         \A id \in EdgeId : edges'[id] # NoEdge => edges'[id] = edges[id],
         \A v \in Worker \ {w} : pc'[v] = pc[v] /\ edge'[v] = edge[v],
         pc'[w] # "inserted"
  PROVE  Single'
  BY DEF Single, EvidenceIsSingle, Taken, Clash

LEMMA SingleStep == Typed /\ Single /\ [Next]_vars => Single'
<1> SUFFICES ASSUME Typed, Single, [Next]_vars PROVE Single'
  OBVIOUS
<1>1. ASSUME NEW w \in Worker, Finish(w), edges' = edges PROVE Single'
  BY <1>1, SingleWithout DEF Finish, Typed, TypeOK
<1>2. ASSUME NEW w \in Worker,
             BeginRelate(w) \/ LockChildOf(w) \/ BeginUnrelate(w) \/ Delete(w)
      PROVE  Single'
  <2>1. /\ edges' = edges
        /\ \A v \in Worker \ {w} : pc'[v] = pc[v] /\ edge'[v] = edge[v]
        /\ pc'[w] # "inserted"
    BY <1>2 DEF BeginRelate, LockChildOf, BeginUnrelate, Delete, Goto, Typed, TypeOK
  <2>2. QED
    BY <2>1, SingleWithout
<1>3. ASSUME NEW w \in Worker, CheckCycle(w) PROVE Single'
  <2>1. CASE Finish(w)
    BY <1>1, <1>3, <2>1 DEF CheckCycle
  <2>2. CASE ~ Finish(w)
    <3>1. /\ edges' = edges
          /\ \A v \in Worker \ {w} : pc'[v] = pc[v] /\ edge'[v] = edge[v]
          /\ pc'[w] # "inserted"
      BY <1>3, <2>2 DEF CheckCycle, Goto, Typed, TypeOK
    <3>2. QED
      BY <3>1, SingleWithout
  <2>3. QED
    BY <2>1, <2>2
<1>4. ASSUME NEW w \in Worker, Insert(w) PROVE Single'
  <2>1. CASE Finish(w)
    BY <1>1, <1>4, <2>1 DEF Insert
  <2>2. CASE ~ Finish(w)
    <3>1. /\ edges' = edges /\ edge' = edge
          /\ \A v \in Worker \ {w} : pc'[v] = pc[v]
          /\ ~ Taken(edge[w])
      BY <1>4, <2>2 DEF Insert, Goto, Typed, TypeOK
    <3>2. \A v \in Worker \ {w} : pc[v] = "inserted" => ~ Clash(edge[w], edge[v])
      BY <1>4 DEF Insert, IndexFree
    <3>3. QED
      BY <3>1, <3>2 DEF Single, EvidenceIsSingle, Taken, Clash
  <2>3. QED
    BY <2>1, <2>2
<1>5. ASSUME NEW w \in Worker, CommitRelate(w) PROVE Single'
  <2>1. /\ pc[w] = "inserted" /\ eid[w] \in EdgeId
        /\ \A id \in EdgeId : edges'[id] = IF id = eid[w] THEN edge[w] ELSE edges[id]
        /\ \A v \in Worker \ {w} : pc'[v] = pc[v] /\ edge'[v] = edge[v]
        /\ pc'[w] = "idle"
    BY <1>5 DEF CommitRelate, Finish, Typed, TypeOK, InFlight
  <2>2. \A id \in EdgeId : edges[id] # NoEdge => ~ Clash(edge[w], edges[id])
    BY <2>1 DEF Single, Taken
  <2>3. \A v \in Worker \ {w} : pc[v] = "inserted" => ~ Clash(edge[v], edge[w])
    BY <2>1 DEF Single
  <2>4. EvidenceIsSingle'
    BY <2>1, <2>2 DEF Single, EvidenceIsSingle, Clash
  <2>5. \A v \in Worker : pc'[v] = "inserted" => ~ Taken(edge[v])'
    BY <2>1, <2>3 DEF Single, Taken
  <2>6. QED
    BY <2>1, <2>4, <2>5 DEF Single
<1>6. ASSUME NEW w \in Worker, CommitUnrelate(w) PROVE Single'
  <2>1. /\ \A id \in EdgeId : edges'[id] # NoEdge => edges'[id] = edges[id]
        /\ \A v \in Worker \ {w} : pc'[v] = pc[v] /\ edge'[v] = edge[v]
        /\ pc'[w] = "idle"
    BY <1>6 DEF CommitUnrelate, Finish, Typed, TypeOK
  <2>2. QED
    BY <2>1, SingleWithout
<1>7. ASSUME NEW w \in Worker, Abort(w) PROVE Single'
  BY <1>1, <1>7 DEF Abort
<1>8. CASE UNCHANGED vars
  BY <1>8 DEF vars, Single, EvidenceIsSingle, Taken, Clash
<1>9. QED
  BY <1>2, <1>3, <1>4, <1>5, <1>6, <1>7, <1>8 DEF Next, Relate, Unrelate

\* However many requests insert at once, evidence is counted once.
THEOREM EvidenceStaysSingle == Spec => []EvidenceIsSingle
<1>1. Single => EvidenceIsSingle
  BY DEF Single
<1>2. QED
  BY <1>1, TypedInit, TypedStep, SingleInit, SingleStep, PTL DEF Spec

-----------------------------------------------------------------------------
\* The ids: a relate's id is its own and names nothing yet; what an unrelate
\* read is what the journal has of that edge, and nothing else takes its place.
OwnId(w) ==
  pc[w] \in RelateSteps =>
    /\ edges[eid[w]] = NoEdge
    /\ \A i \in 1..Len(journal) : journal[i].key # eid[w]
    /\ \A v \in Worker \ {w} : pc[v] # "idle" => eid[v] # eid[w]

ReadEdge(w) ==
  pc[w] \in UnrelateSteps =>
    /\ edges[eid[w]] \in {edge[w], NoEdge}
    /\ \E i \in 1..Len(journal) : journal[i].key = eid[w] /\ journal[i].after = edge[w]

Told == JournalTellsEdges /\ \A w \in Worker : OwnId(w) /\ ReadEdge(w)

LEMMA ToldInit == Init => Told
  BY DEF Init, Told, JournalTellsEdges, OwnId, ReadEdge, GoneInJournal, RelateSteps, UnrelateSteps

\* Steps that commit nothing.
LEMMA ToldWithout ==
  ASSUME Told, NEW w \in Worker, UNCHANGED <<edges, journal>>,
         \A v \in Worker \ {w} : pc'[v] = pc[v] /\ edge'[v] = edge[v] /\ eid'[v] = eid[v],
         pc'[w] # "idle" => \A v \in Worker \ {w} : pc[v] \in RelateSteps => eid'[w] # eid[v],
         OwnId(w)', ReadEdge(w)'
  PROVE  Told'
<1>1. JournalTellsEdges'
  BY DEF Told, JournalTellsEdges, StandsInJournal, GoneInJournal
<1>2. ASSUME NEW v \in Worker \ {w} PROVE OwnId(v)' /\ ReadEdge(v)'
  BY DEF Told, OwnId, ReadEdge
<1>3. QED
  BY <1>1, <1>2 DEF Told

\* Steps of a request that goes on with the edge and the id it has.
LEMMA ToldGoesOn ==
  ASSUME Typed, Told, NEW w \in Worker, NEW step, Goto(w, step), pc[w] # "idle",
         UNCHANGED <<edges, journal, edge, eid>>,
         \/ step \in RelateSteps /\ pc[w] \in RelateSteps
         \/ step \in UnrelateSteps /\ pc[w] \in UnrelateSteps
  PROVE  Told'
<1>1. \A v \in Worker : pc'[v] = IF v = w THEN step ELSE pc[v]
  BY DEF Goto, Typed, TypeOK
<1>2. OwnId(w)' /\ ReadEdge(w)'
  BY <1>1 DEF Told, OwnId, ReadEdge, RelateSteps, UnrelateSteps
<1>3. \A v \in Worker \ {w} : pc[v] \in RelateSteps => eid'[w] # eid[v]
  BY DEF Told, OwnId
<1>4. QED
  BY <1>1, <1>2, <1>3, ToldWithout

\* Steps that end a request and commit nothing.
LEMMA ToldEnds ==
  ASSUME Typed, Told, NEW w \in Worker, Finish(w), UNCHANGED <<edges, journal>>
  PROVE  Told'
<1>1. /\ pc'[w] = "idle"
      /\ \A v \in Worker \ {w} : pc'[v] = pc[v] /\ edge'[v] = edge[v] /\ eid'[v] = eid[v]
  BY DEF Finish, Typed, TypeOK
<1>2. OwnId(w)' /\ ReadEdge(w)'
  BY <1>1 DEF OwnId, ReadEdge, RelateSteps, UnrelateSteps
<1>3. QED
  BY <1>1, <1>2, ToldWithout

\* What a commit appends, and what it leaves as it was.
LEMMA Appended ==
  ASSUME Typed, NEW e \in Entry, journal' = Append(journal, e)
  PROVE  /\ Len(journal) \in Nat
         /\ Len(journal') = Len(journal) + 1
         /\ journal'[Len(journal) + 1] = e
         /\ \A i \in 1..Len(journal) : journal'[i] = journal[i]
  BY DEF Typed, TypeOK

LEMMA ToldByRelate ==
  ASSUME Typed, Told, NEW w \in Worker, CommitRelate(w)
  PROVE  Told'
<1> DEFINE e == [key |-> eid[w], before |-> NoEdge, after |-> edge[w]]
           n == Len(journal)
<1>0. PICK k \in EdgeId : k = eid[w]
  BY DEF CommitRelate, Typed, InFlight
<1>1. /\ edge[w] \in Edge /\ eid[w] \in EdgeId /\ edge[w] # NoEdge
      /\ edges[eid[w]] = NoEdge
      /\ \A i \in 1..n : journal[i].key # eid[w]
      /\ \A v \in Worker \ {w} : pc[v] # "idle" => eid[v] # eid[w]
  BY NoEdgeAssumption DEF CommitRelate, Typed, InFlight, Told, OwnId, RelateSteps
<1>2. /\ \A id \in EdgeId : edges'[id] = IF id = eid[w] THEN edge[w] ELSE edges[id]
      /\ \A v \in Worker \ {w} : pc'[v] = pc[v] /\ edge'[v] = edge[v] /\ eid'[v] = eid[v]
      /\ pc'[w] = "idle"
      /\ journal' = Append(journal, e)
  BY DEF CommitRelate, Finish, Typed, TypeOK
<1>3. e \in Entry /\ e.key = eid[w] /\ e.after = edge[w]
  BY <1>1 DEF Entry
<1> HIDE DEF e
<1>4. /\ n \in Nat /\ Len(journal') = n + 1 /\ journal'[n + 1] = e
      /\ \A i \in 1..n : journal'[i] = journal[i]
  BY <1>2, <1>3, Appended
<1>5. edges'[k] # NoEdge /\ StandsInJournal(k)'
  <2>1. \A i \in 1..(n + 1) : journal'[i].key = eid[w] => i = n + 1
    BY <1>1, <1>4
  <2>2. n + 1 \in 1..(n + 1)
    BY <1>4
  <2>3. QED
    BY <1>0, <1>1, <1>2, <1>3, <1>4, <2>1, <2>2 DEF StandsInJournal
<1>6. ASSUME NEW id \in EdgeId \ {k}
      PROVE  IF edges'[id] # NoEdge THEN StandsInJournal(id)' ELSE GoneInJournal(id)'
  <2>1. IF edges[id] # NoEdge THEN StandsInJournal(id) ELSE GoneInJournal(id)
    BY DEF Told, JournalTellsEdges
  <2>2. /\ edges'[id] = edges[id]
        /\ \A i \in 1..(n + 1) : journal'[i].key = id => i \in 1..n
        /\ \A i \in 1..n : i \in 1..(n + 1)
    BY <1>0, <1>2, <1>3, <1>4
  <2>3. QED
    BY <1>4, <2>1, <2>2 DEF StandsInJournal, GoneInJournal
<1>7. ASSUME NEW j \in 1..Len(journal'), journal'[j].after = NoEdge
      PROVE  \E i \in 1..(j-1) : /\ journal'[i].key = journal'[j].key
                                 /\ journal'[i].after = journal'[j].before
  <2>1. j \in 1..n
    BY <1>1, <1>3, <1>4, <1>7
  <2>2. PICK i \in 1..(j-1) : /\ journal[i].key = journal[j].key
                              /\ journal[i].after = journal[j].before
    BY <1>4, <1>7, <2>1 DEF Told, JournalTellsEdges
  <2>3. i \in 1..n
    BY <1>4, <2>1
  <2>4. QED
    BY <1>4, <2>1, <2>2, <2>3
<1>8. ASSUME NEW v \in Worker PROVE OwnId(v)' /\ ReadEdge(v)'
  <2>1. CASE v = w
    BY <1>2, <2>1 DEF OwnId, ReadEdge, RelateSteps, UnrelateSteps
  <2>2. CASE v # w /\ pc[v] = "idle"
    BY <1>2, <2>2 DEF OwnId, ReadEdge, RelateSteps, UnrelateSteps
  <2>3. CASE v # w /\ pc[v] # "idle"
    <3>1. eid[v] \in EdgeId /\ eid[v] # eid[w] /\ edges'[eid[v]] = edges[eid[v]]
      BY <1>1, <1>2, <2>3 DEF Typed, InFlight
    <3>2. \A i \in 1..(n + 1) : journal'[i].key = eid[v] => i \in 1..n
      BY <1>3, <1>4, <3>1
    <3>3. \A i \in 1..n : i \in 1..(n + 1)
      BY <1>4
    <3>4. OwnId(v) /\ ReadEdge(v)
      BY DEF Told
    <3>5. OwnId(v)'
      BY <1>2, <1>4, <2>3, <3>1, <3>2, <3>4 DEF OwnId
    <3>6. ReadEdge(v)'
      BY <1>2, <1>4, <2>3, <3>1, <3>3, <3>4 DEF ReadEdge
    <3>7. QED
      BY <3>5, <3>6
  <2>4. QED
    BY <2>1, <2>2, <2>3
<1>9. JournalTellsEdges'
  <2>1. \A id \in EdgeId : IF edges'[id] # NoEdge THEN StandsInJournal(id)'
                                                 ELSE GoneInJournal(id)'
    BY <1>5, <1>6
  <2>2. QED
    BY <1>7, <2>1 DEF JournalTellsEdges
<1>10. QED
  BY <1>8, <1>9 DEF Told

LEMMA ToldByUnrelate ==
  ASSUME Typed, Told, NEW w \in Worker, CommitUnrelate(w)
  PROVE  Told'
<1> DEFINE e == [key |-> eid[w], before |-> edge[w], after |-> NoEdge]
           n == Len(journal)
<1>0. PICK k \in EdgeId : k = eid[w]
  BY DEF CommitUnrelate, Typed, InFlight
<1>1. /\ edge[w] \in Edge /\ edge[w] # NoEdge
      /\ \E i \in 1..n : journal[i].key = k /\ journal[i].after = edge[w]
      /\ \A v \in Worker \ {w} : pc[v] \in RelateSteps => eid[v] # k
  BY <1>0, NoEdgeAssumption
     DEF CommitUnrelate, Typed, InFlight, Told, OwnId, ReadEdge, UnrelateSteps
<1>2. /\ \A id \in EdgeId : edges'[id] = IF id = k THEN NoEdge ELSE edges[id]
      /\ \A v \in Worker \ {w} : pc'[v] = pc[v] /\ edge'[v] = edge[v] /\ eid'[v] = eid[v]
      /\ pc'[w] = "idle"
      /\ journal' = Append(journal, e)
  BY <1>0 DEF CommitUnrelate, Finish, Typed, TypeOK
<1>3. e \in Entry /\ e.key = k /\ e.before = edge[w] /\ e.after = NoEdge
  BY <1>0, <1>1 DEF Entry
<1> HIDE DEF e
<1>4. /\ n \in Nat /\ Len(journal') = n + 1 /\ journal'[n + 1] = e
      /\ \A i \in 1..n : journal'[i] = journal[i] /\ i \in 1..(n + 1)
      /\ n + 1 \in 1..(n + 1)
  BY <1>2, <1>3, Appended
<1>5. edges'[k] = NoEdge /\ GoneInJournal(k)'
  BY <1>2, <1>3, <1>4 DEF GoneInJournal
<1>6. ASSUME NEW id \in EdgeId \ {k}
      PROVE  IF edges'[id] # NoEdge THEN StandsInJournal(id)' ELSE GoneInJournal(id)'
  <2>1. IF edges[id] # NoEdge THEN StandsInJournal(id) ELSE GoneInJournal(id)
    BY DEF Told, JournalTellsEdges
  <2>2. /\ edges'[id] = edges[id]
        /\ \A i \in 1..(n + 1) : journal'[i].key = id => i \in 1..n
    BY <1>2, <1>3, <1>4
  <2>3. QED
    BY <1>4, <2>1, <2>2 DEF StandsInJournal, GoneInJournal
<1>7. ASSUME NEW j \in 1..Len(journal'), journal'[j].after = NoEdge
      PROVE  \E i \in 1..(j-1) : /\ journal'[i].key = journal'[j].key
                                 /\ journal'[i].after = journal'[j].before
  <2>1. CASE j \in 1..n
    <3>1. PICK i \in 1..(j-1) : /\ journal[i].key = journal[j].key
                                /\ journal[i].after = journal[j].before
      BY <1>4, <1>7, <2>1 DEF Told, JournalTellsEdges
    <3>2. i \in 1..n
      BY <1>4, <2>1
    <3>3. QED
      BY <1>4, <2>1, <3>1, <3>2
  <2>2. CASE j = n + 1
    <3>1. PICK i \in 1..n : journal[i].key = k /\ journal[i].after = edge[w]
      BY <1>1
    <3>2. i \in 1..(j-1)
      BY <1>4, <2>2
    <3>3. QED
      BY <1>3, <1>4, <2>2, <3>1, <3>2
  <2>3. QED
    BY <1>4, <1>7, <2>1, <2>2
<1>8. ASSUME NEW v \in Worker PROVE OwnId(v)' /\ ReadEdge(v)'
  <2>1. CASE v = w
    BY <1>2, <2>1 DEF OwnId, ReadEdge, RelateSteps, UnrelateSteps
  <2>2. CASE v # w /\ pc[v] = "idle"
    BY <1>2, <2>2 DEF OwnId, ReadEdge, RelateSteps, UnrelateSteps
  <2>3. CASE v # w /\ pc[v] # "idle"
    <3>1. eid[v] \in EdgeId /\ edges'[eid[v]] = IF eid[v] = k THEN NoEdge ELSE edges[eid[v]]
      BY <1>2, <2>3 DEF Typed, InFlight
    <3>2. eid[v] # k => \A i \in 1..(n + 1) : journal'[i].key = eid[v] => i \in 1..n
      BY <1>3, <1>4
    <3>3. OwnId(v) /\ ReadEdge(v)
      BY DEF Told
    <3>4. ASSUME pc[v] \in RelateSteps
          PROVE  /\ edges'[eid[v]] = NoEdge
                 /\ \A i \in 1..(n + 1) : journal'[i].key # eid[v]
                 /\ \A u \in Worker \ {v} : pc'[u] # "idle" => eid'[u] # eid[v]
      <4>1. eid[v] # k /\ OwnId(v)
        BY <1>1, <2>3, <3>3, <3>4
      <4>2. QED
        BY <1>2, <1>4, <3>1, <3>2, <3>4, <4>1 DEF OwnId
    <3>6. OwnId(v)'
      BY <1>2, <1>4, <2>3, <3>4 DEF OwnId
    <3>5. ReadEdge(v)'
      BY <1>2, <1>4, <2>3, <3>1, <3>3 DEF ReadEdge
    <3>7. QED
      BY <3>5, <3>6
  <2>4. QED
    BY <2>1, <2>2, <2>3
<1>9. JournalTellsEdges'
  <2>1. \A id \in EdgeId : IF edges'[id] # NoEdge THEN StandsInJournal(id)'
                                                 ELSE GoneInJournal(id)'
    BY <1>5, <1>6
  <2>2. QED
    BY <1>7, <2>1 DEF JournalTellsEdges
<1>10. QED
  BY <1>8, <1>9 DEF Told

LEMMA ToldStep == Typed /\ Told /\ [Next]_vars => Told'
<1> SUFFICES ASSUME Typed, Told, [Next]_vars PROVE Told'
  OBVIOUS
<1>1. ASSUME NEW w \in Worker, BeginRelate(w) PROVE Told'
  <2>1. PICK id \in EdgeId : /\ Fresh(id) /\ edges' = edges /\ journal' = journal
                             /\ eid'[w] = id /\ pc'[w] \in RelateSteps
    BY <1>1 DEF BeginRelate, Goto, Typed, TypeOK, RelateSteps
  <2>2. \A v \in Worker \ {w} : pc'[v] = pc[v] /\ edge'[v] = edge[v] /\ eid'[v] = eid[v]
    BY <1>1 DEF BeginRelate, Goto, Typed, TypeOK
  <2>3. edges[id] = NoEdge
    BY <2>1 DEF Fresh, Told, JournalTellsEdges, StandsInJournal
  <2>4. OwnId(w)' /\ ReadEdge(w)'
    BY <2>1, <2>2, <2>3 DEF OwnId, ReadEdge, Fresh, RelateSteps, UnrelateSteps
  <2>5. QED
    BY <2>1, <2>2, <2>4, ToldWithout DEF Fresh
<1>2. ASSUME NEW w \in Worker, BeginUnrelate(w) PROVE Told'
  <2>1. PICK id \in EdgeId : /\ edges[id] # NoEdge /\ edges' = edges /\ journal' = journal
                             /\ eid'[w] = id /\ edge'[w] = edges[id] /\ pc'[w] = "deleting"
    BY <1>2 DEF BeginUnrelate, Goto, Typed, TypeOK
  <2>2. \A v \in Worker \ {w} : pc'[v] = pc[v] /\ edge'[v] = edge[v] /\ eid'[v] = eid[v]
    BY <1>2 DEF BeginUnrelate, Goto, Typed, TypeOK
  <2>3. StandsInJournal(id)
    BY <2>1 DEF Told, JournalTellsEdges
  <2>4. OwnId(w)' /\ ReadEdge(w)'
    BY <2>1, <2>3 DEF OwnId, ReadEdge, StandsInJournal, RelateSteps
  <2>5. \A v \in Worker \ {w} : pc[v] \in RelateSteps => eid'[w] # eid[v]
    BY <2>1 DEF Told, OwnId
  <2>6. QED
    BY <2>1, <2>2, <2>4, <2>5, ToldWithout
<1>3. ASSUME NEW w \in Worker, LockChildOf(w) \/ CheckCycle(w) \/ Insert(w) \/ Delete(w) PROVE Told'
  <2>1. CASE Finish(w) /\ UNCHANGED <<edges, journal>>
    BY <2>1, ToldEnds
  <2>2. CASE ~ (Finish(w) /\ UNCHANGED <<edges, journal>>)
    <3>1. UNCHANGED <<edges, journal, edge, eid>>
      BY <1>3, <2>2 DEF LockChildOf, CheckCycle, Insert, Delete
    <3>2. \/ Goto(w, "checking") /\ pc[w] = "locking"
          \/ Goto(w, "inserting") /\ pc[w] = "checking"
          \/ Goto(w, "inserted") /\ pc[w] = "inserting"
          \/ Goto(w, "deleted") /\ pc[w] = "deleting"
      BY <1>3, <2>2 DEF LockChildOf, CheckCycle, Insert, Delete
    <3>3. PICK step \in RelateSteps \cup UnrelateSteps :
            /\ Goto(w, step) /\ pc[w] # "idle"
            /\ \/ step \in RelateSteps /\ pc[w] \in RelateSteps
               \/ step \in UnrelateSteps /\ pc[w] \in UnrelateSteps
      BY <3>2 DEF RelateSteps, UnrelateSteps
    <3>4. QED
      BY <3>1, <3>3, ToldGoesOn DEF Goto
  <2>3. QED
    BY <2>1, <2>2
<1>4. ASSUME NEW w \in Worker, Abort(w) PROVE Told'
  BY <1>4, ToldEnds DEF Abort
<1>5. CASE UNCHANGED vars
  BY <1>5 DEF vars, Told, JournalTellsEdges, StandsInJournal, GoneInJournal, OwnId, ReadEdge
<1>6. QED
  BY <1>1, <1>2, <1>3, <1>4, <1>5, ToldByRelate, ToldByUnrelate DEF Next, Relate, Unrelate

\* The journal tells the edges.
THEOREM JournalTellsTheEdges == Spec => []JournalTellsEdges
<1>1. Told => JournalTellsEdges
  BY DEF Told
<1>2. QED
  BY <1>1, TypedInit, TypedStep, ToldInit, ToldStep, PTL DEF Spec

\* A step that changes an edge is one change of the journalled store.
LEMMA StepIsJournalled ==
  Typed /\ Told /\ [Next]_vars => [edges' # edges => Ledger!Next]_vars
<1> SUFFICES ASSUME Typed, Told, Next, edges' # edges PROVE Ledger!Next
  OBVIOUS
<1>1. ASSUME NEW w \in Worker, NEW e \in Entry,
             e.before = edges[e.key],
             edges' = [edges EXCEPT ![e.key] = e.after],
             journal' = Append(journal, e)
      PROVE  Ledger!Next
  <2>1. Len(journal') = Len(journal) + 1 /\ journal'[Len(journal')] = e
    BY <1>1, Appended
  <2>2. Ledger!Change(e)
    BY <1>1 DEF Ledger!Change, Ledger!Value, Entry
  <2>3. QED
    BY <2>1, <2>2 DEF Ledger!Next
<1>2. ASSUME NEW w \in Worker, CommitRelate(w) PROVE Ledger!Next
  <2> DEFINE e == [key |-> eid[w], before |-> NoEdge, after |-> edge[w]]
  <2>1. edge[w] \in Edge /\ eid[w] \in EdgeId /\ edges[eid[w]] = NoEdge
    BY <1>2 DEF CommitRelate, Typed, InFlight, Told, OwnId, RelateSteps
  <2>2. e \in Entry /\ e.before = edges[e.key]
    BY <2>1 DEF Entry
  <2>3. QED
    BY <1>1, <1>2, <2>2 DEF CommitRelate
<1>3. ASSUME NEW w \in Worker, CommitUnrelate(w) PROVE Ledger!Next
  <2> DEFINE e == [key |-> eid[w], before |-> edge[w], after |-> NoEdge]
  <2>1. edge[w] \in Edge /\ eid[w] \in EdgeId /\ edges[eid[w]] \in {edge[w], NoEdge}
    BY <1>3 DEF CommitUnrelate, Typed, InFlight, Told, ReadEdge, UnrelateSteps
  <2>2. edges' = [edges EXCEPT ![eid[w]] = NoEdge]
    BY <1>3 DEF CommitUnrelate
  <2>3. edges[eid[w]] = edge[w]
    BY <2>1, <2>2 DEF Typed, TypeOK
  <2>4. e \in Entry /\ e.before = edges[e.key]
    BY <2>1, <2>3 DEF Entry
  <2>5. QED
    BY <1>1, <1>3, <2>4 DEF CommitUnrelate
<1>4. ASSUME NEW w \in Worker,
             BeginRelate(w) \/ LockChildOf(w) \/ CheckCycle(w) \/ Insert(w)
               \/ BeginUnrelate(w) \/ Delete(w) \/ Abort(w)
      PROVE  edges' = edges
  BY <1>4 DEF BeginRelate, LockChildOf, CheckCycle, Insert, BeginUnrelate, Delete, Abort
<1>5. QED
  BY <1>2, <1>3, <1>4 DEF Next, Relate, Unrelate

\* No edge comes or goes without its entry in the same transaction.
THEOREM EdgeChangesAreJournalled == Spec => ChangesAreJournalled
  BY TypedInit, TypedStep, ToldInit, ToldStep, StepIsJournalled, PTL
     DEF Spec, ChangesAreJournalled

=============================================================================
