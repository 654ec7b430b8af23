----------------------------- MODULE EdgeWrites -----------------------------
(***************************************************************************)
(* The writes of relationships in backend/service.py: relate, with the     *)
(* advisory lock and the walk that keep ChildOf free of cycles and the     *)
(* partial unique index that keeps EvidenceFor edges single, and unrelate. *)
(* Each request has a session of its own under READ COMMITTED: a statement *)
(* sees what is committed when it starts, and its own transaction's work.  *)
(***************************************************************************)
EXTENDS Naturals, Sequences

CONSTANTS Worker,   \* requests in flight
          Thing,    \* the Things that exist; Things are never deleted
          EdgeId,   \* the ids edges may have: the bound on edges ever written
          Type,     \* the types related: "ChildOf", "EvidenceFor", any other
          NoEdge,   \* an edge that is not there
          None      \* a value not given

VARIABLES edges,    \* committed relationships
          journal,  \* committed entries of type relationship, in commit order
          pc,       \* where each request stands
          edge,     \* the edge each request writes, or read and will delete
          eid       \* that edge's id

vars == <<edges, journal, pc, edge, eid>>

\* RelationshipRecord: nothing constrains the types other than the two named here.
Edge == [source : Thing, target : Thing, type : Type]

Entry == [key : EdgeId, before : Edge \cup {NoEdge}, after : Edge \cup {NoEdge}]

ASSUME NoEdgeAssumption == NoEdge \notin Edge

Init == /\ edges = [id \in EdgeId |-> NoEdge]
        /\ journal = << >>
        /\ pc = [w \in Worker |-> "idle"]
        /\ edge = [w \in Worker |-> NoEdge]
        /\ eid = [w \in Worker |-> None]

-----------------------------------------------------------------------------
\* The operators named ...Mutant are each a bug the definition after them could
\* have had; nothing uses them but the mutation runs PROJECT.json lists.

Finish(w) == /\ pc' = [pc EXCEPT ![w] = "idle"]
             /\ edge' = [edge EXCEPT ![w] = NoEdge]
             /\ eid' = [eid EXCEPT ![w] = None]

Goto(w, step) == pc' = [pc EXCEPT ![w] = step]

\* uuid4: an id no request and no entry has named.
Fresh(id) == /\ \A v \in Worker : eid[v] # id
             /\ \A i \in 1..Len(journal) : journal[i].key # id

\* The lock is released before the edge it protects is committed.
HoldsChildOfLockMutant(w) == pc[w] = "checking"

\* pg_advisory_xact_lock: held from the statement that took it to the end of
\* the transaction.
HoldsChildOfLock(w) == /\ pc[w] \in {"checking", "inserting", "inserted"}
                       /\ edge[w].type = "ChildOf"

ChildOfPairs == {<<edges[id].source, edges[id].target>> :
                   id \in {i \in EdgeId : edges[i] # NoEdge /\ edges[i].type = "ChildOf"}}

Closed(S, pairs) == \A p \in pairs : p[1] \in S => p[2] \in S

\* The walk _CHILD_OF_REACHES makes: goal is in the least set that holds start
\* and every child of what it holds.
Reaches(pairs, start, goal) ==
  \A S \in SUBSET Thing : start \in S /\ Closed(S, pairs) => goal \in S

ClosesCycle(w) == Reaches(ChildOfPairs, edge[w].target, edge[w].source)

\* EVIDENCE_FOR_UNIQUE_INDEX: the pairs of edges it does not let stand together.
Clash(e, f) == e.type = "EvidenceFor" /\ e = f

\* The index is not there.
TakenMutant(e) == FALSE

Taken(e) == \E id \in EdgeId : edges[id] # NoEdge /\ Clash(e, edges[id])

\* Two inserts of one pair each wait for the other.
IndexFreeMutant(w) ==
  \A v \in Worker \ {w} : ~ (pc[v] \in {"inserting", "inserted"} /\ Clash(edge[w], edge[v]))

\* An insert waits while another transaction has inserted, or is deleting, an
\* edge it would clash with: whether it clashes is known when that one ends.
IndexFree(w) ==
  \A v \in Worker \ {w} :
    ~ /\ pc[v] \in {"inserted", "deleted"}
      /\ Clash(edge[w], edge[v])
      /\ pc[v] = "deleted" => edges[eid[v]] # NoEdge

-----------------------------------------------------------------------------
\* relate: an edge from a Thing to itself is refused before any statement, and
\* so is an EvidenceFor edge whose source carries a tag of Reli's own; a refused
\* request writes nothing and is not a step of the model.
BeginRelate(w) ==
  /\ pc[w] = "idle"
  /\ \E e \in Edge, id \in EdgeId :
       /\ e.source # e.target
       /\ Fresh(id)
       /\ edge' = [edge EXCEPT ![w] = e]
       /\ eid' = [eid EXCEPT ![w] = id]
       /\ Goto(w, IF e.type = "ChildOf" THEN "locking" ELSE "inserting")
  /\ UNCHANGED <<edges, journal>>

\* _LOCK_CHILD_OF_WRITES.
LockChildOf(w) ==
  /\ pc[w] = "locking"
  /\ \A v \in Worker \ {w} : ~ HoldsChildOfLock(v)
  /\ Goto(w, "checking")
  /\ UNCHANGED <<edges, journal, edge, eid>>

\* The walk is a statement of its own, after the lock: it sees every ChildOf
\* edge committed before the lock was got.
CheckCycle(w) ==
  /\ pc[w] = "checking"
  /\ \/ /\ ClosesCycle(w)
        /\ Finish(w)
     \/ /\ ~ ClosesCycle(w)
        /\ Goto(w, "inserting")
        /\ UNCHANGED <<edge, eid>>
  /\ UNCHANGED <<edges, journal>>

\* The INSERT is flushed, or the index refuses it and the session rolls back;
\* the lookup that then names the edge that stands reads only.
Insert(w) ==
  /\ pc[w] = "inserting"
  /\ IndexFree(w)
  /\ \/ /\ Taken(edge[w])
        /\ Finish(w)
     \/ /\ ~ Taken(edge[w])
        /\ Goto(w, "inserted")
        /\ UNCHANGED <<edge, eid>>
  /\ UNCHANGED <<edges, journal>>

\* The edge is committed with nothing in the journal.
CommitRelateMutant(w) ==
  /\ pc[w] = "inserted"
  /\ edges' = [edges EXCEPT ![eid[w]] = edge[w]]
  /\ Finish(w)
  /\ UNCHANGED journal

\* COMMIT of a relate: the edge and its entry become visible, the lock is free.
CommitRelate(w) ==
  /\ pc[w] = "inserted"
  /\ edges' = [edges EXCEPT ![eid[w]] = edge[w]]
  /\ journal' = Append(journal, [key |-> eid[w], before |-> NoEdge, after |-> edge[w]])
  /\ Finish(w)

\* unrelate: session.get reads the edge, or answers ThingNotFound.
BeginUnrelate(w) ==
  /\ pc[w] = "idle"
  /\ \E id \in EdgeId :
       /\ edges[id] # NoEdge
       /\ edge' = [edge EXCEPT ![w] = edges[id]]
       /\ eid' = [eid EXCEPT ![w] = id]
  /\ Goto(w, "deleting")
  /\ UNCHANGED <<edges, journal>>

\* The DELETE waits for another transaction's DELETE of the row.  Once that one
\* has committed it finds no row, which SQLAlchemy only warns of.
Delete(w) ==
  /\ pc[w] = "deleting"
  /\ edges[eid[w]] # NoEdge =>
       \A v \in Worker \ {w} : ~ (pc[v] = "deleted" /\ eid[v] = eid[w])
  /\ Goto(w, "deleted")
  /\ UNCHANGED <<edges, journal, edge, eid>>

\* COMMIT of an unrelate: the edge is gone, its snapshot is in the journal.
CommitUnrelate(w) ==
  /\ pc[w] = "deleted"
  /\ edges' = [edges EXCEPT ![eid[w]] = NoEdge]
  /\ journal' = Append(journal, [key |-> eid[w], before |-> edge[w], after |-> NoEdge])
  /\ Finish(w)

\* The request dies, or statement_timeout cancels its wait.
Abort(w) ==
  /\ pc[w] # "idle"
  /\ Finish(w)
  /\ UNCHANGED <<edges, journal>>

Relate(w) == LockChildOf(w) \/ CheckCycle(w) \/ Insert(w) \/ CommitRelate(w)

Unrelate(w) == Delete(w) \/ CommitUnrelate(w)

Next == \E w \in Worker : \/ BeginRelate(w) \/ Relate(w)
                          \/ BeginUnrelate(w) \/ Unrelate(w)
                          \/ Abort(w)

Spec == Init /\ [][Next]_vars

\* A request's own statements run when its thread does; a lock that keeps coming
\* free is got in the end, for Postgres queues its waiters.
Fairness == \A w \in Worker :
  /\ WF_vars(CheckCycle(w) \/ CommitRelate(w) \/ CommitUnrelate(w))
  /\ SF_vars(LockChildOf(w))
  /\ SF_vars(Insert(w))
  /\ SF_vars(Delete(w))

FairSpec == Spec /\ Fairness

-----------------------------------------------------------------------------
\* Type correctness: what each variable of the write path may hold.
TypeOK ==
  /\ edges \in [EdgeId -> Edge \cup {NoEdge}]
  /\ journal \in Seq(Entry)
  /\ pc \in [Worker -> {"idle", "locking", "checking", "inserting", "inserted",
                        "deleting", "deleted"}]
  /\ edge \in [Worker -> Edge \cup {NoEdge}]
  /\ eid \in [Worker -> EdgeId \cup {None}]

\* No Thing is its own ancestor (service._check_edge): whatever ChildOf edges are
\* written at once, none of them closes a cycle with the others.
NoChildOfCycle == \A p \in ChildOfPairs : ~ Reaches(ChildOfPairs, p[2], p[1])

\* Strength counts each piece of evidence once (EVIDENCE_FOR_UNIQUE_INDEX): no two
\* EvidenceFor edges join the same Things the same way.
EvidenceIsSingle ==
  \A i, j \in EdgeId :
    i # j /\ edges[i] # NoEdge /\ edges[j] # NoEdge => ~ Clash(edges[i], edges[j])

\* The entries of an edge that stands all show it as it stands; those of one that
\* does not, if any, show it removed.
StandsInJournal(id) ==
  /\ \E i \in 1..Len(journal) : journal[i].key = id
  /\ \A i \in 1..Len(journal) : journal[i].key = id => journal[i].after = edges[id]

GoneInJournal(id) ==
  (\E i \in 1..Len(journal) : journal[i].key = id)
    => \E i \in 1..Len(journal) : journal[i].key = id /\ journal[i].after = NoEdge

\* The journal tells which edges stand and what the removed ones were
\* (service._insert_relationship, _delete_relationship): an edge stands exactly
\* when it has a relate entry and no unrelate entry, and an unrelate entry shows
\* the edge as an earlier entry related it.
JournalTellsEdges ==
  /\ \A id \in EdgeId : IF edges[id] # NoEdge THEN StandsInJournal(id) ELSE GoneInJournal(id)
  /\ \A j \in 1..Len(journal) : journal[j].after = NoEdge =>
       \E i \in 1..(j-1) : /\ journal[i].key = journal[j].key
                           /\ journal[i].after = journal[j].before

Ledger == INSTANCE JournalledStore
            WITH Key <- EdgeId, Row <- Edge, NoRow <- NoEdge, rows <- edges, log <- journal

\* Nothing happens to an edge that the journal does not record in the same
\* transaction (service.py's module docstring).
ChangesAreJournalled == [][edges' # edges => Ledger!Next]_vars

\* The journal records nothing that did not happen: one entry per unrelate
\* (db_models.JournalRecord, "One append-only entry per mutation").
EntriesAreChanges == [][journal' # journal => edges' # edges]_vars

\* Every request ends: the waits for the lock, the index and the row do not close
\* a circle, and none of them lasts for ever.
RequestsEnd == \A w \in Worker : pc[w] # "idle" ~> pc[w] = "idle"

=============================================================================
