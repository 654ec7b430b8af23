-------------------------- MODULE ThingWritesProofs --------------------------
(***************************************************************************)
(* ThingWrites for every number of requests, Things and tags.  The         *)
(* inductive invariant says what a row lock buys: while a request owns a   *)
(* row, the row it read is the row that stands, so what it wrote from that *)
(* read is written from the present.                                       *)
(***************************************************************************)
EXTENDS ThingWrites, TLAPS

Busy(w) == pc[w] \in {"locked", "written", "journalled"}

\* A request holds arguments exactly while it runs, and rows as far as it got.
InFlight(w) ==
  /\ pc[w] # "idle" => req[w] \in Request
  /\ pc[w] \in {"idle", "locking"} => base[w] = NoRow
  /\ pc[w] = "locked" => base[w] \in Row
  /\ pc[w] \in {"written", "journalled"} => row[w] \in Row
  /\ pc[w] = "journalled" => entryId[w] < nextId

\* A row has one owner.
Mutex == \A v, w \in Worker, t \in Thing : Owns(v, t) /\ Owns(w, t) => v = w

\* The owner's copy is the row as it stands.
BaseStands == \A w \in Worker : Busy(w) => base[w] = things[req[w].thing]

\* Ids are drawn upwards, and an owner's is above every id of its Thing.
IdsDrawn == /\ \A i \in 1..Len(journal) : journal[i].id < nextId
            /\ \A w \in Worker : pc[w] = "journalled" =>
                 \A i \in 1..Len(journal) :
                   journal[i].key = req[w].thing => journal[i].id < entryId[w]

Locks == Mutex /\ BaseStands /\ IdsDrawn /\ HistoryInIdOrder

-----------------------------------------------------------------------------
\* The write a request flushes is a row.
LEMMA ReplacedIsRow ==
  ASSUME TypeOK, NEW w \in Worker, base[w] \in Row, req[w] \in Request
  PROVE  Replaced(w) \in Row
<1>1. TagsWritten(w) \in (SUBSET Tag) \cup {None}
  BY TagAssumption DEF TagsWritten, Row, Request
<1>2. /\ base[w].tags \in SUBSET Tag
      /\ base[w].active \in BOOLEAN
      /\ base[w].dated \in BOOLEAN
      /\ base[w].updatedAt \in Nat
  BY DEF Row
<1>3. req[w].active \in BOOLEAN \cup {None} /\ req[w].dated \in BOOLEAN
  BY DEF Request
<1>4. Later(base[w].updatedAt) \in Nat
  BY <1>2 DEF Later
<1>5. (base[w].dated \/ req[w].dated) \in BOOLEAN
  OBVIOUS
<1>6. (IF TagsWritten(w) = None THEN base[w].tags ELSE TagsWritten(w)) \in SUBSET Tag
  BY <1>1, <1>2
<1>7. (IF req[w].active = None THEN base[w].active ELSE req[w].active) \in BOOLEAN
  BY <1>2, <1>3
<1>8. QED
  BY <1>4, <1>5, <1>6, <1>7 DEF Replaced, Row

LEMMA CaptureIsRow ==
  ASSUME NEW tags \in SUBSET Tag, NEW dated \in BOOLEAN, NEW active \in BOOLEAN
  PROVE  Capture(tags, dated, active) \in Row
  BY TagAssumption DEF Capture, Row

Typed == TypeOK /\ \A w \in Worker : InFlight(w)

LEMMA TypedInit == Init => Typed
  BY DEF Init, Typed, TypeOK, InFlight, Row, Entry, Request

LEMMA TypedStep == Typed /\ [Next]_vars => Typed'
<1> SUFFICES ASSUME Typed, [Next]_vars PROVE Typed'
  OBVIOUS
<1> USE DEF Typed
<1>1. ASSUME NEW w \in Worker, NEW t \in Thing, ReadThing(w, t) PROVE Typed'
  BY <1>1 DEF ReadThing, MayBegin, TypeOK, InFlight
<1>2. ASSUME NEW w \in Worker, CreateThing(w) PROVE Typed'
  <2>1. PICK t \in Thing, tags \in TagChoice, dated, active \in BOOLEAN :
          /\ things[t] = NoRow
          /\ RowFree(w, t)
          /\ req' = [req EXCEPT ![w] =
                       [kind |-> "create", thing |-> t, tags |-> tags, active |-> active,
                        dated |-> dated, expected |-> None]]
          /\ row' = [row EXCEPT ![w] = Capture(tags, dated, active)]
    BY <1>2, Zenon DEF CreateThing
  <2>2. Capture(tags, dated, active) \in Row
    BY CaptureIsRow, TagAssumption
  <2>3. [kind |-> "create", thing |-> t, tags |-> tags, active |-> active,
         dated |-> dated, expected |-> None] \in Request
    BY TagAssumption DEF Request
  <2>4. QED
    BY <1>2, <2>1, <2>2, <2>3 DEF CreateThing, MayBegin, TypeOK, InFlight
<1>3. ASSUME NEW w \in Worker, BeginUpdate(w) PROVE Typed'
  <2>1. \E r \in Request : req' = [req EXCEPT ![w] = r]
    <3>1. PICK t \in Thing, active \in BOOLEAN \cup {None}, dated \in BOOLEAN :
            \/ \E tags \in TagChoice \cup {None} :
                 req' = [req EXCEPT ![w] =
                           [kind |-> "update", thing |-> t, tags |-> tags, active |-> active,
                            dated |-> dated, expected |-> None]]
            \/ /\ seen[w] # None
               /\ seen[w].thing = t
               /\ \E more \in TagChoice :
                    req' = [req EXCEPT ![w] =
                              [kind |-> "update", thing |-> t,
                               tags |-> seen[w].row.tags \cup more, active |-> active,
                               dated |-> dated, expected |-> seen[w].row.updatedAt]]
      BY <1>3 DEF BeginUpdate
    <3>2. ASSUME NEW tags \in TagChoice \cup {None}
          PROVE  [kind |-> "update", thing |-> t, tags |-> tags, active |-> active,
                  dated |-> dated, expected |-> None] \in Request
      BY TagAssumption DEF Request
    <3>3. ASSUME seen[w] # None, NEW more \in TagChoice
          PROVE  [kind |-> "update", thing |-> t, tags |-> seen[w].row.tags \cup more,
                  active |-> active, dated |-> dated,
                  expected |-> seen[w].row.updatedAt] \in Request
      <4>1. seen[w] \in [thing : Thing, row : Row]
        BY <3>3 DEF TypeOK
      <4>2. seen[w].row.tags \in SUBSET Tag /\ seen[w].row.updatedAt \in Nat
        BY <4>1 DEF Row
      <4>3. QED
        BY <4>2, TagAssumption DEF Request
    <3>4. QED
      BY <3>1, <3>2, <3>3
  <2>2. QED
    BY <1>3, <2>1 DEF BeginUpdate, MayBegin, TypeOK, InFlight
<1>4. ASSUME NEW w \in Worker, BeginReject(w) PROVE Typed'
  <2>1. PICK t \in Thing :
          req' = [req EXCEPT ![w] =
                    [kind |-> "reject", thing |-> t, tags |-> None, active |-> None,
                     dated |-> FALSE, expected |-> None]]
    BY <1>4 DEF BeginReject
  <2>2. [kind |-> "reject", thing |-> t, tags |-> None, active |-> None,
         dated |-> FALSE, expected |-> None] \in Request
    BY DEF Request
  <2>3. QED
    BY <1>4, <2>1, <2>2 DEF BeginReject, MayBegin, TypeOK, InFlight
<1>5. ASSUME NEW w \in Worker, Finish(w), UNCHANGED <<things, journal, nextId>> PROVE Typed'
  BY <1>5 DEF Finish, TypeOK, InFlight
<1>6. ASSUME NEW w \in Worker, RequireThing(w) PROVE Typed'
  <2>1. req[w].thing \in Thing
    BY <1>6 DEF RequireThing, InFlight, Request, TypeOK
  <2>2. CASE things[req[w].thing] = NoRow
    BY <1>5, <1>6, <2>2 DEF RequireThing
  <2>3. CASE things[req[w].thing] # NoRow
    <3>1. things[req[w].thing] \in Row
      BY <2>1, <2>3 DEF TypeOK
    <3>2. /\ base' = [base EXCEPT ![w] = things[req[w].thing]]
          /\ pc' = [pc EXCEPT ![w] = "locked"]
          /\ UNCHANGED <<things, journal, nextId, seen, req, row, entryId>>
      BY <1>6, <2>3 DEF RequireThing
    <3>3. TypeOK'
      BY <3>1, <3>2 DEF TypeOK
    <3>4. pc[w] # "idle"
      BY <1>6 DEF RequireThing
    <3>5. ASSUME NEW v \in Worker PROVE InFlight(v)'
      BY <3>1, <3>2, <3>4 DEF TypeOK, InFlight
    <3>6. QED
      BY <3>3, <3>5
  <2>4. QED
    BY <2>2, <2>3
<1>7. ASSUME NEW w \in Worker, Refuse(w) PROVE Typed'
  BY <1>5, <1>7 DEF Refuse
<1>8. ASSUME NEW w \in Worker, WriteRow(w) PROVE Typed'
  <2>1. Replaced(w) \in Row
    BY <1>8, ReplacedIsRow DEF WriteRow, InFlight
  <2>2. QED
    BY <1>8, <2>1 DEF WriteRow, TypeOK, InFlight
<1>9. ASSUME NEW w \in Worker, DrawEntryId(w) PROVE Typed'
  BY <1>9 DEF DrawEntryId, TypeOK, InFlight
<1>10. ASSUME NEW w \in Worker, Commit(w) PROVE Typed'
  <2>1. /\ req[w] \in Request
        /\ req[w].thing \in Thing
        /\ row[w] \in Row
    BY <1>10 DEF Commit, InFlight, Request
  <2>2. [id |-> entryId[w], key |-> req[w].thing, before |-> base[w], after |-> row[w]] \in Entry
    BY <2>1 DEF Entry, TypeOK
  <2>3. journal' \in Seq(Entry) /\ things' \in [Thing -> Row \cup {NoRow}]
    BY <1>10, <2>1, <2>2 DEF Commit, TypeOK
  <2>4. QED
    BY <1>10, <2>3 DEF Commit, Finish, TypeOK, InFlight
<1>11. ASSUME NEW w \in Worker, Abort(w) PROVE Typed'
  BY <1>5, <1>11 DEF Abort
<1>12. CASE UNCHANGED vars
  BY <1>12 DEF vars, TypeOK, InFlight
<1>13. QED
  BY <1>1, <1>2, <1>3, <1>4, <1>6, <1>7, <1>8, <1>9, <1>10, <1>11, <1>12
     DEF Next, Begin, Step

\* Every variable keeps its type.
THEOREM TypeCorrect == Spec => []TypeOK
<1>1. Typed => TypeOK
  BY DEF Typed
<1>2. QED
  BY <1>1, TypedInit, TypedStep, PTL DEF Spec

-----------------------------------------------------------------------------
\* What stays true when only requests that own nothing, or give up, move.
LEMMA LocksGiveUp ==
  ASSUME Typed, Locks, NEW w \in Worker,
         UNCHANGED <<things, journal, nextId>>,
         pc' = [pc EXCEPT ![w] = pc'[w]],
         pc'[w] \in {"idle", "locking"},
         \A v \in Worker \ {w} : /\ req'[v] = req[v]
                                 /\ base'[v] = base[v]
                                 /\ entryId'[v] = entryId[v]
  PROVE  Locks'
<1>1. \A v \in Worker \ {w} : pc'[v] = pc[v]
  BY DEF Typed, TypeOK
<1>2. Mutex'
  BY <1>1 DEF Locks, Mutex, Owns
<1>3. BaseStands'
  BY <1>1 DEF Locks, BaseStands, Busy
<1>4. IdsDrawn' /\ HistoryInIdOrder'
  BY <1>1 DEF Locks, IdsDrawn, HistoryInIdOrder
<1>5. QED
  BY <1>2, <1>3, <1>4 DEF Locks

LEMMA LocksInit == Init => Locks
  BY DEF Init, Locks, Mutex, Owns, BaseStands, Busy, IdsDrawn, HistoryInIdOrder

LEMMA LocksStep == Typed /\ Locks /\ [Next]_vars => Locks'
<1> SUFFICES ASSUME Typed, Locks, [Next]_vars PROVE Locks'
  OBVIOUS
<1>1. ASSUME NEW w \in Worker, NEW t \in Thing, ReadThing(w, t) PROVE Locks'
  BY <1>1 DEF ReadThing, Locks, Mutex, Owns, BaseStands, Busy, IdsDrawn, HistoryInIdOrder
<1>2. ASSUME NEW w \in Worker, CreateThing(w) PROVE Locks'
  <2>1. PICK t \in Thing :
          /\ things[t] = NoRow
          /\ RowFree(w, t)
          /\ \E r : r.thing = t /\ req' = [req EXCEPT ![w] = r]
    <3>1. PICK t \in Thing, tags \in TagChoice, dated, active \in BOOLEAN :
            /\ things[t] = NoRow
            /\ RowFree(w, t)
            /\ req' = [req EXCEPT ![w] =
                         [kind |-> "create", thing |-> t, tags |-> tags, active |-> active,
                          dated |-> dated, expected |-> None]]
            /\ row' = [row EXCEPT ![w] = Capture(tags, dated, active)]
      BY <1>2, Zenon DEF CreateThing
    <3>2. QED
      BY <3>1
  <2>2. /\ req'[w].thing = t
        /\ \A v \in Worker \ {w} : req'[v] = req[v] /\ pc'[v] = pc[v]
        /\ pc'[w] = "written" /\ pc[w] = "idle"
        /\ UNCHANGED <<things, journal, nextId, base, entryId>>
    BY <1>2, <2>1 DEF CreateThing, MayBegin, Typed, TypeOK
  <2>3. Mutex'
    BY <2>1, <2>2 DEF Locks, Mutex, Owns, RowFree
  <2>4. BaseStands'
    BY <2>1, <2>2 DEF Locks, BaseStands, Busy, Typed, InFlight
  <2>5. IdsDrawn' /\ HistoryInIdOrder'
    BY <2>2 DEF Locks, IdsDrawn, HistoryInIdOrder
  <2>6. QED
    BY <2>3, <2>4, <2>5 DEF Locks
<1>3. ASSUME NEW w \in Worker, BeginUpdate(w) \/ BeginReject(w) PROVE Locks'
  <2>1. \E r : req' = [req EXCEPT ![w] = r]
    BY <1>3 DEF BeginUpdate, BeginReject
  <2>2. /\ UNCHANGED <<things, journal, nextId, base, entryId>>
        /\ pc' = [pc EXCEPT ![w] = "locking"]
        /\ pc'[w] = "locking"
        /\ \A v \in Worker \ {w} : req'[v] = req[v]
    BY <1>3, <2>1 DEF BeginUpdate, BeginReject, Typed, TypeOK
  <2>3. QED
    BY <2>2, LocksGiveUp
<1>4. ASSUME NEW w \in Worker, Finish(w), UNCHANGED <<things, journal, nextId>> PROVE Locks'
  <2>1. /\ pc' = [pc EXCEPT ![w] = pc'[w]]
        /\ pc'[w] = "idle"
        /\ \A v \in Worker \ {w} : /\ req'[v] = req[v]
                                   /\ base'[v] = base[v]
                                   /\ entryId'[v] = entryId[v]
    BY <1>4 DEF Finish, Typed, TypeOK
  <2>2. QED
    BY <1>4, <2>1, LocksGiveUp
<1>5. ASSUME NEW w \in Worker, RequireThing(w) PROVE Locks'
  <2>1. CASE things[req[w].thing] = NoRow
    BY <1>4, <1>5, <2>1 DEF RequireThing
  <2>2. CASE things[req[w].thing] # NoRow
    <3>1. /\ RowFree(w, req[w].thing)
          /\ base'[w] = things[req[w].thing]
          /\ pc'[w] = "locked"
          /\ \A v \in Worker \ {w} : pc'[v] = pc[v] /\ base'[v] = base[v]
          /\ UNCHANGED <<things, journal, nextId, req, entryId>>
      BY <1>5, <2>2 DEF RequireThing, Typed, TypeOK
    <3>2. Mutex'
      BY <3>1 DEF Locks, Mutex, Owns, RowFree
    <3>3. BaseStands'
      BY <3>1 DEF Locks, BaseStands, Busy
    <3>4. IdsDrawn' /\ HistoryInIdOrder'
      BY <3>1 DEF Locks, IdsDrawn, HistoryInIdOrder
    <3>5. QED
      BY <3>2, <3>3, <3>4 DEF Locks
  <2>3. QED
    BY <2>1, <2>2
<1>6. ASSUME NEW w \in Worker, Refuse(w) PROVE Locks'
  BY <1>4, <1>6 DEF Refuse
<1>7. ASSUME NEW w \in Worker, WriteRow(w) PROVE Locks'
  <2>1. /\ pc[w] = "locked" /\ pc'[w] = "written"
        /\ \A v \in Worker \ {w} : pc'[v] = pc[v]
        /\ UNCHANGED <<things, journal, nextId, req, base, entryId>>
    BY <1>7 DEF WriteRow, Typed, TypeOK
  <2>2. QED
    BY <2>1 DEF Locks, Mutex, Owns, BaseStands, Busy, IdsDrawn, HistoryInIdOrder
<1>8. ASSUME NEW w \in Worker, DrawEntryId(w) PROVE Locks'
  <2>1. /\ pc[w] = "written" /\ pc'[w] = "journalled"
        /\ entryId'[w] = nextId /\ nextId' = nextId + 1
        /\ \A v \in Worker \ {w} : pc'[v] = pc[v] /\ entryId'[v] = entryId[v]
        /\ UNCHANGED <<things, journal, req, base>>
    BY <1>8 DEF DrawEntryId, Typed, TypeOK
  <2>2. Mutex' /\ BaseStands'
    BY <2>1 DEF Locks, Mutex, Owns, BaseStands, Busy
  <2>3. \A i \in 1..Len(journal) : journal[i].id < nextId /\ journal[i].id \in Nat
    <3>1. \A i \in 1..Len(journal) : journal[i] \in Entry
      BY DEF Typed, TypeOK
    <3>2. QED
      BY <3>1 DEF Locks, IdsDrawn, Entry
  <2>4. \A i \in 1..Len(journal) : journal[i].id < nextId + 1
    <3>1. nextId \in Nat
      BY DEF Typed, TypeOK
    <3>2. QED
      BY <2>3, <3>1
  <2>5. ASSUME NEW v \in Worker, pc'[v] = "journalled", NEW i \in 1..Len(journal),
               journal[i].key = req[v].thing
        PROVE  journal[i].id < entryId'[v]
    BY <2>1, <2>3, <2>5 DEF Locks, IdsDrawn
  <2>6. IdsDrawn'
    BY <2>1, <2>4, <2>5 DEF IdsDrawn
  <2>7. HistoryInIdOrder'
    BY <2>1 DEF Locks, HistoryInIdOrder
  <2>8. QED
    BY <2>2, <2>6, <2>7 DEF Locks
<1>9. ASSUME NEW w \in Worker, Commit(w) PROVE Locks'
  <2> DEFINE t == req[w].thing
             e == [id |-> entryId[w], key |-> t, before |-> base[w], after |-> row[w]]
  <2>1. /\ pc[w] = "journalled" /\ pc'[w] = "idle"
        /\ \A v \in Worker \ {w} : /\ pc'[v] = pc[v] /\ entryId'[v] = entryId[v]
                                   /\ req'[v] = req[v] /\ base'[v] = base[v]
        /\ \A u \in Thing \ {t} : things'[u] = things[u]
        /\ journal' = Append(journal, e)
        /\ nextId' = nextId
    BY <1>9 DEF Commit, Finish, Typed, TypeOK
  <2>2. /\ req[w] \in Request /\ t \in Thing /\ entryId[w] < nextId
        /\ \A v \in Worker : pc[v] # "idle" => req[v].thing \in Thing
    BY <2>1 DEF Typed, InFlight, Request
  <2>3. \A v \in Worker \ {w} : Busy(v) => req[v].thing # t
    BY <2>1, <2>2 DEF Locks, Mutex, Owns, Busy
  <2>4. Mutex'
    BY <2>1 DEF Locks, Mutex, Owns
  <2>5. BaseStands'
    BY <2>1, <2>2, <2>3 DEF Locks, BaseStands, Busy
  <2>6. /\ Len(journal') = Len(journal) + 1
        /\ Len(journal) \in Nat
        /\ journal'[Len(journal) + 1] = e
        /\ \A i \in 1..Len(journal) : journal'[i] = journal[i]
    BY <2>1 DEF Typed, TypeOK
  <2>7. IdsDrawn'
    BY <2>1, <2>2, <2>3, <2>6 DEF Locks, IdsDrawn, Busy
  <2>8. HistoryInIdOrder'
    BY <2>1, <2>6 DEF Locks, IdsDrawn, HistoryInIdOrder
  <2>9. QED
    BY <2>4, <2>5, <2>7, <2>8 DEF Locks
<1>10. ASSUME NEW w \in Worker, Abort(w) PROVE Locks'
  BY <1>4, <1>10 DEF Abort
<1>11. CASE UNCHANGED vars
  BY <1>11 DEF vars, Locks, Mutex, Owns, BaseStands, Busy, IdsDrawn, HistoryInIdOrder
<1>12. QED
  BY <1>1, <1>2, <1>3, <1>5, <1>6, <1>7, <1>8, <1>9, <1>10, <1>11 DEF Next, Begin, Step

THEOREM LocksHold == Spec => [](Typed /\ Locks)
  BY TypedInit, TypedStep, LocksInit, LocksStep, PTL DEF Spec

\* journal_since lists each Thing's history in the order it happened.
THEOREM HistoryOrdered == Spec => []HistoryInIdOrder
<1>1. Locks => HistoryInIdOrder
  BY DEF Locks
<1>2. QED
  BY <1>1, LocksHold, PTL

\* A committed step is one mutation of the abstract store with its one entry.
LEMMA StepIsJournalled == Typed /\ Locks /\ [Next]_vars => [Ledger!Next]_(Ledger!vars)
<1> SUFFICES ASSUME Typed, Locks, [Next]_vars PROVE [Ledger!Next]_(Ledger!vars)
  OBVIOUS
<1>1. ASSUME NEW w \in Worker, Commit(w) PROVE Ledger!Next
  <2> DEFINE e == [id |-> entryId[w], key |-> req[w].thing,
                   before |-> base[w], after |-> row[w]]
  <2>1. /\ req[w].thing \in Thing /\ row[w] \in Row
        /\ base[w] = things[req[w].thing]
    BY <1>1 DEF Commit, Typed, InFlight, Request, Locks, BaseStands, Busy
  <2>2. e \in Entry
    BY <2>1 DEF Entry, Typed, TypeOK
  <2>3. /\ journal' = Append(journal, e)
        /\ things' = [things EXCEPT ![e.key] = e.after]
    BY <1>1 DEF Commit
  <2>4. Len(journal') = Len(journal) + 1 /\ journal'[Len(journal')] = e
    BY <2>2, <2>3 DEF Typed, TypeOK
  <2>5. Ledger!Change(e)
    BY <2>1, <2>2, <2>3 DEF Ledger!Change, Ledger!Value
  <2>6. QED
    BY <2>4, <2>5 DEF Ledger!Next
<1>2. CASE UNCHANGED vars
  BY <1>2 DEF vars, Ledger!vars
<1>3. ASSUME NEW w \in Worker, Begin(w) \/ Abort(w) \/ (Step(w) /\ ~ Commit(w))
      PROVE  UNCHANGED <<things, journal>>
  BY <1>3 DEF Begin, ReadThing, CreateThing, BeginUpdate, BeginReject, Abort, Step,
              RequireThing, Refuse, WriteRow, DrawEntryId
<1>4. QED
  BY <1>1, <1>2, <1>3 DEF Next, Ledger!vars

\* The write path implements the journalled store.
THEOREM ThingWritesImplementStore == Spec => WritesAreJournalled
<1>1. Init => Ledger!Init
  BY DEF Init, Ledger!Init
<1>2. QED
  BY <1>1, StepIsJournalled, LocksHold, PTL DEF Spec, WritesAreJournalled, Ledger!Spec

-----------------------------------------------------------------------------
\* The store's own types.
StoreTyped == things \in [Thing -> Row \cup {NoRow}] /\ journal \in Seq(Entry)

LEMMA StoreTypes == Ledger!Spec => []StoreTyped
<1>1. Ledger!Init => StoreTyped
  BY DEF Ledger!Init, StoreTyped, Ledger!Value
<1>2. StoreTyped /\ [Ledger!Next]_(Ledger!vars) => StoreTyped'
  BY SMTT(30) DEF StoreTyped, Ledger!Next, Ledger!Change, Ledger!vars, Ledger!Value
<1>3. QED
  BY <1>1, <1>2, PTL DEF Ledger!Spec

\* One change leaves every replay where it was, and adds its own.
LEMMA ChangeReplays ==
  ASSUME StoreTyped, Ledger!Replays, NEW e, Ledger!Change(e)
  PROVE  Ledger!Replays'
<1>0. PICK n \in Nat : n = Len(journal)
  BY DEF StoreTyped
<1>1. /\ Len(journal') = n + 1
      /\ journal'[n + 1] = e
      /\ \A i \in 1..n : journal'[i] = journal[i]
  BY <1>0, SMTT(30) DEF StoreTyped, Ledger!Change
<1>2. ASSUME NEW k, NEW m \in 0..n, NEW v, Ledger!Stands(k, m, v)
      PROVE  Ledger!Stands(k, m, v)'
  BY <1>1, <1>2, SMTT(30) DEF Ledger!Stands
<1>3. ASSUME NEW k \in Thing PROVE Ledger!Stands(k, n + 1, things[k])'
  <2>1. CASE k = e.key
    <3>1. things'[k] = e.after
      BY <2>1 DEF Ledger!Change, StoreTyped
    <3>2. \A j \in (n+2)..(n+1) : journal'[j].key # k
      BY <1>1
    <3>3. n + 1 \in 1..(n+1) /\ journal'[n+1].key = k /\ journal'[n+1].after = things'[k]
      BY <1>1, <2>1, <3>1
    <3>4. QED
      BY <1>1, <3>2, <3>3 DEF Ledger!Stands
  <2>2. CASE k # e.key
    <3>1. things'[k] = things[k]
      BY <2>2 DEF Ledger!Change, StoreTyped
    <3>2. Ledger!Stands(k, n, things[k])
      BY <1>0 DEF Ledger!Replays
    <3>3. journal'[n+1].key # k
      BY <1>1, <2>2
    <3>4. CASE (\A i \in 1..n : journal[i].key # k) /\ things[k] = NoRow
      <4>1. \A i \in 1..(n+1) : journal'[i].key # k
        BY <1>1, <3>3, <3>4
      <4>2. QED
        BY <3>1, <3>4, <4>1 DEF Ledger!Stands
    <3>5. ASSUME NEW i \in 1..n, journal[i].key = k, journal[i].after = things[k],
                 \A j \in (i+1)..n : journal[j].key # k
          PROVE  Ledger!Stands(k, n + 1, things[k])'
      <4>1. \A j \in (i+1)..(n+1) : journal'[j].key # k
        BY <1>1, <3>3, <3>5
      <4>2. i \in 1..(n+1) /\ journal'[i].key = k /\ journal'[i].after = things'[k]
        BY <1>1, <3>1, <3>5
      <4>3. QED
        BY <4>1, <4>2 DEF Ledger!Stands
    <3>6. QED
      BY <3>2, <3>4, <3>5 DEF Ledger!Stands
  <2>3. QED
    BY <2>1, <2>2
<1>4. ASSUME NEW m \in 1..(n+1)
      PROVE  Ledger!Stands(journal[m].key, m - 1, journal[m].before)'
  <2>1. CASE m \in 1..n
    <3>1. Ledger!Stands(journal[m].key, m - 1, journal[m].before)
      BY <1>0, <2>1 DEF Ledger!Replays
    <3>3. m - 1 \in 0..n
      BY <1>1, <2>1
    <3>4. journal'[m] = journal[m]
      BY <1>1, <2>1
    <3>5. QED
      BY <1>1, <2>1, <3>1, <3>3, <3>4 DEF Ledger!Stands
  <2>2. CASE m = n + 1
    <3>1. Ledger!Stands(e.key, n, things[e.key])
      BY <1>0 DEF Ledger!Replays, Ledger!Change
    <3>2. e.before = things[e.key]
      BY DEF Ledger!Change
    <3>3. QED
      BY <1>1, <2>2, <3>1, <3>2 DEF Ledger!Stands
  <2>3. QED
    BY <1>1, <2>1, <2>2
<1>5. QED
  BY <1>0, <1>1, <1>3, <1>4 DEF Ledger!Replays

\* Any journalled store's journal alone tells how the Things got where they are.
THEOREM StoreReplays == Ledger!Spec => []Ledger!Replays
<1>1. Ledger!Init => Ledger!Replays
  BY DEF Ledger!Init, Ledger!Replays, Ledger!Stands
<1>2. StoreTyped /\ Ledger!Replays /\ [Ledger!Next]_(Ledger!vars) => Ledger!Replays'
  <2> SUFFICES ASSUME StoreTyped, Ledger!Replays, [Ledger!Next]_(Ledger!vars) PROVE Ledger!Replays'
    OBVIOUS
  <2>1. CASE Ledger!Next
    BY <2>1, ChangeReplays DEF Ledger!Next
  <2>2. CASE UNCHANGED Ledger!vars
    BY <2>2 DEF Ledger!vars, Ledger!Replays, Ledger!Stands
  <2>3. QED
    BY <2>1, <2>2
<1>3. QED
  BY <1>1, <1>2, StoreTypes, PTL DEF Ledger!Spec

\* So replaying the journal gives the Things.
THEOREM JournalReplaysThings == Spec => []JournalTellsThings
<1>1. QED
  BY StoreReplays, ThingWritesImplementStore, PTL DEF WritesAreJournalled, JournalTellsThings

-----------------------------------------------------------------------------
\* What each kind of request carries.
Asked(w) == pc[w] # "idle" =>
  /\ pc[w] \in {"locking", "locked"} => req[w].kind # "create"
  /\ req[w].kind = "reject" => req[w].active = None /\ req[w].dated = FALSE
  /\ req[w].expected # None =>
       /\ req[w].kind = "update"
       /\ seen[w] # None
       /\ seen[w].thing = req[w].thing
       /\ seen[w].row.updatedAt = req[w].expected
       /\ seen[w].row.tags \subseteq req[w].tags

\* What a request has flushed passed the checks, against the row it still owns.
WroteAsChecked(w) == pc[w] \in {"written", "journalled"} =>
  \/ /\ req[w].kind = "create"
     /\ base[w] = NoRow
     /\ row[w] = Capture(req[w].tags, req[w].dated, req[w].active)
  \/ /\ req[w].kind # "create"
     /\ base[w] \in Row
     /\ row[w] = Replaced(w)
     /\ ~ NothingToReject(w)
     /\ ~ Stale(w)
     /\ HeartbeatKept(base[w], TagsWritten(w), req[w].active)

\* A row once read is the row that stands, or an earlier one.
SeenIsPast(w) == seen[w] # None =>
  /\ things[seen[w].thing] # NoRow
  /\ seen[w].row.updatedAt <= things[seen[w].thing].updatedAt
  /\ seen[w].row.updatedAt = things[seen[w].thing].updatedAt
       => seen[w].row = things[seen[w].thing]

Content == \A w \in Worker : Asked(w) /\ WroteAsChecked(w) /\ SeenIsPast(w)

LEMMA ContentInit == Init => Content
  BY Zenon DEF Init, Content, Asked, WroteAsChecked, SeenIsPast

\* A step of another request that commits nothing leaves what this one knows.
LEMMA ContentOfOthers ==
  ASSUME Content, NEW v \in Worker,
         things' = things, seen'[v] = seen[v], pc'[v] = pc[v], req'[v] = req[v],
         base'[v] = base[v], row'[v] = row[v]
  PROVE  (Asked(v) /\ WroteAsChecked(v) /\ SeenIsPast(v))'
<1>1. Asked(v)' /\ SeenIsPast(v)'
  BY DEF Content, Asked, SeenIsPast
<1>2. WroteAsChecked(v)'
  BY DEF Content, WroteAsChecked, NothingToReject, Stale, Replaced, TagsWritten
<1>3. QED
  BY <1>1, <1>2

\* The row a commit puts in place of another is newer by its stamp.
LEMMA CommitIsNewer ==
  ASSUME Typed, Locks, Content, NEW w \in Worker, Commit(w), things[req[w].thing] # NoRow
  PROVE  /\ req[w].kind # "create"
         /\ base[w] = things[req[w].thing]
         /\ things'[req[w].thing] = Replaced(w)
         /\ things'[req[w].thing].updatedAt = base[w].updatedAt + 1
<1>1. pc[w] = "journalled" /\ req[w].thing \in Thing
  BY DEF Commit, Typed, InFlight, Request
<1>2. base[w] = things[req[w].thing]
  BY <1>1 DEF Locks, BaseStands, Busy
<1>3. req[w].kind # "create" /\ row[w] = Replaced(w)
  BY <1>1, <1>2 DEF Content, WroteAsChecked
<1>4. things'[req[w].thing] = row[w]
  BY <1>1 DEF Commit, Typed, TypeOK
<1>5. QED
  BY <1>2, <1>3, <1>4 DEF Replaced, Later

LEMMA ContentStep == Typed /\ Locks /\ Content /\ [Next]_vars => Content'
<1> SUFFICES ASSUME Typed, Locks, Content, [Next]_vars PROVE Content'
  OBVIOUS
<1> DEFINE Known(w) == Asked(w) /\ WroteAsChecked(w) /\ SeenIsPast(w)
<1>1. ASSUME NEW w \in Worker, NEW t \in Thing, ReadThing(w, t) PROVE Content'
  <2>1. seen'[w] = [thing |-> t, row |-> things[t]] /\ pc'[w] = "idle" /\ things'[t] # NoRow
    BY <1>1 DEF ReadThing, MayBegin, Typed, TypeOK
  <2>2. things[t] \in Row /\ things[t].updatedAt \in Nat
    BY <1>1 DEF ReadThing, Typed, TypeOK, Row
  <2>3. Known(w)'
    BY <1>1, <2>1, <2>2 DEF ReadThing, Asked, WroteAsChecked, SeenIsPast
  <2>4. \A v \in Worker \ {w} : Known(v)'
    BY <1>1, ContentOfOthers DEF ReadThing, Typed, TypeOK
  <2>5. QED
    BY <2>3, <2>4 DEF Content
<1>2. ASSUME NEW w \in Worker, CreateThing(w) PROVE Content'
  <2>1. PICK t \in Thing, tags \in TagChoice, dated, active \in BOOLEAN :
          /\ things[t] = NoRow
          /\ RowFree(w, t)
          /\ req' = [req EXCEPT ![w] =
                       [kind |-> "create", thing |-> t, tags |-> tags, active |-> active,
                        dated |-> dated, expected |-> None]]
          /\ row' = [row EXCEPT ![w] = Capture(tags, dated, active)]
    BY <1>2, Zenon DEF CreateThing
  <2>2. /\ req'[w] = [kind |-> "create", thing |-> t, tags |-> tags, active |-> active,
                      dated |-> dated, expected |-> None]
        /\ row'[w] = Capture(tags, dated, active)
        /\ pc'[w] = "written" /\ base'[w] = NoRow
        /\ things' = things /\ seen' = seen
    BY <1>2, <2>1 DEF CreateThing, MayBegin, Typed, TypeOK, InFlight
  <2>3. Asked(w)' /\ SeenIsPast(w)'
    BY <2>2 DEF Content, Asked, SeenIsPast
  <2>4. WroteAsChecked(w)'
    BY <2>2 DEF WroteAsChecked
  <2>5. \A v \in Worker \ {w} : Known(v)'
    BY <1>2, <2>1, ContentOfOthers DEF CreateThing, Typed, TypeOK
  <2>6. QED
    BY <2>3, <2>4, <2>5 DEF Content
<1>3. ASSUME NEW w \in Worker, BeginUpdate(w) PROVE Content'
  <2>1. PICK r : req' = [req EXCEPT ![w] = r] /\ r.kind = "update" /\
                 (r.expected # None =>
                    /\ seen[w] # None /\ seen[w].thing = r.thing
                    /\ seen[w].row.updatedAt = r.expected
                    /\ seen[w].row.tags \subseteq r.tags)
    <3>1. CASE \E t \in Thing, active \in BOOLEAN \cup {None}, dated \in BOOLEAN,
                 tags \in TagChoice \cup {None} :
                 req' = [req EXCEPT ![w] =
                           [kind |-> "update", thing |-> t, tags |-> tags, active |-> active,
                            dated |-> dated, expected |-> None]]
      <4>1. PICK t \in Thing, active \in BOOLEAN \cup {None}, dated \in BOOLEAN,
                 tags \in TagChoice \cup {None} :
                 req' = [req EXCEPT ![w] =
                           [kind |-> "update", thing |-> t, tags |-> tags, active |-> active,
                            dated |-> dated, expected |-> None]]
        BY <3>1
      <4> DEFINE r == [kind |-> "update", thing |-> t, tags |-> tags, active |-> active,
                       dated |-> dated, expected |-> None]
      <4>2. r.kind = "update" /\ r.expected = None
        OBVIOUS
      <4> HIDE DEF r
      <4>3. req' = [req EXCEPT ![w] = r]
        BY <4>1 DEF r
      <4>4. QED
        BY <4>2, <4>3
    <3>2. CASE /\ seen[w] # None
               /\ \E t \in Thing, active \in BOOLEAN \cup {None}, dated \in BOOLEAN,
                     more \in TagChoice :
                    /\ seen[w].thing = t
                    /\ req' = [req EXCEPT ![w] =
                                 [kind |-> "update", thing |-> t,
                                  tags |-> seen[w].row.tags \cup more, active |-> active,
                                  dated |-> dated, expected |-> seen[w].row.updatedAt]]
      <4>1. PICK t \in Thing, active \in BOOLEAN \cup {None}, dated \in BOOLEAN,
                 more \in TagChoice :
                    /\ seen[w].thing = t
                    /\ req' = [req EXCEPT ![w] =
                                 [kind |-> "update", thing |-> t,
                                  tags |-> seen[w].row.tags \cup more, active |-> active,
                                  dated |-> dated, expected |-> seen[w].row.updatedAt]]
        BY <3>2
      <4> DEFINE r == [kind |-> "update", thing |-> t, tags |-> seen[w].row.tags \cup more,
                       active |-> active, dated |-> dated, expected |-> seen[w].row.updatedAt]
      <4>2. /\ r.kind = "update" /\ r.thing = t
            /\ seen[w].row.updatedAt = r.expected
            /\ seen[w].row.tags \subseteq r.tags
        OBVIOUS
      <4>3. req' = [req EXCEPT ![w] = r]
        BY <4>1
      <4> HIDE DEF r
      <4>4. QED
        BY <3>2, <4>1, <4>2, <4>3
    <3>3. QED
      BY <1>3, <3>1, <3>2 DEF BeginUpdate
  <2>2. /\ req'[w] = r /\ pc'[w] = "locking" /\ seen' = seen /\ things' = things
    BY <1>3, <2>1 DEF BeginUpdate, Typed, TypeOK
  <2>3. Known(w)'
    BY <2>1, <2>2 DEF Content, Asked, WroteAsChecked, SeenIsPast
  <2>4. \A v \in Worker \ {w} : Known(v)'
    BY <1>3, <2>1, ContentOfOthers DEF BeginUpdate, Typed, TypeOK
  <2>5. QED
    BY <2>3, <2>4 DEF Content
<1>4. ASSUME NEW w \in Worker, BeginReject(w) PROVE Content'
  <2>1. PICK r : req' = [req EXCEPT ![w] = r] /\ r.kind = "reject" /\ r.active = None
                 /\ r.dated = FALSE /\ r.expected = None
    <3>1. PICK t \in Thing :
            req' = [req EXCEPT ![w] =
                      [kind |-> "reject", thing |-> t, tags |-> None, active |-> None,
                       dated |-> FALSE, expected |-> None]]
      BY <1>4 DEF BeginReject
    <3> DEFINE r == [kind |-> "reject", thing |-> t, tags |-> None, active |-> None,
                     dated |-> FALSE, expected |-> None]
    <3>2. /\ r.kind = "reject" /\ r.active = None
          /\ r.dated = FALSE /\ r.expected = None
      OBVIOUS
    <3>3. req' = [req EXCEPT ![w] = r]
      BY <3>1
    <3> HIDE DEF r
    <3>4. QED
      BY <3>2, <3>3
  <2>2. /\ req'[w] = r /\ pc'[w] = "locking" /\ seen' = seen /\ things' = things
    BY <1>4, <2>1 DEF BeginReject, Typed, TypeOK
  <2>3. Known(w)'
    BY <2>1, <2>2 DEF Content, Asked, WroteAsChecked, SeenIsPast
  <2>4. \A v \in Worker \ {w} : Known(v)'
    BY <1>4, <2>1, ContentOfOthers DEF BeginReject, Typed, TypeOK
  <2>5. QED
    BY <2>3, <2>4 DEF Content
<1>5. ASSUME NEW w \in Worker, Finish(w), things' = things PROVE Content'
  <2>1. pc'[w] = "idle" /\ seen'[w] = None
    BY <1>5 DEF Finish, Typed, TypeOK
  <2>2. Known(w)'
    BY <2>1 DEF Asked, WroteAsChecked, SeenIsPast
  <2>3. \A v \in Worker \ {w} : Known(v)'
    BY <1>5, ContentOfOthers DEF Finish, Typed, TypeOK
  <2>4. QED
    BY <2>2, <2>3 DEF Content
<1>6. ASSUME NEW w \in Worker, RequireThing(w), things[req[w].thing] # NoRow PROVE Content'
  <2>1. pc[w] = "locking" /\ pc'[w] = "locked" /\ UNCHANGED <<things, seen, req, row>>
    BY <1>6 DEF RequireThing, Typed, TypeOK
  <2>2. Known(w)'
    BY <2>1 DEF Content, Asked, WroteAsChecked, SeenIsPast
  <2>3. \A v \in Worker \ {w} : Known(v)'
    BY <1>6, ContentOfOthers DEF RequireThing, Typed, TypeOK
  <2>4. QED
    BY <2>2, <2>3 DEF Content
<1>7. ASSUME NEW w \in Worker, WriteRow(w) PROVE Content'
  <2>1. /\ pc[w] = "locked" /\ pc'[w] = "written" /\ row'[w] = Replaced(w)
        /\ UNCHANGED <<things, seen, req, base>>
    BY <1>7 DEF WriteRow, Typed, TypeOK
  <2>2. base[w] \in Row /\ req[w].kind # "create"
    BY <2>1 DEF Content, Asked, Typed, InFlight
  <2>3. Asked(w)' /\ SeenIsPast(w)'
    BY <2>1 DEF Content, Asked, SeenIsPast
  <2>4. WroteAsChecked(w)'
    BY <1>7, <2>1, <2>2
       DEF WriteRow, WroteAsChecked, Replaced, TagsWritten, NothingToReject, Stale
  <2>5. \A v \in Worker \ {w} : Known(v)'
    BY <1>7, ContentOfOthers DEF WriteRow, Typed, TypeOK
  <2>6. QED
    BY <2>3, <2>4, <2>5 DEF Content
<1>8. ASSUME NEW w \in Worker, DrawEntryId(w) PROVE Content'
  <2>1. /\ pc[w] = "written" /\ pc'[w] = "journalled"
        /\ UNCHANGED <<things, seen, req, base, row>>
    BY <1>8 DEF DrawEntryId, Typed, TypeOK
  <2>2. Asked(w)' /\ SeenIsPast(w)'
    BY <2>1 DEF Content, Asked, SeenIsPast
  <2>3. WroteAsChecked(w)'
    BY <2>1 DEF Content, WroteAsChecked, Replaced, TagsWritten, NothingToReject, Stale
  <2>4. \A v \in Worker \ {w} : Known(v)'
    BY <1>8, ContentOfOthers DEF DrawEntryId, Typed, TypeOK
  <2>5. QED
    BY <2>2, <2>3, <2>4 DEF Content
<1>9. ASSUME NEW w \in Worker, Commit(w) PROVE Content'
  <2> DEFINE t == req[w].thing
  <2>1. pc'[w] = "idle" /\ seen'[w] = None
    BY <1>9 DEF Commit, Finish, Typed, TypeOK
  <2>2. Known(w)'
    BY <2>1 DEF Asked, WroteAsChecked, SeenIsPast
  <2>3. ASSUME NEW v \in Worker \ {w} PROVE Known(v)'
    <3>1. /\ pc'[v] = pc[v] /\ seen'[v] = seen[v] /\ req'[v] = req[v]
          /\ base'[v] = base[v] /\ row'[v] = row[v]
      BY <1>9, <2>3 DEF Commit, Finish, Typed, TypeOK
    <3>2. Asked(v)'
      BY <3>1 DEF Content, Asked
    <3>3. WroteAsChecked(v)'
      BY <3>1 DEF Content, WroteAsChecked, Replaced, TagsWritten, NothingToReject, Stale
    <3>4. SeenIsPast(v)'
      <4> SUFFICES ASSUME seen[v] # None PROVE SeenIsPast(v)'
        BY <3>1 DEF SeenIsPast
      <4>1. /\ seen[v].thing \in Thing
            /\ seen[v].row.updatedAt \in Nat
        BY DEF Typed, TypeOK, Row
      <4>2. SeenIsPast(v)
        BY DEF Content
      <4>3. CASE seen[v].thing # t
        <5>1. things'[seen[v].thing] = things[seen[v].thing]
          BY <1>9, <4>1, <4>3 DEF Commit, Typed, TypeOK
        <5>2. QED
          BY <3>1, <4>2, <5>1 DEF SeenIsPast
      <4>4. CASE seen[v].thing = t
        <5>1. /\ things[t] # NoRow
              /\ seen[v].row.updatedAt <= things[t].updatedAt
          BY <4>2, <4>4 DEF SeenIsPast
        <5>2. base[w] = things[t] /\ things'[t].updatedAt = base[w].updatedAt + 1
          BY <1>9, <5>1, CommitIsNewer
        <5>3. things[t].updatedAt \in Nat
          BY <4>1, <4>4, <5>1 DEF Typed, TypeOK, Row
        <5>4. things'[t] \in Row
          BY <1>9, <4>1, <4>4 DEF Commit, Typed, TypeOK, InFlight
        <5>5. things'[t] # NoRow
          BY <5>4, NoRowAssumption
        <5>6. seen[v].row.updatedAt < things'[t].updatedAt
          BY <4>1, <5>1, <5>2, <5>3
        <5>7. QED
          BY <3>1, <4>1, <4>4, <5>2, <5>3, <5>5, <5>6 DEF SeenIsPast
      <4>5. QED
        BY <4>3, <4>4
    <3>5. QED
      BY <3>2, <3>3, <3>4
  <2>4. QED
    BY <2>2, <2>3 DEF Content
<1>10. CASE UNCHANGED vars
  BY <1>10, ContentOfOthers DEF vars, Content
<1>11. ASSUME NEW w \in Worker,
              Refuse(w) \/ Abort(w) \/ (RequireThing(w) /\ things[req[w].thing] = NoRow)
       PROVE  Content'
  BY <1>5, <1>11 DEF Refuse, Abort, RequireThing
<1>12. QED
  BY <1>1, <1>2, <1>3, <1>4, <1>6, <1>7, <1>8, <1>9, <1>10, <1>11 DEF Next, Begin, Step

LEMMA Invariants == Spec => [](Typed /\ Locks /\ Content)
  BY TypedInit, TypedStep, LocksInit, LocksStep, ContentInit, ContentStep, PTL DEF Spec

\* The journal grows by a commit and by nothing else, and so do the Things.
LEMMA OnlyCommitsShow ==
  ASSUME Typed, [Next]_vars, journal' # journal \/ things' # things
  PROVE  \E w \in Worker : Commit(w) /\ \A v \in Worker \ {w} : pc'[v] = pc[v]
<1>1. PICK w \in Worker : Commit(w)
  BY DEF Next, Begin, ReadThing, CreateThing, BeginUpdate, BeginReject, Abort, Step,
         RequireThing, Refuse, WriteRow, DrawEntryId, vars
<1>2. \A v \in Worker \ {w} : pc'[v] = pc[v]
  BY <1>1 DEF Commit, Finish, Typed, TypeOK
<1>3. QED
  BY <1>1, <1>2

LEMMA CommitsIsCommit ==
  ASSUME Typed, [Next]_vars, NEW w \in Worker, Commits(w)
  PROVE  Commit(w)
  BY OnlyCommitsShow DEF Commits

\* A heartbeat stays active and tagged, whoever writes it.
LEMMA HeartbeatStep ==
  Typed /\ Locks /\ Content /\ [Next]_vars =>
    [\A t \in Thing : HeartbeatStands(t) => HeartbeatStands(t)']_vars
<1> SUFFICES ASSUME Typed, Locks, Content, [Next]_vars, NEW t \in Thing, HeartbeatStands(t)
             PROVE  HeartbeatStands(t)'
  OBVIOUS
<1>1. CASE things' = things
  BY <1>1 DEF HeartbeatStands
<1>2. ASSUME NEW w \in Worker, Commit(w) PROVE HeartbeatStands(t)'
  <2>1. CASE req[w].thing # t
    BY <1>2, <2>1 DEF Commit, Typed, TypeOK, HeartbeatStands
  <2>2. CASE req[w].thing = t
    <3>1. /\ req[w].kind # "create" /\ base[w] = things[t] /\ things'[t] = Replaced(w)
      BY <1>2, <2>2, CommitIsNewer DEF HeartbeatStands
    <3>2. HeartbeatKept(base[w], TagsWritten(w), req[w].active)
      BY <1>2, <3>1 DEF Commit, Content, WroteAsChecked
    <3>3. req[w].active \in BOOLEAN \cup {None}
      BY <1>2 DEF Commit, Typed, InFlight, Request
    <3>4. /\ ScheduledTask \in base[w].tags /\ base[w].active
      BY <3>1 DEF HeartbeatStands
    <3>5. /\ req[w].active # FALSE
          /\ TagsWritten(w) # None => ScheduledTask \in TagsWritten(w)
      BY <3>2, <3>4 DEF HeartbeatKept
    <3>6. ScheduledTask \in Replaced(w).tags /\ Replaced(w).active
      BY <3>3, <3>4, <3>5 DEF Replaced
    <3>7. things'[t] # NoRow
      BY <1>2, <2>2, NoRowAssumption DEF Commit, Typed, TypeOK, InFlight
    <3>8. QED
      BY <3>1, <3>6, <3>7 DEF HeartbeatStands
  <2>3. QED
    BY <2>1, <2>2
<1>3. QED
  BY <1>1, <1>2, OnlyCommitsShow

THEOREM HeartbeatsKept == Spec => HeartbeatsAreKept
  BY Invariants, HeartbeatStep, PTL DEF Spec, HeartbeatsAreKept

\* A guarded write replaces the very row its caller read.
LEMMA GuardedStep ==
  ASSUME Typed, Locks, Content, [Next]_vars, NEW w \in Worker,
         Commits(w), req[w].expected # None
  PROVE  /\ things[req[w].thing] = seen[w].row
         /\ things[req[w].thing].tags \subseteq things'[req[w].thing].tags
<1>1. Commit(w)
  BY CommitsIsCommit
<1>2. /\ pc[w] = "journalled" /\ req[w].thing \in Thing
  BY <1>1 DEF Commit, Typed, InFlight, Request
<1>3. /\ req[w].kind = "update" /\ seen[w] # None /\ seen[w].thing = req[w].thing
      /\ seen[w].row.updatedAt = req[w].expected
      /\ seen[w].row.tags \subseteq req[w].tags
  BY <1>2 DEF Content, Asked
<1>4. things[req[w].thing] # NoRow
  BY <1>3 DEF Content, SeenIsPast
<1>5. base[w] = things[req[w].thing] /\ things'[req[w].thing] = Replaced(w)
  BY <1>1, <1>4, CommitIsNewer
<1>6. req[w].expected = base[w].updatedAt
  BY <1>2, <1>3 DEF Content, WroteAsChecked, Stale
<1>7. things[req[w].thing] = seen[w].row
  BY <1>3, <1>5, <1>6 DEF Content, SeenIsPast
<1>8. Replaced(w).tags = IF req[w].tags = None THEN base[w].tags ELSE req[w].tags
  BY <1>3 DEF Replaced, TagsWritten
<1>9. QED
  BY <1>3, <1>5, <1>7, <1>8

THEOREM GuardedWritesKeep == Spec => GuardedWritesDropNothing
<1>1. Typed /\ Locks /\ Content /\ [Next]_vars =>
        [\A w \in Worker :
           Commits(w) /\ req[w].expected # None
             => /\ things[req[w].thing] = seen[w].row
                /\ things[req[w].thing].tags \subseteq things'[req[w].thing].tags]_vars
  BY GuardedStep
<1>2. QED
  BY <1>1, Invariants, PTL DEF Spec, GuardedWritesDropNothing

\* A rejection adds #Rejected to the row that stands, and nothing else, once.
LEMMA RejectionStep ==
  ASSUME Typed, Locks, Content, [Next]_vars, NEW w \in Worker,
         Commits(w), req[w].kind = "reject"
  PROVE  LET old == things[req[w].thing]
         IN /\ Rejected \notin old.tags
            /\ things'[req[w].thing] = Extended(old)
<1>1. Commit(w)
  BY CommitsIsCommit
<1>2. /\ pc[w] = "journalled" /\ req[w].thing \in Thing
  BY <1>1 DEF Commit, Typed, InFlight, Request
<1>3. /\ base[w] \in Row /\ row[w] = Replaced(w) /\ ~ NothingToReject(w)
  BY <1>2 DEF Content, WroteAsChecked
<1>4. base[w] = things[req[w].thing] /\ things'[req[w].thing] = row[w]
  BY <1>1, <1>2 DEF Locks, BaseStands, Busy, Commit, Typed, TypeOK
<1>5. Rejected \notin base[w].tags
  BY <1>3 DEF NothingToReject
<1>6. req[w].active = None /\ req[w].dated = FALSE
  BY <1>2 DEF Content, Asked
<1>7. TagsWritten(w) = base[w].tags \cup {Rejected}
  BY DEF TagsWritten
<1>8. /\ base[w].dated \in BOOLEAN
      /\ base[w] = [tags |-> base[w].tags, active |-> base[w].active,
                    dated |-> base[w].dated, updatedAt |-> base[w].updatedAt]
  BY <1>3 DEF Row
<1>9. Replaced(w).tags = base[w].tags \cup {Rejected}
  <2>1. base[w].tags \cup {Rejected} \in SUBSET Tag
    BY <1>3, TagAssumption DEF Row
  <2>2. TagsWritten(w) # None
    BY <1>7, <2>1, NoneAssumption
  <2>3. QED
    BY <1>7, <2>2 DEF Replaced
<1>10. Replaced(w) = Extended(base[w])
  <2>1. /\ Replaced(w).active = base[w].active
        /\ Replaced(w).dated = base[w].dated
        /\ Replaced(w).updatedAt = Later(base[w].updatedAt)
    BY <1>6, <1>8 DEF Replaced
  <2>2. Replaced(w) = [tags |-> Replaced(w).tags, active |-> Replaced(w).active,
                       dated |-> Replaced(w).dated, updatedAt |-> Replaced(w).updatedAt]
    BY DEF Replaced
  <2>3. QED
    BY <1>9, <2>1, <2>2 DEF Extended
<1>11. QED
  BY <1>3, <1>4, <1>5, <1>10

THEOREM RejectionsExtend == Spec => RejectionExtends
<1>1. Typed /\ Locks /\ Content /\ [Next]_vars =>
        [\A w \in Worker :
           Commits(w) /\ req[w].kind = "reject"
             => LET old == things[req[w].thing]
                IN /\ Rejected \notin old.tags
                   /\ things'[req[w].thing] = Extended(old)]_vars
  BY RejectionStep
<1>2. QED
  BY <1>1, Invariants, PTL DEF Spec, RejectionExtends

\* A Thing with a history stands, and a capture among them is dated.
Dated == /\ \A i \in 1..Len(journal) : things[journal[i].key] # NoRow
         /\ CapturesStayDated

LEMMA DatedStep == Typed /\ Locks /\ Content /\ Dated /\ [Next]_vars => Dated'
<1> SUFFICES ASSUME Typed, Locks, Content, Dated, [Next]_vars PROVE Dated'
  OBVIOUS
<1>1. CASE journal' = journal /\ things' = things
  BY <1>1 DEF Dated, CapturesStayDated
<1>2. ASSUME NEW w \in Worker, Commit(w) PROVE Dated'
  <2> DEFINE t == req[w].thing
             e == [id |-> entryId[w], key |-> t, before |-> base[w], after |-> row[w]]
  <2>1. /\ pc[w] = "journalled" /\ req[w] \in Request /\ t \in Thing
        /\ row[w] \in Row /\ base[w] = things[t]
    BY <1>2 DEF Commit, Typed, InFlight, Request, Locks, BaseStands, Busy
  <2>2. /\ things'[t] = row[w]
        /\ \A u \in Thing \ {t} : things'[u] = things[u]
        /\ journal' = Append(journal, e)
    BY <1>2, <2>1 DEF Commit, Typed, TypeOK
  <2>3. /\ Len(journal) \in Nat
        /\ Len(journal') = Len(journal) + 1
        /\ journal'[Len(journal) + 1] = e
        /\ \A i \in 1..Len(journal) : journal'[i] = journal[i] /\ journal[i] \in Entry
    BY <2>2 DEF Typed, TypeOK
  <2>4. row[w] # NoRow
    BY <2>1, NoRowAssumption
  <2>5. things[t] # NoRow => row[w] = Replaced(w)
    BY <1>2, <2>2, CommitIsNewer
  <2>6. things[t] # NoRow /\ things[t].dated => things'[t].dated
    <3> SUFFICES ASSUME things[t] # NoRow, things[t].dated PROVE things'[t].dated
      OBVIOUS
    <3>1. Replaced(w).dated = (base[w].dated \/ req[w].dated)
      BY DEF Replaced
    <3>2. base[w].dated
      BY <2>1
    <3>3. Replaced(w).dated
      BY <3>1, <3>2, Zenon
    <3>4. QED
      BY <2>2, <2>5, <3>3
  <2>7. ASSUME NEW i \in 1..Len(journal)
        PROVE  /\ things'[journal[i].key] # NoRow
               /\ journal[i].before = NoRow /\ journal[i].after.tags \cap InternalTag = {}
                    => things'[journal[i].key].dated
    <3>1. journal[i].key \in Thing
      BY <2>3 DEF Entry
    <3>2. /\ things[journal[i].key] # NoRow
          /\ journal[i].before = NoRow /\ journal[i].after.tags \cap InternalTag = {}
               => things[journal[i].key].dated
      BY DEF Dated, CapturesStayDated
    <3>3. QED
      BY <2>1, <2>2, <2>4, <2>6, <3>1, <3>2
  <2>8. base[w] = NoRow /\ row[w].tags \cap InternalTag = {} => row[w].dated
    <3> SUFFICES ASSUME base[w] = NoRow, row[w].tags \cap InternalTag = {} PROVE row[w].dated
      OBVIOUS
    <3>1. row[w] = Capture(req[w].tags, req[w].dated, req[w].active)
      BY <2>1, NoRowAssumption DEF Content, WroteAsChecked
    <3>2. req[w].tags \cap InternalTag = {}
      BY <3>1 DEF Capture
    <3>3. QED
      <4>1. row[w].dated = (req[w].dated \/ req[w].tags \cap InternalTag = {})
        BY <3>1 DEF Capture
      <4>2. QED
        BY <3>2, <4>1, Zenon
  <2>9. QED
    BY <2>2, <2>3, <2>4, <2>7, <2>8 DEF Dated, CapturesStayDated
<1>3. QED
  BY <1>1, <1>2, OnlyCommitsShow

\* A capture has a date from the moment it is made.
THEOREM CapturesDated == Spec => []CapturesStayDated
<1>1. Init => Dated
  BY DEF Init, Dated, CapturesStayDated
<1>2. Dated => CapturesStayDated
  BY DEF Dated
<1>3. QED
  BY <1>1, <1>2, DatedStep, Invariants, PTL DEF Spec

=============================================================================
