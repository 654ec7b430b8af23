---------------------------- MODULE ThingWrites ----------------------------
(***************************************************************************)
(* The writes of Things in backend/service.py: create_thing, update_thing  *)
(* and reject_preference, each one a request with a database session of    *)
(* its own, under READ COMMITTED.  A request's statements are steps of     *)
(* their own; what a session has flushed is invisible to the others until  *)
(* it commits, and a request that dies takes its transaction with it.      *)
(***************************************************************************)
EXTENDS Naturals, Sequences

CONSTANTS Worker,         \* requests in flight: threads of the server's pool
          Thing,          \* the ids Things may have
          Tag,            \* the tags a Thing may carry
          TagChoice,      \* the tag lists a caller passes
          ScheduledTask,  \* SCHEDULED_TASK_TAG, marks a heartbeat
          Preference,     \* PREFERENCE_TAG
          Rejected,       \* REJECTED_TAG
          New,            \* NEW_TAG
          InternalTag,    \* INTERNAL_TAGS
          NoRow,          \* a row that is not there
          None,           \* an argument that was not given
          MaxIds          \* bound: no request begins once so many entry ids were drawn

ASSUME TagAssumption ==
  /\ TagChoice \subseteq SUBSET Tag
  /\ {ScheduledTask, Preference, Rejected, New} \subseteq Tag
  /\ {ScheduledTask, Preference} \subseteq InternalTag
  /\ InternalTag \subseteq Tag
  /\ New \notin InternalTag

VARIABLES things,   \* committed rows
          journal,  \* committed entries, in commit order
          nextId,   \* the BIGSERIAL of journal.id: the next id it hands out
          seen,     \* what each caller last read with get_thing
          pc,       \* where each request stands
          req,      \* the arguments of each request
          base,     \* the row each request read under its lock: the `before`
          row,      \* the row each request has flushed: the `after`
          entryId   \* the id the sequence gave each request's entry

vars == <<things, journal, nextId, seen, pc, req, base, row, entryId>>

Row == [tags : SUBSET Tag, active : BOOLEAN, dated : BOOLEAN, updatedAt : Nat]

ASSUME NoRowAssumption == NoRow \notin Row

ASSUME NoneAssumption == \A tags \in SUBSET Tag : tags # None

Request == [kind : {"create", "update", "reject"}, thing : Thing,
            tags : (SUBSET Tag) \cup {None}, active : BOOLEAN \cup {None},
            dated : BOOLEAN, expected : Nat \cup {None}]

Entry == [id : Nat, key : Thing, before : Row \cup {NoRow}, after : Row]

Init == /\ things = [t \in Thing |-> NoRow]
        /\ journal = << >>
        /\ nextId = 1
        /\ seen = [w \in Worker |-> None]
        /\ pc = [w \in Worker |-> "idle"]
        /\ req = [w \in Worker |-> None]
        /\ base = [w \in Worker |-> NoRow]
        /\ row = [w \in Worker |-> NoRow]
        /\ entryId = [w \in Worker |-> 0]

-----------------------------------------------------------------------------
\* The operators named ...Mutant are each a bug the definition after them could
\* have had; nothing uses them but the mutation runs PROJECT.json lists.

\* A request that waits for a lock counts as holding it.
OwnsMutant(w, t) == pc[w] # "idle" /\ req[w].thing = t

\* A request holds its Thing's row lock from the statement that took it to the
\* end of its transaction; a creator holds the row nobody else can see yet.
Owns(w, t) == /\ pc[w] \in {"locked", "written", "journalled"}
              /\ req[w].thing = t

\* The row is read without FOR UPDATE.
RowFreeMutant(w, t) == TRUE

\* SELECT ... FOR UPDATE waits for every other transaction holding the row.
RowFree(w, t) == \A v \in Worker \ {w} : ~ Owns(v, t)

\* The end of a request: the session closes and what it had not committed is gone.
Finish(w) == /\ pc' = [pc EXCEPT ![w] = "idle"]
             /\ req' = [req EXCEPT ![w] = None]
             /\ base' = [base EXCEPT ![w] = NoRow]
             /\ row' = [row EXCEPT ![w] = NoRow]
             /\ entryId' = [entryId EXCEPT ![w] = 0]
             /\ seen' = [seen EXCEPT ![w] = None]

\* datetime.now(UTC) under the row's lock: later than the stamp it replaces.
Later(stamp) == stamp + 1

MayBegin(w) == pc[w] = "idle" /\ nextId <= MaxIds

-----------------------------------------------------------------------------
\* get_thing: a caller reads a Thing and keeps what it was shown.
ReadThing(w, t) ==
  /\ MayBegin(w)
  /\ things[t] # NoRow
  /\ seen' = [seen EXCEPT ![w] = [thing |-> t, row |-> things[t]]]
  /\ UNCHANGED <<things, journal, nextId, pc, req, base, row, entryId>>

\* What create_thing stores: a capture is tagged NEW_TAG and gets a date, one
\* of Reli's own records gets neither.
Capture(tags, dated, active) ==
  LET captured == tags \cap InternalTag = {}
  IN [tags |-> IF captured THEN tags \cup {New} ELSE tags, active |-> active,
      dated |-> dated \/ captured, updatedAt |-> 1]

\* create_thing: the id is a fresh uuid, the row is flushed at once.
CreateThing(w) ==
  /\ MayBegin(w)
  /\ \E t \in Thing, tags \in TagChoice, dated, active \in BOOLEAN :
       /\ things[t] = NoRow
       /\ RowFree(w, t)
       /\ req' = [req EXCEPT ![w] =
                    [kind |-> "create", thing |-> t, tags |-> tags, active |-> active,
                     dated |-> dated, expected |-> None]]
       /\ row' = [row EXCEPT ![w] = Capture(tags, dated, active)]
  /\ pc' = [pc EXCEPT ![w] = "written"]
  /\ UNCHANGED <<things, journal, nextId, seen, base, entryId>>

\* update_thing arrives.  Its caller guards it with the updated_at it read, or
\* does not; it passes a tag list of its own or the union of what it read.
BeginUpdate(w) ==
  /\ MayBegin(w)
  /\ \E t \in Thing, active \in BOOLEAN \cup {None}, dated \in BOOLEAN :
       \/ \E tags \in TagChoice \cup {None} :
            req' = [req EXCEPT ![w] =
                      [kind |-> "update", thing |-> t, tags |-> tags, active |-> active,
                       dated |-> dated, expected |-> None]]
       \/ /\ seen[w] # None
          /\ seen[w].thing = t
          /\ \E more \in TagChoice :
               req' = [req EXCEPT ![w] =
                         [kind |-> "update", thing |-> t,
                          tags |-> seen[w].row.tags \cup more, active |-> active,
                          dated |-> dated, expected |-> seen[w].row.updatedAt]]
  /\ pc' = [pc EXCEPT ![w] = "locking"]
  /\ UNCHANGED <<things, journal, nextId, seen, base, row, entryId>>

\* reject_preference arrives.
BeginReject(w) ==
  /\ MayBegin(w)
  /\ \E t \in Thing :
       req' = [req EXCEPT ![w] =
                 [kind |-> "reject", thing |-> t, tags |-> None, active |-> None,
                  dated |-> FALSE, expected |-> None]]
  /\ pc' = [pc EXCEPT ![w] = "locking"]
  /\ UNCHANGED <<things, journal, nextId, seen, base, row, entryId>>

\* _require_thing(lock=True): the row as committed once the lock is ours, or
\* ThingNotFound.
RequireThing(w) ==
  /\ pc[w] = "locking"
  /\ RowFree(w, req[w].thing)
  /\ \/ /\ things[req[w].thing] # NoRow
        /\ base' = [base EXCEPT ![w] = things[req[w].thing]]
        /\ pc' = [pc EXCEPT ![w] = "locked"]
        /\ UNCHANGED <<things, journal, nextId, seen, req, row, entryId>>
     \/ /\ things[req[w].thing] = NoRow
        /\ Finish(w)
        /\ UNCHANGED <<things, journal, nextId>>

-----------------------------------------------------------------------------
\* The tag list a request writes: reject_preference extends the one it locked.
TagsWritten(w) == IF req[w].kind = "reject" THEN base[w].tags \cup {Rejected}
                  ELSE req[w].tags

\* Only archiving a heartbeat is refused, not dropping its tag.
HeartbeatKeptMutant(r, tags, active) == ScheduledTask \in r.tags => active # FALSE

\* _check_heartbeat_kept: a heartbeat is not archived and keeps its tag.
HeartbeatKept(r, tags, active) ==
  ScheduledTask \in r.tags => /\ active # FALSE
                              /\ tags # None => ScheduledTask \in tags

\* Any stamp the caller passes is good enough.
StaleMutant(w) == FALSE

\* The write update_thing refuses with StaleWrite.
Stale(w) == req[w].expected # None /\ req[w].expected # base[w].updatedAt

\* A preference already rejected is rejected again.
NothingToRejectMutant(w) == req[w].kind = "reject" /\ Preference \notin base[w].tags

\* reject_preference's own answers before it writes: not a preference, or
\* rejected already.
NothingToReject(w) == /\ req[w].kind = "reject"
                      /\ Preference \notin base[w].tags \/ Rejected \in base[w].tags

\* A flag that was not given is written as None.
ReplacedMutant(w) ==
  [tags |-> base[w].tags, active |-> req[w].active, dated |-> req[w].dated,
   updatedAt |-> Later(base[w].updatedAt)]

\* Every field that is given replaces the stored one; nothing is merged.
Replaced(w) ==
  [tags      |-> IF TagsWritten(w) = None THEN base[w].tags ELSE TagsWritten(w),
   active    |-> IF req[w].active = None THEN base[w].active ELSE req[w].active,
   dated     |-> base[w].dated \/ req[w].dated,
   updatedAt |-> Later(base[w].updatedAt)]

\* The request is refused, or has nothing to do: nothing is written.
Refuse(w) ==
  /\ pc[w] = "locked"
  /\ \/ NothingToReject(w)
     \/ Stale(w)
     \/ ~ HeartbeatKept(base[w], TagsWritten(w), req[w].active)
  /\ Finish(w)
  /\ UNCHANGED <<things, journal, nextId>>

\* The checks pass: the UPDATE is flushed.
WriteRow(w) ==
  /\ pc[w] = "locked"
  /\ ~ NothingToReject(w)
  /\ ~ Stale(w)
  /\ HeartbeatKept(base[w], TagsWritten(w), req[w].active)
  /\ row' = [row EXCEPT ![w] = Replaced(w)]
  /\ pc' = [pc EXCEPT ![w] = "written"]
  /\ UNCHANGED <<things, journal, nextId, seen, req, base, entryId>>

\* commit() flushes the journal INSERT first, which draws the entry's id from
\* the sequence; ids drawn by transactions that die are never used.
DrawEntryId(w) ==
  /\ pc[w] = "written"
  /\ entryId' = [entryId EXCEPT ![w] = nextId]
  /\ nextId' = nextId + 1
  /\ pc' = [pc EXCEPT ![w] = "journalled"]
  /\ UNCHANGED <<things, journal, seen, req, base, row>>

\* The row is committed with nothing in the journal.
CommitMutant(w) ==
  /\ pc[w] = "journalled"
  /\ things' = [things EXCEPT ![req[w].thing] = row[w]]
  /\ Finish(w)
  /\ UNCHANGED <<journal, nextId>>

\* COMMIT: the row and its entry become visible together, the lock is released.
Commit(w) ==
  /\ pc[w] = "journalled"
  /\ things' = [things EXCEPT ![req[w].thing] = row[w]]
  /\ journal' = Append(journal, [id |-> entryId[w], key |-> req[w].thing,
                                 before |-> base[w], after |-> row[w]])
  /\ Finish(w)
  /\ UNCHANGED nextId

\* The request dies: the process is killed, the connection drops, or
\* statement_timeout cancels the wait for the lock.
Abort(w) ==
  /\ pc[w] # "idle"
  /\ Finish(w)
  /\ UNCHANGED <<things, journal, nextId>>

Step(w) == RequireThing(w) \/ Refuse(w) \/ WriteRow(w) \/ DrawEntryId(w) \/ Commit(w)

Begin(w) == \/ \E t \in Thing : ReadThing(w, t)
            \/ CreateThing(w)
            \/ BeginUpdate(w)
            \/ BeginReject(w)

Next == \E w \in Worker : Begin(w) \/ Step(w) \/ Abort(w)

Spec == Init /\ [][Next]_vars

\* Requests run to their end when their threads are scheduled; a lock that keeps
\* coming free is got in the end, for Postgres queues its waiters.  Nothing
\* makes a caller begin a request, or a request die.
Fairness == \A w \in Worker :
  /\ SF_vars(RequireThing(w))
  /\ WF_vars(Refuse(w) \/ WriteRow(w) \/ DrawEntryId(w) \/ Commit(w))

FairSpec == Spec /\ Fairness

-----------------------------------------------------------------------------
\* Type correctness: what each variable of the write path may hold.
TypeOK ==
  /\ things \in [Thing -> Row \cup {NoRow}]
  /\ journal \in Seq(Entry)
  /\ nextId \in Nat \ {0}
  /\ seen \in [Worker -> [thing : Thing, row : Row] \cup {None}]
  /\ pc \in [Worker -> {"idle", "locking", "locked", "written", "journalled"}]
  /\ req \in [Worker -> Request \cup {None}]
  /\ base \in [Worker -> Row \cup {NoRow}]
  /\ row \in [Worker -> Row \cup {NoRow}]
  /\ entryId \in [Worker -> Nat]

\* The journal and the Things agree (service._journalled, called by every
\* write): replaying the journal gives every Thing as it stands, and each entry's
\* `before` is what the entries in front of it left, whoever wrote them.
Ledger == INSTANCE JournalledStore WITH Key <- Thing, rows <- things, log <- journal

JournalTellsThings == Ledger!Replays

\* Every step of the write path is one mutation with its one entry, or nothing
\* another session can see (service.py's module docstring).
WritesAreJournalled == Ledger!Spec

\* The entries of one Thing have ids in the order their writes took effect, so
\* reading the journal by id, as queries.journal_since does, tells each Thing's
\* history in its order, though ids of different Things may be out of order.
HistoryInIdOrder ==
  \A i, j \in 1..Len(journal) :
    i < j /\ journal[i].key = journal[j].key => journal[i].id < journal[j].id

\* A heartbeat is never hidden (service._check_heartbeat_kept): an active
\* Thing tagged #ScheduledTask stays both, however writes interleave.
HeartbeatStands(t) == /\ things[t] # NoRow
                      /\ things[t].active
                      /\ ScheduledTask \in things[t].tags
HeartbeatsAreKept == [][\A t \in Thing : HeartbeatStands(t) => HeartbeatStands(t)']_vars

Commits(w) == pc[w] = "journalled" /\ journal' # journal /\ pc'[w] = "idle"

\* A union is never stale (service.update_thing's expected_updated_at): the row a
\* guarded write replaces is the very row its caller read, so no tag another
\* caller added in between is dropped by it.
GuardedWritesDropNothing ==
  [][\A w \in Worker :
       Commits(w) /\ req[w].expected # None
         => /\ things[req[w].thing] = seen[w].row
            /\ things[req[w].thing].tags \subseteq things'[req[w].thing].tags]_vars

\* A row with #Rejected added to its tags and nothing else changed.
Extended(r) == [tags |-> r.tags \cup {Rejected}, active |-> r.active, dated |-> r.dated,
                updatedAt |-> Later(r.updatedAt)]

\* reject_preference extends the tag list that stands when it commits and nothing
\* else, and a preference is rejected once: a second rejection journals nothing.
RejectionExtends ==
  [][\A w \in Worker :
       Commits(w) /\ req[w].kind = "reject"
         => LET old == things[req[w].thing]
            IN /\ Rejected \notin old.tags
               /\ things'[req[w].thing] = Extended(old)]_vars

\* A capture keeps a check-in date (service.create_thing's default): a Thing
\* created outside INTERNAL_TAGS is dated for good, so it surfaces one day.
CapturesStayDated ==
  \A i \in 1..Len(journal) :
    journal[i].before = NoRow /\ journal[i].after.tags \cap InternalTag = {}
      => things[journal[i].key].dated

\* Every request ends, refused or written: no request waits for ever for a row.
RequestsEnd == \A w \in Worker : pc[w] # "idle" ~> pc[w] = "idle"

=============================================================================
