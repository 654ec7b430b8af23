---------------------------- MODULE JournalFeed ----------------------------
(***************************************************************************)
(* Readers of the journal beside its writers: queries.journal_since, which *)
(* the learning pass pages through by the last id it saw, and              *)
(* queries.history, one Thing's window cut from the newest end.  A writer  *)
(* draws its entries' ids before it commits, so ids become visible out of  *)
(* order; a reader's two statements each see what is committed by then.    *)
(***************************************************************************)
EXTENDS Naturals, Sequences, FiniteSetsExt

CONSTANTS Writer,   \* transactions of the write path
          Entity,   \* the Things and relationships they write
          Actor,    \* who writes
          Watched,  \* the actors the learning pass asks for
          Limit,    \* the largest window a reader asks for
          Nobody,   \* no query is under way
          MaxIds    \* bound: entry ids ever drawn

ASSUME WatchedAssumption == Watched \subseteq Actor /\ Limit \in Nat \ {0}

VARIABLES journal,  \* committed entries, in commit order
          nextId,   \* the sequence behind journal.id
          drawn,    \* the entries each transaction has flushed and not committed
          query,    \* the read under way: what was asked and the window it got
          after,    \* the last id the learning pass saw, its next after_id
          got,      \* the entries it was given
          quiet     \* history: no window so far had an uncommitted id below its end

vars == <<journal, nextId, drawn, query, after, got, quiet>>

Entry == [id : Nat, entity : Entity, actor : Actor]

Since == [kind : {"since"}, after : Nat]

History == [kind : {"history"}, entity : Entity]

Init == /\ journal = << >>
        /\ nextId = 1
        /\ drawn = [w \in Writer |-> << >>]
        /\ query = Nobody
        /\ after = 0
        /\ got = {}
        /\ quiet = TRUE

-----------------------------------------------------------------------------
\* The operators named ...Mutant are each a bug the definition after them could
\* have had; nothing uses them but the mutation runs PROJECT.json lists.

Uncommitted == UNION {Range(drawn[w]) : w \in Writer}

Writing(w, e) == \E d \in Range(drawn[w]) : d.entity = e

\* An update does not lock its Thing.
UnlockedMutant(w, e) == TRUE

\* Writers of one row wait for each other; a row just created has one writer.
Unlocked(w, e) == \A v \in Writer \ {w} : ~ Writing(v, e)

\* service._journalled, flushed: the entry gets its id while the row is locked.
\* One transaction has one actor and may write several entries.
DrawId(w, e, a) ==
  /\ nextId <= MaxIds
  /\ Unlocked(w, e)
  /\ \A d \in Range(drawn[w]) : d.actor = a
  /\ drawn' = [drawn EXCEPT ![w] = Append(drawn[w], [id |-> nextId, entity |-> e, actor |-> a])]
  /\ nextId' = nextId + 1
  /\ UNCHANGED <<journal, query, after, got, quiet>>

\* COMMIT: all of a transaction's entries become visible at once.
Commit(w) ==
  /\ drawn[w] # << >>
  /\ journal' = journal \o drawn[w]
  /\ drawn' = [drawn EXCEPT ![w] = << >>]
  /\ UNCHANGED <<nextId, query, after, got, quiet>>

\* A transaction that dies leaves a gap in the ids.
Abort(w) ==
  /\ drawn[w] # << >>
  /\ drawn' = [drawn EXCEPT ![w] = << >>]
  /\ UNCHANGED <<journal, nextId, query, after, got, quiet>>

-----------------------------------------------------------------------------
\* The WHERE of both queries.
Matches(q, e) == IF q.kind = "since" THEN e.id > q.after /\ e.actor \in Watched
                 ELSE e.entity = q.entity

Matching(q) == {e \in Range(journal) : Matches(q, e)}

\* Both windows are cut from the newest end.
WindowMutant(q, limit) ==
  {e \in Matching(q) : Cardinality({f \in Matching(q) : f.id > e.id}) < limit}

\* ORDER BY id LIMIT limit: journal_since keeps the oldest, history the newest.
Window(q, limit) ==
  {e \in Matching(q) :
     Cardinality({f \in Matching(q) : IF q.kind = "since" THEN f.id < e.id ELSE f.id > e.id}) < limit}

\* The first statement of a query: its window.
Ask(q, limit) ==
  /\ query = Nobody
  /\ query' = [asked |-> q, window |-> Window(q, limit)]
  /\ quiet' = /\ quiet
              /\ q.kind = "since" => \A d \in Uncommitted, e \in Window(q, limit) : d.id > e.id
  /\ UNCHANGED <<journal, nextId, drawn, after, got>>

\* The count is made before the window is read.
TotalMutant == Cardinality(query.window)

\* The second statement: how many entries match, now.
Total == Cardinality(Matching(query.asked))

\* History.truncated: entries were left out of the window.
Truncated == Total > Cardinality(query.window)

\* What the learning pass goes on from: the last id it saw.
After == IF query.window = {} THEN after ELSE Max({e.id : e \in query.window})

\* The answer is given: entries, total and truncated.
Answer ==
  /\ query # Nobody
  /\ query' = Nobody
  /\ \/ /\ query.asked.kind = "since"
        /\ got' = got \cup query.window
        /\ after' = After
     \/ /\ query.asked.kind = "history"
        /\ UNCHANGED <<after, got>>
  /\ UNCHANGED <<journal, nextId, drawn, quiet>>

\* The call fails between its statements and the caller asks again.
Fail ==
  /\ query # Nobody
  /\ query' = Nobody
  /\ UNCHANGED <<journal, nextId, drawn, after, got, quiet>>

Write(w) == \/ \E e \in Entity, a \in Actor : DrawId(w, e, a)
            \/ Commit(w)
            \/ Abort(w)

Read == \/ \E limit \in 1..Limit : \/ Ask([kind |-> "since", after |-> after], limit)
                                   \/ \E e \in Entity : Ask([kind |-> "history", entity |-> e], limit)
        \/ Answer
        \/ Fail

Next == Read \/ \E w \in Writer : Write(w)

Spec == Init /\ [][Next]_vars

-----------------------------------------------------------------------------
\* Type correctness.
TypeOK ==
  /\ journal \in Seq(Entry)
  /\ nextId \in Nat
  /\ drawn \in [Writer -> Seq(Entry)]
  /\ query \in [asked : Since \cup History, window : SUBSET Range(journal)] \cup {Nobody}
  /\ after \in Nat
  /\ got \in SUBSET Range(journal)
  /\ quiet \in BOOLEAN

\* A capped answer cannot pass for a whole one (queries.History): an answer that
\* says it is whole holds every entry that matches when it is given, although its
\* two statements saw different moments.
TruncationIsTold ==
  [][Answer /\ ~ Truncated => query.window = Matching(query.asked)]_vars

\* A Thing with more entries than the limit loses its oldest, never the state it
\* is in now (queries.history): the window a history read gets holds the entry of
\* that Thing committed last, and holds it as the newest by id.
CommittedLast(n, e) == /\ journal[n].entity = e
                       /\ \A i \in (n+1)..Len(journal) : journal[i].entity # e

HistoryShowsNow ==
  [][query = Nobody /\ query' # Nobody /\ query'.asked.kind = "history" =>
       \A n \in 1..Len(journal) : CommittedLast(n, query'.asked.entity) =>
         /\ journal[n] \in query'.window
         /\ \A e \in query'.window : e.id <= journal[n].id]_vars

\* What the reader can rely on: if no window was read while an id below its end was
\* still uncommitted, nothing behind the last id it saw is missing.
QuietFeedIsWhole ==
  quiet => \A e \in Range(journal) : e.id <= after /\ e.actor \in Watched => e \in got

\* queries.journal_since: "everything that happened since the last run, whoever did
\* it and whatever it touched".
FeedIsWhole ==
  \A e \in Range(journal) : e.id <= after /\ e.actor \in Watched => e \in got

=============================================================================
