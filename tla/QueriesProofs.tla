---------------------------- MODULE QueriesProofs ----------------------------
(***************************************************************************)
(* The two models of backend/queries.py, for any writers, Things, edges    *)
(* and windows.  First JournalFeed: an id drawn and not committed is the   *)
(* one thing a reader cannot see; so the invariant says where such an id   *)
(* can be: above the committed ids of its own row, whose writer has the    *)
(* lock, and, while the reader has been quiet, above everything the reader *)
(* was given.  Then StandingQueries, whose specification is StandingSpec:  *)
(* the tree shows everything because ChildOf makes a forest, and the       *)
(* related walk is an induction over its hops.                             *)
(***************************************************************************)
EXTENDS JournalFeed, StandingQueries, FiniteSetTheorems, WellFoundedInduction, TLAPS

\* Ids come from one sequence, and what a query was given is in the journal.
Drawn ==
  /\ \A e \in Range(journal) \cup Uncommitted : e.id < nextId
  /\ after < nextId

\* One writer at a time holds a row, so the ids of one row are committed in the order
\* they were drawn.
Ordered ==
  /\ \A i \in 1..Len(journal) : \A j \in (i+1)..Len(journal) :
       journal[i].entity = journal[j].entity => journal[i].id < journal[j].id
  /\ \A w \in Writer : \A i \in 1..Len(drawn[w]) : \A j \in (i+1)..Len(drawn[w]) :
       drawn[w][i].id < drawn[w][j].id
  /\ \A w \in Writer : \A d \in Range(drawn[w]), e \in Range(journal) :
       d.entity = e.entity => e.id < d.id
  /\ \A w \in Writer : \A v \in Writer \ {w} : \A d \in Range(drawn[w]), e \in Range(drawn[v]) :
       d.entity # e.entity

\* What the pass was asked from is where it stands, and its window matches.
Pending == query # Nobody =>
  /\ query.window \subseteq Matching(query.asked)
  /\ query.asked.kind = "since" => query.asked.after = after

\* While no window reached past an uncommitted id, none did since.
Settled == quiet =>
  /\ QuietFeedIsWhole
  /\ \A d \in Uncommitted : d.id > after
  /\ query # Nobody /\ query.asked.kind = "since" =>
       /\ \A d \in Uncommitted, f \in query.window : d.id > f.id
       /\ \A e \in Matching(query.asked), f \in query.window : e.id <= f.id => e \in query.window

IInv == TypeOK /\ Drawn /\ Ordered /\ Pending /\ Settled

-----------------------------------------------------------------------------
\* What a journal holds.
LEMMA RangeOfSeq ==
  ASSUME NEW S, NEW s \in Seq(S)
  PROVE  /\ Range(s) \in SUBSET S
         /\ \A i \in 1..Len(s) : s[i] \in Range(s)
         /\ \A e \in Range(s) : \E i \in 1..Len(s) : s[i] = e
         /\ Range(<< >>) = {}
  BY DEF Range

LEMMA RangeOfConcat ==
  ASSUME NEW S, NEW s \in Seq(S), NEW t \in Seq(S)
  PROVE  Range(s \o t) = Range(s) \cup Range(t)
<1> DEFINE m == Len(s)
           n == Len(t)
           c == s \o t
<1>1. /\ m \in Nat /\ n \in Nat /\ DOMAIN s = 1..m /\ DOMAIN t = 1..n
      /\ DOMAIN c = 1..(m + n)
      /\ \A i \in 1..m : c[i] = s[i]
      /\ \A i \in (m + 1)..(m + n) : c[i] = t[i - m]
  OBVIOUS
<1>2. ASSUME NEW e \in Range(c) PROVE e \in Range(s) \cup Range(t)
  <2>1. PICK i \in 1..(m + n) : c[i] = e
    BY <1>1 DEF Range
  <2>2. CASE i \in 1..m
    BY <1>1, <2>1, <2>2 DEF Range
  <2>3. CASE i \in (m + 1)..(m + n)
    <3>1. i - m \in 1..n
      BY <1>1, <2>3
    <3>2. QED
      BY <1>1, <2>1, <2>3, <3>1 DEF Range
  <2>4. QED
    BY <1>1, <2>1, <2>2, <2>3
<1>3. ASSUME NEW e \in Range(s) PROVE e \in Range(c)
  BY <1>1 DEF Range
<1>4. ASSUME NEW e \in Range(t) PROVE e \in Range(c)
  <2>1. PICK j \in 1..n : t[j] = e
    BY <1>1 DEF Range
  <2>2. j + m \in (m + 1)..(m + n) /\ (j + m) - m = j /\ j + m \in 1..(m + n)
    BY <1>1
  <2>3. c[j + m] = e
    BY <1>1, <2>1, <2>2
  <2>4. QED
    BY <1>1, <2>2, <2>3 DEF Range
<1>5. QED
  BY <1>2, <1>3, <1>4

LEMMA RangeOfAppend ==
  ASSUME NEW S, NEW s \in Seq(S), NEW e \in S
  PROVE  Range(Append(s, e)) = Range(s) \cup {e}
<1>1. Append(s, e) = s \o <<e>>
  OBVIOUS
<1>2. <<e>> \in Seq(S)
  OBVIOUS
<1>3. Range(<<e>>) = {e}
  BY DEF Range
<1>4. Range(s \o <<e>>) = Range(s) \cup Range(<<e>>)
  BY <1>2, RangeOfConcat
<1>5. QED
  BY <1>1, <1>3, <1>4

LEMMA Entries ==
  ASSUME TypeOK
  PROVE  /\ Range(journal) \subseteq Entry
         /\ \A e \in Range(journal) : e.id \in Nat
         /\ \A q : Matching(q) \subseteq Range(journal)
<1>1. Range(journal) \in SUBSET Entry
  BY RangeOfSeq DEF TypeOK
<1>2. QED
  BY <1>1 DEF Matching, Entry

LEMMA JournalIsFinite ==
  ASSUME TypeOK, NEW E \in SUBSET Range(journal)
  PROVE  IsFiniteSet(E) /\ Cardinality(E) \in Nat
<1>1. PICK n \in Nat : n = Len(journal) /\ DOMAIN journal = 1..n
  BY DEF TypeOK
<1>2. IsFiniteSet(1..n)
  BY FS_Interval
<1>3. journal \in Surjection(1..n, Range(journal))
  <2>1. journal = [i \in 1..n |-> journal[i]]
    BY <1>1 DEF TypeOK
  <2>2. QED
    BY <1>1, <2>1 DEF Surjection, Range
<1>4. IsFiniteSet(Range(journal))
  BY <1>2, <1>3, FS_Surjection
<1>5. QED
  BY <1>4, FS_Subset, FS_CardinalityType

-----------------------------------------------------------------------------
\* A window is of entries that match, and reaches down to the oldest of them.
LEMMA WindowReaches ==
  ASSUME TypeOK, NEW q \in Since, NEW limit \in Nat
  PROVE  /\ Window(q, limit) \subseteq Matching(q)
         /\ \A e \in Matching(q), f \in Window(q, limit) : e.id <= f.id => e \in Window(q, limit)
<1>1. Window(q, limit) \subseteq Matching(q)
  BY DEF Window
<1>2. ASSUME NEW e \in Matching(q), NEW f \in Window(q, limit), e.id <= f.id
      PROVE  e \in Window(q, limit)
  <2> DEFINE Below(g) == {h \in Matching(q) : h.id < g.id}
  <2>0. q.kind = "since"
    BY DEF Since
  <2>1. /\ Matching(q) \subseteq Range(journal)
        /\ \A g \in Matching(q) : g.id \in Nat
    BY Entries
  <2>2. f \in Matching(q) /\ Cardinality(Below(f)) < limit
    BY <2>0 DEF Window
  <2>3. Below(e) \subseteq Below(f) /\ Below(f) \subseteq Range(journal)
    BY <1>2, <2>1, <2>2
  <2>4. IsFiniteSet(Below(f)) /\ Cardinality(Below(f)) \in Nat /\ Cardinality(Below(e)) \in Nat
    BY <2>3, JournalIsFinite
  <2>5. Cardinality(Below(e)) <= Cardinality(Below(f))
    BY <2>3, <2>4, FS_Subset
  <2>6. Cardinality(Below(e)) < limit
    BY <2>2, <2>4, <2>5
  <2>7. QED
    BY <2>0, <2>6 DEF Window
<1>3. QED
  BY <1>1, <1>2

\* The last id of a window is one of its ids, and above the others.
LEMMA NewestOfWindow ==
  ASSUME TypeOK, Drawn, query # Nobody, query.window # {}
  PROVE  /\ \E f \in query.window : f.id = After
         /\ \A f \in query.window : f.id <= After
<1> DEFINE ids == {e.id : e \in query.window}
           heads == {nextId - i : i \in ids}
<1>1. query.window \subseteq Range(journal) /\ Range(journal) \subseteq Entry
  BY Entries DEF TypeOK
<1>2. \A i \in ids : i \in Nat /\ nextId - i \in Nat
  BY <1>1 DEF Entry, Drawn, TypeOK
<1>3. heads \subseteq Nat /\ heads # {} /\ ids # {}
  BY <1>2
<1>4. IsWellFoundedOn(OpToRel(<, Nat), Nat)
  BY NatLessThanWellFounded
<1>5. PICK h \in heads : \A g \in heads : ~ (<<g, h>> \in OpToRel(<, Nat))
  BY <1>3, <1>4, WFMin
<1>6. \A g \in heads : ~ (g < h)
  BY <1>3, <1>5 DEF OpToRel
<1>7. PICK m \in ids : h = nextId - m
  OBVIOUS
<1>8. \A i \in ids : m >= i
  <2>1. ASSUME NEW i \in ids PROVE m >= i
    <3>1. nextId - i \in heads
      OBVIOUS
    <3>2. ~ (nextId - i < nextId - m)
      BY <1>6, <1>7, <3>1
    <3>3. nextId \in Nat /\ i \in Nat /\ m \in Nat
      BY <1>2 DEF TypeOK
    <3>4. QED
      BY <3>2, <3>3
  <2>2. QED
    BY <2>1
<1>9. Max(ids) \in ids /\ \A i \in ids : Max(ids) >= i
  BY <1>8 DEF Max
<1>10. After = Max(ids)
  BY DEF After
<1>11. QED
  BY <1>2, <1>9, <1>10

-----------------------------------------------------------------------------
\* What a writer's step leaves uncommitted and in the journal.
LEMMA Flushed ==
  ASSUME TypeOK
  PROVE  /\ \A d : d \in Uncommitted <=> \E w \in Writer : d \in Range(drawn[w])
         /\ Uncommitted \subseteq Entry
         /\ \A w \in Writer : drawn[w] \in Seq(Entry) /\ Range(drawn[w]) \subseteq Entry
<1>1. \A d : d \in Uncommitted <=> \E w \in Writer : d \in Range(drawn[w])
  BY DEF Uncommitted
<1>2. ASSUME NEW w \in Writer
      PROVE  drawn[w] \in Seq(Entry) /\ Range(drawn[w]) \subseteq Entry
  <2>1. drawn[w] \in Seq(Entry)
    BY DEF TypeOK
  <2>2. Range(drawn[w]) \in SUBSET Entry
    BY <2>1, RangeOfSeq
  <2>3. QED
    BY <2>1, <2>2
<1>3. QED
  BY <1>1, <1>2

LEMMA DrawingFlushes ==
  ASSUME TypeOK, NEW w \in Writer, NEW e \in Entity, NEW a \in Actor, DrawId(w, e, a)
  PROVE  LET new == [id |-> nextId, entity |-> e, actor |-> a]
         IN /\ new \in Entry
            /\ drawn'[w] = Append(drawn[w], new)
            /\ \A v \in Writer \ {w} : drawn'[v] = drawn[v]
            /\ drawn' \in [Writer -> Seq(Entry)]
            /\ Range(drawn'[w]) = Range(drawn[w]) \cup {new}
            /\ Uncommitted' = Uncommitted \cup {new}
<1> DEFINE new == [id |-> nextId, entity |-> e, actor |-> a]
<1>1. new \in Entry
  BY DEF TypeOK, Entry
<1>2. /\ drawn'[w] = Append(drawn[w], new)
      /\ \A v \in Writer \ {w} : drawn'[v] = drawn[v]
  BY DEF DrawId, TypeOK
<1>3. drawn[w] \in Seq(Entry)
  BY DEF TypeOK
<1>4. Append(drawn[w], new) \in Seq(Entry)
  BY <1>1, <1>3
<1>5. drawn' \in [Writer -> Seq(Entry)]
  BY <1>4 DEF DrawId, TypeOK
<1>6. Range(drawn'[w]) = Range(drawn[w]) \cup {new}
  BY <1>1, <1>2, <1>3, RangeOfAppend
<1>7. Uncommitted' = Uncommitted \cup {new}
  BY <1>2, <1>6 DEF Uncommitted
<1>8. QED
  BY <1>1, <1>2, <1>5, <1>6, <1>7

LEMMA EndingFlushes ==
  ASSUME TypeOK, NEW w \in Writer, Commit(w) \/ Abort(w)
  PROVE  /\ drawn'[w] = << >>
         /\ \A v \in Writer \ {w} : drawn'[v] = drawn[v]
         /\ drawn' \in [Writer -> Seq(Entry)]
         /\ Range(drawn'[w]) = {}
         /\ Uncommitted' \subseteq Uncommitted
<1>1. /\ drawn'[w] = << >>
      /\ \A v \in Writer \ {w} : drawn'[v] = drawn[v]
      /\ drawn' \in [Writer -> Seq(Entry)]
  <2>1. drawn' = [drawn EXCEPT ![w] = << >>] /\ << >> \in Seq(Entry)
    BY DEF Commit, Abort
  <2>2. QED
    BY <2>1 DEF TypeOK
<1>2. Range(<< >>) = {}
  BY DEF Range
<1>3. Uncommitted' \subseteq Uncommitted
  BY <1>1, <1>2 DEF Uncommitted
<1>4. QED
  BY <1>1, <1>2, <1>3

LEMMA CommitAppends ==
  ASSUME TypeOK, NEW w \in Writer, Commit(w)
  PROVE  /\ journal' \in Seq(Entry)
         /\ Range(journal') = Range(journal) \cup Range(drawn[w])
         /\ Range(drawn[w]) \subseteq Uncommitted
<1>1. journal \in Seq(Entry) /\ drawn[w] \in Seq(Entry)
  BY DEF TypeOK
<1>2. journal' = journal \o drawn[w]
  BY DEF Commit
<1>3. Range(journal') = Range(journal) \cup Range(drawn[w])
  BY <1>1, <1>2, RangeOfConcat
<1>4. QED
  BY <1>1, <1>2, <1>3, Flushed

-----------------------------------------------------------------------------
\* What a read asks for.
LEMMA Queries ==
  ASSUME TypeOK, Read
  PROVE  \/ \E limit \in Nat \ {0}, q \in Since \cup History :
              /\ Ask(q, limit)
              /\ q.kind = "since" => q \in Since /\ q.after = after
              /\ q.kind = "history" => q \in History
         \/ Answer
         \/ Fail
<1>1. Limit \in Nat
  BY WatchedAssumption
<1>2. ASSUME NEW limit \in 1..Limit, Ask([kind |-> "since", after |-> after], limit)
      PROVE  \E l \in Nat \ {0}, q \in Since \cup History :
              /\ Ask(q, l)
              /\ q.kind = "since" => q \in Since /\ q.after = after
              /\ q.kind = "history" => q \in History
  <2> DEFINE q == [kind |-> "since", after |-> after]
  <2>1. q \in Since /\ q.after = after /\ q.kind = "since" /\ q.kind # "history"
    BY DEF Since, TypeOK
  <2>2. limit \in Nat \ {0}
    BY <1>1
  <2>3. Ask(q, limit)
    BY <1>2
  <2> HIDE DEF q
  <2>4. QED
    BY <2>1, <2>2, <2>3
<1>3. ASSUME NEW limit \in 1..Limit, NEW e \in Entity, Ask([kind |-> "history", entity |-> e], limit)
      PROVE  \E l \in Nat \ {0}, q \in Since \cup History :
              /\ Ask(q, l)
              /\ q.kind = "since" => q \in Since /\ q.after = after
              /\ q.kind = "history" => q \in History
  <2> DEFINE q == [kind |-> "history", entity |-> e]
  <2>1. q \in History /\ q.kind # "since"
    BY DEF History
  <2>2. limit \in Nat \ {0}
    BY <1>1
  <2>3. Ask(q, limit)
    BY <1>3
  <2> HIDE DEF q
  <2>4. QED
    BY <2>1, <2>2, <2>3
<1>4. QED
  BY <1>2, <1>3 DEF Read

\* A pending query is one of the two kinds.
LEMMA QueryTyped ==
  ASSUME TypeOK, query # Nobody
  PROVE  /\ query.asked \in Since \cup History
         /\ query.asked.kind = "since" => query.asked \in Since
         /\ query.window \in SUBSET Range(journal)
<1>1. query \in [asked : Since \cup History, window : SUBSET Range(journal)]
  BY DEF TypeOK
<1>2. QED
  BY <1>1 DEF Since, History

LEMMA WindowIsRead ==
  ASSUME TypeOK, NEW q, NEW limit
  PROVE  Window(q, limit) \subseteq Matching(q) /\ Window(q, limit) \subseteq Range(journal)
  BY Entries DEF Window

-----------------------------------------------------------------------------
\* Each part of the invariant at the steps of writers and at those of the reader.
LEMMA TypedStep ==
  ASSUME TypeOK, Drawn, [Next]_vars
  PROVE  TypeOK'
<1>1. ASSUME NEW w \in Writer, NEW e \in Entity, NEW a \in Actor, DrawId(w, e, a) PROVE TypeOK'
  <2>1. drawn' \in [Writer -> Seq(Entry)]
    BY <1>1, DrawingFlushes
  <2>2. nextId' \in Nat
    BY <1>1 DEF DrawId, TypeOK
  <2>3. QED
    BY <1>1, <2>1, <2>2 DEF DrawId, TypeOK
<1>2. ASSUME NEW w \in Writer, Commit(w) PROVE TypeOK'
  <2>1. journal' \in Seq(Entry) /\ Range(journal) \subseteq Range(journal')
    BY <1>2, CommitAppends
  <2>2. drawn' \in [Writer -> Seq(Entry)]
    BY <1>2, EndingFlushes
  <2>3. query \in [asked : Since \cup History, window : SUBSET Range(journal')] \cup {Nobody}
    BY <2>1 DEF TypeOK
  <2>4. got \in SUBSET Range(journal')
    BY <2>1 DEF TypeOK
  <2>5. QED
    BY <1>2, <2>1, <2>2, <2>3, <2>4 DEF Commit, TypeOK
<1>3. ASSUME NEW w \in Writer, Abort(w) PROVE TypeOK'
  <2>1. drawn' \in [Writer -> Seq(Entry)]
    BY <1>3, EndingFlushes
  <2>2. QED
    BY <1>3, <2>1 DEF Abort, TypeOK
<1>4. ASSUME NEW limit \in Nat \ {0}, NEW q \in Since \cup History, Ask(q, limit) PROVE TypeOK'
  <2>1. Window(q, limit) \in SUBSET Range(journal)
    BY WindowIsRead
  <2>2. query' \in [asked : Since \cup History, window : SUBSET Range(journal)]
    BY <1>4, <2>1 DEF Ask
  <2>3. quiet' \in BOOLEAN
    <3>1. quiet' = (quiet /\ (q.kind = "since" => \A d \in Uncommitted, e \in Window(q, limit) : d.id > e.id))
      BY <1>4 DEF Ask
    <3>2. QED
      BY <3>1
  <2>4. QED
    BY <1>4, <2>2, <2>3 DEF Ask, TypeOK
<1>5. CASE Answer
  <2>1. query # Nobody /\ query.window \in SUBSET Range(journal)
    BY <1>5, QueryTyped DEF Answer
  <2>2. After \in Nat
    <3>1. CASE query.window = {}
      BY <3>1 DEF After, TypeOK
    <3>2. CASE query.window # {}
      BY <2>1, <3>2, NewestOfWindow, Entries
    <3>3. QED
      BY <3>1, <3>2
  <2>3. after' \in Nat /\ got' \in SUBSET Range(journal)
    BY <1>5, <2>1, <2>2 DEF Answer, TypeOK
  <2>4. QED
    BY <1>5, <2>3 DEF Answer, TypeOK
<1>6. CASE Fail \/ UNCHANGED vars
  BY <1>6 DEF Fail, vars, TypeOK
<1>7. QED
  BY <1>1, <1>2, <1>3, <1>4, <1>5, <1>6, Queries DEF Next, Write

LEMMA DrawnStep ==
  ASSUME TypeOK, Drawn, [Next]_vars
  PROVE  Drawn'
<1>1. ASSUME NEW w \in Writer, NEW e \in Entity, NEW a \in Actor, DrawId(w, e, a) PROVE Drawn'
  <2> DEFINE new == [id |-> nextId, entity |-> e, actor |-> a]
  <2>1. Uncommitted' = Uncommitted \cup {new} /\ new.id = nextId
    BY <1>1, DrawingFlushes
  <2>2. journal' = journal /\ nextId' = nextId + 1 /\ after' = after
    BY <1>1 DEF DrawId
  <2>3. \A d \in Range(journal) \cup Uncommitted : d.id \in Nat
    BY Entries, Flushed DEF Entry
  <2>4. QED
    BY <2>1, <2>2, <2>3 DEF Drawn, TypeOK
<1>2. ASSUME NEW w \in Writer, Commit(w) PROVE Drawn'
  <2>1. /\ Range(journal') \subseteq Range(journal) \cup Uncommitted
        /\ Uncommitted' \subseteq Uncommitted
    BY <1>2, CommitAppends, EndingFlushes
  <2>2. QED
    BY <1>2, <2>1 DEF Commit, Drawn
<1>3. ASSUME NEW w \in Writer, Abort(w) PROVE Drawn'
  <2>1. Uncommitted' \subseteq Uncommitted
    BY <1>3, EndingFlushes
  <2>2. QED
    BY <1>3, <2>1 DEF Abort, Drawn
<1>4. CASE Answer
  <2>1. After < nextId
    <3>1. CASE query.window = {}
      BY <3>1 DEF After, Drawn
    <3>2. CASE query.window # {}
      BY <1>4, <3>2, NewestOfWindow, QueryTyped DEF Answer, Drawn
    <3>3. QED
      BY <3>1, <3>2
  <2>2. UNCHANGED <<journal, nextId, drawn>> /\ after' \in {After, after}
    BY <1>4 DEF Answer
  <2>3. QED
    BY <2>1, <2>2 DEF Drawn, Uncommitted
<1>5. CASE Fail \/ (\E limit, q : Ask(q, limit)) \/ UNCHANGED vars
  BY <1>5 DEF Fail, Ask, vars, Drawn, Uncommitted
<1>6. QED
  BY <1>1, <1>2, <1>3, <1>4, <1>5, Queries DEF Next, Write

LEMMA OrderedStep ==
  ASSUME TypeOK, Drawn, Ordered, [Next]_vars
  PROVE  Ordered'
<1>1. ASSUME NEW w \in Writer, NEW e \in Entity, NEW a \in Actor, DrawId(w, e, a) PROVE Ordered'
  <2> DEFINE new == [id |-> nextId, entity |-> e, actor |-> a]
  <2>1. /\ new.id = nextId /\ new.entity = e
        /\ drawn'[w] = Append(drawn[w], new)
        /\ \A v \in Writer \ {w} : drawn'[v] = drawn[v]
        /\ Range(drawn'[w]) = Range(drawn[w]) \cup {new}
    BY <1>1, DrawingFlushes
  <2>2. journal' = journal /\ \A v \in Writer \ {w} : ~ Writing(v, e)
    BY <1>1 DEF DrawId, Unlocked
  <2>3. drawn[w] \in Seq(Entry)
    BY Flushed
  <2>4. \A i \in 1..Len(drawn[w]) : drawn[w][i].id < nextId
    <3>1. \A i \in 1..Len(drawn[w]) : drawn[w][i] \in Range(drawn[w])
      BY <2>3, RangeOfSeq
    <3>2. QED
      BY <3>1, Flushed DEF Drawn
  <2>5. \A i \in 1..Len(drawn'[w]) : \A j \in (i+1)..Len(drawn'[w]) :
          drawn'[w][i].id < drawn'[w][j].id
    <3>1. PICK n \in Nat : n = Len(drawn[w])
      BY <2>3
    <3>2. /\ Len(drawn'[w]) = n + 1 /\ drawn'[w][n + 1] = new
          /\ \A i \in 1..n : drawn'[w][i] = drawn[w][i]
      BY <2>1, <2>3, <3>1
    <3>3. SUFFICES ASSUME NEW i \in 1..(n + 1), NEW j \in (i+1)..(n+1)
                   PROVE  drawn'[w][i].id < drawn'[w][j].id
      BY <3>2
    <3>4. CASE j = n + 1
      <4>1. i \in 1..n
        BY <3>1
      <4>2. QED
        BY <2>1, <2>4, <3>1, <3>2, <3>4, <4>1
    <3>5. CASE j # n + 1
      <4>1. i \in 1..n /\ j \in (i+1)..n /\ j \in 1..n
        BY <3>1, <3>5
      <4>2. drawn[w][i].id < drawn[w][j].id
        BY <3>1, <4>1 DEF Ordered
      <4>3. QED
        BY <3>2, <4>1, <4>2
    <3>6. QED
      BY <3>4, <3>5
  <2>6. \A v \in Writer : \A i \in 1..Len(drawn'[v]) : \A j \in (i+1)..Len(drawn'[v]) :
          drawn'[v][i].id < drawn'[v][j].id
    BY <2>1, <2>5 DEF Ordered
  <2>7. \A v \in Writer : \A d \in Range(drawn'[v]), f \in Range(journal) :
          d.entity = f.entity => f.id < d.id
    BY <2>1 DEF Ordered, Drawn
  <2>8. \A v \in Writer : \A u \in Writer \ {v} : \A d \in Range(drawn'[v]), f \in Range(drawn'[u]) :
          d.entity # f.entity
    <3>1. ASSUME NEW v \in Writer \ {w}, NEW d \in Range(drawn[v]) PROVE d.entity # e
      BY <2>2, <3>1 DEF Writing
    <3>2. SUFFICES ASSUME NEW v \in Writer, NEW u \in Writer \ {v},
                          NEW d \in Range(drawn'[v]), NEW f \in Range(drawn'[u])
                   PROVE  d.entity # f.entity
      OBVIOUS
    <3>3. CASE d \in Range(drawn[v]) /\ f \in Range(drawn[u])
      BY <3>3 DEF Ordered
    <3>4. CASE v = w /\ d = new
      BY <2>1, <3>1, <3>4
    <3>5. CASE u = w /\ f = new
      <4>1. v \in Writer \ {w} /\ d \in Range(drawn[v])
        BY <2>1, <3>5
      <4>2. QED
        BY <2>1, <3>1, <3>5, <4>1
    <3>6. QED
      BY <2>1, <3>3, <3>4, <3>5
  <2>9. \A i \in 1..Len(journal) : \A j \in (i+1)..Len(journal) :
          journal[i].entity = journal[j].entity => journal[i].id < journal[j].id
    BY DEF Ordered
  <2>10. QED
    BY <2>2, <2>6, <2>7, <2>8, <2>9 DEF Ordered
<1>2. ASSUME NEW w \in Writer, Commit(w) PROVE Ordered'
  <2>1. /\ Range(drawn'[w]) = {} /\ drawn'[w] = << >>
        /\ \A v \in Writer \ {w} : drawn'[v] = drawn[v]
        /\ Range(journal') = Range(journal) \cup Range(drawn[w])
        /\ journal' = journal \o drawn[w]
    BY <1>2, EndingFlushes, CommitAppends DEF Commit
  <2>2. PICK m \in Nat, n \in Nat : m = Len(journal) /\ n = Len(drawn[w])
    BY Flushed DEF TypeOK
  <2>3. /\ Len(journal') = m + n
        /\ \A i \in 1..m : journal'[i] = journal[i]
        /\ \A i \in (m+1)..(m+n) : journal'[i] = drawn[w][i - m]
    <3>1. journal \in Seq(Entry) /\ drawn[w] \in Seq(Entry)
      BY Flushed DEF TypeOK
    <3>2. QED
      BY <2>1, <2>2, <3>1
  <2>4. /\ \A i \in 1..m : journal[i] \in Range(journal)
        /\ \A i \in 1..n : drawn[w][i] \in Range(drawn[w])
    <3>1. journal \in Seq(Entry) /\ drawn[w] \in Seq(Entry)
      BY Flushed DEF TypeOK
    <3>2. QED
      BY <2>2, <3>1, RangeOfSeq
  <2>5. \A i \in 1..(m+n) : \A j \in (i+1)..(m+n) :
          journal'[i].entity = journal'[j].entity => journal'[i].id < journal'[j].id
    <3>1. SUFFICES ASSUME NEW i \in 1..(m+n), NEW j \in (i+1)..(m+n),
                          journal'[i].entity = journal'[j].entity
                   PROVE  journal'[i].id < journal'[j].id
      OBVIOUS
    <3>2. CASE j \in 1..m
      <4>1. i \in 1..m /\ j \in (i+1)..m
        BY <2>2, <3>2
      <4>2. journal[i].entity = journal[j].entity => journal[i].id < journal[j].id
        BY <2>2, <4>1 DEF Ordered
      <4>3. QED
        BY <2>3, <3>1, <3>2, <4>1, <4>2
    <3>3. CASE i \in 1..m /\ j \in (m+1)..(m+n)
      <4>1. j - m \in 1..n
        BY <2>2, <3>3
      <4>2. drawn[w][j - m] \in Range(drawn[w]) /\ journal[i] \in Range(journal)
        BY <2>4, <3>3, <4>1
      <4>3. drawn[w][j - m].entity = journal[i].entity => journal[i].id < drawn[w][j - m].id
        BY <4>2 DEF Ordered
      <4>4. journal'[i] = journal[i] /\ journal'[j] = drawn[w][j - m]
        BY <2>3, <3>3
      <4>5. QED
        BY <3>1, <4>3, <4>4
    <3>4. CASE i \in (m+1)..(m+n) /\ j \in (m+1)..(m+n)
      <4>1. i - m \in 1..n /\ j - m \in ((i - m)+1)..n
        BY <2>2, <3>4
      <4>2. drawn[w][i - m].id < drawn[w][j - m].id
        BY <2>2, <4>1 DEF Ordered
      <4>3. journal'[i] = drawn[w][i - m] /\ journal'[j] = drawn[w][j - m]
        BY <2>3, <3>4
      <4>4. QED
        BY <4>2, <4>3
    <3>5. QED
      BY <2>2, <3>2, <3>3, <3>4
  <2>6. \A v \in Writer : \A i \in 1..Len(drawn'[v]) : \A j \in (i+1)..Len(drawn'[v]) :
          drawn'[v][i].id < drawn'[v][j].id
    BY <2>1 DEF Ordered
  <2>7. \A v \in Writer : \A d \in Range(drawn'[v]), e \in Range(journal') :
          d.entity = e.entity => e.id < d.id
    BY <2>1 DEF Ordered
  <2>8. \A v \in Writer : \A u \in Writer \ {v} : \A d \in Range(drawn'[v]), e \in Range(drawn'[u]) :
          d.entity # e.entity
    BY <2>1 DEF Ordered
  <2>9. QED
    BY <2>3, <2>5, <2>6, <2>7, <2>8 DEF Ordered
<1>3. ASSUME NEW w \in Writer, Abort(w) PROVE Ordered'
  <2>1. /\ Range(drawn'[w]) = {} /\ drawn'[w] = << >>
        /\ \A v \in Writer \ {w} : drawn'[v] = drawn[v]
        /\ journal' = journal
    BY <1>3, EndingFlushes DEF Abort
  <2>2. \A v \in Writer : \A i \in 1..Len(drawn'[v]) : \A j \in (i+1)..Len(drawn'[v]) :
          drawn'[v][i].id < drawn'[v][j].id
    BY <2>1 DEF Ordered
  <2>3. QED
    BY <2>1, <2>2 DEF Ordered
<1>4. CASE Read \/ UNCHANGED vars
  <2>1. UNCHANGED <<journal, drawn>>
    BY <1>4 DEF Read, Ask, Answer, Fail, vars
  <2>2. QED
    BY <2>1 DEF Ordered
<1>5. QED
  BY <1>1, <1>2, <1>3, <1>4 DEF Next, Write

LEMMA PendingStep ==
  ASSUME TypeOK, Pending, [Next]_vars
  PROVE  Pending'
<1>1. ASSUME NEW w \in Writer, Write(w) PROVE Pending'
  <2>1. Range(journal) \subseteq Range(journal')
    <3>1. CASE Commit(w)
      BY <3>1, CommitAppends
    <3>2. CASE Abort(w) \/ (\E e \in Entity, a \in Actor : DrawId(w, e, a))
      BY <3>2 DEF Abort, DrawId
    <3>3. QED
      BY <1>1, <3>1, <3>2 DEF Write
  <2>2. query' = query /\ after' = after
    BY <1>1 DEF Write, DrawId, Commit, Abort
  <2>3. \A q : Matching(q) \subseteq Matching(q)'
    BY <2>1 DEF Matching
  <2>4. Matching(query.asked) \subseteq Matching(query.asked)'
    BY <2>1, <2>2 DEF Matching
  <2>5. QED
    BY <2>2, <2>4 DEF Pending
<1>2. ASSUME NEW limit \in Nat \ {0}, NEW q \in Since \cup History, Ask(q, limit),
             q.kind = "since" => q \in Since /\ q.after = after
      PROVE  Pending'
  <2>1. /\ query'.asked = q /\ query'.window = Window(q, limit)
        /\ journal' = journal /\ after' = after
    BY <1>2 DEF Ask
  <2>2. Matching(query.asked)' = Matching(q)
    BY <2>1 DEF Matching
  <2>3. QED
    BY <1>2, <2>1, <2>2, WindowIsRead DEF Pending
<1>3. CASE Answer \/ Fail
  BY <1>3 DEF Answer, Fail, Pending
<1>4. CASE UNCHANGED vars
  BY <1>4 DEF vars, Pending, Matching
<1>5. QED
  BY <1>1, <1>2, <1>3, <1>4, Queries DEF Next

LEMMA SettledStep ==
  ASSUME TypeOK, Drawn, Pending, Settled, [Next]_vars
  PROVE  Settled'
<1>0. /\ \A e \in Range(journal) \cup Uncommitted : e.id \in Nat /\ e.id < nextId
      /\ after \in Nat /\ nextId \in Nat /\ after < nextId
  BY Entries, Flushed DEF Drawn, TypeOK, Entry
<1>1. ASSUME NEW w \in Writer, NEW e \in Entity, NEW a \in Actor, DrawId(w, e, a) PROVE Settled'
  <2> DEFINE new == [id |-> nextId, entity |-> e, actor |-> a]
  <2>1. Uncommitted' = Uncommitted \cup {new} /\ new.id = nextId
    BY <1>1, DrawingFlushes
  <2>2. UNCHANGED <<journal, query, after, got, quiet>>
    BY <1>1 DEF DrawId
  <2>3. query # Nobody => query.window \subseteq Range(journal)
    BY QueryTyped
  <2>4. /\ QuietFeedIsWhole' <=> QuietFeedIsWhole
        /\ Matching(query.asked)' = Matching(query.asked)
    BY <2>2 DEF QuietFeedIsWhole, Matching
  <2>5. new.id > after /\ \A f \in Range(journal) : new.id > f.id
    BY <1>0, <2>1
  <2> HIDE DEF new
  <2>6. QED
    BY <2>1, <2>2, <2>3, <2>4, <2>5 DEF Settled
<1>2. ASSUME NEW w \in Writer, Commit(w) PROVE Settled'
  <2>1. /\ Range(journal') = Range(journal) \cup Range(drawn[w])
        /\ Range(drawn[w]) \subseteq Uncommitted
        /\ Uncommitted' \subseteq Uncommitted
    BY <1>2, CommitAppends, EndingFlushes
  <2>2. UNCHANGED <<query, after, got, quiet>>
    BY <1>2 DEF Commit
  <2>3. SUFFICES ASSUME quiet PROVE Settled'
    BY <2>2 DEF Settled
  <2>4. ASSUME NEW e \in Range(journal'), e.id <= after PROVE e \in Range(journal)
    <3>1. \A d \in Uncommitted : d.id > after /\ d.id \in Nat
      BY <1>0, <2>3 DEF Settled
    <3>2. QED
      BY <1>0, <2>1, <2>4, <3>1
  <2>5. QuietFeedIsWhole'
    BY <2>2, <2>3, <2>4 DEF QuietFeedIsWhole, Settled
  <2>6. ASSUME query # Nobody, query.asked.kind = "since",
               NEW e \in Matching(query.asked)', NEW f \in query.window, e.id <= f.id
        PROVE  e \in query.window
    <3>1. f \in Range(journal) /\ f.id \in Nat
      BY <1>0, <2>6, QueryTyped
    <3>2. \A d \in Uncommitted : d.id > f.id /\ d.id \in Nat
      BY <1>0, <2>3, <2>6 DEF Settled
    <3>3. e \in Range(journal') /\ Matches(query.asked, e)
      BY <2>2, <2>6 DEF Matching
    <3>4. e \in Range(journal)
      BY <2>1, <2>6, <3>1, <3>2, <3>3
    <3>5. e \in Matching(query.asked)
      BY <3>3, <3>4 DEF Matching
    <3>6. QED
      BY <2>3, <2>6, <3>5 DEF Settled
  <2>7. QED
    BY <2>1, <2>2, <2>3, <2>5, <2>6 DEF Settled
<1>3. ASSUME NEW w \in Writer, Abort(w) PROVE Settled'
  <2>1. Uncommitted' \subseteq Uncommitted
    BY <1>3, EndingFlushes
  <2>2. UNCHANGED <<journal, query, after, got, quiet>>
    BY <1>3 DEF Abort
  <2>3. /\ QuietFeedIsWhole' <=> QuietFeedIsWhole
        /\ Matching(query.asked)' = Matching(query.asked)
    BY <2>2 DEF QuietFeedIsWhole, Matching
  <2>4. QED
    BY <2>1, <2>2, <2>3 DEF Settled
<1>4. ASSUME NEW limit \in Nat \ {0}, NEW q \in Since \cup History, Ask(q, limit),
             q.kind = "since" => q \in Since
      PROVE  Settled'
  <2>1. /\ query'.asked = q /\ query'.window = Window(q, limit)
        /\ UNCHANGED <<journal, drawn, after, got>>
        /\ quiet' => /\ quiet
                     /\ q.kind = "since" => \A d \in Uncommitted, e \in Window(q, limit) : d.id > e.id
    BY <1>4 DEF Ask
  <2>2. Uncommitted' = Uncommitted /\ Matching(query.asked)' = Matching(q)
    BY <2>1 DEF Uncommitted, Matching
  <2>3. quiet' => QuietFeedIsWhole'
    BY <2>1 DEF Settled, QuietFeedIsWhole
  <2>4. q.kind = "since" =>
          \A e \in Matching(q), f \in Window(q, limit) : e.id <= f.id => e \in Window(q, limit)
    BY <1>4, WindowReaches
  <2>5. QED
    BY <2>1, <2>2, <2>3, <2>4 DEF Settled
<1>5. CASE Answer
  <2>1. /\ query # Nobody /\ query' = Nobody
        /\ UNCHANGED <<journal, drawn, quiet>>
    BY <1>5 DEF Answer
  <2>2. Uncommitted' = Uncommitted
    BY <2>1 DEF Uncommitted
  <2>3. CASE query.asked.kind = "history"
    <3>1. UNCHANGED <<after, got>>
      BY <1>5, <2>3 DEF Answer
    <3>2. QuietFeedIsWhole' <=> QuietFeedIsWhole
      BY <2>1, <3>1 DEF QuietFeedIsWhole
    <3>3. QED
      BY <2>1, <2>2, <3>1, <3>2 DEF Settled
  <2>4. CASE query.asked.kind = "since"
    <3>1. got' = got \cup query.window /\ after' = After /\ query.asked.after = after
      BY <1>5, <2>1, <2>4 DEF Answer, Pending
    <3>2. SUFFICES ASSUME quiet PROVE Settled'
      BY <2>1 DEF Settled
    <3>3. CASE query.window = {}
      <4>1. after' = after /\ got' = got
        BY <3>1, <3>3 DEF After
      <4>2. QuietFeedIsWhole' <=> QuietFeedIsWhole
        BY <2>1, <4>1 DEF QuietFeedIsWhole
      <4>3. QED
        BY <2>1, <2>2, <4>1, <4>2 DEF Settled
    <3>4. CASE query.window # {}
      <4>1. PICK f \in query.window : f.id = After
        BY <2>1, <3>4, NewestOfWindow
      <4>2. \A d \in Uncommitted : d.id > After
        BY <2>1, <2>4, <3>2, <4>1 DEF Settled
      <4>3. ASSUME NEW e \in Range(journal), e.id <= After, e.actor \in Watched
            PROVE  e \in got \cup query.window
        <5>1. CASE e.id <= after
          BY <3>2, <4>3, <5>1 DEF Settled, QuietFeedIsWhole
        <5>2. CASE e.id > after
          <6>1. e \in Matching(query.asked)
            BY <2>4, <3>1, <4>3, <5>2 DEF Matching, Matches
          <6>2. QED
            BY <2>1, <2>4, <3>2, <4>1, <4>3, <6>1 DEF Settled
        <5>3. QED
          BY <1>0, <5>1, <5>2
      <4>4. QuietFeedIsWhole'
        BY <2>1, <3>1, <4>3 DEF QuietFeedIsWhole
      <4>5. QED
        BY <2>1, <2>2, <3>1, <4>2, <4>4 DEF Settled
    <3>5. QED
      BY <3>3, <3>4
  <2>5. QED
    BY <1>5, <2>3, <2>4 DEF Answer
<1>6. CASE Fail \/ UNCHANGED vars
  <2>1. /\ UNCHANGED <<journal, drawn, after, got, quiet>>
        /\ query' = Nobody \/ query' = query
    BY <1>6 DEF Fail, vars
  <2>2. /\ QuietFeedIsWhole' <=> QuietFeedIsWhole
        /\ Uncommitted' = Uncommitted
    BY <2>1 DEF QuietFeedIsWhole, Uncommitted
  <2>3. query' = query => Matching(query.asked)' = Matching(query.asked)
    BY <2>1 DEF Matching
  <2>4. QED
    BY <2>1, <2>2, <2>3 DEF Settled
<1>7. QED
  BY <1>1, <1>2, <1>3, <1>4, <1>5, <1>6, Queries DEF Next, Write

-----------------------------------------------------------------------------
LEMMA Inductive == Spec => []IInv
<1>1. Init => IInv
  <2> SUFFICES ASSUME Init PROVE IInv
    OBVIOUS
  <2>1. Range(<< >>) = {} /\ << >> \in Seq(Entry) /\ Len(<< >>) = 0
    BY DEF Range
  <2>2. Uncommitted = {} /\ Range(journal) = {}
    BY <2>1 DEF Init, Uncommitted
  <2>3. TypeOK
    BY <2>1, <2>2 DEF Init, TypeOK
  <2>4. Drawn
    BY <2>2 DEF Init, Drawn
  <2>5. Ordered
    BY <2>1 DEF Init, Ordered
  <2>6. Pending /\ Settled
    BY <2>2 DEF Init, Pending, Settled, QuietFeedIsWhole
  <2>7. QED
    BY <2>3, <2>4, <2>5, <2>6 DEF IInv
<1>2. IInv /\ [Next]_vars => IInv'
  BY TypedStep, DrawnStep, OrderedStep, PendingStep, SettledStep DEF IInv
<1>3. QED
  BY <1>1, <1>2, PTL DEF Spec

\* Every variable of writers and reader keeps its type: what a window or the reader
\* holds is in the journal.
THEOREM TypeCorrect == Spec => []TypeOK
<1>1. IInv => TypeOK
  BY DEF IInv
<1>2. QED
  BY <1>1, Inductive, PTL

\* As long as no window was read past an id still uncommitted, the learning pass misses
\* nothing behind the last id it saw (queries.journal_since), for any number of writers,
\* of entries in a transaction and of windows, of any sizes.
THEOREM QuietFeedsAreWhole == Spec => []QuietFeedIsWhole
<1>1. IInv => QuietFeedIsWhole
  <2>1. IInv /\ quiet => QuietFeedIsWhole
    BY DEF IInv, Settled
  <2>2. ~ quiet => QuietFeedIsWhole
    BY DEF QuietFeedIsWhole
  <2>3. QED
    BY <2>1, <2>2
<1>2. QED
  BY <1>1, Inductive, PTL

\* An answer that does not say it is truncated holds every entry that matches when it is
\* given (queries.History), whatever was committed between its two statements.
THEOREM TruncationsAreTold == Spec => TruncationIsTold
<1>1. ASSUME IInv, Answer, ~ Truncated
      PROVE  query.window = Matching(query.asked)
  <2>1. query # Nobody /\ query.window \subseteq Matching(query.asked)
    BY <1>1 DEF Answer, IInv, Pending
  <2>2. Matching(query.asked) \subseteq Range(journal)
    BY <1>1, Entries DEF IInv
  <2>3. /\ IsFiniteSet(Matching(query.asked))
        /\ Cardinality(Matching(query.asked)) \in Nat
        /\ Cardinality(query.window) \in Nat
    BY <1>1, <2>1, <2>2, JournalIsFinite DEF IInv
  <2>4. Cardinality(query.window) <= Cardinality(Matching(query.asked))
    BY <2>1, <2>3, FS_Subset
  <2>5. Cardinality(query.window) = Cardinality(Matching(query.asked))
    BY <1>1, <2>3, <2>4 DEF Truncated, Total
  <2>6. QED
    BY <2>1, <2>3, <2>5, FS_Subset
<1>2. IInv => (Answer /\ ~ Truncated => query.window = Matching(query.asked))
  BY <1>1
<1>3. QED
  BY <1>2, Inductive, PTL DEF TruncationIsTold

\* A history shows the state its Thing is in now (queries.history): the entry committed
\* last is in the window, and is its newest by id, however small the window.
THEOREM HistoriesShowNow == Spec => HistoryShowsNow
<1> DEFINE Shown(n) == /\ journal[n] \in query'.window
                       /\ \A e \in query'.window : e.id <= journal[n].id
           Now == query = Nobody /\ query' # Nobody /\ query'.asked.kind = "history" =>
                    \A n \in 1..Len(journal) : CommittedLast(n, query'.asked.entity) => Shown(n)
<1>1. ASSUME IInv, [Next]_vars, query = Nobody, query' # Nobody, query'.asked.kind = "history",
             NEW n \in 1..Len(journal), CommittedLast(n, query'.asked.entity)
      PROVE  Shown(n)
  <2>1. PICK limit \in Nat \ {0}, q \in Since \cup History : Ask(q, limit)
    <3>1. Read
      BY <1>1 DEF Next, Write, DrawId, Commit, Abort, vars
    <3>2. ~ Answer /\ ~ Fail
      BY <1>1 DEF Answer, Fail
    <3>3. QED
      BY <1>1, <3>1, <3>2, Queries DEF IInv
  <2>2. /\ query'.window = Window(q, limit) /\ q = query'.asked
        /\ q.kind = "history" /\ q.kind # "since"
    BY <1>1, <2>1 DEF Ask
  <2>3. /\ journal \in Seq(Entry) /\ journal[n] \in Range(journal)
        /\ \A e \in Range(journal) : \E i \in 1..Len(journal) : journal[i] = e
    BY <1>1, RangeOfSeq DEF IInv, TypeOK
  <2>4. ASSUME NEW e \in Matching(q) PROVE e.id <= journal[n].id
    <3>1. e \in Range(journal) /\ e.entity = q.entity
      BY <2>2, <2>4 DEF Matching, Matches
    <3>2. PICK i \in 1..Len(journal) : journal[i] = e
      BY <2>3, <3>1
    <3>3. Len(journal) \in Nat /\ e.id \in Nat /\ journal[n].id \in Nat
      BY <1>1, <2>3, <3>1, Entries DEF IInv
    <3>4. ~ (i \in (n+1)..Len(journal))
      BY <1>1, <2>2, <3>1, <3>2 DEF CommittedLast
    <3>5. i = n \/ n \in (i+1)..Len(journal)
      BY <3>3, <3>4
    <3>6. journal[n].entity = q.entity
      BY <1>1, <2>2 DEF CommittedLast
    <3>7. i # n => e.id < journal[n].id
      BY <1>1, <3>1, <3>2, <3>5, <3>6 DEF IInv, Ordered
    <3>8. QED
      BY <3>2, <3>3, <3>7
  <2>5. journal[n] \in Matching(q)
    BY <1>1, <2>2, <2>3 DEF CommittedLast, Matching, Matches
  <2>6. {f \in Matching(q) : f.id > journal[n].id} = {}
    <3>1. \A f \in Matching(q) : f.id \in Nat /\ journal[n].id \in Nat
      BY <1>1, <2>3, Entries DEF IInv
    <3>2. QED
      BY <2>4, <3>1
  <2>7. Cardinality({f \in Matching(q) : f.id > journal[n].id}) < limit
    <3>1. Cardinality({f \in Matching(q) : f.id > journal[n].id}) = 0
      BY <2>6, FS_EmptySet
    <3>2. QED
      BY <3>1
  <2>8. journal[n] \in Window(q, limit)
    BY <2>2, <2>5, <2>7 DEF Window
  <2>9. \A e \in Window(q, limit) : e.id <= journal[n].id
    BY <2>4 DEF Window
  <2>10. QED
    BY <2>2, <2>8, <2>9
<1>2. IInv /\ [Next]_vars => Now
  BY <1>1
<1>3. QED
  BY <1>2, Inductive, PTL DEF HistoryShowsNow, Spec

-----------------------------------------------------------------------------
\* StandingQueries.

\* Every set of Things has one that none of them is the parent of: ChildOf runs in no
\* circle, and down from somewhere.
Forest == \A S \in SUBSET Thing : S # {} => \E t \in S : \A p \in S : ~ ParentOf(p, t)

\* Only these can be waiting on anybody.
Tagged == {t \in Thing : tags[t] # {}}

\* However many Things there may be, finitely many edges and tags were ever made of them,
\* so that what the reads count has a number.
StandingInv == StandingTypeOK /\ Forest /\ IsFiniteSet(edges) /\ IsFiniteSet(Tagged)

\* relate keeps the forest: what its target reaches is closed below and does not hold its
\* source, so a set that reaches outside of it has its top there, and one inside of it
\* keeps the top it had.
LEMMA ForestGrows ==
  ASSUME StandingTypeOK, Forest, NEW e \in Edge, Relate(e)
  PROVE  Forest'
<1>1. edges' = edges \cup {e}
  BY DEF Relate
<1>2. CASE e.type # "ChildOf"
  <2>1. \A p, t : ParentOf(p, t)' <=> ParentOf(p, t)
    BY <1>1, <1>2 DEF ParentOf
  <2>2. QED
    BY <2>1 DEF Forest
<1>3. CASE e.type = "ChildOf"
  <2>1. PICK D \in SUBSET Thing :
             /\ e.target \in D /\ e.source \notin D
             /\ \A p \in D : Children(p) \subseteq D
    BY <1>3 DEF Relate, Reaches
  <2>2. \A p, t : ParentOf(p, t)' => ParentOf(p, t) \/ (p = e.source /\ t = e.target)
    BY <1>1 DEF ParentOf
  <2>3. SUFFICES ASSUME NEW S \in SUBSET Thing, S # {}
                 PROVE  \E t \in S : \A p \in S : ~ ParentOf(p, t)'
    BY DEF Forest
  <2>4. CASE S \ D # {}
    <3>1. PICK t \in S \ D : \A p \in S \ D : ~ ParentOf(p, t)
      BY <2>4 DEF Forest
    <3>2. \A p \in D : ~ ParentOf(p, t)
      BY <2>1, <3>1 DEF Children
    <3>3. QED
      BY <2>1, <2>2, <3>1, <3>2
  <2>5. CASE S \subseteq D
    <3>1. PICK t \in S : \A p \in S : ~ ParentOf(p, t)
      BY <2>3 DEF Forest
    <3>2. QED
      BY <2>1, <2>2, <2>5, <3>1
  <2>6. QED
    BY <2>4, <2>5
<1>4. QED
  BY <1>2, <1>3

\* Every write and either statement of needs_input keeps the invariant.
LEMMA StandingStep ==
  ASSUME StandingInv, [StandingNext]_standingVars
  PROVE  StandingInv'
<1> USE DEF StandingInv
<1>1. ASSUME NEW t \in Thing, ArchiveThing(t) PROVE StandingInv'
  <2>1. /\ active' \in SUBSET Thing /\ UNCHANGED <<tags, edges, ask>>
    BY <1>1 DEF ArchiveThing, StandingTypeOK
  <2>2. StandingTypeOK'
    BY <2>1 DEF StandingTypeOK, Edge, Tags
  <2>3. QED
    BY <2>1, <2>2 DEF Forest, Tagged, ParentOf
<1>2. ASSUME NEW t \in Thing, UpdateTags(t) PROVE StandingInv'
  <2>1. PICK new \in Tags : tags' = [tags EXCEPT ![t] = new]
    BY <1>2 DEF UpdateTags
  <2>2. UNCHANGED <<active, edges, ask>>
    BY <1>2 DEF UpdateTags
  <2>3. StandingTypeOK'
    BY <2>1, <2>2 DEF StandingTypeOK, Edge, Tags
  <2>4. Tagged' \subseteq Tagged \cup {t}
    BY <2>1, <2>3 DEF Tagged, StandingTypeOK
  <2>5. IsFiniteSet(Tagged')
    BY <2>4, FS_AddElement, FS_Subset
  <2>6. QED
    BY <2>2, <2>3, <2>5 DEF Forest, ParentOf
<1>3. ASSUME NEW e \in Edge, Relate(e) PROVE StandingInv'
  <2>1. /\ edges' = edges \cup {e} /\ UNCHANGED <<active, tags, ask>>
    BY <1>3 DEF Relate
  <2>2. StandingTypeOK'
    BY <2>1 DEF StandingTypeOK, Edge, Tags
  <2>3. IsFiniteSet(edges')
    BY <2>1, FS_AddElement
  <2>4. QED
    BY <1>3, <2>1, <2>2, <2>3, ForestGrows DEF Tagged
<1>4. ASSUME NEW e \in edges, Unrelate(e) PROVE StandingInv'
  <2>1. /\ edges' = edges \ {e} /\ UNCHANGED <<active, tags, ask>>
    BY <1>4 DEF Unrelate
  <2>2. StandingTypeOK'
    BY <2>1 DEF StandingTypeOK, Edge, Tags
  <2>3. IsFiniteSet(edges')
    BY <2>1, FS_RemoveElement
  <2>4. Forest'
    BY <2>1 DEF Forest, ParentOf
  <2>5. QED
    BY <2>1, <2>2, <2>3, <2>4 DEF Tagged
<1>5. ASSUME AskNeedsInput PROVE StandingInv'
  <2>1. UNCHANGED <<active, tags, edges>>
    BY <1>5 DEF AskNeedsInput
  <2>2. PICK window \in SUBSET Waiting :
             ask' = [window |-> window, waited |-> Waiting]
    BY <1>5 DEF AskNeedsInput, AskWindow, Capped
  <2>3. StandingTypeOK'
    BY <2>1, <2>2 DEF StandingTypeOK, Edge, Tags, Waiting
  <2>4. QED
    BY <2>1, <2>3 DEF Forest, Tagged, ParentOf
<1>6. ASSUME AnswerNeedsInput PROVE StandingInv'
  <2>1. ask' = NoAsk /\ UNCHANGED <<active, tags, edges>>
    BY <1>6 DEF AnswerNeedsInput
  <2>2. StandingTypeOK'
    BY <2>1 DEF StandingTypeOK, Edge, Tags
  <2>3. QED
    BY <2>1, <2>2 DEF Forest, Tagged, ParentOf
<1>7. CASE UNCHANGED standingVars
  BY <1>7 DEF standingVars, StandingTypeOK, Edge, Tags, Forest, Tagged, ParentOf
<1>8. QED
  BY <1>1, <1>2, <1>3, <1>4, <1>5, <1>6, <1>7 DEF StandingNext

LEMMA StandingInductive == StandingSpec => []StandingInv
<1>1. StandingInit => StandingInv
  <2>1. SUFFICES ASSUME StandingInit PROVE StandingInv
    OBVIOUS
  <2>2. StandingTypeOK
    BY <2>1 DEF StandingInit, StandingTypeOK, Tags
  <2>3. edges = {} /\ Tagged = {}
    BY <2>1 DEF StandingInit, Tagged
  <2>4. Forest
    BY <2>3 DEF Forest, ParentOf
  <2>5. QED
    BY <2>2, <2>3, <2>4, FS_EmptySet DEF StandingInv
<1>2. StandingInv /\ [StandingNext]_standingVars => StandingInv'
  BY StandingStep
<1>3. QED
  BY <1>1, <1>2, PTL DEF StandingSpec

\* Type correctness; what a window holds was waiting when it was read.
THEOREM StandingTypeCorrect == StandingSpec => []StandingTypeOK
<1>1. StandingInv => StandingTypeOK
  BY DEF StandingInv
<1>2. QED
  BY <1>1, StandingInductive, PTL

\* A row above an active child offers to be expanded.
LEMMA ParentOffers ==
  ASSUME IsFiniteSet(edges), NEW p \in Thing, NEW t \in Thing, t \in active,
         ParentOf(p, t)
  PROVE  HasChildren(p)
<1> DEFINE ends == {e.target : e \in edges}
           f == [e \in edges |-> e.target]
<1>1. f \in Surjection(edges, ends)
  BY DEF Surjection
<1>2. IsFiniteSet(ends)
  BY <1>1, FS_Surjection
<1>3. Children(p) \cap active \subseteq ends
  BY DEF Children, ParentOf
<1>4. IsFiniteSet(Children(p) \cap active)
  BY <1>2, <1>3, FS_Subset
<1>5. t \in Children(p) \cap active
  BY DEF Children
<1>6. /\ Cardinality(Children(p) \cap active) \in Nat
      /\ Cardinality(Children(p) \cap active) # 0
  BY <1>4, <1>5, FS_CardinalityType, FS_EmptySet
<1>7. QED
  BY <1>6 DEF HasChildren, ActiveChildCount

\* No Thing drops out of the tree (queries.tree_level): of what stands above a Thing and
\* somebody who expanded everything did not see, the forest has a top, which is a root
\* or hangs under a row that was seen and offered it.
THEOREM NobodyDropsOut == StandingSpec => []NothingDropsOut
<1>1. StandingInv => NothingDropsOut
  <2>1. SUFFICES ASSUME StandingInv, NEW t \in Listed,
                        ~ \E a \in Above(t) : a \in active \ Listed
                 PROVE  t \in InTree
    BY DEF NothingDropsOut
  <2> DEFINE A == Above(t)
  <2>2. active \in SUBSET Thing /\ t \in active /\ t \in Thing
    BY <2>1 DEF StandingInv, StandingTypeOK, Listed
  <2>3. A \subseteq Thing /\ t \in A
    BY <2>2 DEF Above
  <2>4. ASSUME NEW c \in A, NEW p \in active, ParentOf(p, c) PROVE p \in A
    BY <2>2, <2>4 DEF Above
  <2>5. A \subseteq active
    BY <2>2 DEF Above
  <2>6. A \subseteq Listed
    BY <2>1, <2>5
  <2>7. SUFFICES ASSUME NEW S \in SUBSET Thing, ExpandedOut(S), t \notin S
                 PROVE  FALSE
    BY <2>2 DEF InTree
  <2>8. PICK x \in A \ S : \A p \in A \ S : ~ ParentOf(p, x)
    BY <2>1, <2>3, <2>7 DEF StandingInv, Forest
  <2>9. x \in Listed /\ x \in active /\ x \in Thing /\ x \notin S
    BY <2>3, <2>5, <2>6, <2>8
  <2>10. Claimed(x)
    BY <2>7, <2>9 DEF ExpandedOut, TopLevel
  <2>11. PICK p \in active : ParentOf(p, x)
    BY <2>10 DEF Claimed
  <2>12. p \in A /\ p \in S /\ p \in Thing
    BY <2>3, <2>4, <2>8, <2>11
  <2>13. HasChildren(p)
    BY <2>1, <2>9, <2>11, <2>12, ParentOffers DEF StandingInv
  <2>14. x \in LevelBelow(p)
    BY <2>9, <2>11 DEF LevelBelow, Children
  <2>15. QED
    BY <2>7, <2>9, <2>12, <2>13, <2>14 DEF ExpandedOut
<1>2. QED
  BY <1>1, StandingInductive, PTL

\* An answer of needs_input that does not say it is truncated left nobody out, if nobody
\* was settled between its two statements.
THEOREM SettledAsksAreWhole == StandingSpec => SettledAskIsWhole
<1>1. ASSUME StandingInv, AnswerNeedsInput, ~ AskTruncated,
             ask.waited \subseteq Waiting
      PROVE  ask.window = Waiting
  <2>1. ask.window \subseteq Waiting
    BY <1>1 DEF StandingInv, StandingTypeOK, AnswerNeedsInput
  <2>2. Waiting \subseteq Tagged
    BY <1>1 DEF StandingInv, StandingTypeOK, Waiting, Tagged
  <2>3. IsFiniteSet(Waiting)
    BY <1>1, <2>2, FS_Subset DEF StandingInv
  <2>4. /\ IsFiniteSet(ask.window)
        /\ Cardinality(ask.window) <= Cardinality(Waiting)
        /\ Cardinality(Waiting) = Cardinality(ask.window) => Waiting = ask.window
    BY <2>1, <2>3, FS_Subset
  <2>5. Cardinality(ask.window) \in Nat /\ Cardinality(Waiting) \in Nat
    BY <2>3, <2>4, FS_CardinalityType
  <2>6. ~ (Cardinality(Waiting) > Cardinality(ask.window))
    BY <1>1 DEF AskTruncated, AskTotal
  <2>7. QED
    BY <2>4, <2>5, <2>6
<1>2. StandingInv /\ [StandingNext]_standingVars
        => [AnswerNeedsInput /\ ~ AskTruncated /\ ask.waited \subseteq Waiting
              => ask.window = Waiting]_standingVars
  BY <1>1
<1>3. QED
  BY <1>2, StandingInductive, PTL DEF StandingSpec, SettledAskIsWhole

\* A set of numbers has a least one.
LEMMA LeastOf ==
  ASSUME NEW T \in SUBSET Nat, T # {}
  PROVE  \E n \in T : \A m \in T : n <= m
<1>1. PICK n \in T : \A m \in T : ~ (<<m, n>> \in OpToRel(<, Nat))
  BY NatLessThanWellFounded, WFMin
<1>2. \A m \in T : ~ (m < n)
  BY <1>1 DEF OpToRel
<1>3. QED
  BY <1>2

\* f is N steps of g, from b.
Iterates(f, S, b, g, N) ==
  f \in [0..N -> S] /\ f[0] = b /\ \A n \in 1..N : f[n] = g[f[n-1]]

\* What is iterated from a starting point exists, for as many steps as wanted.
LEMMA Iterated ==
  ASSUME NEW S, NEW b \in S, NEW g \in [S -> S], NEW N \in Nat
  PROVE  \E f : Iterates(f, S, b, g, N)
<1> DEFINE Ok(n) == \E f : Iterates(f, S, b, g, n)
           Bad == {n \in Nat : ~ Ok(n)}
<1>1. SUFFICES ASSUME Bad # {} PROVE FALSE
  OBVIOUS
<1>2. PICK n \in Bad : \A m \in Bad : n <= m
  <2>1. Bad \in SUBSET Nat
    OBVIOUS
  <2> HIDE DEF Bad
  <2>2. QED
    BY <1>1, <2>1, LeastOf
<1>3. n # 0
  <2>1. [i \in 0..0 |-> b] \in [0..0 -> S] /\ [i \in 0..0 |-> b][0] = b
    OBVIOUS
  <2>2. \A i \in 1..0 : FALSE
    OBVIOUS
  <2>3. Ok(0)
    BY <2>1, <2>2 DEF Iterates
  <2>4. QED
    BY <1>2, <2>3
<1>4. n \in Nat /\ n - 1 \in Nat /\ Ok(n - 1)
  <2> HIDE DEF Ok
  <2>1. n \in Nat /\ n - 1 \in Nat /\ ~ (n <= n - 1)
    BY <1>2, <1>3
  <2>2. n - 1 \notin Bad
    BY <1>2, <2>1
  <2>3. QED
    BY <2>1, <2>2
<1>5. PICK f \in [0..(n-1) -> S] : f[0] = b /\ \A i \in 1..(n-1) : f[i] = g[f[i-1]]
  BY <1>4 DEF Iterates
<1> DEFINE h == [i \in 0..n |-> IF i = n THEN g[f[n-1]] ELSE f[i]]
<1>6. h \in [0..n -> S]
  <2>1. n - 1 \in 0..(n-1) /\ f[n-1] \in S /\ g[f[n-1]] \in S
    BY <1>4, <1>5
  <2>2. \A i \in 0..n : i # n => i \in 0..(n-1) /\ f[i] \in S
    BY <1>4, <1>5
  <2>3. QED
    BY <2>1, <2>2
<1>7. h[0] = b
  BY <1>3, <1>4, <1>5
<1>8. \A i \in 1..n : h[i] = g[h[i-1]]
  <2>1. SUFFICES ASSUME NEW i \in 1..n PROVE h[i] = g[h[i-1]]
    OBVIOUS
  <2>2. i - 1 \in 0..n /\ i - 1 # n /\ i \in 0..n
    BY <1>4
  <2>3. h[i-1] = f[i-1]
    BY <2>2
  <2>4. CASE i = n
    BY <2>2, <2>3, <2>4
  <2>5. CASE i # n
    <3>1. i \in 1..(n-1)
      BY <1>4, <2>5
    <3>2. h[i] = f[i] /\ f[i] = g[f[i-1]]
      BY <1>5, <2>2, <2>5, <3>1
    <3>3. QED
      BY <2>3, <3>2
  <2>6. QED
    BY <2>4, <2>5
<1>9. Ok(n)
  BY <1>6, <1>7, <1>8 DEF Iterates
<1>10. QED
  BY <1>2, <1>9

Row == [thing : Thing, path : SUBSET Thing]

\* The rows of the walk are what its recursion says.
LEMMA WalkRows ==
  ASSUME MaxDepth \in Nat, NEW origin \in Thing, NEW types
  PROVE  /\ Walk(origin, types) \in [0..MaxDepth -> SUBSET Row]
         /\ Walk(origin, types)[0] = {[thing |-> origin, path |-> {}]}
         /\ \A n \in 1..MaxDepth : Walk(origin, types)[n]
              = UNION {Onward(w, types) : w \in Walk(origin, types)[n-1]}
<1> DEFINE On(R) == UNION {Onward(w, types) : w \in R}
           b == {[thing |-> origin, path |-> {}]}
           g == [R \in SUBSET Row |-> On(R)]
           Body(f) == [n \in 0..MaxDepth |-> IF n = 0 THEN b ELSE On(f[n-1])]
           walk == Walk(origin, types)
<1>1. b \in SUBSET Row
  BY DEF Row
<1>2. g \in [SUBSET Row -> SUBSET Row]
  <2>1. ASSUME NEW w \in Row PROVE Onward(w, types) \subseteq Row
    BY <2>1 DEF Row, Onward
  <2>2. ASSUME NEW R \in SUBSET Row PROVE On(R) \in SUBSET Row
    BY <2>1
  <2> HIDE DEF On
  <2>3. QED
    BY <2>2
<1>3. PICK f \in [0..MaxDepth -> SUBSET Row] :
             f[0] = b /\ \A n \in 1..MaxDepth : f[n] = g[f[n-1]]
  <2> DEFINE S == SUBSET Row
  <2> HIDE DEF b, g, S
  <2>1. b \in S /\ g \in [S -> S]
    BY <1>1, <1>2 DEF S
  <2>2. \E f : Iterates(f, S, b, g, MaxDepth)
    BY <2>1, Iterated
  <2>3. QED
    BY <2>2 DEF S, Iterates
<1>4. f = Body(f)
  <2>1. \A n \in 1..MaxDepth : n - 1 \in 0..MaxDepth /\ g[f[n-1]] = On(f[n-1])
    BY <1>3
  <2> HIDE DEF On, b, g
  <2>2. \A n \in 0..MaxDepth : f[n] = IF n = 0 THEN b ELSE On(f[n-1])
    BY <1>3, <2>1
  <2>3. QED
    BY <1>3, <2>2
<1>5. walk = CHOOSE r : r = Body(r)
  BY DEF Walk
<1>6. walk = Body(walk)
  <2> HIDE DEF Body, walk
  <2>1. QED
    BY <1>4, <1>5
<1> HIDE DEF walk, b, On
<1>7. walk[0] = b /\ \A n \in 1..MaxDepth : walk[n] = On(walk[n-1])
  BY <1>6
<1>8. walk = f
  <2> DEFINE Off == {n \in 0..MaxDepth : walk[n] # f[n]}
  <2>1. SUFFICES ASSUME Off # {} PROVE FALSE
    <3>1. walk = [n \in 0..MaxDepth |-> walk[n]]
      BY <1>6
    <3>2. QED
      BY <1>3, <3>1
  <2>2. PICK n \in Off : \A m \in Off : n <= m
    <3>1. Off \in SUBSET Nat
      OBVIOUS
    <3> HIDE DEF Off
    <3>2. QED
      BY <2>1, <3>1, LeastOf
  <2>3. n \in 1..MaxDepth /\ n - 1 \in 0..MaxDepth /\ n - 1 \notin Off
    BY <1>3, <1>7, <2>2
  <2>4. walk[n-1] = f[n-1]
    BY <2>3
  <2>5. f[n] = On(f[n-1])
    BY <1>4, <2>3
  <2>6. QED
    BY <1>7, <2>2, <2>3, <2>4, <2>5
<1>9. QED
  BY <1>3, <1>7, <1>8 DEF walk, b, On

\* The layers around the origin are what their recursion says.
LEMMA NearLayers ==
  ASSUME MaxDepth \in Nat, NEW origin \in Thing, NEW types
  PROVE  /\ Near(origin, types) \in [0..MaxDepth -> SUBSET Thing]
         /\ Near(origin, types)[0] = {origin}
         /\ \A n \in 1..MaxDepth : Near(origin, types)[n]
              = Near(origin, types)[n-1]
                  \cup {t \in Thing : \E s \in Near(origin, types)[n-1] :
                                       Adjacent(s, t, types)}
<1> DEFINE On(R) == R \cup {t \in Thing : \E s \in R : Adjacent(s, t, types)}
           b == {origin}
           g == [R \in SUBSET Thing |-> On(R)]
           Body(f) == [n \in 0..MaxDepth |-> IF n = 0 THEN b ELSE On(f[n-1])]
           near == Near(origin, types)
<1>1. b \in SUBSET Thing
  OBVIOUS
<1>2. g \in [SUBSET Thing -> SUBSET Thing]
  OBVIOUS
<1>3. PICK f \in [0..MaxDepth -> SUBSET Thing] :
             f[0] = b /\ \A n \in 1..MaxDepth : f[n] = g[f[n-1]]
  <2> DEFINE S == SUBSET Thing
  <2> HIDE DEF b, g, S
  <2>1. b \in S /\ g \in [S -> S]
    BY <1>1, <1>2 DEF S
  <2>2. \E f : Iterates(f, S, b, g, MaxDepth)
    BY <2>1, Iterated
  <2>3. QED
    BY <2>2 DEF S, Iterates
<1>4. f = Body(f)
  <2>1. \A n \in 1..MaxDepth : n - 1 \in 0..MaxDepth /\ g[f[n-1]] = On(f[n-1])
    BY <1>3
  <2> HIDE DEF On, b, g
  <2>2. \A n \in 0..MaxDepth : f[n] = IF n = 0 THEN b ELSE On(f[n-1])
    BY <1>3, <2>1
  <2>3. QED
    BY <1>3, <2>2
<1>5. near = CHOOSE r : r = Body(r)
  BY DEF Near
<1>6. near = Body(near)
  <2> HIDE DEF Body, near
  <2>1. QED
    BY <1>4, <1>5
<1> HIDE DEF near, b, On
<1>7. near[0] = b /\ \A n \in 1..MaxDepth : near[n] = On(near[n-1])
  BY <1>6
<1>8. near = f
  <2> DEFINE Off == {n \in 0..MaxDepth : near[n] # f[n]}
  <2>1. SUFFICES ASSUME Off # {} PROVE FALSE
    <3>1. near = [n \in 0..MaxDepth |-> near[n]]
      BY <1>6
    <3>2. QED
      BY <1>3, <3>1
  <2>2. PICK n \in Off : \A m \in Off : n <= m
    <3>1. Off \in SUBSET Nat
      OBVIOUS
    <3> HIDE DEF Off
    <3>2. QED
      BY <2>1, <3>1, LeastOf
  <2>3. n \in 1..MaxDepth /\ n - 1 \in 0..MaxDepth /\ n - 1 \notin Off
    BY <1>3, <1>7, <2>2
  <2>4. near[n-1] = f[n-1]
    BY <2>3
  <2>5. f[n] = On(f[n-1])
    BY <1>4, <2>3
  <2>6. QED
    BY <1>7, <2>2, <2>3, <2>4, <2>5
<1>9. QED
  BY <1>3, <1>7, <1>8 DEF near, b, On

\* What was not nearer.
Nearer(near, n) == IF n = 0 THEN {} ELSE near[n-1]

\* The walk finds what is near, and nothing new but by a path that passes what is nearer.
LEMMA WalkFindsLayers ==
  ASSUME MaxDepth \in Nat, NEW origin \in Thing, NEW types, NEW n \in 0..MaxDepth
  PROVE  LET near == Near(origin, types)
             walk == Walk(origin, types)
         IN /\ \A w \in walk[n] : w.thing \in near[n]
            /\ \A t \in near[n] \ Nearer(near, n) :
                 \E w \in walk[n] : w.thing = t /\ w.path \subseteq Nearer(near, n)
<1> DEFINE near == Near(origin, types)
           walk == Walk(origin, types)
           Found(i) == /\ \A w \in walk[i] : w.thing \in near[i]
                       /\ \A t \in near[i] \ Nearer(near, i) :
                            \E w \in walk[i] : w.thing = t /\ w.path \subseteq Nearer(near, i)
           Bad == {i \in 0..MaxDepth : ~ Found(i)}
<1>1. /\ walk \in [0..MaxDepth -> SUBSET Row]
      /\ walk[0] = {[thing |-> origin, path |-> {}]}
      /\ \A i \in 1..MaxDepth : walk[i] = UNION {Onward(w, types) : w \in walk[i-1]}
  BY WalkRows
<1>2. /\ near \in [0..MaxDepth -> SUBSET Thing]
      /\ near[0] = {origin}
      /\ \A i \in 1..MaxDepth : near[i]
           = near[i-1] \cup {t \in Thing : \E s \in near[i-1] : Adjacent(s, t, types)}
  BY NearLayers
<1> HIDE DEF near, walk
<1>3. Found(0)
  BY <1>1, <1>2 DEF Nearer
<1>4. ASSUME NEW i \in 1..MaxDepth, Found(i-1) PROVE Found(i)
  <2>1. i - 1 \in 0..MaxDepth /\ i \in 0..MaxDepth /\ i # 0
    OBVIOUS
  <2>2. /\ walk[i-1] \subseteq Row /\ near[i-1] \subseteq Thing
        /\ walk[i] = UNION {Onward(w, types) : w \in walk[i-1]}
        /\ near[i] = near[i-1] \cup {t \in Thing : \E s \in near[i-1] : Adjacent(s, t, types)}
        /\ Nearer(near, i) = near[i-1]
    BY <1>1, <1>2, <2>1 DEF Nearer
  <2>3. Nearer(near, i-1) \subseteq near[i-1]
    <3>1. CASE i - 1 = 0
      BY <3>1 DEF Nearer
    <3>2. CASE i - 1 # 0
      <4>1. i - 1 \in 1..MaxDepth
        BY <3>2
      <4>2. QED
        BY <1>2, <3>2, <4>1 DEF Nearer
    <3>3. QED
      BY <3>1, <3>2
  <2>4. ASSUME NEW w \in walk[i] PROVE w.thing \in near[i]
    <3>1. PICK v \in walk[i-1] : w \in Onward(v, types)
      BY <2>2
    <3>2. w.thing \in Thing /\ Adjacent(v.thing, w.thing, types)
      BY <3>1 DEF Onward
    <3>3. QED
      BY <1>4, <2>2, <3>1, <3>2
  <2>5. ASSUME NEW t \in near[i] \ Nearer(near, i)
        PROVE  \E w \in walk[i] : w.thing = t /\ w.path \subseteq Nearer(near, i)
    <3>1. PICK s \in near[i-1] : t \in Thing /\ Adjacent(s, t, types)
      BY <2>2
    <3>2. s \notin Nearer(near, i-1)
      <4>1. ASSUME s \in Nearer(near, i-1) PROVE FALSE
        <5>1. i - 1 \in 1..MaxDepth /\ s \in near[(i-1)-1]
          BY <4>1 DEF Nearer
        <5>2. t \in near[i-1]
          BY <1>2, <3>1, <5>1
        <5>3. QED
          BY <2>2, <5>2
      <4>2. QED
        BY <4>1
    <3>3. PICK v \in walk[i-1] : v.thing = s /\ v.path \subseteq Nearer(near, i-1)
      BY <1>4, <3>1, <3>2
    <3>4. t \in Thing \ v.path
      BY <2>2, <2>3, <3>1, <3>3
    <3> DEFINE w == [thing |-> t, path |-> v.path \cup {v.thing}]
    <3>5. w \in Onward(v, types)
      BY <3>1, <3>3, <3>4 DEF Onward
    <3>6. w \in walk[i] /\ w.thing = t /\ w.path \subseteq Nearer(near, i)
      BY <2>2, <2>3, <3>1, <3>3, <3>5
    <3>7. QED
      BY <3>6
  <2>6. QED
    BY <2>4, <2>5
<1>5. SUFFICES ASSUME Bad # {} PROVE FALSE
  BY DEF near, walk
<1>6. PICK i \in Bad : \A m \in Bad : i <= m
  <2>1. Bad \in SUBSET Nat
    OBVIOUS
  <2> HIDE DEF Bad
  <2>2. QED
    BY <1>5, <2>1, LeastOf
<1> HIDE DEF Found
<1>7. i \in 1..MaxDepth /\ i - 1 \in 0..MaxDepth /\ ~ (i <= i - 1)
  BY <1>3, <1>6
<1>8. Found(i-1)
  BY <1>6, <1>7
<1>9. QED
  BY <1>4, <1>6, <1>7, <1>8

\* The layers only grow.
LEMMA LayersGrow ==
  ASSUME MaxDepth \in Nat, NEW origin \in Thing, NEW types,
         NEW m \in 0..MaxDepth, NEW n \in m..MaxDepth
  PROVE  Near(origin, types)[m] \subseteq Near(origin, types)[n]
<1> DEFINE near == Near(origin, types)
           Bad == {i \in m..MaxDepth : ~ (near[m] \subseteq near[i])}
<1>1. \A i \in 1..MaxDepth : near[i-1] \subseteq near[i]
  BY NearLayers
<1> HIDE DEF near
<1>2. SUFFICES ASSUME Bad # {} PROVE FALSE
  BY DEF near
<1>3. PICK i \in Bad : \A j \in Bad : i <= j
  <2>1. Bad \in SUBSET Nat
    OBVIOUS
  <2> HIDE DEF Bad
  <2>2. QED
    BY <1>2, <2>1, LeastOf
<1>4. i \in 1..MaxDepth /\ i - 1 \in m..MaxDepth /\ ~ (i <= i - 1)
  BY <1>3
<1>5. near[m] \subseteq near[i-1]
  BY <1>3, <1>4
<1>6. QED
  BY <1>1, <1>3, <1>4, <1>5

\* queries.related returns the neighbourhood, each Thing once and at its distance,
\* whatever the graph, the types asked for and MAX_RELATED_DEPTH.
THEOREM RelatedIsTheNeighbourhood == StandingSpec => []RelatedIsNeighbourhood
<1>1. RelatedIsNeighbourhood
  <2>1. MaxDepth \in Nat /\ MaxDepth >= 1
    BY DepthAssumption DEF DepthAssumption
  <2>2. SUFFICES ASSUME NEW origin \in Thing, NEW types, NEW upTo \in 1..MaxDepth
                 PROVE  LET near == Near(origin, types)
                            walk == Walk(origin, types)
                            At(n) == {w.thing : w \in walk[n]} \ {origin}
                        IN \A n \in 1..upTo :
                             At(n) \ UNION {At(m) : m \in 1..(n-1)} = near[n] \ near[n-1]
    <3>1. SUFFICES ASSUME NEW origin \in Thing, NEW types, NEW depth \in 1..(MaxDepth + 1)
                   PROVE  LET upTo == IF depth < MaxDepth THEN depth ELSE MaxDepth
                              near == Near(origin, types)
                          IN Related(origin, types, depth)
                               = UNION {[thing : near[n] \ near[n-1], depth : {n}] : n \in 1..upTo}
      BY DEF RelatedIsNeighbourhood
    <3> DEFINE upTo == IF depth < MaxDepth THEN depth ELSE MaxDepth
               near == Near(origin, types)
               walk == Walk(origin, types)
               At(n) == {w.thing : w \in walk[n]} \ {origin}
    <3>2. upTo \in 1..MaxDepth
      BY <2>1
    <3> HIDE DEF upTo, near, walk
    <3>3. \A n \in 1..upTo :
            At(n) \ UNION {At(m) : m \in 1..(n-1)} = near[n] \ near[n-1]
      BY <2>2, <3>2 DEF near, walk
    <3>4. Related(origin, types, depth)
            = UNION {[thing : At(n) \ UNION {At(m) : m \in 1..(n-1)}, depth : {n}] : n \in 1..upTo}
      BY DEF Related, upTo, walk
    <3> HIDE DEF At
    <3>5. QED
      BY <3>3, <3>4 DEF upTo, near
  <2> DEFINE near == Near(origin, types)
             walk == Walk(origin, types)
             At(n) == {w.thing : w \in walk[n]} \ {origin}
  <2>3. SUFFICES ASSUME NEW n \in 1..upTo
                 PROVE  At(n) \ UNION {At(m) : m \in 1..(n-1)} = near[n] \ near[n-1]
    OBVIOUS
  <2>4. n \in 1..MaxDepth /\ n \in 0..MaxDepth /\ n - 1 \in 0..MaxDepth
    BY <2>1
  <2>5. /\ near \in [0..MaxDepth -> SUBSET Thing] /\ near[0] = {origin}
    BY <2>1, NearLayers
  <2>6. \A m \in 0..MaxDepth : \A w \in walk[m] : w.thing \in near[m]
    BY <2>1, WalkFindsLayers
  <2>7. \A m \in 0..MaxDepth : \A t \in near[m] \ Nearer(near, m) : \E w \in walk[m] : w.thing = t
    BY <2>1, WalkFindsLayers
  <2>8. \A m \in 0..(n-1) : near[m] \subseteq near[n-1]
    BY <2>1, <2>4, LayersGrow
  <2> HIDE DEF near, walk
  <2>9. ASSUME NEW t \in near[n-1], t # origin PROVE \E m \in 1..(n-1) : t \in At(m)
    <3> DEFINE depths == {m \in 0..(n-1) : t \in near[m]}
    <3>1. depths \in SUBSET Nat /\ n - 1 \in depths
      BY <2>4, <2>9
    <3>2. PICK m \in depths : \A k \in depths : m <= k
      <4> HIDE DEF depths
      <4>1. QED
        BY <3>1, LeastOf
    <3>3. m \in 0..MaxDepth /\ t \in near[m] /\ m \in 1..(n-1)
      BY <2>1, <2>4, <2>5, <2>9, <3>2
    <3>4. t \notin Nearer(near, m)
      <4>1. m - 1 \notin depths
        BY <3>2, <3>3
      <4>2. QED
        BY <3>3, <4>1 DEF Nearer
    <3>5. PICK w \in walk[m] : w.thing = t
      BY <2>7, <3>3, <3>4
    <3>6. t \in At(m)
      BY <2>9, <3>5
    <3>7. QED
      BY <3>3, <3>6
  <2>10. ASSUME NEW t \in At(n), \A m \in 1..(n-1) : t \notin At(m) PROVE t \in near[n] \ near[n-1]
    BY <2>4, <2>6, <2>9, <2>10
  <2>11. ASSUME NEW t \in near[n] \ near[n-1] PROVE t \in At(n) /\ \A m \in 1..(n-1) : t \notin At(m)
    <3>1. t # origin
      BY <2>4, <2>5, <2>8, <2>11
    <3>2. Nearer(near, n) = near[n-1]
      BY <2>4 DEF Nearer
    <3>3. t \in At(n)
      BY <2>4, <2>7, <2>11, <3>1, <3>2
    <3>4. ASSUME NEW m \in 1..(n-1), t \in At(m) PROVE FALSE
      <4>1. m \in 0..(n-1) /\ m \in 0..MaxDepth
        BY <2>1, <2>4
      <4>2. PICK w \in walk[m] : w.thing = t
        BY <3>4
      <4>3. t \in near[m]
        BY <2>6, <4>1, <4>2
      <4>4. QED
        BY <2>8, <2>11, <4>1, <4>3
    <3>5. QED
      BY <3>3, <3>4
  <2>12. QED
    BY <2>10, <2>11
<1>2. QED
  BY <1>1, PTL

=============================================================================
