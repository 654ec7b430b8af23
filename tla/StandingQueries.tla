-------------------------- MODULE StandingQueries --------------------------
(***************************************************************************)
(* The reads of backend/queries.py that answer a standing question, beside *)
(* the tools that change the graph: the ChildOf tree the web view expands, *)
(* the neighbourhood walk, and the list of what waits on the user, which   *)
(* takes two statements.  A write is one step here: that it is atomic is   *)
(* what ThingWrites and EdgeWrites show, that ChildOf has no cycle is      *)
(* NoChildOfCycle of EdgeWrites.                                           *)
(***************************************************************************)
EXTENDS Integers, FiniteSets

CONSTANTS Thing,       \* the Things there are; none is ever deleted
          Type,        \* relationship types; "ChildOf" is the one that makes the tree
          NeedsInput,  \* NEEDS_INPUT_TAG
          Excluded,    \* TREE_EXCLUDED_TAGS: the user model's own records
          MaxDepth,    \* MAX_RELATED_DEPTH
          MaxLimit,    \* the largest limit a caller passes
          NoAsk,       \* no needs_input call is under way
          MaxEdges,    \* bound: edges that stand at once
          MaxTagged    \* bound: Things that carry a tag at once

ASSUME DepthAssumption == MaxDepth \in Nat \ {0}

VARIABLES active,  \* the Things not archived
          tags,    \* each Thing's tags
          edges,   \* the relationships that stand
          ask      \* the needs_input call under way: its window, and who was waiting

standingVars == <<active, tags, edges, ask>>

\* What a Thing may carry, as far as these reads look at it.
Tags == SUBSET ({NeedsInput} \cup Excluded)

Edge == [source : Thing, target : Thing, type : Type]

StandingInit == /\ active = Thing
                /\ tags = [t \in Thing |-> {}]
                /\ edges = {}
                /\ ask = NoAsk

-----------------------------------------------------------------------------
\* The operators named ...Mutant are each a bug the definition after them could
\* have had; nothing uses them but the mutation runs PROJECT.json lists.

\* A ChildOf edge runs from the parent to the child.
ParentOf(p, t) == \E e \in edges : e.type = "ChildOf" /\ e.source = p /\ e.target = t

Children(p) == {t \in Thing : ParentOf(p, t)}

\* What tree_level lists at all: active, and none of the user model's records.
Listed == {t \in active : tags[t] \cap Excluded = {}}

\* An archived parent goes on claiming its children.
ClaimedMutant(t) == \E p \in Thing : ParentOf(p, t)

\* Only an active parent claims a child: an archived one left the tree itself.
Claimed(t) == \E p \in active : ParentOf(p, t)

TopLevel == {t \in Listed : ~ Claimed(t)}

LevelBelow(p) == Children(p) \cap Listed

\* _active_child_counts: children counted once however many edges say so, and
\* whatever their tags.
ActiveChildCount(p) == Cardinality(Children(p) \cap active)

\* ThingSummary.has_children: the row offers to be expanded.
HasChildren(p) == ActiveChildCount(p) > 0

\* A set of rows with everything that expanding them shows.
ExpandedOut(S) == TopLevel \subseteq S /\ \A p \in S : HasChildren(p) => LevelBelow(p) \subseteq S

\* The Things somebody who expands every row that offers it comes to see.
InTree == {t \in Thing : \A S \in SUBSET Thing : ExpandedOut(S) => t \in S}

-----------------------------------------------------------------------------
\* The walk follows an edge in both directions.
Adjacent(s, t, types) ==
  \E e \in edges : /\ e.type \in types
                   /\ {e.source, e.target} = {s, t}

\* Edges are followed from source to target only.
OnwardMutant(w, types) ==
  {[thing |-> e.target, path |-> w.path \cup {w.thing}] :
     e \in {f \in edges : f.type \in types /\ f.source = w.thing /\ f.target \notin w.path}}

\* A row of the walk that is made out of row w; no Thing on the path is visited again.
Onward(w, types) ==
  {[thing |-> t, path |-> w.path \cup {w.thing}] :
     t \in {u \in Thing \ w.path : Adjacent(w.thing, u, types)}}

\* _RELATED_WALK: its rows, hop by hop; a path is kept as the set of what it passed.
Walk(origin, types) ==
  LET rows[n \in 0..MaxDepth] ==
        IF n = 0 THEN {[thing |-> origin, path |-> {}]}
                 ELSE UNION {Onward(w, types) : w \in rows[n-1]}
  IN rows

\* related: each Thing once, at its shortest depth, and never the origin.
Related(origin, types, depth) ==
  LET walk == Walk(origin, types)
      upTo == IF depth < MaxDepth THEN depth ELSE MaxDepth
      At(n) == {w.thing : w \in walk[n]} \ {origin}
  IN UNION {[thing : At(n) \ UNION {At(m) : m \in 1..(n-1)}, depth : {n}] : n \in 1..upTo}

-----------------------------------------------------------------------------
Waiting == {t \in active : NeedsInput \in tags[t]}

\* The most important `limit` of S, in an order that priorities and titles make, so
\* that it may be any of them.
Capped(S, limit) ==
  {w \in SUBSET S : Cardinality(w) = IF Cardinality(S) < limit THEN Cardinality(S) ELSE limit}

\* needs_input's first statement.
AskWindow(limit) == Capped(Waiting, limit)

AskNeedsInput ==
  /\ ask = NoAsk
  /\ \E limit \in 1..MaxLimit : \E window \in AskWindow(limit) :
       ask' = [window |-> window, waited |-> Waiting]
  /\ UNCHANGED <<active, tags, edges>>

\* The count is taken of the rows in the answer.
AskTotalMutant == Cardinality(ask.window)

\* The second statement: how many are waiting, now.
AskTotal == Cardinality(Waiting)

\* NeedsInput.truncated.
AskTruncated == AskTotal > Cardinality(ask.window)

\* The answer is given, or the call dies after its first statement.
AnswerNeedsInput ==
  /\ ask # NoAsk
  /\ ask' = NoAsk
  /\ UNCHANGED <<active, tags, edges>>

-----------------------------------------------------------------------------
\* archive_thing: the Thing and its edges stay; nothing un-archives it.
ArchiveThing(t) ==
  /\ active' = active \ {t}
  /\ UNCHANGED <<tags, edges, ask>>

\* update_thing with a tag list, which replaces the one that stands.
UpdateTags(t) ==
  /\ \E new \in Tags : tags' = [tags EXCEPT ![t] = new]
  /\ Cardinality({u \in Thing : tags'[u] # {}}) <= MaxTagged
  /\ UNCHANGED <<active, edges, ask>>

\* t is s, or below it: _CHILD_OF_REACHES.
Reaches(s, t) ==
  \A S \in SUBSET Thing : s \in S /\ (\A p \in S : Children(p) \subseteq S) => t \in S

\* relate: an edge to itself, or one that closes a ChildOf cycle, is refused.
Relate(e) ==
  /\ Cardinality(edges) < MaxEdges
  /\ e.source # e.target
  /\ e.type = "ChildOf" => ~ Reaches(e.target, e.source)
  /\ edges' = edges \cup {e}
  /\ UNCHANGED <<active, tags, ask>>

\* unrelate: the edge goes, both Things stay.
Unrelate(e) ==
  /\ edges' = edges \ {e}
  /\ UNCHANGED <<active, tags, ask>>

StandingNext == \/ \E t \in Thing : ArchiveThing(t) \/ UpdateTags(t)
                \/ \E e \in Edge : Relate(e)
                \/ \E e \in edges : Unrelate(e)
                \/ AskNeedsInput
                \/ AnswerNeedsInput

StandingSpec == StandingInit /\ [][StandingNext]_standingVars

-----------------------------------------------------------------------------
\* Type correctness; what a window holds was waiting when it was read.
StandingTypeOK ==
  /\ active \in SUBSET Thing
  /\ tags \in [Thing -> Tags]
  /\ edges \in SUBSET Edge
  /\ ask # NoAsk => ask.window \subseteq ask.waited /\ ask.waited \in SUBSET Thing

\* The Things whose children t is, through active Things only, and t itself.
Above(t) ==
  {a \in Thing : \A S \in SUBSET Thing :
     t \in S /\ (\A c \in S, p \in active : ParentOf(p, c) => p \in S) => a \in S}

\* No Thing drops out of the tree (queries.tree_level, "would appear at no level at
\* all"; things-graph spec, "so no Thing ever drops out of the tree"): whoever expands
\* every row that offers it sees every active Thing, however its parents were
\* archived, except what hangs under one of the user model's own records.
NothingDropsOut ==
  \A t \in Listed : t \in InTree \/ \E a \in Above(t) : a \in active \ Listed

\* The neighbourhood, layer by layer: what one more edge adds.
Near(origin, types) ==
  LET near[n \in 0..MaxDepth] == IF n = 0 THEN {origin}
                         ELSE near[n-1] \cup {t \in Thing : \E s \in near[n-1] : Adjacent(s, t, types)}
  IN near

\* queries.related returns the neighbourhood, each Thing once and at its distance,
\* whichever way its edges run and whatever cycles they make: the simple paths the walk
\* enumerates and the layers around the origin agree, up to MaxDepth hops.
RelatedIsNeighbourhood ==
  \A origin \in Thing, types \in SUBSET Type \ {{}}, depth \in 1..(MaxDepth + 1) :
    LET upTo == IF depth < MaxDepth THEN depth ELSE MaxDepth
        near == Near(origin, types)
    IN Related(origin, types, depth)
         = UNION {[thing : near[n] \ near[n-1], depth : {n}] : n \in 1..upTo}

\* What needs_input may be trusted with: unless somebody was settled between its two
\* statements, an answer that does not say it is truncated left nobody out.
SettledAskIsWhole ==
  [][AnswerNeedsInput /\ ~ AskTruncated /\ ask.waited \subseteq Waiting
       => ask.window = Waiting]_standingVars

=============================================================================
