------------------------ MODULE RollingDeployProofs ------------------------
(***************************************************************************)
(* RollingDeploy for every number of servers, images, rows and boots.  A   *)
(* boot that moved the version holds the version row, so nothing it read   *)
(* there has changed; one that did not move it has rewritten nothing that  *)
(* it commits; and one that was overtaken meanwhile rolls back.            *)
(***************************************************************************)
EXTENDS RollingDeploy, FiniteSetTheorems, WellFoundedInduction, TLAPS

Value == {"absent", "undated", "default", "dated", "raw", "digest", "digest of a digest", "stands"}

Written == UNION {[D -> Value] : D \in SUBSET Row}

Transaction ==
  [pc : {"plan", "rewrite", "index"}, image : Image, allow : BOOLEAN, at : Nat, base : Nat,
   moved : BOOLEAN, todo : SUBSET Row, wrote : Written, there : SUBSET Credential]

Checked == [pc : {"begin"}, image : Image, allow : BOOLEAN]

Serving == [pc : {"serve"}, image : Image]

\* Each revision rewrites the rows of its own table into its own values.
OfItsKind(s) ==
  \A x \in DOMAIN server[s].wrote :
    /\ x \in Capture => server[s].wrote[x] = "default"
    /\ x \in Credential => server[s].wrote[x] \in {"digest", "digest of a digest"}
    /\ x \in Copy => server[s].wrote[x] = "absent"

Typed ==
  /\ TypeOK
  /\ row \in [Row -> Value]
  /\ server \in [Server -> {Off} \cup Checked \cup Transaction \cup Serving]
  /\ \A s \in Migrating : OfItsKind(s)

-----------------------------------------------------------------------------
\* No unmarked revision is to come before a boot that was not allowed it is at its head.
Guarded(s, from) ==
  server[s].allow \/ \A u \in Unmarked \cap (1..server[s].image) : u <= from

\* Where a transaction is between the version it began at and its head; what it moved the
\* version from is the version still.
OnItsWay(s) ==
  LET v == server[s]
  IN /\ Guarded(s, v.base)
     /\ v.base <= rev /\ v.base <= v.at /\ v.at <= v.image
     /\ v.moved <=> v.at # v.base
     /\ v.moved => rev = v.base
     /\ v.pc # "plan" => v.at < v.image
     /\ v.pc = "index" => v.at + 1 = Unique
     /\ v.pc # "rewrite" => v.todo = {}

Versions ==
  /\ \A s \in Server : At(s, "begin") => Guarded(s, rev)
  /\ \A s \in Migrating : OnItsWay(s)
  /\ \A s, o \in Migrating : server[s].moved /\ server[o].moved => s = o
  /\ ServesItsSchema

-----------------------------------------------------------------------------
Touched(s) == server[s].todo \cup DOMAIN server[s].wrote

\* It is rewriting what revision r rewrites.
Doing(s, r) == At(s, "rewrite") /\ server[s].at + 1 = r

\* It has applied revision r.
Did(s, r) == server[s].base < r /\ r <= server[s].at

AllOne(copies) == \A c, d \in copies : c = d

\* An edge stands that the collapse leaves alone, as long as nobody else's was committed;
\* and one at most, once the index is built.
Collapses(s) ==
  /\ server[s].todo \cap Copy # {} => Doing(s, Unique)
  /\ DOMAIN server[s].wrote \cap Copy # {} => Doing(s, Unique) \/ At(s, "index") \/ Did(s, Unique)
  /\ Touched(s) \cap Copy # {} /\ rev = server[s].base
       => \E d \in Copy : row[d] # "absent" /\ d \notin Touched(s)
  /\ Built(s) => AllOne(Stand(s))

Standing == {c \in Copy : row[c] # "absent"}

Evidence ==
  /\ rev < Unique => journal = {}
  /\ Standing \cap journal = {}
  /\ journal # {} => Standing # {}
  /\ rev >= Unique => AllOne(Standing)
  /\ \A s \in Migrating : Collapses(s)

-----------------------------------------------------------------------------
\* Of a credential t that stood when the transaction began: the revision that digests t has
\* found it, and has digested it once unless the transaction was overtaken.
Carries(s, t) ==
  LET v == server[s]
  IN /\ t \in v.todo => Doing(s, DigestedAt(t))
     /\ t \in DOMAIN v.wrote => Doing(s, DigestedAt(t)) \/ Did(s, DigestedAt(t))
     /\ t \in DOMAIN v.wrote /\ rev = v.base => v.wrote[t] = "digest"
     /\ ~ (t \in v.todo /\ t \in DOMAIN v.wrote)
     /\ t \in v.todo \/ t \in v.there => row[t] # "absent"
     /\ t \in v.there /\ Doing(s, DigestedAt(t)) => t \in Touched(s)
     /\ t \in v.there /\ Did(s, DigestedAt(t)) => t \in DOMAIN v.wrote

Digests(s) == \A t \in Credential : Carries(s, t)

Credentials ==
  /\ \A t \in Credential :
       row[t] \in {"absent", "raw", "digest"} /\ (rev < DigestedAt(t) => row[t] # "digest")
  /\ \A s \in Migrating : Digests(s)

IInv == Typed /\ Versions /\ Evidence /\ Credentials

-----------------------------------------------------------------------------
LEMMA WrittenIsFunction ==
  ASSUME NEW f \in Written
  PROVE  /\ DOMAIN f \subseteq Row
         /\ \A x \in DOMAIN f : f[x] \in Value
         /\ f = [x \in DOMAIN f |-> f[x]]
  BY DEF Written

LEMMA WrittenGrows ==
  ASSUME NEW f \in Written, NEW x \in Row, NEW value \in Value
  PROVE  [y \in DOMAIN f \cup {x} |-> IF y = x THEN value ELSE f[y]] \in Written
<1> DEFINE D == DOMAIN f \cup {x}
           g == [y \in D |-> IF y = x THEN value ELSE f[y]]
<1>1. D \in SUBSET Row
  BY WrittenIsFunction
<1>2. g \in [D -> Value]
  BY WrittenIsFunction
<1>3. g \in Written
  <2> HIDE DEF D, g
  <2> QED  BY <1>1, <1>2 DEF Written
<1>4. QED
  BY <1>3

LEMMA NothingWritten == [x \in {} |-> "absent"] \in Written
<1>1. [x \in {} |-> "absent"] \in [{} -> Value]
  OBVIOUS
<1>2. {} \in SUBSET Row
  OBVIOUS
<1>3. QED
  BY <1>1, <1>2 DEF Written

\* What a server's state is, by where it is.
LEMMA Shapes ==
  ASSUME Typed, NEW s \in Server
  PROVE  /\ At(s, "begin") => server[s] \in Checked
         /\ s \in Migrating => server[s] \in Transaction
         /\ At(s, "serve") => server[s] \in Serving
         /\ server[s].pc \in {"off", "begin", "plan", "rewrite", "index", "serve"}
<1>1. server[s] \in {Off} \cup Checked \cup Transaction \cup Serving
  BY DEF Typed
<1>2. QED
  BY <1>1 DEF Off, Checked, Transaction, Serving, At, Migrating

LEMMA Revision == Typed => rev \in Nat
<1>1. Typed => rev \in Image \cup {0}
  BY DEF Typed, TypeOK
<1>2. Image \cup {0} \subseteq Nat
  BY ImageAssumption
<1>3. QED
  BY <1>1, <1>2

LEMMA Fields ==
  ASSUME Typed, NEW s \in Migrating
  PROVE  /\ s \in Server
         /\ server[s].image \in Image /\ server[s].image \in Nat
         /\ server[s].at \in Nat /\ server[s].base \in Nat
         /\ server[s].todo \subseteq Row
         /\ server[s].wrote \in Written /\ DOMAIN server[s].wrote \subseteq Row
         /\ server[s].there \subseteq Credential
         /\ rev \in Nat
<1>1. s \in Server
  BY DEF Migrating
<1>2. server[s] \in Transaction
  BY <1>1, Shapes
<1>3. QED
  BY <1>1, <1>2, Revision, ImageAssumption, WrittenIsFunction DEF Transaction

\* What a transaction sees of a row is a value of the row's kind.
LEMMA SeenKinds ==
  ASSUME Typed, NEW s \in Migrating, NEW x \in Row
  PROVE  /\ Seen(s, x) \in Value
         /\ x \in Capture => Seen(s, x) \in {"absent", "undated", "default", "dated"}
         /\ x \in Credential => Seen(s, x) \in {"absent", "raw", "digest", "digest of a digest"}
         /\ x \in Copy => Seen(s, x) \in {"absent", "stands"}
<1>1. /\ x \in Capture => row[x] \in {"absent", "undated", "default", "dated"}
      /\ x \in Credential => row[x] \in {"absent", "raw", "digest", "digest of a digest"}
      /\ x \in Copy => row[x] \in {"absent", "stands"}
      /\ row[x] \in Value
  BY DEF Typed, TypeOK
<1>2. OfItsKind(s)
  BY DEF Typed
<1>3. CASE x \in DOMAIN server[s].wrote
  <2>1. server[s].wrote[x] \in Value
    BY <1>3, Fields, WrittenIsFunction
  <2>2. QED
    BY <1>2, <1>3, <2>1 DEF OfItsKind, Seen
<1>4. CASE x \notin DOMAIN server[s].wrote
  BY <1>1, <1>4 DEF Seen
<1>5. QED
  BY <1>3, <1>4

LEMMA TypedInit == Init => Typed
  BY DEF Init, Typed, TypeOK, Row, Value, Migrating, Off

\* A step of one server's that leaves the database alone.
Alone(s, new) ==
  /\ server' = [server EXCEPT ![s] = new]
  /\ UNCHANGED <<rev, row, journal>>

LEMMA TypedAlone ==
  ASSUME Typed, NEW s \in Server, NEW new, Alone(s, new),
         new \in {Off} \cup Checked \cup Transaction \cup Serving,
         s \in Migrating' => OfItsKind(s)'
  PROVE  Typed'
<1>1. server' \in [Server -> {Off} \cup Checked \cup Transaction \cup Serving]
  BY DEF Typed, Alone
<1>2. ASSUME NEW o \in Migrating' PROVE OfItsKind(o)'
  <2>1. CASE o = s
    BY <1>2, <2>1
  <2>2. CASE o # s
    <3>1. server'[o] = server[o] /\ o \in Migrating
      BY <1>2, <2>2 DEF Alone, Typed, Migrating
    <3>2. QED
      BY <3>1 DEF Typed, OfItsKind
  <2>3. QED
    BY <2>1, <2>2
<1>3. TypeOK' /\ row' \in [Row -> Value]
  BY DEF Typed, TypeOK, Alone
<1>4. QED
  BY <1>1, <1>2, <1>3 DEF Typed

\* What each step of a transaction makes of it.
Begun(s) ==
  [pc    |-> "plan", image |-> server[s].image, allow |-> server[s].allow,
   at    |-> rev, base |-> rev, moved |-> FALSE,
   todo  |-> {}, wrote |-> [x \in {} |-> "absent"],
   there |-> {t \in Credential : row[t] # "absent"}]

Planned(s) == [server[s] EXCEPT !.pc = "rewrite", !.todo = Found(s)]

RewroteOne(s, x) ==
  [server[s] EXCEPT
     !.todo = @ \ {x},
     !.wrote = [y \in DOMAIN @ \cup {x} |-> IF y = x THEN Rewritten(x, Seen(s, x)) ELSE @[y]]]

Indexed(s) == [server[s] EXCEPT !.pc = "index"]

Advanced(s) == [server[s] EXCEPT !.pc = "plan", !.at = @ + 1, !.moved = TRUE]

\* Every step is one of these.
LEMMA Steps ==
  ASSUME [Next]_vars
  PROVE  \/ UNCHANGED <<rev, row, journal, server>>
         \/ \E s \in Server :
              \/ Alone(s, Off)
              \/ \E image \in Image, allow \in BOOLEAN :
                   /\ At(s, "off") /\ GuardPasses(image, allow)
                   /\ Alone(s, [pc |-> "begin", image |-> image, allow |-> allow])
              \/ At(s, "begin") /\ ~ (rev > server[s].image) /\ Alone(s, Begun(s))
              \/ PlanRevision(s) /\ Alone(s, Planned(s))
              \/ At(s, "rewrite") /\ \E x \in server[s].todo : Alone(s, RewroteOne(s, x))
              \/ BuildIndex(s) /\ ~ (Cardinality(Stand(s)) > 1) /\ Alone(s, Indexed(s))
              \/ MoveVersion(s) /\ VersionStands(s) /\ Alone(s, Advanced(s))
              \/ Commit(s)
              \/ \E c \in Capture : CaptureThing(s, c) \/ DateThing(s, c)
              \/ \E t \in Credential : Issue(s, t)
              \/ \E c \in Copy : RelateEvidence(s, c)
<1> SUFFICES ASSUME NEW s \in Server,
                    \/ Start(s) \/ Begin(s)
                    \/ PlanRevision(s) \/ Rewrite(s) \/ BuildIndex(s) \/ MoveVersion(s) \/ Commit(s)
                    \/ Die(s)
                    \/ \E c \in Capture : CaptureThing(s, c) \/ DateThing(s, c)
                    \/ \E t \in Credential : Issue(s, t)
                    \/ \E c \in Copy : RelateEvidence(s, c)
             PROVE  \/ Alone(s, Off)
                    \/ \E image \in Image, allow \in BOOLEAN :
                         /\ At(s, "off") /\ GuardPasses(image, allow)
                         /\ Alone(s, [pc |-> "begin", image |-> image, allow |-> allow])
                    \/ At(s, "begin") /\ ~ (rev > server[s].image) /\ Alone(s, Begun(s))
                    \/ PlanRevision(s) /\ Alone(s, Planned(s))
                    \/ At(s, "rewrite") /\ \E x \in server[s].todo : Alone(s, RewroteOne(s, x))
                    \/ BuildIndex(s) /\ ~ (Cardinality(Stand(s)) > 1) /\ Alone(s, Indexed(s))
                    \/ MoveVersion(s) /\ VersionStands(s) /\ Alone(s, Advanced(s))
                    \/ Commit(s)
                    \/ \E c \in Capture : CaptureThing(s, c) \/ DateThing(s, c)
                    \/ \E t \in Credential : Issue(s, t)
                    \/ \E c \in Copy : RelateEvidence(s, c)
  BY DEF Next, vars
<1> USE DEF Alone, Update, Down
<1>1. Start(s) => \/ Alone(s, Off)
                  \/ \E image \in Image, allow \in BOOLEAN :
                       /\ At(s, "off") /\ GuardPasses(image, allow)
                       /\ Alone(s, [pc |-> "begin", image |-> image, allow |-> allow])
  BY DEF Start
<1>2. Begin(s) => \/ Alone(s, Off)
                  \/ At(s, "begin") /\ ~ (rev > server[s].image) /\ Alone(s, Begun(s))
  BY DEF Begin, Begun
<1>3. PlanRevision(s) => Alone(s, Planned(s))
  BY Zenon DEF PlanRevision, Planned
<1>4. Rewrite(s) => At(s, "rewrite") /\ \E x \in server[s].todo : Alone(s, RewroteOne(s, x))
  BY Zenon DEF Rewrite, RewroteOne
<1>5. BuildIndex(s) => \/ Alone(s, Off)
                       \/ ~ (Cardinality(Stand(s)) > 1) /\ Alone(s, Indexed(s))
  BY DEF BuildIndex, Indexed
<1>6. MoveVersion(s) => \/ Alone(s, Off)
                        \/ VersionStands(s) /\ Alone(s, Advanced(s))
  BY DEF MoveVersion, Advanced
<1>7. Die(s) => Alone(s, Off)
  BY DEF Die
<1> HIDE DEF Alone, Update, Down
<1>8. QED
  BY <1>1, <1>2, <1>3, <1>4, <1>5, <1>6, <1>7

LEMMA RewrittenKinds ==
  ASSUME NEW x \in Row, NEW was
  PROVE  /\ Rewritten(x, was) \in Value
         /\ x \in Capture => Rewritten(x, was) = "default"
         /\ x \in Credential => Rewritten(x, was) = IF was = "raw" THEN "digest" ELSE "digest of a digest"
         /\ x \in Copy => Rewritten(x, was) = "absent"
<1>1. CASE x \in Capture
  BY <1>1, RowAssumption DEF Rewritten, Value
<1>2. CASE x \in Credential
  BY <1>2, RowAssumption DEF Rewritten, Value
<1>3. CASE x \in Copy
  BY <1>3, RowAssumption DEF Rewritten, Value
<1>4. QED
  BY <1>1, <1>2, <1>3 DEF Row

\* The transactions there are made from.
LEMMA Transactions ==
  ASSUME Typed, NEW s \in Server
  PROVE  /\ At(s, "begin") => Begun(s) \in Transaction
         /\ s \in Migrating => /\ Planned(s) \in Transaction
                               /\ Indexed(s) \in Transaction
                               /\ Advanced(s) \in Transaction
                               /\ \A x \in server[s].todo : RewroteOne(s, x) \in Transaction
<1>1. ASSUME At(s, "begin") PROVE Begun(s) \in Transaction
  <2>1. server[s].image \in Image /\ server[s].allow \in BOOLEAN
    BY <1>1, Shapes DEF Checked
  <2>2. rev \in Image \cup {0}
    BY DEF Typed, TypeOK
  <2>3. QED
    BY <2>1, <2>2, ImageAssumption, NothingWritten DEF Begun, Transaction
<1>2. ASSUME s \in Migrating PROVE server[s] \in Transaction
  BY <1>2, Shapes
<1>3. ASSUME s \in Migrating PROVE Planned(s) \in Transaction
  <2>1. Found(s) \subseteq Row
    BY DEF Found, Row, Stand, Credential
  <2>2. QED
    BY <1>2, <1>3, <2>1 DEF Planned, Transaction
<1>4. ASSUME s \in Migrating PROVE Indexed(s) \in Transaction /\ Advanced(s) \in Transaction
  <2>1. server[s] \in Transaction /\ server[s].at + 1 \in Nat
    BY <1>2, <1>4 DEF Transaction
  <2>2. Indexed(s) \in Transaction
    BY <2>1 DEF Indexed, Transaction
  <2>3. Advanced(s) = [server[s] EXCEPT !.pc = "plan", !.at = server[s].at + 1, !.moved = TRUE]
    BY DEF Advanced
  <2>4. Advanced(s) \in Transaction
    <3> DEFINE next == server[s].at + 1
    <3>1. next \in Nat /\ Advanced(s) = [server[s] EXCEPT !.pc = "plan", !.at = next, !.moved = TRUE]
      BY <2>1, <2>3
    <3> HIDE DEF next
    <3>2. QED
      BY <2>1, <3>1 DEF Transaction
  <2>5. QED
    BY <2>2, <2>4
<1>5. ASSUME s \in Migrating, NEW x \in server[s].todo PROVE RewroteOne(s, x) \in Transaction
  <2>1. x \in Row /\ server[s].wrote \in Written
    BY <1>5, Fields
  <2> DEFINE grown == [y \in DOMAIN server[s].wrote \cup {x} |->
                         IF y = x THEN Rewritten(x, Seen(s, x)) ELSE server[s].wrote[y]]
  <2>2. grown \in Written
    BY <2>1, RewrittenKinds, WrittenGrows
  <2>3. RewroteOne(s, x) = [server[s] EXCEPT !.todo = server[s].todo \ {x}, !.wrote = grown]
    BY DEF RewroteOne
  <2> HIDE DEF grown
  <2>4. QED
    BY <1>2, <1>5, <2>2, <2>3 DEF Transaction
<1>6. QED
  BY <1>1, <1>3, <1>4, <1>5

\* Reading a transaction after a step.
LEMMA RewroteFields ==
  ASSUME Typed, NEW s \in Migrating, NEW x \in server[s].todo, Alone(s, RewroteOne(s, x))
  PROVE  LET v == server[s] new == server'[s]
         IN /\ new = RewroteOne(s, x)
            /\ new.pc = v.pc /\ new.image = v.image /\ new.allow = v.allow /\ new.at = v.at
            /\ new.base = v.base /\ new.moved = v.moved /\ new.there = v.there
            /\ new.todo = v.todo \ {x}
            /\ DOMAIN new.wrote = DOMAIN v.wrote \cup {x}
            /\ new.wrote[x] = Rewritten(x, Seen(s, x))
            /\ \A y \in DOMAIN v.wrote : y # x => new.wrote[y] = v.wrote[y]
<1> DEFINE grown == [y \in DOMAIN server[s].wrote \cup {x} |->
                       IF y = x THEN Rewritten(x, Seen(s, x)) ELSE server[s].wrote[y]]
<1>1. server[s] \in Transaction /\ s \in Server
  BY Shapes DEF Migrating
<1>2. server'[s] = RewroteOne(s, x)
  BY <1>1 DEF Alone, Typed
<1>3. RewroteOne(s, x) = [server[s] EXCEPT !.todo = server[s].todo \ {x}, !.wrote = grown]
  BY DEF RewroteOne
<1>4. /\ DOMAIN grown = DOMAIN server[s].wrote \cup {x}
      /\ grown[x] = Rewritten(x, Seen(s, x))
      /\ \A y \in DOMAIN server[s].wrote : y # x => grown[y] = server[s].wrote[y]
  OBVIOUS
<1> HIDE DEF grown
<1>5. server'[s] = [server[s] EXCEPT !.todo = server[s].todo \ {x}, !.wrote = grown]
  BY <1>2, <1>3
<1>6. LET v == server[s] new == server'[s]
      IN /\ new.pc = v.pc /\ new.image = v.image /\ new.allow = v.allow /\ new.at = v.at
         /\ new.base = v.base /\ new.moved = v.moved /\ new.there = v.there
         /\ new.todo = v.todo \ {x}
         /\ new.wrote = grown
  BY <1>1, <1>5 DEF Transaction
<1>7. QED
  BY <1>2, <1>4, <1>6

LEMMA MovedFields ==
  ASSUME Typed, NEW s \in Server
  PROVE  /\ At(s, "begin") /\ Alone(s, Begun(s)) => server'[s] = Begun(s)
         /\ s \in Migrating =>
              LET v == server[s] new == server'[s]
              IN /\ Alone(s, Planned(s)) =>
                      /\ new.pc = "rewrite" /\ new.image = v.image /\ new.allow = v.allow
                      /\ new.at = v.at /\ new.base = v.base /\ new.moved = v.moved
                      /\ new.there = v.there /\ new.todo = Found(s) /\ new.wrote = v.wrote
                 /\ Alone(s, Indexed(s)) =>
                      /\ new.pc = "index" /\ new.image = v.image /\ new.allow = v.allow
                      /\ new.at = v.at /\ new.base = v.base /\ new.moved = v.moved
                      /\ new.there = v.there /\ new.todo = v.todo /\ new.wrote = v.wrote
                 /\ Alone(s, Advanced(s)) =>
                      /\ new.pc = "plan" /\ new.image = v.image /\ new.allow = v.allow
                      /\ new.at = v.at + 1 /\ new.base = v.base /\ new.moved
                      /\ new.there = v.there /\ new.todo = v.todo /\ new.wrote = v.wrote
<1>1. s \in Migrating => server[s] \in Transaction
  BY Shapes
<1>2. ASSUME NEW new, Alone(s, new) PROVE server'[s] = new
  BY <1>2 DEF Alone, Typed
<1>3. At(s, "begin") /\ Alone(s, Begun(s)) => server'[s] = Begun(s)
  BY <1>2
<1>4. s \in Migrating /\ Alone(s, Planned(s)) => server'[s] = Planned(s)
  BY <1>2
<1>5. s \in Migrating /\ Alone(s, Indexed(s)) => server'[s] = Indexed(s)
  BY <1>2
<1>6. s \in Migrating /\ Alone(s, Advanced(s)) => server'[s] = Advanced(s)
  BY <1>2
<1> DEFINE v == server[s]
           new == server'[s]
<1>7. ASSUME s \in Migrating, Alone(s, Planned(s))
      PROVE  /\ new.pc = "rewrite" /\ new.image = v.image /\ new.allow = v.allow
             /\ new.at = v.at /\ new.base = v.base /\ new.moved = v.moved
             /\ new.there = v.there /\ new.todo = Found(s) /\ new.wrote = v.wrote
  BY <1>1, <1>4, <1>7 DEF Planned, Transaction
<1>8. ASSUME s \in Migrating, Alone(s, Indexed(s))
      PROVE  /\ new.pc = "index" /\ new.image = v.image /\ new.allow = v.allow
             /\ new.at = v.at /\ new.base = v.base /\ new.moved = v.moved
             /\ new.there = v.there /\ new.todo = v.todo /\ new.wrote = v.wrote
  BY <1>1, <1>5, <1>8 DEF Indexed, Transaction
<1>9. ASSUME s \in Migrating, Alone(s, Advanced(s))
      PROVE  /\ new.pc = "plan" /\ new.image = v.image /\ new.allow = v.allow
             /\ new.at = v.at + 1 /\ new.base = v.base /\ new.moved
             /\ new.there = v.there /\ new.todo = v.todo /\ new.wrote = v.wrote
  BY <1>1, <1>6, <1>9 DEF Advanced, Transaction
<1>10. QED
  BY <1>3, <1>7, <1>8, <1>9

LEMMA OthersStand ==
  ASSUME Typed, NEW s \in Server, NEW new, server' = [server EXCEPT ![s] = new],
         NEW o \in Server, o # s
  PROVE  server'[o] = server[o] /\ (o \in Migrating' <=> o \in Migrating)
  BY DEF Typed, Migrating

LEMMA TypedCommit ==
  ASSUME Typed, Versions, NEW s \in Server, Commit(s)
  PROVE  Typed'
<1>1. s \in Migrating /\ server[s] \in Transaction
  BY Shapes DEF Commit, Migrating, At
<1>2. server' = [server EXCEPT ![s] = [pc |-> "serve", image |-> server[s].image]]
  BY DEF Commit, Update
<1>3. [pc |-> "serve", image |-> server[s].image] \in Serving
  BY <1>1 DEF Transaction, Serving
<1>4. server' \in [Server -> {Off} \cup Checked \cup Transaction \cup Serving]
  BY <1>2, <1>3 DEF Typed
<1>5. ASSUME NEW o \in Migrating' PROVE OfItsKind(o)'
  <2>1. o # s
    BY <1>2, <1>5 DEF Migrating, Typed
  <2>2. o \in Server /\ server'[o] = server[o] /\ o \in Migrating
    BY <1>2, <1>5, <2>1, OthersStand DEF Migrating
  <2>3. QED
    BY <2>2 DEF Typed, OfItsKind
<1>6. /\ row' \in [Row -> Value]
      /\ \A c \in Capture : row'[c] \in {"absent", "undated", "default", "dated"}
      /\ \A t \in Credential : row'[t] \in {"absent", "raw", "digest", "digest of a digest"}
      /\ \A c \in Copy : row'[c] \in {"absent", "stands"}
  <2>1. row' = [x \in Row |-> Seen(s, x)]
    BY DEF Commit
  <2>2. \A x \in Row : row'[x] = Seen(s, x)
    BY <2>1
  <2>3. Capture \subseteq Row /\ Credential \subseteq Row /\ Copy \subseteq Row
    BY DEF Row
  <2>4. row' \in [Row -> Value]
    BY <1>1, <2>1, SeenKinds
  <2>5. QED
    BY <1>1, <2>2, <2>3, <2>4, SeenKinds
<1>7. rev' \in Image \cup {0}
  <2>1. OnItsWay(s) /\ server[s].at = server[s].image
    BY <1>1 DEF Versions, Commit
  <2>2. QED
    BY <1>1, <2>1 DEF Commit, Typed, TypeOK, Transaction
<1>8. journal' \subseteq Copy
  BY DEF Commit, Typed, TypeOK
<1>9. QED
  BY <1>4, <1>5, <1>6, <1>7, <1>8 DEF Typed, TypeOK

LEMMA TypedWrites ==
  ASSUME Typed, NEW x \in Row, NEW value \in Value, Writes(x, value),
         x \in Capture => value \in {"undated", "default", "dated"},
         x \in Credential => value \in {"raw", "digest"},
         x \in Copy => value = "stands"
  PROVE  Typed'
<1>1. /\ row' = [row EXCEPT ![x] = value]
      /\ UNCHANGED <<rev, journal, server, boots>>
  BY DEF Writes
<1>2. row' \in [Row -> Value] /\ \A y \in Row : row'[y] = IF y = x THEN value ELSE row[y]
  BY <1>1 DEF Typed
<1>3. Capture \subseteq Row /\ Credential \subseteq Row /\ Copy \subseteq Row
  BY DEF Row
<1>4. TypeOK'
  <2>1. \A c \in Capture : row'[c] \in {"absent", "undated", "default", "dated"}
    BY <1>2, <1>3 DEF Typed, TypeOK
  <2>2. \A t \in Credential : row'[t] \in {"absent", "raw", "digest", "digest of a digest"}
    BY <1>2, <1>3 DEF Typed, TypeOK
  <2>3. \A c \in Copy : row'[c] \in {"absent", "stands"}
    BY <1>2, <1>3 DEF Typed, TypeOK
  <2>4. QED
    BY <1>1, <2>1, <2>2, <2>3 DEF Typed, TypeOK
<1>5. QED
  BY <1>1, <1>2, <1>4 DEF Typed, Migrating, OfItsKind

LEMMA TypedStep == Typed /\ Versions /\ [Next]_vars => Typed'
<1> SUFFICES ASSUME Typed, Versions, [Next]_vars PROVE Typed'
  OBVIOUS
<1>1. ASSUME UNCHANGED <<rev, row, journal, server>> PROVE Typed'
  BY <1>1 DEF Typed, TypeOK, Migrating, OfItsKind
<1>2. ASSUME NEW s \in Server, Alone(s, Off) PROVE Typed'
  <2>1. server'[s] = Off
    BY <1>2 DEF Alone, Typed
  <2>2. s \notin Migrating'
    BY <2>1 DEF Migrating, Off
  <2>3. QED
    BY <1>2, <2>2, TypedAlone
<1>3. ASSUME NEW s \in Server, NEW image \in Image, NEW allow \in BOOLEAN,
             Alone(s, [pc |-> "begin", image |-> image, allow |-> allow])
      PROVE  Typed'
  <2>1. server'[s].pc = "begin"
    BY <1>3 DEF Alone, Typed
  <2>2. s \notin Migrating'
    BY <2>1 DEF Migrating
  <2>3. [pc |-> "begin", image |-> image, allow |-> allow] \in Checked
    BY DEF Checked
  <2>4. QED
    BY <1>3, <2>2, <2>3, TypedAlone
<1>4. ASSUME NEW s \in Server, At(s, "begin"), Alone(s, Begun(s)) PROVE Typed'
  <2>1. server'[s] = Begun(s)
    BY <1>4, MovedFields
  <2>2. DOMAIN server'[s].wrote = {}
    BY <2>1 DEF Begun
  <2>3. OfItsKind(s)'
    BY <2>2 DEF OfItsKind
  <2>4. QED
    BY <1>4, <2>3, Transactions, TypedAlone
<1>5. ASSUME NEW s \in Migrating,
             \/ Alone(s, Planned(s))
             \/ Alone(s, Indexed(s))
             \/ Alone(s, Advanced(s))
      PROVE  Typed'
  <2>1. s \in Server /\ OfItsKind(s)
    BY DEF Migrating, Typed
  <2>2. server'[s].wrote = server[s].wrote
    BY <1>5, <2>1, MovedFields
  <2>3. OfItsKind(s)'
    BY <2>1, <2>2 DEF OfItsKind
  <2>4. QED
    BY <1>5, <2>1, <2>3, Transactions, TypedAlone
<1>6. ASSUME NEW s \in Migrating, NEW x \in server[s].todo, Alone(s, RewroteOne(s, x))
      PROVE  Typed'
  <2>1. s \in Server /\ OfItsKind(s) /\ x \in Row
    BY Fields DEF Migrating, Typed
  <2>2. /\ DOMAIN server'[s].wrote = DOMAIN server[s].wrote \cup {x}
        /\ server'[s].wrote[x] = Rewritten(x, Seen(s, x))
        /\ \A y \in DOMAIN server[s].wrote : y # x => server'[s].wrote[y] = server[s].wrote[y]
    BY <1>6, RewroteFields
  <2>3. OfItsKind(s)'
    <3> DEFINE now == server'[s].wrote
    <3>1. /\ x \in Capture => now[x] = "default"
          /\ x \in Credential => now[x] \in {"digest", "digest of a digest"}
          /\ x \in Copy => now[x] = "absent"
      BY <2>1, <2>2, RewrittenKinds
    <3>2. \A y \in DOMAIN now : y # x => y \in DOMAIN server[s].wrote /\ now[y] = server[s].wrote[y]
      BY <2>2
    <3>3. QED
      BY <2>1, <3>1, <3>2 DEF OfItsKind
  <2>4. QED
    BY <1>6, <2>1, <2>3, Transactions, TypedAlone
<1>7. ASSUME NEW s \in Server, Commit(s) PROVE Typed'
  BY <1>7, TypedCommit
<1>8. ASSUME NEW s \in Server, NEW c \in Capture, CaptureThing(s, c) \/ DateThing(s, c) PROVE Typed'
  <2>1. PICK value \in {"undated", "default", "dated"} : Writes(c, value)
    BY <1>8 DEF CaptureThing, DateThing
  <2>2. QED
    BY <2>1, TypedWrites, RowAssumption DEF Value, Row
<1>9. ASSUME NEW s \in Server, NEW t \in Credential, Issue(s, t) PROVE Typed'
  <2>1. PICK value \in {"raw", "digest"} : Writes(t, value)
    BY <1>9 DEF Issue
  <2>2. QED
    BY <2>1, TypedWrites, RowAssumption DEF Value, Row
<1>10. ASSUME NEW s \in Server, NEW c \in Copy, RelateEvidence(s, c) PROVE Typed'
  <2>1. Writes(c, "stands")
    BY <1>10 DEF RelateEvidence
  <2>2. QED
    BY <2>1, TypedWrites, RowAssumption DEF Value, Row
<1>11. \A s \in Server : /\ PlanRevision(s) \/ BuildIndex(s) \/ MoveVersion(s) => s \in Migrating
                         /\ At(s, "rewrite") => s \in Migrating
  BY DEF PlanRevision, BuildIndex, MoveVersion, Migrating, At
<1>12. QED
  BY <1>1, <1>2, <1>3, <1>4, <1>5, <1>6, <1>7, <1>8, <1>9, <1>10, <1>11, Steps

-----------------------------------------------------------------------------
LEMMA VersionsInit == Init => Versions
  BY DEF Init, Versions, ServesItsSchema, Migrating, At, Off

LEMMA VersionsAlone ==
  ASSUME Typed, Versions, NEW s \in Server, NEW new, Alone(s, new),
         new.pc = "begin" => Guarded(s, rev)',
         new.pc # "serve",
         s \in Migrating' => OnItsWay(s)',
         s \in Migrating' /\ new.moved => \A o \in Migrating \ {s} : ~ server[o].moved
  PROVE  Versions'
<1>1. server'[s] = new /\ rev' = rev /\ server' = [server EXCEPT ![s] = new]
  BY DEF Alone, Typed
<1>2. \A o \in Server \ {s} : server'[o] = server[o] /\ (o \in Migrating' <=> o \in Migrating)
  BY <1>1, OthersStand
<1>3. ASSUME NEW o \in Server, At(o, "begin")' PROVE Guarded(o, rev)'
  BY <1>1, <1>2, <1>3 DEF Versions, At, Guarded
<1>4. ASSUME NEW o \in Migrating' PROVE OnItsWay(o)'
  <2>1. CASE o = s
    BY <1>4, <2>1
  <2>2. CASE o # s
    <3>1. o \in Server /\ o \in Migrating /\ server'[o] = server[o]
      BY <1>2, <1>4, <2>2 DEF Migrating
    <3>2. OnItsWay(o)
      BY <3>1 DEF Versions
    <3>3. QED
      BY <1>1, <3>1, <3>2 DEF OnItsWay, Guarded
  <2>3. QED
    BY <2>1, <2>2
<1>5. ASSUME NEW o \in Migrating', NEW p \in Migrating', server'[o].moved, server'[p].moved
      PROVE  o = p
  BY <1>1, <1>2, <1>5 DEF Versions, Migrating
<1>6. ServesItsSchema'
  BY <1>1, <1>2 DEF Versions, ServesItsSchema, At
<1>7. QED
  BY <1>3, <1>4, <1>5, <1>6 DEF Versions

LEMMA VersionsCommit ==
  ASSUME Typed, Versions, NEW s \in Server, Commit(s)
  PROVE  Versions' /\ rev <= rev' /\ rev' \in Nat
<1>1. s \in Migrating /\ OnItsWay(s) /\ server[s] \in Transaction
  BY Shapes DEF Commit, Migrating, At, Versions
<1>2. /\ server' = [server EXCEPT ![s] = [pc |-> "serve", image |-> server[s].image]]
      /\ rev' = IF server[s].moved THEN server[s].at ELSE rev
      /\ server[s].at = server[s].image
  BY DEF Commit, Update
<1>3. \A o \in Server \ {s} : server'[o] = server[o] /\ (o \in Migrating' <=> o \in Migrating)
  BY <1>2, OthersStand
<1>4. server'[s] = [pc |-> "serve", image |-> server[s].image]
  BY <1>2 DEF Typed
<1>5. s \notin Migrating'
  BY <1>4 DEF Migrating
<1>6. /\ rev \in Nat /\ rev' \in Nat /\ rev <= rev'
      /\ server[s].image <= rev'
      /\ server[s].image \in Nat
  BY <1>1, <1>2, Fields DEF OnItsWay
<1>7. ASSUME NEW o \in Server, At(o, "begin")' PROVE Guarded(o, rev)'
  <2>1. o # s /\ server'[o] = server[o] /\ At(o, "begin") /\ Guarded(o, rev)
    BY <1>3, <1>4, <1>7 DEF At, Versions
  <2>2. Unmarked \subseteq Nat
    BY ImageAssumption
  <2>3. QED
    BY <1>6, <2>1, <2>2 DEF Guarded
<1>8. ASSUME NEW o \in Migrating' PROVE OnItsWay(o)'
  <2>1. o # s /\ o \in Migrating /\ server'[o] = server[o] /\ OnItsWay(o)
    BY <1>3, <1>5, <1>8 DEF Migrating, Versions
  <2>2. server[o].moved => rev' = rev
    BY <1>1, <1>2, <2>1 DEF Versions
  <2>3. server[o].base \in Nat
    BY <2>1, Fields
  <2>4. server[o].base <= rev'
    BY <1>6, <2>1, <2>3 DEF OnItsWay
  <2>5. QED
    BY <2>1, <2>2, <2>4 DEF OnItsWay, Guarded
<1>9. ASSUME NEW o \in Migrating', NEW p \in Migrating', server'[o].moved, server'[p].moved
      PROVE  o = p
  BY <1>3, <1>5, <1>9 DEF Versions, Migrating
<1>10. ASSUME NEW o \in Server, At(o, "serve")' PROVE server'[o].image <= rev'
  <2>1. CASE o = s
    BY <1>4, <1>6, <2>1
  <2>2. CASE o # s
    <3>1. server'[o] = server[o] /\ server[o].image <= rev
      BY <1>3, <1>10, <2>2 DEF At, Versions, ServesItsSchema
    <3>2. server[o].image \in Nat
      BY <1>3, <1>10, <2>2, Shapes, ImageAssumption DEF At, Serving
    <3>3. QED
      BY <1>6, <3>1, <3>2
  <2>3. QED
    BY <2>1, <2>2
<1>11. QED
  BY <1>6, <1>7, <1>8, <1>9, <1>10 DEF Versions, ServesItsSchema

LEMMA VersionsStep == Typed /\ Versions /\ [Next]_vars => Versions'
<1> SUFFICES ASSUME Typed, Versions, [Next]_vars PROVE Versions'
  OBVIOUS
<1>1. ASSUME UNCHANGED <<rev, server>> PROVE Versions'
  BY <1>1 DEF Versions, ServesItsSchema, Migrating, At, Guarded, OnItsWay
<1>2. ASSUME NEW s \in Server, Alone(s, Off) PROVE Versions'
  <2>1. server'[s] = Off
    BY <1>2 DEF Alone, Typed
  <2>2. s \notin Migrating' /\ Off.pc = "off"
    BY <2>1 DEF Migrating, Off
  <2>3. QED
    BY <1>2, <2>2, VersionsAlone
<1>3. ASSUME NEW s \in Server, NEW image \in Image, NEW allow \in BOOLEAN,
             GuardPasses(image, allow),
             Alone(s, [pc |-> "begin", image |-> image, allow |-> allow])
      PROVE  Versions'
  <2>1. server'[s] = [pc |-> "begin", image |-> image, allow |-> allow] /\ rev' = rev
    BY <1>3 DEF Alone, Typed
  <2>2. s \notin Migrating'
    BY <2>1 DEF Migrating
  <2>3. rev \in Nat
    BY Revision
  <2>4. Guarded(s, rev)'
    BY <1>3, <2>1, <2>3 DEF Guarded, GuardPasses
  <2>5. QED
    BY <1>3, <2>2, <2>4, VersionsAlone
<1>4. ASSUME NEW s \in Server, At(s, "begin"), ~ (rev > server[s].image), Alone(s, Begun(s))
      PROVE  Versions'
  <2>1. server'[s] = Begun(s) /\ rev' = rev
    BY <1>4, MovedFields DEF Alone
  <2>2. rev \in Nat /\ server[s].image \in Nat
    BY <1>4, Revision, Shapes, ImageAssumption DEF Checked
  <2>3. Guarded(s, rev)
    BY <1>4 DEF Versions
  <2>4. OnItsWay(s)'
    BY <1>4, <2>1, <2>2, <2>3 DEF OnItsWay, Guarded, Begun
  <2>5. Begun(s).pc = "plan" /\ ~ Begun(s).moved
    BY DEF Begun
  <2>6. QED
    BY <1>4, <2>4, <2>5, VersionsAlone
<1>5. ASSUME NEW s \in Migrating, PlanRevision(s), Alone(s, Planned(s)) PROVE Versions'
  <2>1. OnItsWay(s) /\ s \in Server /\ server[s].at < server[s].image
    BY <1>5 DEF Versions, PlanRevision, Migrating
  <2>2. server'[s] = Planned(s) /\ rev' = rev
    BY <1>5, <2>1 DEF Alone, Typed
  <2>3. OnItsWay(s)'
    BY <1>5, <2>1, <2>2, MovedFields DEF OnItsWay, Guarded
  <2>4. Planned(s).pc = "rewrite" /\ Planned(s).moved = server[s].moved
    BY <1>5, <2>1, <2>2, MovedFields
  <2>5. QED
    BY <1>5, <2>1, <2>3, <2>4, VersionsAlone DEF Versions
<1>6. ASSUME NEW s \in Migrating, At(s, "rewrite"), NEW x \in server[s].todo, Alone(s, RewroteOne(s, x))
      PROVE  Versions'
  <2>1. OnItsWay(s) /\ s \in Server
    BY DEF Versions, Migrating
  <2>2. server'[s] = RewroteOne(s, x) /\ rev' = rev
    BY <1>6, <2>1 DEF Alone, Typed
  <2>3. OnItsWay(s)'
    BY <1>6, <2>1, <2>2, RewroteFields DEF OnItsWay, Guarded, At
  <2>4. RewroteOne(s, x).pc = "rewrite" /\ RewroteOne(s, x).moved = server[s].moved
    BY <1>6, <2>1, <2>2, RewroteFields DEF At
  <2>5. QED
    BY <1>6, <2>1, <2>3, <2>4, VersionsAlone DEF Versions
<1>7. ASSUME NEW s \in Migrating, BuildIndex(s), Alone(s, Indexed(s)) PROVE Versions'
  <2>1. /\ OnItsWay(s) /\ s \in Server
        /\ At(s, "rewrite") /\ server[s].todo = {} /\ server[s].at + 1 = Unique
    BY <1>7 DEF Versions, BuildIndex, Migrating
  <2>2. server'[s] = Indexed(s) /\ rev' = rev
    BY <1>7, <2>1 DEF Alone, Typed
  <2>3. OnItsWay(s)'
    BY <1>7, <2>1, <2>2, MovedFields DEF OnItsWay, Guarded, At
  <2>4. Indexed(s).pc = "index" /\ Indexed(s).moved = server[s].moved
    BY <1>7, <2>1, <2>2, MovedFields
  <2>5. QED
    BY <1>7, <2>1, <2>3, <2>4, VersionsAlone DEF Versions
<1>8. ASSUME NEW s \in Migrating, MoveVersion(s), VersionStands(s), Alone(s, Advanced(s))
      PROVE  Versions'
  <2>1. /\ OnItsWay(s) /\ s \in Server
        /\ server[s].pc # "plan" /\ server[s].todo = {}
        /\ \A o \in Migrating \ {s} : ~ server[o].moved
        /\ server[s].moved \/ rev = server[s].base
    BY <1>8 DEF Versions, MoveVersion, VersionStands, Migrating, OnItsWay, At
  <2>2. server'[s] = Advanced(s) /\ rev' = rev
    BY <1>8, <2>1 DEF Alone, Typed
  <2>3. server[s].at \in Nat /\ server[s].base \in Nat /\ server[s].image \in Nat
    BY Fields
  <2>4. OnItsWay(s)'
    BY <1>8, <2>1, <2>2, <2>3, MovedFields DEF OnItsWay, Guarded
  <2>5. Advanced(s).pc = "plan"
    BY <1>8, <2>1, <2>2, MovedFields
  <2>6. QED
    BY <1>8, <2>1, <2>4, <2>5, VersionsAlone
<1>9. ASSUME NEW s \in Server, Commit(s) PROVE Versions'
  BY <1>9, VersionsCommit
<1>10. ASSUME NEW s \in Server,
              \/ \E c \in Capture : CaptureThing(s, c) \/ DateThing(s, c)
              \/ \E t \in Credential : Issue(s, t)
              \/ \E c \in Copy : RelateEvidence(s, c)
       PROVE  UNCHANGED <<rev, server>>
  BY <1>10 DEF CaptureThing, DateThing, Issue, RelateEvidence, Writes
<1>11. \A s \in Server : /\ PlanRevision(s) \/ BuildIndex(s) \/ MoveVersion(s) => s \in Migrating
                         /\ At(s, "rewrite") => s \in Migrating
  BY DEF PlanRevision, BuildIndex, MoveVersion, Migrating, At
<1>12. QED
  BY <1>1, <1>2, <1>3, <1>4, <1>5, <1>6, <1>7, <1>8, <1>9, <1>10, <1>11, Steps

-----------------------------------------------------------------------------
LEMMA EarliestCopy ==
  ASSUME NEW copies \in SUBSET Copy, copies # {}
  PROVE  \E d \in copies : \A c \in copies : ~ (c < d)
<1>1. copies \subseteq Nat
  BY CopiesAssumption DEF Copy
<1>2. IsWellFoundedOn(OpToRel(<, Nat), Nat)
  BY NatLessThanWellFounded
<1>3. PICK d \in copies : \A c \in copies : ~ (<<c, d>> \in OpToRel(<, Nat))
  BY <1>1, <1>2, WFMin
<1>4. \A c \in copies : ~ (c < d)
  BY <1>1, <1>3 DEF OpToRel
<1>5. QED
  BY <1>4

LEMMA AtMostOne ==
  ASSUME NEW copies \in SUBSET Copy
  PROVE  /\ Cardinality(copies) <= 1 <=> AllOne(copies)
         /\ ~ (Cardinality(copies) > 1) <=> AllOne(copies)
<1>1. IsFiniteSet(copies) /\ Cardinality(copies) \in Nat
  <2>1. 1 \in Int /\ MaxCopies \in Int
    BY CopiesAssumption
  <2>2. IsFiniteSet(Copy)
    BY <2>1, FS_Interval DEF Copy
  <2>3. QED
    BY <2>2, FS_Subset, FS_CardinalityType
<1>2. ASSUME Cardinality(copies) <= 1 PROVE AllOne(copies)
  <2>1. ASSUME NEW c \in copies, NEW d \in copies, c # d PROVE FALSE
    <3>1. {c, d} \subseteq copies /\ Cardinality({c, d}) = 2
      <4>1. IsFiniteSet({c}) /\ Cardinality({c}) = 1
        BY FS_Singleton
      <4>2. Cardinality({c} \cup {d}) = 2
        BY <2>1, <4>1, FS_AddElement
      <4>3. QED
        BY <4>2
    <3>2. QED
      BY <1>1, <1>2, <3>1, FS_Subset
  <2>2. QED
    BY <2>1 DEF AllOne
<1>3. ASSUME AllOne(copies) PROVE Cardinality(copies) <= 1
  <2>1. CASE copies = {}
    BY <2>1, FS_EmptySet
  <2>2. CASE copies # {}
    <3>1. PICK c \in copies : copies = {c}
      BY <1>3, <2>2 DEF AllOne
    <3>2. QED
      BY <3>1, FS_Singleton
  <2>3. QED
    BY <2>1, <2>2
<1>4. QED
  BY <1>1, <1>2, <1>3

LEMMA EvidenceInit == Init => Evidence
  BY DEF Init, Evidence, Standing, AllOne, Row, Migrating, Off, Unique

\* What is said of the evidence looks at the rows of the evidence only.
LEMMA EvidenceAlone ==
  ASSUME Typed, Evidence, NEW s \in Server, UNCHANGED <<rev, journal>>,
         \A c \in Copy : row'[c] = row[c],
         \A o \in Server \ {s} : server'[o] = server[o],
         s \in Migrating' => Collapses(s)'
  PROVE  Evidence'
<1>1. Standing' = Standing
  BY DEF Standing
<1>2. ASSUME NEW o \in Migrating' PROVE Collapses(o)'
  <2>1. CASE o = s
    BY <1>2, <2>1
  <2>2. CASE o # s
    <3>1. o \in Server /\ o \in Migrating /\ server'[o] = server[o]
      BY <1>2, <2>2 DEF Migrating
    <3>2. Collapses(o)
      BY <3>1 DEF Evidence
    <3>3. Stand(o)' = Stand(o) /\ Touched(o)' = Touched(o) /\ (Built(o)' <=> Built(o))
      BY <3>1 DEF Stand, Seen, Touched, Built, At
    <3>4. QED
      BY <3>1, <3>2, <3>3 DEF Collapses, Doing, Did, At
  <2>3. QED
    BY <2>1, <2>2
<1>3. QED
  BY <1>1, <1>2 DEF Evidence

LEMMA CollapsesPlanned ==
  ASSUME Typed, Versions, NEW s \in Migrating, Collapses(s), PlanRevision(s), Alone(s, Planned(s))
  PROVE  Collapses(s)'
<1> DEFINE v == server[s]
<1>1. /\ OnItsWay(s) /\ s \in Server /\ v.pc = "plan" /\ v.todo = {}
      /\ v.at \in Nat /\ v.base \in Nat
  BY Fields DEF Versions, PlanRevision, At, OnItsWay
<1>2. /\ rev' = rev /\ row' = row
      /\ server'[s].pc = "rewrite" /\ server'[s].at = v.at /\ server'[s].base = v.base
      /\ server'[s].todo = Found(s) /\ server'[s].wrote = v.wrote
  BY <1>1, MovedFields DEF Alone
<1>3. Stand(s)' = Stand(s)
  BY <1>2 DEF Stand, Seen
<1>4. v.at + 1 # Unique => Found(s) \cap Copy = {}
  BY RowAssumption DEF Found, Credential
<1>5. DOMAIN v.wrote \cap Copy # {} => Did(s, Unique)
  BY <1>1 DEF Collapses, Doing, At
<1>6. Built(s)' => Built(s)
  BY <1>2 DEF Built, At
<1>7. ASSUME v.at + 1 = Unique, Touched(s)' \cap Copy # {}
      PROVE  \E d \in Copy : row[d] # "absent" /\ d \notin Touched(s)'
  <2>1. DOMAIN v.wrote \cap Copy = {}
    BY <1>1, <1>5, <1>7 DEF Did, Unique
  <2>2. Found(s) = {c \in Stand(s) : \E d \in Stand(s) : d < c}
    BY <1>7 DEF Found, Unique, Backfill, Digest, Secrets
  <2>3. Stand(s) # {} /\ Stand(s) \in SUBSET Copy
    BY <1>2, <1>7, <2>1, <2>2 DEF Touched, Stand
  <2>4. PICK d \in Stand(s) : \A c \in Stand(s) : ~ (c < d)
    BY <2>3, EarliestCopy
  <2>5. d \in Copy /\ d \notin Found(s) /\ d \notin DOMAIN v.wrote
    BY <2>1, <2>2, <2>4 DEF Stand
  <2>6. row[d] # "absent"
    BY <2>4, <2>5 DEF Stand, Seen
  <2>7. QED
    BY <1>2, <2>5, <2>6 DEF Touched
<1>8. ASSUME v.at + 1 # Unique, Touched(s)' \cap Copy # {}, rev = v.base
      PROVE  \E d \in Copy : row[d] # "absent" /\ d \notin Touched(s)'
  BY <1>1, <1>2, <1>4, <1>8 DEF Touched, Collapses
<1>9. QED
  BY <1>2, <1>3, <1>4, <1>5, <1>6, <1>7, <1>8 DEF Collapses, Doing, Did, At

LEMMA CollapsesRewrote ==
  ASSUME Typed, Versions, NEW s \in Migrating, Collapses(s),
         At(s, "rewrite"), NEW x \in server[s].todo, Alone(s, RewroteOne(s, x))
  PROVE  Collapses(s)'
<1> DEFINE v == server[s]
<1>1. /\ s \in Server /\ v.at \in Nat /\ v.base \in Nat
  BY Fields
<1>2. /\ rev' = rev /\ row' = row
      /\ server'[s].pc = v.pc /\ server'[s].at = v.at /\ server'[s].base = v.base
      /\ server'[s].todo = v.todo \ {x}
      /\ DOMAIN server'[s].wrote = DOMAIN v.wrote \cup {x}
      /\ \A y \in DOMAIN v.wrote : y # x => server'[s].wrote[y] = v.wrote[y]
  BY RewroteFields DEF Alone
<1>3. Touched(s)' = Touched(s)
  BY <1>2 DEF Touched
<1>4. x \in Copy => Doing(s, Unique)
  BY DEF Collapses
<1>5. ASSUME Built(s)' PROVE AllOne(Stand(s))'
  <2>1. Built(s) /\ v.at >= Unique
    BY <1>2, <1>5 DEF Built, At
  <2>2. x \notin Copy
    BY <1>1, <1>4, <2>1 DEF Doing, Unique
  <2>3. Stand(s)' = Stand(s)
    BY <1>2, <2>2 DEF Stand, Seen
  <2>4. QED
    BY <2>1, <2>3 DEF Collapses, AllOne
<1>6. QED
  BY <1>2, <1>3, <1>4, <1>5 DEF Collapses, Doing, Did, At

LEMMA CollapsesIndexed ==
  ASSUME Typed, Versions, NEW s \in Migrating, Collapses(s),
         BuildIndex(s), ~ (Cardinality(Stand(s)) > 1), Alone(s, Indexed(s))
  PROVE  Collapses(s)'
<1> DEFINE v == server[s]
<1>1. s \in Server /\ v.todo = {}
  BY DEF Migrating, BuildIndex
<1>2. /\ rev' = rev /\ row' = row
      /\ server'[s].pc = "index" /\ server'[s].at = v.at /\ server'[s].base = v.base
      /\ server'[s].todo = v.todo /\ server'[s].wrote = v.wrote
  BY <1>1, MovedFields DEF Alone
<1>3. Touched(s)' = Touched(s) /\ Stand(s)' = Stand(s)
  BY <1>2 DEF Touched, Stand, Seen
<1>4. AllOne(Stand(s))
  BY AtMostOne DEF Stand
<1>5. QED
  BY <1>1, <1>2, <1>3, <1>4 DEF Collapses, At, AllOne

LEMMA CollapsesAdvanced ==
  ASSUME Typed, Versions, NEW s \in Migrating, Collapses(s),
         MoveVersion(s), Alone(s, Advanced(s))
  PROVE  Collapses(s)'
<1> DEFINE v == server[s]
<1>1. /\ OnItsWay(s) /\ s \in Server /\ v.at \in Nat /\ v.base \in Nat
  BY Fields DEF Versions
<1>2. /\ v.todo = {}
      /\ \/ At(s, "index")
         \/ At(s, "rewrite") /\ v.at + 1 # Unique
  <2>1. At(s, "index") \/ (At(s, "rewrite") /\ v.todo = {} /\ v.at + 1 # Unique)
    BY DEF MoveVersion
  <2>2. At(s, "index") => v.todo = {}
    BY <1>1 DEF OnItsWay, At
  <2>3. QED
    BY <2>1, <2>2
<1>3. /\ rev' = rev /\ row' = row
      /\ server'[s].pc = "plan" /\ server'[s].at = v.at + 1 /\ server'[s].base = v.base
      /\ server'[s].todo = v.todo /\ server'[s].wrote = v.wrote
  BY <1>1, MovedFields DEF Alone
<1>4. Touched(s)' = Touched(s) /\ Stand(s)' = Stand(s)
  BY <1>3 DEF Touched, Stand, Seen
<1>5. At(s, "index") => v.at + 1 = Unique /\ v.base < Unique
  BY <1>1 DEF OnItsWay, At, Unique
<1>6. DOMAIN v.wrote \cap Copy # {} => Did(s, Unique)'
  <2>1. DOMAIN v.wrote \cap Copy # {} => At(s, "index") \/ Did(s, Unique)
    BY <1>2 DEF Collapses, Doing, At
  <2>2. Did(s, Unique) => Did(s, Unique)'
    BY <1>1, <1>3 DEF Did, Unique
  <2>3. At(s, "index") => Did(s, Unique)'
    BY <1>1, <1>3, <1>5 DEF Did, Unique
  <2>4. QED
    BY <2>1, <2>2, <2>3
<1>7. Built(s)' => Built(s)
  BY <1>1, <1>2, <1>3, <1>5 DEF Built, At, Unique
<1>8. QED
  BY <1>2, <1>3, <1>4, <1>6, <1>7 DEF Collapses, AllOne

\* What a commit makes of the evidence.
LEMMA Collapsed ==
  ASSUME Typed, Versions, Evidence, NEW s \in Server, Commit(s)
  PROVE  /\ Stand(s) \subseteq Standing /\ Standing' = Stand(s)
         /\ journal' = journal \cup (Standing \ Stand(s))
         /\ \A c \in Copy : row'[c] = Seen(s, c)
         /\ \/ Standing' = Standing /\ \A c \in Copy : row'[c] = row[c]
            \/ rev < Unique /\ Unique <= rev' /\ rev < rev' /\ Stand(s) # {}
         /\ rev < Unique /\ Unique <= rev' => AllOne(Stand(s))
<1> DEFINE v == server[s]
<1>1. /\ s \in Migrating /\ OnItsWay(s) /\ Collapses(s) /\ OfItsKind(s) /\ v.pc = "plan"
      /\ v.todo = {}
  BY DEF Commit, Migrating, At, Versions, Evidence, Typed, OnItsWay
<1>2. v.at \in Nat /\ v.base \in Nat /\ rev \in Nat
  BY <1>1, Fields
<1>3. /\ rev' = IF v.moved THEN v.at ELSE rev
      /\ row' = [x \in Row |-> Seen(s, x)]
      /\ journal' = journal \cup {c \in Copy : row[c] # "absent" /\ Seen(s, c) = "absent"}
  BY DEF Commit
<1>4. \A c \in Copy : row'[c] = Seen(s, c)
  BY <1>3 DEF Row
<1>5. Standing' = Stand(s)
  BY <1>4 DEF Standing, Stand
<1>6. Stand(s) \subseteq Standing
  BY <1>1 DEF Stand, Standing, Seen, OfItsKind
<1>7. journal' = journal \cup (Standing \ Stand(s))
  BY <1>3 DEF Standing, Stand
<1>8. ASSUME DOMAIN v.wrote \cap Copy # {}
      PROVE  rev < Unique /\ Unique <= rev' /\ rev < rev' /\ Stand(s) # {}
  <2>1. Did(s, Unique)
    BY <1>1, <1>8 DEF Collapses, Doing, At
  <2>2. v.moved /\ rev = v.base
    BY <1>1, <1>2, <2>1 DEF OnItsWay, Did, Unique
  <2>3. \E d \in Copy : row[d] # "absent" /\ d \notin Touched(s)
    BY <1>1, <1>8, <2>2 DEF Collapses, Touched
  <2>4. Stand(s) # {}
    BY <2>3 DEF Stand, Seen, Touched
  <2>5. QED
    BY <1>2, <1>3, <2>1, <2>2, <2>4 DEF Did, Unique
<1>9. ASSUME DOMAIN v.wrote \cap Copy = {}
      PROVE  Standing' = Standing /\ \A c \in Copy : row'[c] = row[c]
  <2>1. \A c \in Copy : Seen(s, c) = row[c]
    BY <1>9 DEF Seen
  <2>2. QED
    BY <1>4, <2>1 DEF Standing
<1>10. ASSUME rev < Unique, Unique <= rev' PROVE AllOne(Stand(s))
  <2>1. v.moved /\ rev = v.base /\ v.at >= Unique
    BY <1>1, <1>2, <1>3, <1>10 DEF OnItsWay, Unique
  <2>2. Built(s)
    BY <1>10, <2>1 DEF Built
  <2>3. QED
    BY <1>1, <2>2 DEF Collapses
<1>11. QED
  BY <1>4, <1>5, <1>6, <1>7, <1>8, <1>9, <1>10

LEMMA EvidenceCommit ==
  ASSUME Typed, Versions, Evidence, NEW s \in Server, Commit(s)
  PROVE  Evidence'
<1>1. rev \in Nat /\ rev' \in Nat /\ rev <= rev'
  BY VersionsCommit, Revision
<1>2. server' = [server EXCEPT ![s] = [pc |-> "serve", image |-> server[s].image]]
  BY DEF Commit, Update
<1>3. rev' < Unique => journal' = {}
  <2>1. rev' < Unique => rev < Unique /\ Standing' = Standing
    BY <1>1, Collapsed DEF Unique
  <2>2. QED
    BY <2>1, Collapsed DEF Evidence
<1>4. Standing' \cap journal' = {}
  BY Collapsed DEF Evidence
<1>5. journal' # {} => Standing' # {}
  BY Collapsed DEF Evidence
<1>6. rev' >= Unique => AllOne(Standing)'
  <2>1. CASE rev >= Unique
    <3>1. Standing' = Standing /\ AllOne(Standing)
      BY <1>1, <2>1, Collapsed DEF Evidence, Unique
    <3>2. QED
      BY <3>1 DEF AllOne
  <2>2. CASE rev < Unique
    BY <1>1, <2>2, Collapsed DEF Unique, AllOne
  <2>3. QED
    BY <1>1, <2>1, <2>2 DEF Unique
<1>7. ASSUME NEW o \in Migrating' PROVE Collapses(o)'
  <2>1. o # s
    BY <1>2, <1>7 DEF Migrating, Typed
  <2>2. o \in Migrating /\ server'[o] = server[o]
    BY <1>2, <1>7, <2>1, OthersStand DEF Migrating
  <2>3. Collapses(o) /\ server[o].base <= rev /\ server[o].base \in Nat
    BY <2>2, Fields DEF Evidence, Versions, OnItsWay
  <2>4. /\ Touched(o)' = Touched(o) /\ (Built(o)' <=> Built(o))
        /\ (Doing(o, Unique)' <=> Doing(o, Unique)) /\ (Did(o, Unique)' <=> Did(o, Unique))
    BY <2>2 DEF Touched, Built, Doing, Did, At
  <2>5. ASSUME Touched(o) \cap Copy # {}, rev' = server[o].base
        PROVE  \E d \in Copy : row'[d] # "absent" /\ d \notin Touched(o)
    <3>1. rev = rev'
      BY <1>1, <2>3, <2>5
    <3>2. \A c \in Copy : row'[c] = row[c]
      BY <1>1, <3>1, Collapsed
    <3>3. QED
      BY <2>3, <2>5, <3>1, <3>2 DEF Collapses
  <2>6. Stand(o)' \subseteq Stand(o)
    <3>1. \A c \in Copy : row'[c] # "absent" => row[c] # "absent"
      BY Collapsed DEF Stand, Standing
    <3>2. QED
      BY <2>2, <3>1 DEF Stand, Seen
  <2>7. Built(o)' => AllOne(Stand(o))'
    BY <2>3, <2>4, <2>6 DEF Collapses, AllOne
  <2>8. QED
    BY <2>2, <2>3, <2>4, <2>5, <2>7 DEF Collapses, At
<1>8. QED
  BY <1>3, <1>4, <1>5, <1>6, <1>7 DEF Evidence

LEMMA EvidenceRelate ==
  ASSUME Typed, Versions, Evidence, NEW s \in Server, NEW c \in Copy, RelateEvidence(s, c)
  PROVE  Evidence'
<1>1. /\ At(s, "serve") /\ Free(s, c) /\ row[c] = "absent" /\ c \notin journal
      /\ rev >= Unique => \A d \in Copy : row[d] = "absent"
      /\ row' = [row EXCEPT ![c] = "stands"]
      /\ UNCHANGED <<rev, journal, server>>
  BY DEF RelateEvidence, Serves, Writes
<1>2. \A d \in Copy : row'[d] = IF d = c THEN "stands" ELSE row[d]
  BY <1>1 DEF Typed, Row
<1>3. Standing' = Standing \cup {c}
  BY <1>2 DEF Standing
<1>4. rev >= Unique => AllOne(Standing)'
  BY <1>1, <1>3 DEF AllOne, Standing
<1>5. ASSUME NEW o \in Migrating' PROVE Collapses(o)'
  <2>1. o \in Migrating /\ o # s /\ server'[o] = server[o]
    BY <1>1, <1>5 DEF Migrating, At
  <2>2. ~ Built(o)
    BY <1>1, <2>1 DEF Free
  <2>3. /\ Touched(o)' = Touched(o) /\ (Built(o)' <=> Built(o))
        /\ (Doing(o, Unique)' <=> Doing(o, Unique)) /\ (Did(o, Unique)' <=> Did(o, Unique))
    BY <2>1 DEF Touched, Built, Doing, Did, At
  <2>4. Collapses(o)
    BY <2>1 DEF Evidence
  <2>5. QED
    BY <1>1, <1>2, <2>1, <2>2, <2>3, <2>4 DEF Collapses, At
<1>6. QED
  BY <1>1, <1>3, <1>4, <1>5 DEF Evidence

LEMMA EvidenceStep == Typed /\ Versions /\ Evidence /\ [Next]_vars => Evidence'
<1> SUFFICES ASSUME Typed, Versions, Evidence, [Next]_vars PROVE Evidence'
  OBVIOUS
<1>1. ASSUME NEW s \in Server, NEW new, Alone(s, new), s \in Migrating' => Collapses(s)'
      PROVE  Evidence'
  <2>1. /\ UNCHANGED <<rev, journal, row>>
        /\ \A o \in Server \ {s} : server'[o] = server[o]
    BY <1>1 DEF Alone, Typed
  <2>2. QED
    BY <1>1, <2>1, EvidenceAlone
<1>2. ASSUME NEW s \in Server, NEW new, new.pc \in {"off", "begin"}, Alone(s, new) PROVE Evidence'
  <2>1. server'[s] = new
    BY <1>2 DEF Alone, Typed
  <2>2. s \notin Migrating'
    BY <1>2, <2>1 DEF Migrating
  <2>3. QED
    BY <1>1, <1>2, <2>2
<1>3. ASSUME NEW s \in Server, At(s, "begin"), Alone(s, Begun(s)) PROVE Evidence'
  <2>1. server'[s] = Begun(s) /\ rev \in Nat
    BY <1>3, MovedFields, Revision
  <2>2. Collapses(s)'
    BY <2>1 DEF Begun, Collapses, Touched, Built, At, Unique
  <2>3. QED
    BY <1>1, <1>3, <2>2
<1>4. \A s \in Migrating : s \in Server /\ Collapses(s)
  BY DEF Migrating, Evidence
<1>5. ASSUME NEW s \in Migrating, PlanRevision(s), Alone(s, Planned(s)) PROVE Evidence'
  BY <1>1, <1>4, <1>5, CollapsesPlanned
<1>6. ASSUME NEW s \in Migrating, At(s, "rewrite"), NEW x \in server[s].todo, Alone(s, RewroteOne(s, x))
      PROVE  Evidence'
  BY <1>1, <1>4, <1>6, CollapsesRewrote
<1>7. ASSUME NEW s \in Migrating, BuildIndex(s), ~ (Cardinality(Stand(s)) > 1), Alone(s, Indexed(s))
      PROVE  Evidence'
  BY <1>1, <1>4, <1>7, CollapsesIndexed
<1>8. ASSUME NEW s \in Migrating, MoveVersion(s), Alone(s, Advanced(s)) PROVE Evidence'
  BY <1>1, <1>4, <1>8, CollapsesAdvanced
<1>9. ASSUME NEW s \in Server,
             \/ UNCHANGED <<rev, row, journal, server>>
             \/ \E c \in Capture : CaptureThing(s, c) \/ DateThing(s, c)
             \/ \E t \in Credential : Issue(s, t)
      PROVE  Evidence'
  <2>1. /\ UNCHANGED <<rev, journal, server>>
        /\ row' = row \/ \E x \in Capture \cup Credential, value \in Value : row' = [row EXCEPT ![x] = value]
    BY <1>9 DEF CaptureThing, DateThing, Issue, Writes, Value
  <2>2. \A c \in Copy : row'[c] = row[c]
    BY <2>1, RowAssumption DEF Typed, Row
  <2>3. s \in Migrating' => Collapses(s)'
    BY <1>4, <2>1, <2>2 DEF Migrating, Collapses, Touched, Doing, Did, At, Built, Stand, Seen, AllOne
  <2>4. QED
    BY <2>1, <2>2, <2>3, EvidenceAlone
<1>10. UNCHANGED <<rev, row, journal, server>> => Evidence'
  BY DEF Evidence, Standing, Migrating, Collapses, Touched, Doing, Did, At, Built, Stand, Seen, AllOne
<1>11. \A s \in Server : /\ PlanRevision(s) \/ BuildIndex(s) \/ MoveVersion(s) => s \in Migrating
                         /\ At(s, "rewrite") => s \in Migrating
  BY DEF PlanRevision, BuildIndex, MoveVersion, Migrating, At
<1>12. ASSUME NEW s \in Server, Alone(s, Off) PROVE Evidence'
  BY <1>2, <1>12 DEF Off
<1>13. ASSUME NEW s \in Server, NEW image, NEW allow,
              Alone(s, [pc |-> "begin", image |-> image, allow |-> allow])
       PROVE  Evidence'
  BY <1>2, <1>13
<1>14. QED
  BY <1>3, <1>5, <1>6, <1>7, <1>8, <1>9, <1>10, <1>11, <1>12, <1>13,
     EvidenceCommit, EvidenceRelate, Steps

-----------------------------------------------------------------------------
\* The revision that digests a credential: one of the two, and never the evidence's.
LEMMA DigestedAtIs ==
  ASSUME NEW t \in Credential
  PROVE  /\ DigestedAt(t) \in Nat /\ DigestedAt(t) > 0 /\ DigestedAt(t) # Unique
  BY DEF DigestedAt, Digest, Secrets, Unique

\* What a revision's first statement finds of a credential.
LEMMA FoundIs ==
  ASSUME NEW s \in Server, NEW t \in Credential, server[s].at \in Nat
  PROVE  t \in Found(s) <=> server[s].at + 1 = DigestedAt(t) /\ Seen(s, t) # "absent"
<1> DEFINE next == server[s].at + 1
<1>1. t \notin Capture /\ t \notin Copy
  BY RowAssumption
<1>2. t \in Token <=> t \notin Secret
  BY RowAssumption DEF Credential
<1>3. Found(s) = CASE next = 1 -> {c \in Capture : Seen(s, c) = "undated"}
                   [] next = 2 -> {u \in Token : Seen(s, u) # "absent"}
                   [] next = 3 -> {c \in Stand(s) : \E d \in Stand(s) : d < c}
                   [] next = 4 -> {p \in Secret : Seen(s, p) # "absent"}
                   [] OTHER    -> {}
  BY DEF Found, Backfill, Digest, Unique, Secrets
<1>4. DigestedAt(t) = IF t \in Secret THEN 4 ELSE 2
  BY DEF DigestedAt, Digest, Secrets
<1>5. Stand(s) \subseteq Copy
  BY DEF Stand
<1> HIDE DEF next
<1>6. QED
  BY <1>1, <1>2, <1>3, <1>4, <1>5 DEF next

LEMMA CredentialsInit == Init => Credentials
  BY DEF Init, Credentials, Row, Migrating, Off

\* What is said of a server and a credential looks at the two only.
LEMMA CarriesStays ==
  ASSUME NEW s, NEW t, Carries(s, t), rev' = server[s].base => rev = server[s].base,
         row[t] # "absent" => row'[t] # "absent", server'[s] = server[s]
  PROVE  Carries(s, t)'
  BY DEF Carries, Touched, Doing, Did, At, DigestedAt

\* Credentials that stand are not taken away.
LEMMA CredentialsAlone ==
  ASSUME Typed, Credentials, NEW s \in Server, rev' = rev,
         \A t \in Credential : row'[t] = row[t],
         \A o \in Server \ {s} : server'[o] = server[o],
         s \in Migrating' => Digests(s)'
  PROVE  Credentials'
<1>1. ASSUME NEW o \in Migrating' PROVE Digests(o)'
  <2>1. CASE o = s
    BY <1>1, <2>1
  <2>2. CASE o # s
    <3>1. o \in Migrating /\ server'[o] = server[o]
      BY <1>1, <2>2 DEF Migrating
    <3>2. Digests(o)
      BY <3>1 DEF Credentials
    <3>3. QED
      BY <3>1, <3>2, CarriesStays DEF Digests
  <2>3. QED
    BY <2>1, <2>2
<1>2. QED
  BY <1>1 DEF Credentials, DigestedAt

LEMMA CarriesPlanned ==
  ASSUME Typed, Versions, NEW s \in Migrating, NEW t \in Credential, Carries(s, t),
         PlanRevision(s), Alone(s, Planned(s))
  PROVE  Carries(s, t)'
<1> DEFINE v == server[s]
           r == DigestedAt(t)
<1>1. /\ OnItsWay(s) /\ s \in Server /\ v.pc = "plan" /\ v.todo = {}
      /\ v.at \in Nat /\ v.base \in Nat
  BY Fields DEF Versions, PlanRevision, At, OnItsWay
<1>2. /\ rev' = rev /\ row' = row
      /\ server'[s].pc = "rewrite" /\ server'[s].at = v.at /\ server'[s].base = v.base
      /\ server'[s].todo = Found(s) /\ server'[s].wrote = v.wrote /\ server'[s].there = v.there
  BY <1>1, MovedFields DEF Alone
<1>3. t \in Found(s) <=> v.at + 1 = r /\ Seen(s, t) # "absent"
  BY <1>1, FoundIs
<1>4. r' = r /\ r \in Nat
  BY DigestedAtIs DEF DigestedAt
<1>5. t \in DOMAIN v.wrote => Did(s, r)
  BY <1>1 DEF Carries, Doing, At
<1>6. (Did(s, r)' <=> Did(s, r)) /\ (Doing(s, r)' <=> v.at + 1 = r)
  BY <1>2, <1>4 DEF Doing, Did, At
<1>7. v.at + 1 = r => t \notin DOMAIN v.wrote /\ ~ Did(s, r)
  BY <1>1, <1>4, <1>5 DEF Did
<1>8. t \notin DOMAIN v.wrote => Seen(s, t) = row[t]
  BY DEF Seen
<1> HIDE DEF r
<1>9. QED
  BY <1>1, <1>2, <1>3, <1>4, <1>5, <1>6, <1>7, <1>8 DEF Carries, Touched, r

LEMMA CarriesRewrote ==
  ASSUME Typed, Versions, Credentials, NEW s \in Migrating, NEW t \in Credential,
         At(s, "rewrite"), NEW x \in server[s].todo, Alone(s, RewroteOne(s, x))
  PROVE  Carries(s, t)'
<1> DEFINE v == server[s]
           r == DigestedAt(t)
<1>1. /\ s \in Server /\ v.at \in Nat /\ v.base \in Nat /\ rev \in Nat /\ x \in Row
      /\ OnItsWay(s) /\ Carries(s, t)
  BY Fields DEF Versions, Credentials, Digests
<1>2. /\ rev' = rev /\ row' = row
      /\ server'[s].pc = v.pc /\ server'[s].at = v.at /\ server'[s].base = v.base
      /\ server'[s].there = v.there
      /\ server'[s].todo = v.todo \ {x}
      /\ DOMAIN server'[s].wrote = DOMAIN v.wrote \cup {x}
      /\ server'[s].wrote[x] = Rewritten(x, Seen(s, x))
      /\ \A y \in DOMAIN v.wrote : y # x => server'[s].wrote[y] = v.wrote[y]
  BY RewroteFields DEF Alone
<1>3. r' = r /\ r \in Nat
  BY DigestedAtIs DEF DigestedAt
<1>4. /\ Touched(s)' = Touched(s)
      /\ (Doing(s, r)' <=> Doing(s, r)) /\ (Did(s, r)' <=> Did(s, r))
  BY <1>2, <1>3 DEF Touched, Doing, Did, At
<1>5. t = x => Doing(s, r)
  BY <1>1 DEF Carries
<1>6. ASSUME t = x, rev = v.base PROVE server'[s].wrote[t] = "digest"
  <2>1. rev < r
    BY <1>1, <1>3, <1>5, <1>6 DEF OnItsWay, Doing
  <2>2. row[t] = "raw"
    BY <1>1, <1>6, <2>1 DEF Carries, Credentials
  <2>3. Seen(s, t) = row[t]
    BY <1>1, <1>6 DEF Carries, Seen
  <2>4. QED
    BY <1>1, <1>2, <1>6, <2>2, <2>3, RewrittenKinds
<1> HIDE DEF r
<1>7. CASE t = x
  BY <1>1, <1>2, <1>3, <1>4, <1>5, <1>6, <1>7 DEF Carries, r
<1>8. CASE t # x
  BY <1>1, <1>2, <1>3, <1>4, <1>8 DEF Carries, r
<1>9. QED
  BY <1>7, <1>8

LEMMA CarriesMoved ==
  ASSUME Typed, Versions, NEW s \in Migrating, NEW t \in Credential, Carries(s, t),
         \/ BuildIndex(s) /\ Alone(s, Indexed(s))
         \/ MoveVersion(s) /\ Alone(s, Advanced(s))
  PROVE  Carries(s, t)'
<1> DEFINE v == server[s]
           r == DigestedAt(t)
<1>1. /\ s \in Server /\ v.at \in Nat /\ v.base \in Nat /\ OnItsWay(s)
  BY Fields DEF Versions
<1>2. /\ rev' = rev /\ row' = row
      /\ server'[s].base = v.base /\ server'[s].there = v.there
      /\ server'[s].todo = v.todo /\ server'[s].wrote = v.wrote
  BY <1>1, MovedFields DEF Alone
<1>3. v.todo = {}
  <2>1. v.pc = "index" \/ v.todo = {}
    BY DEF BuildIndex, MoveVersion, At
  <2>2. QED
    BY <1>1, <2>1 DEF OnItsWay
<1>4. r' = r /\ r \in Nat /\ r # Unique
  BY DigestedAtIs DEF DigestedAt
<1>5. CASE BuildIndex(s) /\ Alone(s, Indexed(s))
  <2>1. server'[s].pc = "index" /\ server'[s].at = v.at /\ v.at + 1 = Unique
    BY <1>1, <1>5, MovedFields DEF BuildIndex
  <2> HIDE DEF r
  <2>2. ~ Doing(s, r) /\ ~ Doing(s, r)' /\ (Did(s, r)' <=> Did(s, r))
    BY <1>2, <1>4, <2>1 DEF Doing, Did, At
  <2>3. QED
    BY <1>2, <1>3, <1>4, <2>2 DEF Carries, r
<1>6. CASE MoveVersion(s) /\ Alone(s, Advanced(s))
  <2>1. server'[s].pc = "plan" /\ server'[s].at = v.at + 1
    BY <1>1, <1>6, MovedFields
  <2> HIDE DEF r
  <2>2. ~ Doing(s, r)'
    BY <2>1 DEF Doing, At
  <2>3. Doing(s, r) \/ Did(s, r) => Did(s, r)'
    BY <1>1, <1>2, <1>4, <2>1 DEF Doing, Did, OnItsWay
  <2>4. Did(s, r)' => Doing(s, r) \/ Did(s, r)
    <3>1. v.pc = "rewrite" \/ v.at + 1 = Unique
      BY <1>1, <1>6 DEF MoveVersion, At, OnItsWay
    <3>2. QED
      BY <1>1, <1>2, <1>4, <2>1, <3>1 DEF Doing, Did, At
  <2>5. t \in v.there /\ (Doing(s, r) \/ Did(s, r)) => t \in DOMAIN v.wrote
    BY <1>3 DEF Carries, Touched, r
  <2>6. QED
    BY <1>2, <1>3, <1>4, <2>2, <2>3, <2>4, <2>5 DEF Carries, r
<1>7. QED
  BY <1>5, <1>6

\* What a commit makes of a credential.
LEMMA Digested ==
  ASSUME Typed, Versions, Credentials, NEW s \in Server, Commit(s), NEW t \in Credential
  PROVE  /\ row'[t] = "absent" => row[t] = "absent"
         /\ \/ row'[t] = row[t]
            \/ rev < rev' /\ DigestedAt(t) <= rev' /\ row'[t] = "digest"
         /\ t \in server[s].there /\ rev < DigestedAt(t) /\ DigestedAt(t) <= rev' => row'[t] = "digest"
<1> DEFINE v == server[s]
           r == DigestedAt(t)
<1>1. /\ s \in Migrating /\ OnItsWay(s) /\ Carries(s, t) /\ OfItsKind(s) /\ v.pc = "plan"
  BY DEF Commit, Migrating, At, Versions, Credentials, Digests, Typed
<1>2. v.at \in Nat /\ v.base \in Nat /\ rev \in Nat /\ r \in Nat
  BY <1>1, Fields, DigestedAtIs
<1>3. rev' = IF v.moved THEN v.at ELSE rev
  BY DEF Commit
<1>4. row'[t] = Seen(s, t)
  BY DEF Commit, Row
<1>5. t \notin DOMAIN v.wrote => row'[t] = row[t]
  BY <1>4 DEF Seen
<1>6. t \in DOMAIN v.wrote => Did(s, r)
  BY <1>1 DEF Carries, Doing, At
<1>7. Did(s, r) => rev = v.base /\ rev' = v.at /\ rev < rev' /\ r <= rev'
  BY <1>1, <1>2, <1>3 DEF OnItsWay, Did
<1>8. t \in DOMAIN v.wrote => row'[t] = "digest"
  BY <1>1, <1>4, <1>6, <1>7 DEF Carries, Seen
<1>9. ASSUME t \in v.there, rev < r, r <= rev' PROVE row'[t] = "digest"
  <2>1. Did(s, r)
    BY <1>1, <1>2, <1>3, <1>9 DEF OnItsWay, Did
  <2>2. QED
    BY <1>1, <1>8, <1>9, <2>1 DEF Carries
<1>10. QED
  BY <1>5, <1>6, <1>7, <1>8, <1>9

LEMMA CredentialsCommit ==
  ASSUME Typed, Versions, Credentials, NEW s \in Server, Commit(s)
  PROVE  Credentials'
<1>1. rev \in Nat /\ rev' \in Nat /\ rev <= rev'
  BY VersionsCommit, Revision
<1>2. server' = [server EXCEPT ![s] = [pc |-> "serve", image |-> server[s].image]]
  BY DEF Commit, Update
<1>3. ASSUME NEW t \in Credential
      PROVE  row'[t] \in {"absent", "raw", "digest"} /\ (rev' < DigestedAt(t) => row'[t] # "digest")
  BY <1>1, Digested, DigestedAtIs DEF Credentials
<1>4. ASSUME NEW o \in Migrating' PROVE Digests(o)'
  <2>1. o # s
    BY <1>2, <1>4 DEF Migrating, Typed
  <2>2. o \in Migrating /\ server'[o] = server[o]
    BY <1>2, <1>4, <2>1, OthersStand DEF Migrating
  <2>3. Digests(o) /\ server[o].base <= rev /\ server[o].base \in Nat
    BY <2>2, Fields DEF Credentials, Versions, OnItsWay
  <2>4. rev' = server[o].base => rev = server[o].base
    BY <1>1, <2>3
  <2>5. \A t \in Credential : row[t] # "absent" => row'[t] # "absent"
    BY Digested
  <2>6. QED
    BY <2>2, <2>3, <2>4, <2>5, CarriesStays DEF Digests
<1>5. \A t \in Credential : DigestedAt(t)' = DigestedAt(t)
  BY DEF DigestedAt
<1>6. QED
  BY <1>3, <1>4, <1>5 DEF Credentials

LEMMA CredentialsIssue ==
  ASSUME Typed, Versions, Credentials, NEW s \in Server, NEW t \in Credential, Issue(s, t)
  PROVE  Credentials'
<1> DEFINE value == IF server[s].image >= DigestedAt(t) THEN "digest" ELSE "raw"
<1>1. /\ At(s, "serve") /\ row[t] = "absent"
      /\ row' = [row EXCEPT ![t] = value]
      /\ UNCHANGED <<rev, server>>
  BY DEF Issue, Serves, Writes
<1>2. \A u \in Credential : row'[u] = IF u = t THEN value ELSE row[u]
  <2> HIDE DEF value
  <2> QED  BY <1>1 DEF Typed, Row
<1>3. rev < DigestedAt(t) => ~ (server[s].image >= DigestedAt(t))
  <2>1. server[s].image <= rev /\ rev \in Nat
    BY <1>1, Revision DEF Versions, ServesItsSchema
  <2>2. server[s].image \in Nat
    BY <1>1, Shapes, ImageAssumption DEF Serving
  <2>3. QED
    BY <2>1, <2>2, DigestedAtIs
<1>4. value \in {"raw", "digest"} /\ (rev < DigestedAt(t) => value # "digest")
  BY <1>3
<1> HIDE DEF value
<1>5. \A u \in Credential :
        row'[u] \in {"absent", "raw", "digest"} /\ (rev' < DigestedAt(u) => row'[u] # "digest")
  BY <1>1, <1>2, <1>4 DEF Credentials
<1>6. \A u \in Credential : row[u] # "absent" => row'[u] # "absent"
  BY <1>1, <1>2
<1>7. \A o \in Migrating' : o \in Migrating /\ server'[o] = server[o]
  BY <1>1 DEF Migrating
<1>8. \A o \in Migrating' : Digests(o)'
  BY <1>1, <1>6, <1>7, CarriesStays DEF Credentials, Digests
<1>9. \A u \in Credential : DigestedAt(u)' = DigestedAt(u)
  BY DEF DigestedAt
<1>10. QED
  BY <1>5, <1>8, <1>9 DEF Credentials

LEMMA CredentialsStep == Typed /\ Versions /\ Credentials /\ [Next]_vars => Credentials'
<1> SUFFICES ASSUME Typed, Versions, Credentials, [Next]_vars PROVE Credentials'
  OBVIOUS
<1>1. ASSUME NEW s \in Server, NEW new, Alone(s, new), s \in Migrating' => Digests(s)'
      PROVE  Credentials'
  <2>1. /\ rev' = rev /\ row' = row
        /\ \A o \in Server \ {s} : server'[o] = server[o]
    BY <1>1 DEF Alone, Typed
  <2>2. QED
    BY <1>1, <2>1, CredentialsAlone
<1>2. ASSUME NEW s \in Server, NEW new, new.pc \in {"off", "begin"}, Alone(s, new)
      PROVE  Credentials'
  <2>1. server'[s] = new
    BY <1>2 DEF Alone, Typed
  <2>2. s \notin Migrating'
    BY <1>2, <2>1 DEF Migrating
  <2>3. QED
    BY <1>1, <1>2, <2>2
<1>3. ASSUME NEW s \in Server, At(s, "begin"), Alone(s, Begun(s)) PROVE Credentials'
  <2>1. server'[s] = Begun(s) /\ rev \in Nat /\ row' = row
    BY <1>3, MovedFields, Revision DEF Alone
  <2>2. Digests(s)'
    BY <2>1, DigestedAtIs DEF Begun, Digests, Carries, Touched, Doing, Did, At, DigestedAt
  <2>3. QED
    BY <1>1, <1>3, <2>2
<1>4. \A s \in Migrating : s \in Server /\ Digests(s)
  BY DEF Migrating, Credentials
<1>5. ASSUME NEW s \in Migrating, PlanRevision(s), Alone(s, Planned(s)) PROVE Credentials'
  BY <1>1, <1>4, <1>5, CarriesPlanned DEF Digests
<1>6. ASSUME NEW s \in Migrating, At(s, "rewrite"), NEW x \in server[s].todo, Alone(s, RewroteOne(s, x))
      PROVE  Credentials'
  BY <1>1, <1>4, <1>6, CarriesRewrote DEF Digests
<1>7. ASSUME NEW s \in Migrating, BuildIndex(s), Alone(s, Indexed(s)) PROVE Credentials'
  BY <1>1, <1>4, <1>7, CarriesMoved DEF Digests
<1>8. ASSUME NEW s \in Migrating, MoveVersion(s), Alone(s, Advanced(s)) PROVE Credentials'
  BY <1>1, <1>4, <1>8, CarriesMoved DEF Digests
<1>9. ASSUME NEW s \in Server,
             \/ \E c \in Capture : CaptureThing(s, c) \/ DateThing(s, c)
             \/ \E c \in Copy : RelateEvidence(s, c)
      PROVE  Credentials'
  <2>1. /\ UNCHANGED <<rev, server>>
        /\ \E x \in Capture \cup Copy, value \in Value : row' = [row EXCEPT ![x] = value]
    BY <1>9 DEF CaptureThing, DateThing, RelateEvidence, Writes, Value
  <2>2. \A t \in Credential : row'[t] = row[t]
    BY <2>1, RowAssumption DEF Typed, Row
  <2>3. s \in Migrating' => Digests(s)'
    BY <1>4, <2>1, <2>2, CarriesStays DEF Migrating, Digests
  <2>4. QED
    BY <2>1, <2>2, <2>3, CredentialsAlone
<1>10. UNCHANGED <<rev, row, journal, server>> => Credentials'
  BY DEF Credentials, Migrating, Digests, Carries, Touched, Doing, Did, At, DigestedAt
<1>11. \A s \in Server : /\ PlanRevision(s) \/ BuildIndex(s) \/ MoveVersion(s) => s \in Migrating
                         /\ At(s, "rewrite") => s \in Migrating
  BY DEF PlanRevision, BuildIndex, MoveVersion, Migrating, At
<1>12. ASSUME NEW s \in Server, Alone(s, Off) PROVE Credentials'
  BY <1>2, <1>12 DEF Off
<1>13. ASSUME NEW s \in Server, NEW image, NEW allow,
              Alone(s, [pc |-> "begin", image |-> image, allow |-> allow])
       PROVE  Credentials'
  BY <1>2, <1>13
<1>14. QED
  BY <1>3, <1>5, <1>6, <1>7, <1>8, <1>9, <1>10, <1>11, <1>12, <1>13,
     CredentialsCommit, CredentialsIssue, Steps

-----------------------------------------------------------------------------
LEMMA Inductive == Spec => []IInv
<1>1. Init => IInv
  BY TypedInit, VersionsInit, EvidenceInit, CredentialsInit DEF IInv
<1>2. IInv /\ [Next]_vars => IInv'
  BY TypedStep, VersionsStep, EvidenceStep, CredentialsStep DEF IInv
<1>3. QED
  BY <1>1, <1>2, PTL DEF Spec

\* The version is one some image knows, and every row holds a value of its table
\* (alembic/env.py), through every boot.
THEOREM TypeCorrect == Spec => []TypeOK
  BY Inductive, PTL DEF IInv, Typed

\* However many servers boot at once and wherever one dies, whoever serves does so over a
\* schema that has all its code relies on (main.lifespan).
THEOREM SchemasServed == Spec => []ServesItsSchema
  BY Inductive, PTL DEF IInv, Versions

\* The collapse of duplicate evidence journals what it removes, never removes the last
\* edge, and leaves one (service.collapse_duplicate_evidence), for any number of copies,
\* and whatever the old servers write meanwhile.
THEOREM EvidenceSurvives == Spec => []EvidenceIsKept
<1>1. IInv => EvidenceIsKept
  <2>1. Standing \in SUBSET Copy
    BY DEF Standing
  <2>2. QED
    BY <2>1, AtMostOne DEF IInv, Evidence, EvidenceIsKept, Standing
<1>2. QED
  BY <1>1, Inductive, PTL

\* A boot that takes the database past the revision that digests a credential leaves it, if
\* it stood when the boot began, under its digest, and digests none twice, whoever else
\* boots: keys of tokens and codes (v4_hashed_credential_keys) and secrets of clients
\* (v4_client_secret_digests), for any number of either.
THEOREM CredentialsCarried == Spec => CredentialsCarryOver
<1> DEFINE A == \A s \in Server : Commit(s) =>
                  /\ \A t \in server[s].there :
                       rev < DigestedAt(t) /\ rev' >= DigestedAt(t) => row'[t] = "digest"
                  /\ \A t \in Credential : row'[t] # "digest of a digest"
<1>1. ASSUME IInv, [Next]_vars PROVE [A]_vars
  <2>1. ASSUME NEW s \in Server, Commit(s)
        PROVE  /\ \A t \in server[s].there :
                    rev < DigestedAt(t) /\ rev' >= DigestedAt(t) => row'[t] = "digest"
               /\ \A t \in Credential : row'[t] # "digest of a digest"
    <3>1. rev' \in Nat /\ Credentials'
      BY <1>1, <2>1, VersionsCommit, CredentialsCommit DEF IInv
    <3>2. s \in Migrating
      BY <2>1 DEF Commit, Migrating, At
    <3>3. server[s].there \subseteq Credential
      BY <1>1, <3>2, Fields DEF IInv
    <3>4. ASSUME NEW t \in server[s].there, rev < DigestedAt(t), rev' >= DigestedAt(t)
          PROVE  row'[t] = "digest"
      <4>1. t \in Credential /\ DigestedAt(t) <= rev'
        BY <3>1, <3>3, <3>4, DigestedAtIs
      <4>2. QED
        BY <1>1, <2>1, <3>4, <4>1, Digested DEF IInv
    <3>5. \A t \in Credential : row'[t] # "digest of a digest"
      BY <3>1 DEF Credentials
    <3>6. QED
      BY <3>4, <3>5
  <2>2. QED
    BY <2>1
<1>2. QED
  BY <1>1, Inductive, PTL DEF Spec, CredentialsCarryOver

\* No revision that destroys something runs in a boot that nobody allowed it, wherever
\* the version was moved between the guard's look and the transaction's
\* (alembic/safety.py).
THEOREM NothingDestroyedUnasked == Spec => DestroysOnlyIfAllowed
<1> DEFINE A == \A s \in Server : MoveVersion(s) /\ VersionStands(s) =>
                  server[s].allow \/ server[s].at + 1 \notin Unmarked
<1>1. ASSUME IInv PROVE A
  <2>1. ASSUME NEW s \in Server, MoveVersion(s) PROVE server[s].allow \/ server[s].at + 1 \notin Unmarked
    <3>1. s \in Migrating /\ server[s].pc # "plan"
      BY <2>1 DEF MoveVersion, Migrating, At
    <3>2. OnItsWay(s)
      BY <1>1, <3>1 DEF IInv, Versions
    <3>3. server[s].at \in Nat /\ server[s].base \in Nat /\ server[s].image \in Nat
      BY <1>1, <3>1, Fields DEF IInv
    <3>4. QED
      BY <3>1, <3>2, <3>3 DEF OnItsWay, Guarded
  <2>2. QED
    BY <2>1
<1>2. QED
  BY <1>1, Inductive, PTL DEF DestroysOnlyIfAllowed

=============================================================================
