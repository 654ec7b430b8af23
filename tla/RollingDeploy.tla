--------------------------- MODULE RollingDeploy ---------------------------
(***************************************************************************)
(* Servers of several images over one database: each brings the schema to  *)
(* its own head in one transaction before it serves (main.lifespan,        *)
(* alembic/env.py), beside servers that boot at the same time and servers  *)
(* of older images that still serve.  Of the revisions, the four that      *)
(* rewrite rows are told apart: the backfill of dates, the digests of the  *)
(* keys of tokens and codes, the collapse of duplicate evidence with its   *)
(* index, and the digests of client secrets.  The database is READ         *)
(* COMMITTED: a booting server sees what is committed and what it wrote    *)
(* itself, and a row it wrote is locked until it is done.                  *)
(***************************************************************************)
EXTENDS Integers, FiniteSets

CONSTANTS Server,     \* processes that may run at once
          Image,      \* images there are: the newest revision each knows
          Capture,    \* Things of the owner's
          Token,      \* the keys of refresh tokens and of authorization codes
          Refresh,    \* those of them that are refresh tokens
          Secret,     \* the secrets of registered clients
          MaxCopies,  \* bound: edges ever written for the one evidence pair
          Unmarked,   \* revisions that destroy something and carry no opt-in marker
          MaxBoots    \* bound: how often a server is started

\* v4_backfill_checkin_dates, v4_hashed_credential_keys, v4_unique_evidence_for and
\* v4_client_secret_digests.  The head, v4_revoked_tokens, comes after them and adds a
\* table; what is still to come after it is what Unmarked says of it.
Backfill == 1
Digest   == 2
Unique   == 3
Secrets  == 4

ASSUME ImageAssumption == Image \subseteq Nat /\ Unmarked \subseteq Nat
ASSUME CopiesAssumption == MaxCopies \in Nat
ASSUME RefreshAssumption == Refresh \subseteq Token

VARIABLES rev,      \* alembic_version
          row,      \* the rows, as committed
          journal,  \* the edges whose removal was journalled
          server,   \* each server: what it runs, and its transaction
          boots     \* how many times a server was started

vars == <<rev, row, journal, server, boots>>

\* The edges of the pair, the earliest first.
Copy == 1..MaxCopies

Credential == Token \cup Secret

Row == Capture \cup Credential \cup Copy

\* They are rows of different tables.
ASSUME RowAssumption ==
  /\ Token \cap Secret = {}
  /\ Capture \cap Credential = {}
  /\ Copy \cap (Capture \cup Credential) = {}

\* The revision that digests c, from which on code stores its digest.
DigestedAt(c) == IF c \in Secret THEN Secrets ELSE Digest

Off == [pc |-> "off"]

Init == /\ rev = 0
        /\ row = [x \in Row |-> "absent"]
        /\ journal = {}
        /\ server = [s \in Server |-> Off]
        /\ boots = 0

-----------------------------------------------------------------------------
\* The operators named ...Mutant are each a bug the definition after them could
\* have had; nothing uses them but the mutation runs PROJECT.json lists.

At(s, pc) == server[s].pc = pc

Update(s, new) == server' = [server EXCEPT ![s] = new]

\* A boot that fails, and a process that dies: its transaction is rolled back.
Down(s) == Update(s, Off)

Migrating == {s \in Server : server[s].pc \in {"plan", "rewrite", "index"}}

\* Its transaction has built the index: until it ends, nobody else writes the table.
Built(s) == At(s, "index") \/ (server[s].at >= Unique /\ server[s].base < Unique)

\* Its transaction has altered the columns of mcp_refresh_tokens: the same of that table.
Altered(s) ==
  (At(s, "rewrite") /\ server[s].at + 1 = Secrets) \/ (server[s].at >= Secrets /\ server[s].base < Secrets)

\* Nobody else's transaction has written x, or keeps writers of its table out.
Free(s, x) ==
  \A o \in Migrating \ {s} :
    /\ x \notin DOMAIN server[o].wrote
    /\ ~ (x \in Copy /\ Built(o))
    /\ ~ (x \in Refresh /\ Altered(o))

\* What s sees of x.
Seen(s, x) == IF x \in DOMAIN server[s].wrote THEN server[s].wrote[x] ELSE row[x]

Stand(s) == {c \in Copy : Seen(s, c) # "absent"}

\* Only the next revision is looked at.
GuardPassesMutant(image, allow) == allow \/ rev + 1 \notin Unmarked

\* check_pending_migrations: everything the image knows but the revision the database is
\* at; one applied before that is looked at again.
GuardPasses(image, allow) == allow \/ Unmarked \cap (1..image) \subseteq {rev}

\* The container starts: the probe of alembic_version, rolled back, and the guard.  A boot
\* the guard refuses has changed nothing.
Start(s) ==
  /\ At(s, "off") /\ boots < MaxBoots
  /\ \E image \in Image, allow \in BOOLEAN :
       IF GuardPasses(image, allow)
       THEN Update(s, [pc |-> "begin", image |-> image, allow |-> allow])
       ELSE Down(s)
  /\ boots' = boots + 1
  /\ UNCHANGED <<rev, row, journal>>

\* upgrade(head): the version is read again.  A revision the image does not know fails the
\* boot; else the transaction begins, with `there` what it will have to carry over.
Begin(s) ==
  /\ At(s, "begin")
  /\ LET v == server[s]
     IN Update(s, IF rev > v.image THEN Off
                  ELSE [pc    |-> "plan", image |-> v.image, allow |-> v.allow,
                        at    |-> rev, base |-> rev, moved |-> FALSE,
                        todo  |-> {}, wrote |-> [x \in {} |-> "absent"],
                        there |-> {t \in Credential : row[t] # "absent"}])
  /\ UNCHANGED <<rev, row, journal, boots>>

\* What the next revision's first statement finds: undated captures; every key; every
\* edge of the pair but the earliest; every client's secret.
Found(s) ==
  CASE server[s].at + 1 = Backfill -> {c \in Capture : Seen(s, c) = "undated"}
    [] server[s].at + 1 = Digest   -> {t \in Token : Seen(s, t) # "absent"}
    [] server[s].at + 1 = Unique   -> {c \in Stand(s) : \E d \in Stand(s) : d < c}
    [] server[s].at + 1 = Secrets  -> {p \in Secret : Seen(s, p) # "absent"}
    [] OTHER                       -> {}

\* The first statements of a revision.  The one of the secrets alters two columns of
\* mcp_refresh_tokens before, once nobody else has written them.
PlanRevision(s) ==
  /\ At(s, "plan") /\ server[s].at < server[s].image
  /\ server[s].at + 1 = Secrets => \A t \in Refresh : Free(s, t)
  /\ Update(s, [server[s] EXCEPT !.pc = "rewrite", !.todo = Found(s)])
  /\ UNCHANGED <<rev, row, journal, boots>>

\* What a row becomes: the date is the one the backfill reckoned from what it read; a key
\* or a secret becomes the digest of whatever it is by then; a later copy goes.
Rewritten(x, was) ==
  CASE x \in Capture    -> "default"
    [] x \in Credential -> IF was = "raw" THEN "digest" ELSE "digest of a digest"
    [] x \in Copy       -> "absent"

\* Every copy goes, the earliest too.
RewriteMutant(s) ==
  /\ At(s, "rewrite")
  /\ \E x \in server[s].todo \cup (IF server[s].at + 1 = Unique THEN Stand(s) ELSE {}) :
       /\ Free(s, x)
       /\ Update(s, [server[s] EXCEPT
            !.todo = @ \ {x},
            !.wrote = [y \in DOMAIN @ \cup {x} |-> IF y = x THEN Rewritten(x, Seen(s, x)) ELSE @[y]]])
  /\ UNCHANGED <<rev, row, journal, boots>>

\* One row of it, once nobody else has it.
Rewrite(s) ==
  /\ At(s, "rewrite")
  /\ \E x \in server[s].todo :
       /\ Free(s, x)
       /\ Update(s, [server[s] EXCEPT
            !.todo = @ \ {x},
            !.wrote = [y \in DOMAIN @ \cup {x} |-> IF y = x THEN Rewritten(x, Seen(s, x)) ELSE @[y]]])
  /\ UNCHANGED <<rev, row, journal, boots>>

\* create_index waits until nobody else has written the table, and fails, and the boot
\* with it, over a pair that stands twice by then.
BuildIndex(s) ==
  /\ At(s, "rewrite") /\ server[s].todo = {} /\ server[s].at + 1 = Unique
  /\ \A c \in Copy : Free(s, c)
  /\ IF Cardinality(Stand(s)) > 1 THEN Down(s) ELSE Update(s, [server[s] EXCEPT !.pc = "index"])
  /\ UNCHANGED <<rev, row, journal, boots>>

\* The revision that was read is not compared.
VersionStandsMutant(s) == TRUE

\* alembic updates the version it read to the next one, and expects to match one row.
VersionStands(s) == server[s].moved \/ rev = server[s].base

\* The end of a revision: the version row is waited for, moved, and held.
MoveVersion(s) ==
  /\ \/ At(s, "index")
     \/ At(s, "rewrite") /\ server[s].todo = {} /\ server[s].at + 1 # Unique
  /\ \A o \in Migrating \ {s} : ~ server[o].moved
  /\ IF VersionStands(s)
     THEN Update(s, [server[s] EXCEPT !.pc = "plan", !.at = @ + 1, !.moved = TRUE])
     ELSE Down(s)
  /\ UNCHANGED <<rev, row, journal, boots>>

\* The transaction the probe began is still open: it is rolled back, not committed.
CommitMutant(s) ==
  /\ At(s, "plan") /\ server[s].at = server[s].image
  /\ Update(s, [pc |-> "serve", image |-> server[s].image])
  /\ UNCHANGED <<rev, row, journal, boots>>

\* At the image's head: everything is committed at once, and the server serves.
Commit(s) ==
  /\ At(s, "plan") /\ server[s].at = server[s].image
  /\ rev' = IF server[s].moved THEN server[s].at ELSE rev
  /\ row' = [x \in Row |-> Seen(s, x)]
  /\ journal' = journal \cup {c \in Copy : row[c] # "absent" /\ Seen(s, c) = "absent"}
  /\ Update(s, [pc |-> "serve", image |-> server[s].image])
  /\ UNCHANGED boots

\* Killed at any statement: by the platform, an error, a deadlock Postgres resolves; or
\* stopped, once another serves.
Die(s) ==
  /\ ~ At(s, "off")
  /\ Down(s)
  /\ UNCHANGED <<rev, row, journal, boots>>

-----------------------------------------------------------------------------
\* A request a server of some image answers, in one transaction, once nobody's boot has
\* the row.
Serves(s, x) == At(s, "serve") /\ Free(s, x)

Writes(x, value) ==
  /\ row' = [row EXCEPT ![x] = value]
  /\ UNCHANGED <<rev, journal, server, boots>>

\* create_thing: the code that dates a capture came with the backfill.
CaptureThing(s, c) ==
  /\ Serves(s, c) /\ row[c] = "absent"
  /\ Writes(c, IF server[s].image >= Backfill THEN "default" ELSE "undated")

\* update_thing: the owner dates it.
DateThing(s, c) ==
  /\ Serves(s, c) /\ row[c] # "absent"
  /\ Writes(c, "dated")

\* A token or a code is issued, or a client registered with its secret, and stored as the
\* image stores it.
Issue(s, t) ==
  /\ Serves(s, t) /\ row[t] = "absent"
  /\ Writes(t, IF server[s].image >= DigestedAt(t) THEN "digest" ELSE "raw")

\* The pair is written once more: by code that looks for the edge, or against an index,
\* only when it does not stand.
RelateEvidence(s, c) ==
  /\ Serves(s, c) /\ row[c] = "absent" /\ c \notin journal
  /\ \A d \in Copy : d < c => row[d] # "absent" \/ d \in journal
  /\ server[s].image >= Unique \/ rev >= Unique => \A d \in Copy : row[d] = "absent"
  /\ Writes(c, "stands")

Next == \E s \in Server :
          \/ Start(s) \/ Begin(s)
          \/ PlanRevision(s) \/ Rewrite(s) \/ BuildIndex(s) \/ MoveVersion(s) \/ Commit(s)
          \/ Die(s)
          \/ \E c \in Capture : CaptureThing(s, c) \/ DateThing(s, c)
          \/ \E t \in Credential : Issue(s, t)
          \/ \E c \in Copy : RelateEvidence(s, c)

Spec == Init /\ [][Next]_vars

-----------------------------------------------------------------------------
\* Type correctness.
TypeOK ==
  /\ rev \in Image \cup {0}
  /\ \A c \in Capture : row[c] \in {"absent", "undated", "default", "dated"}
  /\ \A t \in Credential : row[t] \in {"absent", "raw", "digest", "digest of a digest"}
  /\ \A c \in Copy : row[c] \in {"absent", "stands"}
  /\ journal \subseteq Copy

\* A server serves only over a schema that has everything its code relies on
\* (main.lifespan, "Bring the schema to head before serving"), however many boot at once
\* and wherever one dies.
ServesItsSchema == \A s \in Server : At(s, "serve") => server[s].image <= rev

\* Nobody re-authorises or re-registers because two servers booted at once
\* (v4_hashed_credential_keys, "the connector holding the raw token keeps matching";
\* v4_client_secret_digests, "a connector holding the secret keeps authenticating"): a boot
\* that takes the database past the revision that digests a credential leaves it, if it
\* stood when the boot began, under its digest, and no credential is ever digested twice.
CredentialsCarryOver ==
  [][\A s \in Server : Commit(s) =>
       /\ \A t \in server[s].there :
            rev < DigestedAt(t) /\ rev' >= DigestedAt(t) => row'[t] = "digest"
       /\ \A t \in Credential : row'[t] # "digest of a digest"]_vars

\* The collapse takes nothing that is not told, and never the last edge of the pair: an
\* edge that was written stands or is on the journal, one of them stands, and once the
\* index does, one only (service.collapse_duplicate_evidence).
EvidenceIsKept ==
  LET standing == {c \in Copy : row[c] # "absent"}
  IN /\ standing \cap journal = {}
     /\ journal # {} => standing # {}
     /\ rev >= Unique => Cardinality(standing) <= 1

\* Nothing is destroyed unless somebody allowed it (alembic/safety.py, "blocks execution
\* unless explicitly allowed"): whatever else moves the version between the guard's look
\* and the transaction's, no unmarked revision runs in a boot that was not allowed it.
DestroysOnlyIfAllowed ==
  [][\A s \in Server : MoveVersion(s) /\ VersionStands(s) =>
       server[s].allow \/ server[s].at + 1 \notin Unmarked]_vars

=============================================================================
