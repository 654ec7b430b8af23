# TLA+ models of Reli

Reli is a memory service: Things and the relationships between them, written and
read by assistants over MCP, looked at in a web view, kept in Postgres. This
directory holds TLA+ modules that model the parts of it where requests race, die
half-way or arrive in an order nobody wrote a test for, the TLC configurations that
check them on small instances, and TLAPS proofs of what holds on every instance.

All paths below are under `src/`. `PROJECT.json` says, definition by definition,
which lines a module translates, which mutation of which definition breaks each
property, and where each hazard is.

1. [The system](#1-the-system)
2. [The plan](#2-the-plan)
3. [The modules and the code](#3-the-modules-and-the-code)
4. [The runs](#4-the-runs)
5. [Fairness](#5-fairness)
6. [What is proved](#6-what-is-proved)
7. [Where the code and its own words disagree](#7-where-the-code-and-its-own-words-disagree)
8. [What is not modelled](#8-what-is-not-modelled)

## 1. The system

One FastAPI process under uvicorn, over one Postgres database (SQLAlchemy 2, READ
COMMITTED, a session per request, a pool of three connections and two more,
`statement_timeout` 30 s). The process brings the schema to its own head before it
serves. Synchronous routes and MCP tools run on a thread pool, so
requests interleave between any two statements. The asynchronous routes of the OAuth
server have no `await` between their statements and exclude each other inside one
process; during a rolling deploy two processes, of two images perhaps, serve at once,
and they interleave too. The limiter and the gates run on the event loop and give it up
at each look-up in the database. A process may be killed at any statement.

| Component | Source | State | Operations | What makes it correct |
| --- | --- | --- | --- | --- |
| Thing writes | `backend/service.py`, `db_models.py` | `things`, `journal` | `create_thing`, `update_thing`, `reject_preference` | one entry per change, in one transaction, whose `before` is what was replaced; a guarded write drops nothing it did not see; a heartbeat is not hidden; a capture keeps a date |
| Edge writes | `backend/service.py`, `db_models.py` | `relationships`, `journal`, an advisory lock, a partial unique index | `relate`, `unrelate` | no Thing is its own ancestor, an EvidenceFor pair stands once, the journal tells which edges stand |
| User model | `backend/service.py`, `queries.py` | the `#User` anchor, preferences, evidence | `get_or_create_user_anchor`, `record_preference`, `add_preference_evidence`, `user_model` | one anchor, no preference without its evidence, strength counts each piece once |
| Graph maintenance passes | `backend/service.py`, two revisions | the graph | `backfill_checkin_dates`, `collapse_duplicate_evidence` | inside the boot's transaction, beside servers that still write; nothing is removed untold |
| Journal readers | `backend/queries.py`, `prompts/scheduled/learning-pass.md` | a watermark | `journal_since`, `history` | nothing missed, nothing read twice, truncation told |
| Standing queries | `backend/queries.py` | none | `due_for_checkin`, `stale`, `needs_input`, `blocked`, `related`, `children`, `tree_level`, `find_things` | no Thing drops out of the tree, a neighbourhood is whole, a capped answer says so |
| Token endpoint | `backend/mcp_oauth.py`, `oauth_state.py` | refresh tokens, authorization codes | `POST /oauth/token` | tokens rotate, a replay ends the sign-in, a lost response strands nobody |
| Bounded OAuth stores | `backend/oauth_state.py` | six tables with a cap and expiry | store, get, pop, consume, revoke, extend | a cap exceeded by concurrent requests only, and by a bounded amount; no eviction where a row is a session; expiries only move on |
| Registration and sign-in | `backend/mcp_oauth.py`, `auth.py`, `google_login.py` | registrations, sign-ins in flight, codes, a cookie | `/oauth/register`, `/oauth/authorize`, consent, Google callback, code exchange | a code arrives only where its own consent page was approved, a state is used once, a registration lives as long as what it serves |
| Web session | `backend/auth.py`, `web_view_auth.py` | cookie, revoked ids | sign-in, `web_session`, logout | a session logged out stays out |
| MCP tools | `backend/mcp_server.py`, `prompts.py` | none | one session and one service or query call each | adds nothing of its own |
| Web API | `backend/api.py` | none | reads, the tree a level at a time, and the reject button | as above |
| Rate limiter | `backend/rate_limit.py` | token buckets in an LRU | one check per request | a limit that binds, a Retry-After that can be trusted, bounded memory, nobody spends another's bucket |
| Request gates | `backend/main.py`, `mcp_transport.py`, `web_view_auth.py` | none | bearer, session guard, headers | what logout ended stays out, whatever the awaits between claims and list |
| Migrations and boot | `backend/alembic/` | schema revision | nine revisions, the destructive-DDL guard, one transaction per boot | a server serves over its own schema, credentials survive their digests, nothing is destroyed unless allowed |
| Engine and sessions | `backend/db_engine.py`, `config.py` | pool | session per request | what is not committed is gone |
| Scheduled passes | `prompts/scheduled/*.md` | heartbeats, the watermark | prompts an assistant follows | a missed run is reported |
| The rest | `sentry.py`, `frontend_serving.py`, `frontend/`, `scripts/`, `.github/`, `reference/oauth` | — | I/O, rendering, deployment, history | — |

How they interact. Every write of the graph goes through `service.py`; the MCP tools
and the web API call it and nothing else writes. A write and its journal entry share a
transaction, so the journal is the interface between writers and the readers that
catch up with it (`journal_since`, `history`). The limiter stands in front of the gates,
and both ask the session and the revocation list. The user model is built from Things and
edges and relies on the unique index of the edge writes. The OAuth server's stores are
tables of the same database and are shared by all its handlers; the token endpoint is
the one that writes two of them in one transaction.

Which behaviours are hard. Between a statement and the next, another request commits:
the row lock in `update_thing`, the advisory lock in `relate`, the rowcount of
`consume_refresh_token` exist for that. Journal ids come from a sequence, drawn before
the commit, so ids become visible out of order. A store is counted and written in two
statements. `record_preference` commits twice. `needs_input` counts after it has listed.
A credential is decoded before an `await` and looked up after it. Two servers boot at once, through
revisions that rewrite rows, beside one of an older image that still writes them. The
list of hazards in `PROJECT.json`
gives each with its line and the property that watches it.

## 2. The plan

Order: what would lose or corrupt the owner's data first, then who may get in, then
the rest.

Built:

1. `JournalledStore` — the abstract specification of the write path: rows change one
   at a time, each change with its entry.
2. `ThingWrites` — implements `JournalledStore`.
3. `EdgeWrites` — every step that changes an edge is a step of `JournalledStore`.
4. `JournalFeed` — readers of the journal beside its writers.
5. `TokenChain`, `RefreshTokens` — the abstract chain of tokens of a sign-in and the
   endpoint that implements it.
6. `UserModel` — the anchor, the preferences and their evidence, over the guarantees
   of `EdgeWrites`.
7. `BoundedStore` — the six stores, statement by statement: caps counted and written in
   two statements, eviction, replacement under one key, `extend_expiry`.
8. `SignIn` — registration, authorize, consent, callback, code, promotion; the web
   session and its logout. One step per transaction on the stores of `BoundedStore`.

9. `StandingQueries` — the tree, the related walk and `needs_input` beside the tools that
   change the graph, against reference definitions.
10. `RequestGates` — the limiter and its LRU, the session guard and the bearer check
    behind it, with the awaits between a credential's claims and the revocation list.
11. `RollingDeploy` — boots, old servers, the four revisions that rewrite rows, the
    destructive-DDL guard.

Runs stay few: one for each question.

Proved: every safety and action property that a passing run checks (section 6). What is
left to TLC is the liveness of `ThingWrites` and `EdgeWrites`.

## 3. The modules and the code

One convention throughout. A request is a member of `Worker`; `pc[w]` says between which
two statements it stands (`Request` and `stage[w]` in `BoundedStore`). A statement that
reads or writes the database is one action; so is a COMMIT. What a session has flushed
lives in the request's own variables and becomes part of the committed variables at the
commit, which is what READ COMMITTED lets the others see. A lock is not a variable: a
request holds it while its `pc` is between the statement that takes it and the end of its
transaction. `Abort` (`Leave` in `UserModel`, `Fail` in `BoundedStore`) is a request that
dies anywhere: the process is killed, the connection drops, `statement_timeout` or
Postgres' deadlock detection cancels a statement. Arguments that only shape text (titles,
notes, messages) are left out, and so are the bounds that refuse a request before its
first statement.

Operators whose name ends in `Mutant` are each a plausible bug of the definition that
follows them. No specification uses them; they exist so that each property can be seen
to fail when the code is wrong.

### JournalledStore

What `service.py` promises in its docstring: `rows` change only by `Change`, which also
appends one entry, whose `before` is the row replaced. `Replays` says what that buys:
replaying the log gives the rows, and each entry's `before` is what the entries in
front of it leave.

### ThingWrites

| Here | In `backend/service.py` |
| --- | --- |
| `things`, `journal`, `nextId` | committed `things`, `journal`, the sequence of `journal.id` |
| `req`, `base`, `row`, `entryId` | the call's arguments, the `before` snapshot, the flushed row, the flushed entry's id |
| `seen`, `ReadThing` | what a caller got from the `get_thing` tool, `updated_at` included |
| `CreateThing`, `Capture` | `create_thing`: `#New` and a check-in date for a capture, not for one of Reli's own records |
| `BeginUpdate`, `BeginReject` | the calls, with `expected_updated_at` or without |
| `RequireThing` | `_require_thing(lock=True)`: SELECT ... FOR UPDATE |
| `Refuse`, `WriteRow` | `StaleWrite`, `_check_heartbeat_kept`, the two early answers of `reject_preference`; or the flush |
| `DrawEntryId`, `Commit` | `_journalled` and the commit |

A Thing's row is its tags, `active`, whether it has a check-in date, and `updated_at`
as a number: `Later` says that a stamp taken under the row's lock is later than the one
it replaces. That is an abstraction of the wall clock, and `GuardedWritesDropNothing`
rests on it: two writes of one row within the clock's resolution, or a clock set back,
are outside the model.

### EdgeWrites

| Here | In the code |
| --- | --- |
| `edges`, `journal` | committed `relationships` and their entries |
| `HoldsChildOfLock`, `LockChildOf` | `_LOCK_CHILD_OF_WRITES`, `pg_advisory_xact_lock` |
| `Reaches`, `CheckCycle` | `_CHILD_OF_REACHES`, a recursive query of its own after the lock |
| `Clash`, `IndexFree`, `Taken`, `Insert` | `EVIDENCE_FOR_UNIQUE_INDEX`, as Postgres enforces it: an insert waits for a transaction that has inserted or is deleting a clashing edge |
| `CommitRelate` | commit of `_insert_relationship` and its entry |
| `BeginUnrelate`, `Delete`, `CommitUnrelate` | `unrelate`: the unlocked read, the DELETE that may match nothing, the commit |

`Reaches` is the least set closed under the edges, written as a quantifier over sets
rather than by recursion, so that it can be reasoned about; it is what the recursive
query computes.

### JournalFeed

Writers are cut down to what readers can tell apart: `DrawId` (an entry flushed while
its row is locked), `Commit`, `Abort`. `Ask` and `Answer` are the two statements of
`journal_since` and of `history` — the window, then the count — and `Truncated` is
`History.truncated`. `after` and `got` are the learning pass: it goes on from the last
id it was given (`prompts/scheduled/learning-pass.md`). `quiet` is a history variable:
no window so far ended above an id still uncommitted.

### RefreshTokens and TokenChain

| Here | In `backend/mcp_oauth.py` and `oauth_state.py` |
| --- | --- |
| `tokens`, `codes` | committed rows of `mcp_refresh_tokens` and `mcp_auth_codes` |
| `PresentToken`, `PresentCode` | `_authenticated_grant`: purge, commit, read, authenticate the client |
| `Consume`, `mine` | `consume_refresh_token`: the UPDATE whose rowcount decides, and the row lock it leaves |
| `RedeemCode` | `cleanup_and_pop`, then the checks of `redirect_uri` and verifier |
| `BeginRevoke`, `Revoke`, `doomed` | `revoke_refresh_token_family`: the rows its statement sees when it begins, the wait for them, the removal |
| `CountRows`, `StoreToken` | `cleanup_and_store`: count, then insert and commit, the consume with it |
| `Respond`, `held` | `extend_expiry` and a response that arrives; `Abort` at that point is one that is lost |
| `Expire`, `Purged` | a family's deadline, which rotation carries over, and `_purge_expired` |
| `Disallow` | an account leaves `ALLOWED_EMAILS` |

`TokenChain` is the promise: per family at most one token that can be redeemed, a
rotation puts a never-seen token in its place, a family that has ended stays ended.
`ImplementsChain` maps `live[f]` to the set of redeemable rows of the family, which the
promise keeps empty or a single token. `WaitsFor` is whose row a request's UPDATE or
DELETE is about to wait for; `NoCircle` is over any set of requests.

### BoundedStore

| Here | In `backend/oauth_state.py` |
| --- | --- |
| `looked`, `Evicting`, `MaxEntries` | which of the six tables; `evicts`; `max_entries` |
| `rows`, `now`, `Due` | committed `expires_at` per key; the clock; the expiry a caller asks for |
| `touched` | rows a transaction has deleted and not committed: the purge, the eviction, the row replaced |
| `BeginStore`, `CountOthers` | `cleanup_and_store`: purge, then count the rows other than the key; a full store refuses and rolls back, or evicts |
| `Excess`, `Nearest`, `ChooseEvicted`, `Evict` | `DELETE ... WHERE pk IN (SELECT ... ORDER BY expires_at LIMIT n)`: its subquery chooses among what is committed when it begins, then waits for row locks and deletes what it chose even if extended meanwhile |
| `FindOld`, `DeleteOld`, `Insert`, `CommitStore` | the row under the key is replaced; an INSERT waits for another of the key, and one that stands is an IntegrityError |
| `CleanupAndGet`, `CleanupAndPop`, `ExtendExpiry` | `cleanup_and_get`, `cleanup_and_pop`, `extend_expiry`, one transaction each, waiting for the rows they are about |

The stores share no rows, so one is looked at at a time. `ExtendExpiry` may be asked of
any key, with any expiry a caller may ask for now.

### SignIn

A sign-in is named by the `state` drawn for it; its code, its tokens and its session are
that state's, so `codes`, `deadline`, `exp` and `delivered` are indexed by it and
`minted` counts whether there were ever two.

| Here | In `backend/mcp_oauth.py`, `auth.py`, `google_login.py` |
| --- | --- |
| `due`, `Register`, `Live` | `mcp_registered_clients`, `oauth_register`, the purge every access makes |
| `Authorize`, `StoreFlow`, `GoogleSignIn` | `oauth_authorize` (the client is read, then the flow stored), `google_sign_in` |
| `Confirm`, `SameOrigin`, `SetCookie`, `approved` | `oauth_authorize_confirm`; its response, which may be late or lost, sets `MCP_FLOW_COOKIE` |
| `Callback`, `WithoutFlow`, `ThisBrowser` | `google_callback`: the row is popped before the cookie is compared |
| `ExchangeCode`, `StoreCode`, `MintSession`, `Deliver` | `exchange_code` and the two endings; Google answers an identity or an error, the owner may cancel, the store may be full |
| `Authenticate`, `RedeemCode`, `IssueToken`, `Promote`, `Respond` | the code exchange as far as the registration is concerned; rotation is `RefreshTokens` |
| `Present`, `Look`, `Logout`, `Revoke`, `Decodes` | `web_session` and `is_revoked`, `logout` and `_revoke`: a session is decoded first and looked up later |
| `Forget`, `Displace` | a flow or a code expires, a flood displaces a flow or a registration: any of them, at any time |

Registrations, families and sessions expire by a clock, because what is promised of them
compares their deadlines; flows and codes may go at any time, which allows every expiry
they can have.

### UserModel

Preferences hang off the anchor and count their evidence edges. `record_preference` is
checked (`CheckEvidence`), gets or makes the anchor (`GetAnchor`, `InsertAnchor`,
`CommitAnchor`, a commit of its own), then writes preference, anchor edge and evidence
edges in one transaction (`LinkEvidence`, `CommitRecord`), each piece's tags read again.
`add_preference_evidence` is `BeginAdd`, `Look`, `Insert`, `LookAgain`, `CommitAdd`;
`user_model` is its two statements, `ListPreferences` and `ReadEvidence`, whose scope
and `#Rejected` filters are any subset of the preferences. What the other writers may do
meanwhile is one action each: `Retag`, `Unrelate`, `CreateByHand`. The row locks and the
journal of `ThingWrites` and `EdgeWrites` are not repeated here; the index is, because
the answers of an add depend on it.

### StandingQueries

| Here | In the code |
| --- | --- |
| `active`, `tags`, `edges` | `things.active`, `things.tags`, `relationships`, as committed |
| `Listed`, `Claimed`, `TopLevel`, `LevelBelow` | `tree_level`: the conditions every level shares; the top level is what no active parent claims; a level below is the children |
| `ActiveChildCount`, `HasChildren` | `_active_child_counts` and `ThingSummary.has_children`, which offers the row's expansion (`views/TreeNode.tsx`) |
| `InTree` | what somebody sees who expands every row of `views/Tree.tsx` that offers it |
| `Adjacent`, `Onward`, `Walk`, `Related` | `_RELATED_WALK` hop by hop, the path that keeps it from going round, `DISTINCT ON` the shortest depth |
| `AskNeedsInput`, `AskWindow`, `AskTotal`, `AnswerNeedsInput` | `needs_input`: the list, then the count, then the answer; `AskTruncated` is `NeedsInput.truncated` |
| `ArchiveThing`, `UpdateTags`, `Relate`, `Unrelate` | the tools of `mcp_server.py`, one step each |

The writes are atomic here because `ThingWrites` and `EdgeWrites` show that they are; that
`Relate` refuses a ChildOf cycle is `NoChildOfCycle` of `EdgeWrites`. The order that
priorities, titles and dates make is left out: a cut of a list may keep any of its rows.

### RequestGates

| Here | In the code |
| --- | --- |
| `buckets`, `order`, `Full`, `Refilled` | `_BUCKETS`, the LRU, and a bucket's tokens in units of a minute's fraction, so that the refill is exact |
| `Arrive`, `TierOf` | `RateLimit.__call__` up to the subject, `tier_for` |
| `ReadCookie`, `ReadCookieRow`, `ReadBearer`, `ReadBearerRow` | `_user_subject`: `web_session`, then the bearer; in each the claims first (`Decodes`), the list after an await (`Listed`) |
| `Take`, `Asked`, `Kept`, `RetryAfter` | `_take`, which awaits nothing, and the 429 |
| `Gate`, `Refuse`, `Serve`, `Presented` | `_WebViewAuthMiddleware` under `/api`, `_BearerTokenMiddleware` under `/mcp`: the same look-ups made again |
| `Logout`, `Fail`, `Tick`, `Restart` | `auth.logout`; the 500 of a look-up that fails, or a client gone; the clock; a deploy, which loses the buckets and may change `ALLOWED_EMAILS` |

`past` is a history variable: of each bucket, when it was made, what it admitted since, the
times its refusals named since it last gave a token and who asked since. The code counts
in floats of seconds; here a token is `Minute` units and a tick refills `Limit` of them,
which is the same line with a rational slope.

### RollingDeploy

| Here | In the code |
| --- | --- |
| `rev`, `row` | `alembic_version`; Things' dates, the keys of tokens and codes, the secrets of clients (raw, their digest, or a digest of it), the edges of one evidence pair, as committed |
| `server`, `at`, `base`, `wrote`, `moved` | each process: what it runs, and in its boot the revision it is at, the one it read, the rows it has rewritten, whether it has moved the version |
| `Start`, `GuardPasses` | `alembic/env.py`: the probe, rolled back; `check_pending_migrations` over what the probe saw |
| `Begin`, `PlanRevision`, `Found` | the transaction begins and the version is read again; a revision's first SELECT or UPDATE; the one of the secrets alters `mcp_refresh_tokens` first, which waits for whoever writes that table and keeps others out (`Altered`) |
| `Rewrite`, `Rewritten` | the rows of `backfill_checkin_dates`, of the UPDATEs of both digesting revisions, of `collapse_duplicate_evidence`, one at a time, each waiting for its lock |
| `BuildIndex`, `MoveVersion`, `VersionStands` | `create_index`, which keeps writers of the table out and fails over duplicates; alembic's UPDATE of the version, which fails the boot when it matches no row |
| `Commit`, `Die` | the end of `lifespan`'s upgrade; a process killed, refused or replaced |
| `CaptureThing`, `DateThing`, `Issue`, `RelateEvidence` | what a server of an older or newer image writes meanwhile; it stores a credential raw or digested as its own code does (`DigestedAt`) |

Revision numbers stand for the places of the revisions in the chain: 0 is everything
before the backfill, 1 to 4 are the four that rewrite rows (the backfill, the digests of
keys, the collapse with its index, the digests of secrets), 5 is the head,
`v4_revoked_tokens`, which adds a table, and 6 is one to come that destroys something
and is not marked. Locks follow from `wrote`, as elsewhere from `pc`.

## 4. The runs

Sizes are distinct states and time on two workers.

| Run | Instance | Checks | Size |
| --- | --- | --- | --- |
| `thing_writes` | 2 requests, 1 Thing, 4 tags, 3 tag lists, no request begins after 2 ids | types; ids in order per Thing; heartbeats kept; guarded writes drop nothing; a rejection extends, once; implements `JournalledStore`; requests end | 345 k, 95 s |
| `edge_writes` | 2 requests, 2 Things, 2 edges ever, 3 types | no cycle; evidence single; changes journalled; requests end | 15 k, 9 s |
| `edge_writes_twice` | 2 requests, 1 edge | finding 1 | seconds |
| `user_model` | 2 requests, 2 preferences, 2 pieces of evidence | one anchor; shown whole; answers stood | 1.9 M, 90 s |
| `journal_feed` | 2 transactions, 2 entities, windows of 1 and 2, 4 ids | quiet feed whole; truncation told; history shows now | 61 k, 4 s |
| `journal_feed_gap` | the same, 3 ids | finding 2 | seconds |
| `refresh_tokens` | 3 exchanges, 2 sign-ins, 4 tokens, a store that 2 rows fill | consumed has its successor; codes redeem once; no circle of waits; a replay kills the successor; implements `TokenChain` | 8 k, 11 s |
| `bounded_store` | 2 requests, a store of each kind, cap 2, 4 keys, a clock of 2 instants | overflow bounded; nothing evicted from a store that refuses | 313 k, 20 s |
| `sign_in` | 2 requests, 2 browsers, 2 sign-ins, 1 connector, a clock of 3 instants | consent in this browser; one answer per state; a registration serves; logged out stays out | 1.5 M, 55 s |
| `standing_queries` | 3 Things, 3 edges at once of 2 types, 2 hops, a limit of 1 | nothing drops out of the tree; the walk is the neighbourhood; a settled answer is whole | 144 k, 90 s |
| `request_gates` | 2 requests in flight, 3 keys, 2 buckets, a clock of 3 instants, credentials that expire at the second | types; the budget; Retry-After; only the least recently used goes; ended stays out | 977 k, 80 s |
| `rolling_deploy` | 3 servers, images 0, 3 and 6, revision 6 unmarked, 3 starts, a capture, a refresh token, a client's secret, a pair written twice | serves its schema; evidence kept; credentials carry over; destroys only if allowed | 544 k, 40 s |

Why these bounds are enough to be interesting. A row lock orders writers of one Thing,
so two requests and one Thing are every race for a row; different Things share only the
sequence, which `journal_feed` covers, and the proofs lift the bound altogether. Two edges
ever are a pair that clashes, two that close a cycle each other's walk did not see, or a
removal and the insert that waits for it; longer cycles, between any number of requests,
are left to the theorem `ChildOfStaysAcyclic`. Two ids and a window of one make a page boundary; two
transactions make ids visible out of order; four ids leave room for a page after the
gap. Three exchanges are two that present one token and a third that presents the
newest; a cap of two is reached while a rotation is under way. Two requests with two
pieces of evidence each are half-written preferences, first anchors made at once, and
adds of one pair. Four keys over a cap of two leave a row to evict, one to keep and two
being inserted, the most two requests can add past the cap. Two sign-ins are two tabs of
one browser, or a link opened in the other, or two families of one registration with
different deadlines; a grace shorter than a family and a session that spans two instants
let a registration or a session expire at every point of the request that uses it. Three
Things and three edges are a chain, a fork, two parents of one child, a triangle with a
short way and a long one. Three keys for two buckets evict each other in every order.
Two credentials of one owner and an address are a stolen copy beside its owner. Three
servers with a start each are two that boot at once beside an old one that writes, or one
that dies, comes back and races another; image 3 reaches the index and not the secrets,
image 6 all of it. The same instance with a fourth start, 4.3 million states, was checked
once and shows nothing more.

Symmetry is used where only safety is checked and the refinement makes no choice.
`CHECK_DEADLOCK FALSE` is set everywhere: the bounds on ids, edges and tokens stop a
model in which nobody is waiting; that waiting requests go on is what `RequestsEnd`
checks, and in `standing_queries`, `request_gates` and `rolling_deploy` a system in which
nobody asks and nobody deploys has come to rest. The other modules have no liveness
property: the waits of `journal_feed` and
`user_model` are the locks checked in the modules that own them, `refresh_tokens` has
`NoCircle`, and in `bounded_store` and `rolling_deploy` requests may wait for each other's
rows in a circle, which Postgres' deadlock detection ends (`Abort`, `Die`). Each module
states `TypeOK`; a run lists it where a theorem states it too, or where it says more than
the shape of the records, as the bound on the buckets does.

Some properties deserve a word on what they say.

- `WritesAreJournalled` fails without FOR UPDATE: two updates would read one row and the second's `before` would not be what it replaced.
- `GuardedWritesDropNothing` relates three moments: what the caller read, the row under
  the lock, the commit. The guard must be compared under the lock.
- `TruncationIsTold` holds although window and count are two statements: entries
  committed in between can only make the count larger, so an answer may say truncated
  when its window was whole, never the other way.
- `QuietFeedIsWhole` is what a reader may rely on; the unconditional form is false
  (finding 2).
- `ReplayKillsSuccessor` holds where the broader promise does not (section 7): the
  replay's UPDATE waits for the rotation of the same token, so the replacement is
  committed before the DELETE begins.
- `ShownIsWhole` holds although the reader's two statements see different moments,
  because a preference and its evidence are committed together.
- `NoCircle` of the token endpoint rests on `OneLiveToken`: a request that consumed a
  token may have to revoke its family while holding that row, and two such requests of
  one family would wait for each other's rows.
- `OverflowIsBounded` is what is left of the cap: each of the requests that count at once
  may add a row, but the next one evicts all that is too many, so the excess never adds
  up. With one row evicted per insert it would.
- `ConsentInThisBrowser` rests on three things at once: only Reli's own page confirms, the
  cookie names one state, and the comparison is with the state of this callback, not
  with whether something was approved.
- `RegistrationServes` says nothing of a registration that is gone: one that is purged or
  displaced between authentication and promotion stays gone (section 7).
- `AnswersStood` is about an add that is answered without a write. One that the index
  refused and whose edge is gone when it looks again is answered with an error, and the
  property says nothing of it.
- `LoggedOutStaysOut` is stated up to the session's `exp`, not without it: the session is
  decoded, then the list is purged, and in between the `exp` may pass that ends both.

- `NothingDropsOut` is about two definitions that must agree, the level that lists a Thing
  and the parent whose row offers it: an archived parent must not go on claiming a child.
  It excepts what hangs under one of the user model's own records, which is listed at no
  level (section 7).
- `RelatedIsNeighbourhood` compares paths with layers: the walk enumerates simple paths and
  keeps a Thing's shortest, the reference grows the set of what is near by an edge at a time.
- `SettledAskIsWhole` has the exception the code needs: when somebody is settled between
  the two statements, the count may equal the window although one who waits is not in it.
- `BudgetHolds` bounds all a bucket ever admitted by one full bucket and the time since, so
  it sees a refill counted twice; refused calls and restarts move nothing. A key whose
  bucket was evicted starts anew, which is why `LeastRecentGoes` says whose goes.
- `EndedStaysOut` covers the limiter and the gate: each makes its own look-ups, and the
  request was ended, or not, before it arrived. It excepts the instant at which the
  credential expires anyway.
- `RetryAfterHolds` keeps every time a caller was told since its bucket last gave a token,
  and not the last one only: a limiter that lets an early call put the token off, or
  counts the wait anew at each refusal, breaks a promise it made before.
- `CredentialsCarryOver` is about a boot that began when the credential stood, and says of
  each credential what the revision that digests it does: `v4_hashed_credential_keys` of
  keys, `v4_client_secret_digests` of secrets. Two boots may both digest it; the one that
  waits for the other's rows digests digests, and is saved by its version row, which no
  longer matches (`VersionStands`).
- `EvidenceIsKept` relates the rows, the journal and the revision: an old server writes
  the pair again between collapse and index, and the index then fails the boot.
- `DestroysOnlyIfAllowed` holds although the guard looks before the transaction: the
  version it saw can only have moved forward by then, and what is left to run is part of
  what it looked at.

Each property of each passing run has a mutation in `PROJECT.json` — a dropped lock, a
guard weakened, a commit split, a purge or a family forgotten — under which the run
finds it violated.

## 5. Fairness

Only `ThingWrites` and `EdgeWrites` state liveness. Their `FairSpec` adds, for each
request, weak fairness on the statements it can always make (a thread that is scheduled
runs) and strong fairness on each that waits for a lock: a lock that keeps coming free
is got in the end, because Postgres queues its waiters. Nothing forces a request to
begin, a caller to ask or a request to die. In particular `Abort` is not fair: requests
end because their waits end, not because a timeout rescues them.

## 6. What is proved

Eight proof modules, checked by TLAPS, for any sets of requests, Things, tags, edges,
tokens, sessions, servers and rows. In each, `IInv` is the inductive invariant
(`StandingInv` and `StoreInv` for the two models that share a proof module with another), a
conjunction of named parts; a lemma proves each part at every step, and the theorems
follow from `Spec => []IInv`. Every `TypeCorrect` comes from its first part.

**ThingWritesProofs.** The invariant is built in four layers.
- `Typed`: `TypeOK` and, per request, what its `pc` says of its arguments and rows.
- `Locks`: one owner per row (`Mutex`); a request past its lock has in `base` the row
  that stands (`BaseStands`); committed ids are below the sequence, and an id drawn is above the
  committed ids of the same Thing (`IdsDrawn`); `HistoryInIdOrder`. `HistoryInIdOrder`
  alone is not inductive: that a later id is committed later needs the row lock to be
  held from before the id is drawn until the commit.
- `Content`: what a request was asked, that what it wrote passed its checks on the row
  it locked, and that what a caller saw is not newer than what stands. A guarded write
  needs the last part: an equal stamp is then the same row.
- `Dated`: a journalled Thing has a row, and captures are dated.

From `Locks` follows `StepIsJournalled`, each step being a `JournalledStore` step or a
stutter, hence `ThingWritesImplementStore`. `StoreReplays` says that replaying the log of
a journalled store gives its rows (in `ChangeReplays` an entry appended is the last of
its key, and the entries in front of it are as they were), and with the refinement
`JournalReplaysThings`. From `Content` follow the action properties `HeartbeatsKept`,
`GuardedWritesKeep`, `RejectionsExtend`; from `Dated`, `CapturesDated`. That the journal
replays to the Things and that captures stay dated are proved and in no run: the first
follows from the refinement a run checks.

**EdgeWritesProofs.**
- `ChildOfStaysAcyclic`: the invariant `Tree` says that at most one request holds the
  advisory lock, that the walk it made still holds when it inserts (`WalkStands`: only
  the holder adds ChildOf edges, and removals make fewer paths, lemma `FewerReach`), and
  that the edges have no cycle. `NewEdgeAcyclic` is the graph argument: an edge from s
  to t closes a cycle only if t reached s before.
- `EvidenceStaysSingle`: `Single` adds that an edge flushed clashes with no edge that
  stands and with no other flushed.
- `JournalTellsTheEdges` and `EdgeChangesAreJournalled`: `Told` adds that a relate's id
  is its own and that an unrelate's snapshot is the edge an earlier entry related. What
  the journal tells of the edges is proved and in no run.

**QueriesProofs.** Of `JournalFeed`: an id drawn and not committed is what a reader cannot see, so the
invariant says where such an id can be.
- `Drawn`: every id, committed or not, is below the sequence, and so is the watermark: an
  id drawn from now on is above all that was given.
- `Ordered`: one writer at a time has entries of an entity, its ids ascend, and they are
  above the committed ids of that entity. From it follows `HistoriesShowNow`: the entry
  committed last has the greatest id, and nothing is above it to push it out of the window.
- `Pending`: the window of a query under way matches what was asked, by the watermark the
  reader still has. With the finiteness of the journal, `TruncationsAreTold`: a part that
  counts as many as the whole is the whole.
- `Settled`: while `quiet`, uncommitted ids are above the watermark and above the window of
  a query under way, and that window lacks nothing below its own end. `QuietFeedIsWhole`
  alone says nothing of a window that is read and not yet answered, nor of what a commit
  between the two brings; `WindowReaches` is the argument about ORDER BY and LIMIT, by
  the cardinality of what is below an entry.

The second half is about `StandingQueries`, the other model of `queries.py`. The module
extends both, which is why the names of this one differ (`StandingSpec`, `AskWindow`).
- `Forest`: every set of Things that is not empty has one with no parent in the set. It says
  that ChildOf has no cycles without speaking of paths. `ForestGrows` is what `relate`
  does to it: what the target reaches is closed and lacks the source. It gives
  `NobodyDropsOut`: of the Things above one that is hidden, which were not seen either,
  the forest has a top, and that is a root or hangs under a row that offered it.
- `SettledAsksAreWhole` is a count, as in `TruncationsAreTold`: a window that counts as many
  as all who wait, and holds none but them, holds them all.
- `RelatedIsTheNeighbourhood`: both recursions do what they say (`WalkRows`, `NearLayers`);
  after n rounds the walk has only Things that are near by n hops, and has every one that was not
  nearer by a path through what was nearer, which cannot go round (`WalkFindsLayers`); the layers
  only grow (`LayersGrow`). The lemmas are inductions over the rounds, made by the least
  round at which they would fail (`LeastOf`), because the library's induction theorems
  take an operator and cannot be instantiated here.

**OAuthStateProofs.** Of `RefreshTokens`:
- `Kin`: a row, a request and a DELETE know the family they are of, a family comes of one
  code, and that code is gone (`CodesRedeemedOnce`).
- `Locks`: a family without a token is the affair of the request that redeemed its code
  (`Alone`); a row that is marked stands unconsumed and is marked by one request
  (`Marked`); one token of a family is live (`OneTokenLives`). The last needs the first
  two: a token is stored by whoever marked the live one, or started the family.
- `Successors`: a DELETE that takes a replacement takes what it replaced (`Closed`), and
  what was replayed is never good again (`Replayed`); with them `ConsumedTokensReplaced`,
  and `ReplaysKill` for the answer of a replay.
- `NobodyDeadlocks`: whoever has marked its token waits for nobody
  (`HolderWaitsForNobody`): what it may come to delete is of its own family, whose one live
  token it has marked itself. So in any set of requests, one that waits or one it waits
  for waits for nobody.
- `ExchangesImplementChain`: each commit is a step of `TokenChain`, all else a stutter.

The second half is about `BoundedStore`, the other model of `oauth_state.py`, with names
apart from those of the first (`StoreSpec`, `Request`, `stage`).
- `Room` is why the cap's excess never adds up. That the table and the requests that have
  counted fit together is not inductive: one of them may commit a row that another's
  count, made before, knows nothing of, and so evict too few. `Room` therefore speaks of every set T
  of such requests at once, and of whatever those that have yet to choose their
  victims may come to choose: what then stands and T has not spoken for, and the rows of
  T, are fewer than `MaxEntries` and the number of requests together. `RoomCounted` is a
  count that joins such a set, `RoomChosen` a choice that is made, `RoomCommitted` a
  commit; there a choice that names the new row is exchanged for one that does not, or there is
  room because everything else was chosen. With T empty, `Room` is `OverflowIsBounded`
  (`OverflowsAreBounded`).
- `Apart`: two requests delete different rows and insert different keys, and where nothing
  is evicted a request deletes only what has expired or what it replaces. It gives
  `RowsStayUntilDue`.

**UserModelProofs.** `OwnPreference` (what is being recorded is not there for anybody
else), `AnchorMade` (the anchor is being made by one request, or is made), `RecordedWhole`
(evidence a preference was recorded with stands, or was cut), and `AddsKnow`, the
strengthening of `AnswersStood`: an add whose edge stands while it runs knows that it
stood. They give `OneAnchor`, `ReadersSeeWhole` and `AddsFoundTheirEdge`.

**RollingDeployProofs.**
- `Versions`: a transaction that moved the version moved it from the version that stands,
  and no other has moved it (the version row's lock); none is past its image's head;
  what it was allowed was checked at a version at or before its base. It gives
  `SchemasServed` and `NothingDestroyedUnasked`.
- `Evidence`: the edge a collapse keeps stands and is untouched while nobody else has
  committed, which is said under `rev = base`: what an overtaken boot did may be wrong,
  and is rolled back with it. It gives `EvidenceSurvives`.
- `Credentials`: of each credential there was when it began, a transaction that has come to
  the revision that digests it found it, and digested it once, under the same condition
  (`Carries`). It gives `CredentialsCarried`, for keys and secrets alike.

**RequestGatesProofs.**
- `Ordered`: the LRU lists every key that has a bucket once, and whoever is behind a key has
  asked since it did. `AskedOrder` is what a request does to the order;
  `EvictsTheLeastRecent` counts the keys behind the first.
- `BudgetHolds` and `RetryAfterHolds` are inductive once a bucket's tokens are known to be
  within its tier and its last update not after now: an asked bucket holds no more than
  it may, and no more than time has given it (`RefilledHolds`). For the second, asking
  early takes nothing from the token to come, so that what was promised before still
  holds after one more refusal (`KeepsItsWord`). They give `LimitKept` and
  `RetryAfterKept`.
- `Gated`: a request keeps the credentials that had ended when it arrived, which are on
  the list until the clock passes their expiry, and a key of an account is named by one
  that had not. It gives `EndedCredentialsStayOut`.

**SignInProofs.**
- `Placed` and `Drawn`: what the step of a request says of its state, its client and its
  code; nothing is made of a state before its callback or of a code before its exchange.
- `Once`: a callback has its state to itself and an exchange its code
  (`StatesAnsweredOnce`).
- `Consent`: a cookie names a state approved in its browser, and what goes on from a
  callback was approved there (`CodesFollowConsent`). The property speaks of what is
  delivered; the invariant follows the approval through cookie, callback and mint.
- `Serves`: a registration's expiry is its first hour or the deadline of a family minted
  for it, and not before that of a family promoted or held (`RegistrationsServe`).
- `StaysOut`: what was logged out is on the list until it has expired (`LogoutLasts`).

Assumptions: the named ASSUMEs of the modules, and the modelling assumption `Later`
above. The values that stand for "no row", "not given", "nobody" and "the web view" are
outside the types they are missing from; the tag constants are tags and `#New` is not one of
the internal ones; tokens, codes and families are drawn apart, as random strings of
their own are (`TokenAssumption`); captures, copies, keys and secrets are rows of different
tables (`RowAssumption`), and refresh tokens are some of the keys (`RefreshAssumption`);
the keys of accounts and of addresses differ, by the prefix that `rate_limit.py` gives
them (`KeyAssumption`); an `exp` is a time (`ClockAssumption`); a cap is
positive and the requests of a server are finitely many, being threads of a pool
(`StoreAssumption`); the walk's greatest depth is positive (`DepthAssumption`). None of
the theorems assumes a finite instance, but where the code or a bound has one (the
limiter's buckets, the copies of an edge, the requests in flight).

Only model-checked: the liveness properties of `ThingWrites` and `EdgeWrites`, because
fairness and ENABLED are beyond the prover.

## 7. Where the code and its own words disagree

Two runs are expected to find a violation; each one's property states a sentence of
the repository.

1. `edge_writes_twice` / `EntriesAreChanges`. "One append-only entry per mutation"
   (`db_models.py:245`). Two `unrelate` calls of one edge both journal its removal: the
   second DELETE matches no row, and SQLAlchemy only warns. The journal still tells
   which edges stand (`JournalTellsEdges`), which is why it goes unnoticed.
2. `journal_feed_gap` / `FeedIsWhole`. "everything that happened since the last run"
   (`queries.py:472`). An entry whose id was drawn before the page was read and
   committed after it lies below the watermark for ever.

Seen in the models, and not counted as findings because no run of its own shows them:

- "no store grows past its cap" (`oauth_state.py:13`): requests that count at once each
  see room, so it can, by one less than their number (`OverflowIsBounded`).
- "never a connector the owner has signed in through" (`mcp_oauth.py:280`): the eviction's
  subquery may choose a registration that is promoted before the DELETE reaches its row,
  and the DELETE goes by the key (`Evict` of `BoundedStore`).
- "A registration lives an hour until a token is minted for it, then as long as the
  refresh family it serves" (`oauth_state.py:18`): `extend_expiry` of a row that has just
  been purged or displaced is a no-op and the tokens are handed out all the same
  (`Promote` of `SignIn`).
- A session that was logged out is admitted once more if it is decoded just before its
  `exp` and the list is purged just after (`Look` of `SignIn`).
- A callback in the browser that approved its state is told "not approved from this
  browser" (`auth.py:93`) when another sign-in there was approved since, or ended and
  deleted the cookie (`ThisBrowser`, `Deliver`).
- "presenting one that has already been rotated away revokes every token from that
  sign-in" (`mcp_oauth.py:13`): a rotation of the newest token that overlaps the DELETE of
  `revoke_refresh_token_family` leaves its replacement alive (`Revoke` of `RefreshTokens`).
  It takes two server processes, as in a rolling deploy.
- "a refused preference leaves nothing behind" (`service.py:734`): evidence retagged between
  its two checks refuses the preference after the anchor was committed (`LinkEvidence` of
  `UserModel`). The anchor is harmless, and the next preference uses it.
- "a capped answer cannot pass for a whole one" (`queries.py:73`): an answer of
  `needs_input` cut at its limit is told as whole when as many are settled between its two
  statements as were cut (`AnswerNeedsInput` of `StandingQueries`).
- "a leaf never offers an expansion that is empty" (`api.py:211`): `has_children` counts
  active children whatever their tags, while the level leaves out `TREE_EXCLUDED_TAGS`
  (`HasChildren`, `LevelBelow`). For the same reason a Thing under a preference or an
  observation is at no level of the tree (`NothingDropsOut`'s exception).
- "anything already dated are left alone" (`service.py:404`): a date an old server sets
  between the backfill's SELECT and its UPDATE is overwritten, and a capture an old server
  makes after the backfill stays undated (`DateThing`, `CaptureThing` of `RollingDeploy`).
- "nobody re-authorises" (`v4_hashed_credential_keys.py:8`) and "nobody re-registers"
  (`v4_client_secret_digests.py:10`): a token or a code an old server issues after the
  digests, or a client it registers, is stored raw and never matched by a new one, and an
  old server matches no digested one (`Issue` of `RollingDeploy`).
- "Skip if already applied" (`alembic/safety.py:116`): the guard compares with the current
  revision only, so that an applied revision that destroys something and carries no marker
  is found again by every later boot (`GuardPasses` of `RollingDeploy`).
- A bearer that logout ended is admitted in the instant it expires, as a session is
  (`EndedStaysOut`'s exception).

Met while reading: `archive_thing` says that an archived Thing "drops out of
due_for_checkin, stale, blocked, needs_input" (`mcp_server.py:287`), but `blocked` looks at
whether the blocker is active and not at the Thing it blocks, so that an archived Thing
whose blocker is active stays listed (`queries.py:168`). `due_for_checkin` compares dates in
UTC while the prompts speak of London. An image older than the database's revision fails
its boot (`Begin` of `RollingDeploy`), so a rollback across a migration does not come up;
the deployment that serves goes on.

## 8. What is not modelled

- The queries of one SELECT: `due_for_checkin`, `stale`, `blocked`, `relationships_for`,
  `find_things`. Nothing interleaves inside them, and what they select is their WHERE.
- Security headers, the texts of refusals, the `/mcp` path without its slash, how a client's
  address is made out of `X-Forwarded-For`, the limiter's headers and its one log line:
  formatting, and a choice that is any address here. A server without a `SECRET_KEY` or a
  sign-in refuses everything.
- Revisions that add tables and columns, offline migrations, downgrades, and what of
  alembic is not its version row. Which sources the guard finds destructive is a constant.
- The backfill's choice of day, its `#New` mark and its journal entries; the family ids
  that `v4_refresh_token_families` gives to tokens older than it; and the subject and
  email of consumed refresh tokens, which `v4_client_secret_digests` nulls in one
  statement under the lock of its ALTER, and which nothing reads of a consumed token.
- What a registration or a request may hold (lengths, redirect URIs, auth methods), the
  settings that close the sign-in with a 501, and signature, audience and issuer of a
  JWT: checks on one value, refused before any statement.
- The purge's own row locks in `oauth_state.py`: two requests that purge and consume in
  opposite order can wait for each other; Postgres ends one of them, which is `Abort`.
- The connection pool: no handler holds two connections, so waiting for one is waiting
  for a request to end.
- The wall clock (see `ThingWrites`), and the text of Things: search, notes, scopes.
- The scheduled passes as programs: the learning pass and its watermark are a prompt that a
  model follows, through tools that are modelled, not code whose steps could be.
- Error reporting, static files, the React view but for its tree, deployment scripts but
  for starting and stopping servers, continuous integration, and `reference/oauth`, which nothing imports: I/O, rendering or history.
