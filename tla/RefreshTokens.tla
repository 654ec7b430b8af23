--------------------------- MODULE RefreshTokens ---------------------------
(***************************************************************************)
(* POST /oauth/token in backend/mcp_oauth.py over the refresh token and    *)
(* authorization code stores of backend/oauth_state.py.  A request redeems *)
(* a code, which starts a family of refresh tokens, or rotates a token:    *)
(* the consume and the replacement commit together, and a token presented  *)
(* again revokes its family.  Each request has a session of its own under  *)
(* READ COMMITTED; two requests overlap when two server processes do.      *)
(***************************************************************************)
EXTENDS Naturals, FiniteSets

CONSTANTS Worker,      \* requests in flight
          Code,        \* authorization codes, each minted by one sign-in
          Family,      \* family ids: the bound on sign-ins exchanged
          Token,       \* refresh tokens: the bound on tokens ever minted
          TokenCap,    \* the store's cap
          NoRow,       \* a row that is not there
          None         \* no value

VARIABLES tokens,   \* committed rows of mcp_refresh_tokens
          codes,    \* committed rows of mcp_auth_codes
          expired,  \* families past their deadline, which rotation never moves
          allowed,  \* whether the account is in ALLOWED_EMAILS
          held,     \* tokens a client was given
          origin,   \* history: the code each family came from
          minted,   \* history: the family of each token ever stored
          pc,       \* where each request stands
          grant,    \* the token or the code each request presents
          family,   \* the family it acts on
          mine,     \* the token row its transaction has marked consumed
          doomed,   \* the rows its DELETE of the family found
          new       \* the token it stored

vars == <<tokens, codes, expired, allowed, held, origin, minted,
          pc, grant, family, mine, doomed, new>>

store == <<tokens, codes, expired, allowed, held, origin, minted>>

Row == [family : Family, consumed : BOOLEAN, from : Token \cup Code]

\* Codes, family ids and tokens are drawn at random, apart from each other.
ASSUME TokenAssumption == /\ NoRow \notin Row
                          /\ None \notin Token \cup Code \cup Family
                          /\ Token \cap Code = {}
                          /\ TokenCap \in Nat

Init == /\ tokens = [t \in Token |-> NoRow]
        /\ codes = Code
        /\ expired = {}
        /\ allowed = TRUE
        /\ held = {}
        /\ origin = [f \in Family |-> None]
        /\ minted = [t \in Token |-> None]
        /\ pc = [w \in Worker |-> "idle"]
        /\ grant = [w \in Worker |-> None]
        /\ family = [w \in Worker |-> None]
        /\ mine = [w \in Worker |-> None]
        /\ doomed = [w \in Worker |-> {}]
        /\ new = [w \in Worker |-> None]

-----------------------------------------------------------------------------
\* The operators named ...Mutant are each a bug the definition after them could
\* have had; nothing uses them but the mutation runs PROJECT.json lists.

Goto(w, step) == pc' = [pc EXCEPT ![w] = step]

\* The session closes: what was not committed is gone, and so are its locks.
Finish(w) == /\ Goto(w, "idle")
             /\ grant' = [grant EXCEPT ![w] = None]
             /\ family' = [family EXCEPT ![w] = None]
             /\ mine' = [mine EXCEPT ![w] = None]
             /\ doomed' = [doomed EXCEPT ![w] = {}]
             /\ new' = [new EXCEPT ![w] = None]

Present(t) == tokens[t] # NoRow

Expired(t) == Present(t) /\ tokens[t].family \in expired

Redeemable(t) == Present(t) /\ ~ tokens[t].consumed /\ ~ Expired(t)

\* The UPDATE and the DELETE wait for a transaction that has marked the row.
RowFree(w, t) == \A v \in Worker \ {w} : mine[v] # t

\* _purge_expired: rows of an ended family are deleted by whoever comes next; one
\* that another transaction has marked is left until that one ends.
Purged(w) == [t \in Token |-> IF Expired(t) /\ RowFree(w, t) THEN NoRow ELSE tokens[t]]

Rows(f) == {t \in Token : Present(t) /\ tokens[t].family = f}

\* The bound on tokens: a request begins while each one in flight can store one.
MayBegin(w) ==
  /\ pc[w] = "idle"
  /\ Cardinality({v \in Worker : pc[v] # "idle"}) < Cardinality({t \in Token : minted[t] = None})

-----------------------------------------------------------------------------
\* _authenticated_grant on a refresh token: purged, committed, then read; the
\* client that holds it authenticates.  A consumed row is a grant too; a row that
\* is gone answers the request.
PresentToken(w) ==
  /\ MayBegin(w)
  /\ tokens' = Purged(w)
  /\ \E t \in held :
       \/ /\ tokens'[t] # NoRow
          /\ grant' = [grant EXCEPT ![w] = t]
          /\ family' = [family EXCEPT ![w] = tokens[t].family]
          /\ Goto(w, "authenticated")
       \/ /\ tokens'[t] = NoRow
          /\ UNCHANGED <<grant, family, pc>>
  /\ UNCHANGED <<codes, expired, allowed, held, origin, minted, mine, doomed, new>>

\* The consume is committed at once, before its replacement is stored.
ConsumeMutant(w) ==
  /\ pc[w] = "authenticated"
  /\ RowFree(w, grant[w])
  /\ \/ /\ Redeemable(grant[w])
        /\ tokens' = [tokens EXCEPT ![grant[w]].consumed = TRUE]
        /\ Goto(w, "consumed")
     \/ /\ ~ Redeemable(grant[w])
        /\ UNCHANGED tokens
        /\ Goto(w, "replayed")
  /\ UNCHANGED <<codes, expired, allowed, held, origin, minted, grant, family, mine, doomed, new>>

\* consume_refresh_token: the row is marked and stays locked; a row that is gone,
\* expired or consumed is a replay.
Consume(w) ==
  /\ pc[w] = "authenticated"
  /\ RowFree(w, grant[w])
  /\ \/ /\ Redeemable(grant[w])
        /\ mine' = [mine EXCEPT ![w] = grant[w]]
        /\ Goto(w, "consumed")
     \/ /\ ~ Redeemable(grant[w])
        /\ UNCHANGED mine
        /\ Goto(w, "replayed")
  /\ UNCHANGED <<tokens, codes, expired, allowed, held, origin, minted, grant, family, doomed, new>>

\* _authenticated_grant on a code.
PresentCode(w) ==
  /\ MayBegin(w)
  /\ \E c \in codes : grant' = [grant EXCEPT ![w] = c]
  /\ Goto(w, "presented")
  /\ UNCHANGED <<tokens, codes, expired, allowed, held, origin, minted, family, mine, doomed, new>>

\* The code is read once and deleted later.
PopMutant(w) == TRUE

\* cleanup_and_pop: DELETE ... RETURNING answers one of any number of callers.
Pop(w) == grant[w] \in codes

\* The code is popped for good; a wrong redirect_uri or verifier then refuses the
\* request, and a family id is drawn for the one that goes on.
RedeemCode(w) ==
  /\ pc[w] = "presented"
  /\ codes' = codes \ {grant[w]}
  /\ \/ /\ Pop(w)
        /\ \E f \in Family :
             /\ origin[f] = None
             /\ origin' = [origin EXCEPT ![f] = grant[w]]
             /\ family' = [family EXCEPT ![w] = f]
        /\ Goto(w, "consumed")
        /\ UNCHANGED <<grant, mine, doomed, new>>
     \/ /\ Finish(w)
        /\ UNCHANGED origin
  /\ UNCHANGED <<tokens, expired, allowed, held, minted>>

-----------------------------------------------------------------------------
\* revoke_refresh_token_family, its DELETE begins: the rows it will remove are
\* those committed now.  A replay revokes, and so does an account that is not
\* allowed any more.
BeginRevoke(w) ==
  /\ \/ pc[w] = "replayed"
     \/ pc[w] = "consumed" /\ ~ allowed
  /\ doomed' = [doomed EXCEPT ![w] = Rows(family[w])]
  /\ Goto(w, "revoking")
  /\ UNCHANGED <<store, grant, family, mine, new>>

\* The DELETE waits for the rows it found, removes them and commits, with the
\* purge the session carries.
Revoke(w) ==
  /\ pc[w] = "revoking"
  /\ \A t \in doomed[w] : RowFree(w, t)
  /\ tokens' = [t \in Token |-> IF t \in doomed[w] THEN NoRow ELSE Purged(w)[t]]
  /\ Finish(w)
  /\ UNCHANGED <<codes, expired, allowed, held, origin, minted>>

\* The rows other than the new one that cleanup_and_store counts.
Others(w) == {t \in Token : Purged(w)[t] # NoRow}

\* The refusal commits what the session carries.
RefuseMutant(w) ==
  tokens' = IF mine[w] = None THEN tokens ELSE [tokens EXCEPT ![mine[w]].consumed = TRUE]

\* StoreFullError: rolled back, the consume with it.
Refuse(w) == UNCHANGED tokens

\* cleanup_and_store for an allowed account: purge and count.
CountRows(w) ==
  /\ pc[w] = "consumed"
  /\ allowed
  /\ \/ /\ Cardinality(Others(w)) >= TokenCap
        /\ Refuse(w)
        /\ Finish(w)
     \/ /\ Cardinality(Others(w)) < TokenCap
        /\ Goto(w, "counted")
        /\ UNCHANGED <<tokens, grant, family, mine, doomed, new>>
  /\ UNCHANGED <<codes, expired, allowed, held, origin, minted>>

\* The row stored for a grant: of the same family, with its deadline.
Successor(w) == [family |-> family[w], consumed |-> FALSE, from |-> grant[w]]

\* The replacement is stored and the token it replaces left as it was.
WithSuccessorMutant(w, t) == [Purged(w) EXCEPT ![t] = Successor(w)]

\* What the commit shows: the token consumed, its replacement, the purge.
WithSuccessor(w, t) ==
  [s \in Token |-> IF s = t THEN Successor(w)
                   ELSE IF s = mine[w] /\ Purged(w)[s] # NoRow
                        THEN [tokens[s] EXCEPT !.consumed = TRUE]
                        ELSE Purged(w)[s]]

\* COMMIT: the consume and the replacement become visible together.
StoreToken(w) ==
  /\ pc[w] = "counted"
  /\ \E t \in Token :
       /\ minted[t] = None
       /\ tokens' = WithSuccessor(w, t)
       /\ minted' = [minted EXCEPT ![t] = family[w]]
       /\ new' = [new EXCEPT ![w] = t]
  /\ mine' = [mine EXCEPT ![w] = None]
  /\ Goto(w, "stored")
  /\ UNCHANGED <<codes, expired, allowed, held, origin, grant, family, doomed>>

\* extend_expiry, in a transaction of its own, and the response arrives.
Respond(w) ==
  /\ pc[w] = "stored"
  /\ held' = held \cup {new[w]}
  /\ Finish(w)
  /\ UNCHANGED <<tokens, codes, expired, allowed, origin, minted>>

\* The request dies, or its response is lost: nothing uncommitted survives.
Abort(w) ==
  /\ pc[w] # "idle"
  /\ Finish(w)
  /\ UNCHANGED store

\* A family's deadline passes.
Expire(f) ==
  /\ \E t \in Token : Present(t) /\ tokens[t].family = f
  /\ expired' = expired \cup {f}
  /\ UNCHANGED <<tokens, codes, allowed, held, origin, minted, pc, grant, family, mine, doomed, new>>

\* The owner takes the account out of ALLOWED_EMAILS.
Disallow ==
  /\ allowed
  /\ allowed' = FALSE
  /\ UNCHANGED <<tokens, codes, expired, held, origin, minted, pc, grant, family, mine, doomed, new>>

Exchange(w) == Consume(w) \/ RedeemCode(w) \/ BeginRevoke(w) \/ Revoke(w)
               \/ CountRows(w) \/ StoreToken(w) \/ Respond(w)

Next == \/ \E w \in Worker : \/ PresentToken(w) \/ PresentCode(w)
                             \/ Exchange(w) \/ Abort(w)
        \/ \E f \in Family : Expire(f)
        \/ Disallow

Spec == Init /\ [][Next]_vars

-----------------------------------------------------------------------------
\* Type correctness: what the stores and the requests may hold.
TypeOK ==
  /\ tokens \in [Token -> Row \cup {NoRow}]
  /\ codes \subseteq Code
  /\ expired \subseteq Family
  /\ allowed \in BOOLEAN
  /\ held \subseteq Token
  /\ origin \in [Family -> Code \cup {None}]
  /\ minted \in [Token -> Family \cup {None}]
  /\ pc \in [Worker -> {"idle", "authenticated", "presented", "consumed", "replayed",
                        "revoking", "counted", "stored"}]
  /\ grant \in [Worker -> Token \cup Code \cup {None}]
  /\ family \in [Worker -> Family \cup {None}]
  /\ mine \in [Worker -> Token \cup {None}]
  /\ doomed \in [Worker -> SUBSET Token]
  /\ new \in [Worker -> Token \cup {None}]

\* Refresh tokens rotate (mcp_oauth's docstring): however exchanges interleave, a
\* family has at most one token left to redeem.
OneLiveToken ==
  \A f \in Family : \A s, t \in Rows(f) : ~ tokens[s].consumed /\ ~ tokens[t].consumed => s = t

\* A token its holder never got to replace is not left consumed, or its retry
\* reads as a replay (cleanup_and_store, #1537): whatever is consumed has its
\* replacement beside it.
ConsumedHasSuccessor ==
  \A t \in Token : Present(t) /\ tokens[t].consumed =>
    \E s \in Token : Present(s) /\ tokens[s].from = t

\* A code is exchanged once (cleanup_and_pop): no two sign-ins come of one code.
CodesRedeemOnce ==
  \A f, g \in Family : origin[f] # None /\ origin[f] = origin[g] => f = g

\* Of two redeems of one token, the loser's revocation takes the winner's
\* replacement too (consume_refresh_token): once a replay has been revoked, what
\* replaced the replayed token is good for nothing.
ReplayKillsSuccessor ==
  [][\A w \in Worker :
       pc[w] = "revoking" /\ mine[w] = None /\ Revoke(w) =>
         \A t \in Token : tokens'[t] # NoRow => tokens'[t].from # grant[w]]_vars

\* Whom a request waits for: the one that has marked the row its UPDATE is about, or
\* a row its DELETE has found.
WaitsFor(w, v) == \/ pc[w] = "authenticated" /\ mine[v] = grant[w]
                  \/ pc[w] = "revoking" /\ mine[v] \in doomed[w]

\* No exchanges wait for each other in a circle, although one that has marked its own
\* token may go on to revoke a family (_issue_token_response): in every set of
\* requests somebody waits for nobody else in it.
NoCircle == \A S \in SUBSET Worker : S # {} =>
              \E w \in S : \A v \in S \ {w} : ~ WaitsFor(w, v)

Unspent(f) == {t \in Rows(f) : Redeemable(t)}

Chain == INSTANCE TokenChain
           WITH live <- [f \in Family |-> Unspent(f)],
                started <- {minted[t] : t \in Token} \ {None},
                spent <- {t \in Token : minted[t] # None}

\* The exchanges implement the chain of tokens a family promises.
ImplementsChain == Chain!Spec

=============================================================================
