---------------------------- MODULE RequestGates ----------------------------
(***************************************************************************)
(* What stands between the network and a handler: the token buckets of     *)
(* backend/rate_limit.py in front, the session guard of web_view_auth.py   *)
(* and the bearer check of mcp_transport.py behind them.  The limiter and  *)
(* the gate each decide for themselves whether a credential stands, and    *)
(* each look-up has an await between the token's own claims and the list   *)
(* of what logout ended.  Every request runs on the same event loop, so    *)
(* _take, which awaits nothing, is one step.                               *)
(***************************************************************************)
EXTENDS Integers, Sequences, FiniteSets

CONSTANTS Req,         \* requests that may be in flight at once
          Address,     \* client addresses, as client_address makes them out
          Cookie,      \* session cookies this Reli signed
          Bearer,      \* /mcp access tokens this Reli signed
          Account,     \* the accounts that ever were in ALLOWED_EMAILS
          Subject,     \* the account each of those credentials names
          Ask,         \* what clients ask: a path, from an address, with the credentials it carries
          Limit,       \* RATE_LIMIT_*_PER_MINUTE, by tier
          Minute,      \* a minute, in units of the clock
          MaxBuckets,  \* MAX_BUCKETS
          Expires,     \* when the credentials are past their exp
          None,        \* no credential
          MaxClock     \* bound: how long the clock runs

Tiers == {"registration", "auth", "api"}

Credential == Cookie \cup Bearer

ASSUME LimitAssumption == Limit \in [Tiers -> Nat \ {0}]
ASSUME MinuteAssumption == Minute \in Nat \ {0}
ASSUME BucketAssumption == MaxBuckets \in Nat \ {0}
ASSUME SubjectAssumption == Subject \in [Credential -> Account]
ASSUME ClockAssumption == Expires \in Nat /\ MaxClock \in Nat
ASSUME CredentialAssumption == None \notin Credential
\* A bucket's key says whether it is a subject or an address.
ASSUME KeyAssumption == Account \cap Address = {}
ASSUME AskAssumption ==
  Ask \subseteq [path : STRING, from : Address, cookie : Cookie \cup {None}, bearer : Bearer \cup {None}]

VARIABLES now,      \* the clock
          buckets,  \* _BUCKETS: by key, the tokens left in units of 1/Minute, and as of when
          order,    \* the keys of _BUCKETS, the least recently used first
          past,     \* of each bucket: born, admitted since, promised since, who asked since
          allowed,  \* ALLOWED_EMAILS
          revoked,  \* the credentials logout put on the revocation list
          request   \* each request in flight, and how far it is

vars == <<now, buckets, order, past, allowed, revoked, request>>

\* tier_for: /oauth/register; the rest of /oauth/ and /api/auth/; /api, /mcp and
\* /.well-known/; anything else is exempt.
TierOf(path) ==
  CASE path = "register"                     -> "registration"
    [] path \in {"oauth", "logout"}          -> "auth"
    [] path \in {"api", "mcp", "wellKnown"}  -> "api"
    [] OTHER                                 -> "exempt"

Key == Tiers \X (Account \cup Address)

Idle == [pc |-> "idle"]

Init == /\ now = 0
        /\ buckets = [k \in {} |-> Idle]
        /\ order = <<>>
        /\ past = [k \in {} |-> Idle]
        /\ allowed = Account
        /\ revoked = {}
        /\ request = [r \in Req |-> Idle]

-----------------------------------------------------------------------------
\* The operators named ...Mutant are each a bug the definition after them could
\* have had; nothing uses them but the mutation runs PROJECT.json lists.

At(r, pc) == request[r].pc = pc

Moves(r, pc) == request' = [request EXCEPT ![r].pc = pc]

Ends(r) == request' = [request EXCEPT ![r] = Idle]

Quiet == UNCHANGED <<now, buckets, order, past, allowed, revoked>>

\* decode_jwt and is_allowed: the claims are good now, and name an account that is let in.
Decodes(c) == c # None /\ now < Expires /\ Subject[c] \in allowed

\* Logout's list is not looked at.
ListedMutant(c) == FALSE

\* is_revoked: cleanup_and_get purges what is past its expiry before it looks, and an
\* entry expires with its token.
Listed(c) == c \in revoked /\ now < Expires

\* A request arrives; `ended` is which of its credentials logout had ended by then.  Only
\* an api request is looked at for a subject before it is counted; an exempt one is not
\* counted, and passes no gate.
Arrive(r) ==
  /\ At(r, "idle")
  /\ \E a \in Ask :
       /\ TierOf(a.path) # "exempt"
       /\ request' = [request EXCEPT ![r] =
            [pc     |-> IF TierOf(a.path) = "api" THEN "cookie" ELSE "take",
             path   |-> a.path, key |-> a.from, cookie |-> a.cookie, bearer |-> a.bearer,
             ended  |-> revoked \cap {a.cookie, a.bearer}]]
  /\ Quiet

\* _user_subject: web_session first, its claims, then the list.
ReadCookie(r) ==
  /\ At(r, "cookie")
  /\ Moves(r, IF Decodes(request[r].cookie) THEN "cookieRow" ELSE "bearer")
  /\ Quiet

\* A cookie that stands names the bucket; one that does not leaves it to the bearer.
ReadCookieRow(r) ==
  /\ At(r, "cookieRow")
  /\ request' = IF Listed(request[r].cookie)
                THEN [request EXCEPT ![r].pc = "bearer"]
                ELSE [request EXCEPT ![r].pc = "take", ![r].key = Subject[request[r].cookie]]
  /\ Quiet

ReadBearer(r) ==
  /\ At(r, "bearer")
  /\ Moves(r, IF Decodes(request[r].bearer) THEN "bearerRow" ELSE "take")
  /\ Quiet

ReadBearerRow(r) ==
  /\ At(r, "bearerRow")
  /\ request' = IF Listed(request[r].bearer)
                THEN [request EXCEPT ![r].pc = "take"]
                ELSE [request EXCEPT ![r].pc = "take", ![r].key = Subject[request[r].bearer]]
  /\ Quiet

-----------------------------------------------------------------------------
KeyOf(r) == <<TierOf(request[r].path), request[r].key>>

Full(k) == Limit[k[1]] * Minute

\* `updated` is not moved on, so that the same time refills twice.
RefilledMutant(k) ==
  IF k \notin DOMAIN buckets THEN Full(k)
  ELSE LET tokens == buckets[k].tokens + (now - past[k].born) * Limit[k[1]]
       IN IF tokens < Full(k) THEN tokens ELSE Full(k)

\* What time refilled is cut to whole tokens at every call, so that one who asks early
\* waits longer.
RefilledInWholeMutant(k) ==
  IF k \notin DOMAIN buckets THEN Full(k)
  ELSE LET tokens == buckets[k].tokens + (((now - buckets[k].updated) * Limit[k[1]]) \div Minute) * Minute
       IN IF tokens < Full(k) THEN tokens ELSE Full(k)

\* What k's bucket holds now: a new one is full, one that stands has been refilled.
Refilled(k) ==
  IF k \notin DOMAIN buckets THEN Full(k)
  ELSE LET tokens == buckets[k].tokens + (now - buckets[k].updated) * Limit[k[1]]
       IN IF tokens < Full(k) THEN tokens ELSE Full(k)

\* A bucket that is asked keeps its place.
AskedMutant(k) == IF k \in DOMAIN buckets THEN order ELSE Append(order, k)

\* move_to_end, or a new entry at the end.
Asked(k) ==
  IF k \in DOMAIN buckets
  THEN LET place == CHOOSE i \in DOMAIN order : order[i] = k
       IN SubSeq(order, 1, place - 1) \o SubSeq(order, place + 1, Len(order)) \o <<k>>
  ELSE Append(order, k)

\* No bucket is ever dropped.
KeptMutant(k) == Asked(k)

\* popitem(last=False): past MAX_BUCKETS the least recently used goes.
Kept(k) == IF Len(Asked(k)) > MaxBuckets THEN Tail(Asked(k)) ELSE Asked(k)

KeysOf(s) == {s[i] : i \in DOMAIN s}

\* Retry-After: the whole seconds until a token is there, at least one.
RetryAfter(k, tokens) ==
  LET wait == (Minute - tokens + Limit[k[1]] - 1) \div Limit[k[1]]
  IN IF wait > 1 THEN wait ELSE 1

\* What is remembered of k's bucket once it was asked and did or did not give a token;
\* `promised` is every time a refusal named since the last token went.
Remembered(k, admitted, tokens) ==
  LET was == IF k \in DOMAIN past THEN past[k]
             ELSE [born |-> now, admitted |-> 0, promised |-> {}, others |-> {}]
  IN [born     |-> was.born,
      admitted |-> was.admitted + (IF admitted THEN 1 ELSE 0),
      promised |-> IF admitted THEN {} ELSE was.promised \cup {now + RetryAfter(k, tokens)},
      others   |-> {}]

\* What is behind the limiter: a gate, or the handler that revokes.  The other handlers
\* are asked without a credential of these, and change nothing here.
Behind == [api |-> "gate", mcp |-> "gate", logout |-> "logout"]

\* _take and what __call__ makes of it: a token is spent and the request goes on, or it is
\* answered 429.
Take(r) ==
  /\ At(r, "take")
  /\ LET k == KeyOf(r)
         tokens == Refilled(k)
         admitted == tokens >= Minute
         kept == KeysOf(Kept(k))
     IN /\ order' = Kept(k)
        /\ buckets' = [x \in kept |->
             IF x = k THEN [tokens |-> IF admitted THEN tokens - Minute ELSE tokens, updated |-> now]
             ELSE buckets[x]]
        /\ past' = [x \in kept |->
             IF x = k THEN Remembered(k, admitted, tokens)
             ELSE [past[x] EXCEPT !.others = @ \cup {k}]]
        /\ IF admitted /\ request[r].path \in DOMAIN Behind
           THEN Moves(r, Behind[request[r].path])
           ELSE Ends(r)
  /\ UNCHANGED <<now, allowed, revoked>>

-----------------------------------------------------------------------------
\* What the gate of the path looks at: the session cookie under /api, the bearer under /mcp.
Presented(r) == IF request[r].path = "api" THEN request[r].cookie ELSE request[r].bearer

\* The gates read the credential again, its claims first: 401, or on to the list.
Gate(r) ==
  /\ At(r, "gate")
  /\ IF Decodes(Presented(r)) THEN Moves(r, "gateRow") ELSE Ends(r)
  /\ Quiet

Refuse(r) ==
  /\ At(r, "gateRow")
  /\ Listed(Presented(r))
  /\ Ends(r)
  /\ Quiet

\* The handler behind the gate is reached.
Serve(r) ==
  /\ At(r, "gateRow")
  /\ ~ Listed(Presented(r))
  /\ Ends(r)
  /\ Quiet

\* logout puts a cookie that decodes on the list, whoever it names; a list at its cap
\* answers 503 and ends nothing.
Logout(r) ==
  /\ At(r, "logout")
  /\ \/ request[r].cookie # None /\ now < Expires /\ revoked' = revoked \cup {request[r].cookie}
     \/ UNCHANGED revoked
  /\ Ends(r)
  /\ UNCHANGED <<now, buckets, order, past, allowed>>

\* The database fails a look-up, or the client goes: a 500 that spent no token, or one.
Fail(r) ==
  /\ ~ At(r, "idle")
  /\ Ends(r)
  /\ Quiet

Tick == /\ now < MaxClock
        /\ now' = now + 1
        /\ UNCHANGED <<buckets, order, past, allowed, revoked, request>>

\* A deploy: the buckets and the requests go with the process, the list stays, and the
\* settings are read again.
Restart ==
  /\ allowed' \in SUBSET Account
  /\ buckets' = [k \in {} |-> Idle]
  /\ order' = <<>>
  /\ past' = [k \in {} |-> Idle]
  /\ request' = [r \in Req |-> Idle]
  /\ UNCHANGED <<now, revoked>>

Next == \/ \E r \in Req : \/ Arrive(r)
                          \/ ReadCookie(r) \/ ReadCookieRow(r) \/ ReadBearer(r) \/ ReadBearerRow(r)
                          \/ Take(r)
                          \/ Gate(r) \/ Refuse(r) \/ Serve(r)
                          \/ Logout(r) \/ Fail(r)
        \/ Tick
        \/ Restart

Spec == Init /\ [][Next]_vars

-----------------------------------------------------------------------------
\* Type correctness: memory is bounded by MAX_BUCKETS, and a bucket never owes a token nor
\* holds more than its tier's limit.
TypeOK ==
  /\ now \in 0..MaxClock
  /\ DOMAIN buckets \subseteq Key
  /\ \A k \in DOMAIN buckets :
       buckets[k].tokens \in 0..Full(k) /\ buckets[k].updated \in 0..now
  /\ KeysOf(order) = DOMAIN buckets /\ Len(order) = Cardinality(DOMAIN buckets)
  /\ Len(order) <= MaxBuckets
  /\ DOMAIN past = DOMAIN buckets
  /\ allowed \subseteq Account /\ revoked \subseteq Credential

\* The limit is one: since it was made, a bucket admitted no more than a minute's worth and
\* what time has refilled, however its requests were spaced, refused or abandoned
\* (rate_limit.py, "a per-minute limit").
BudgetHolds ==
  \A k \in DOMAIN buckets :
    past[k].admitted * Minute + buckets[k].tokens
      <= Full(k) + (buckets[k].updated - past[k].born) * Limit[k[1]]

\* Retry-After can be trusted: a caller told to come back finds a token there at the time
\* it was told, unless somebody with the same key took it, however often it asked too
\* early meanwhile; and was not told to wait longer than that.  Every refusal since the
\* last token went is held to its word, the first as much as the latest.
RetryAfterHolds ==
  \A k \in DOMAIN buckets : \A t \in past[k].promised :
    LET Then(at) == buckets[k].tokens + (at - buckets[k].updated) * Limit[k[1]]
    IN Then(t) >= Minute /\ Then(t - 1) < Minute

\* An evicted key is handed a full bucket again, so nobody is to lose one while the limiter
\* is not flooded: a bucket is dropped only after MAX_BUCKETS other keys asked since it did.
LeastRecentGoes ==
  [][\A r \in Req : Take(r) =>
       \A k \in DOMAIN buckets \ DOMAIN buckets' :
         Cardinality(past[k].others \cup {KeyOf(r)}) >= MaxBuckets]_vars

\* A credential that logout ended before the request arrived neither reaches a handler nor
\* spends its owner's bucket (rate_limit.py, "a stolen copy cannot spend its owner's
\* bucket"), except in the instant it expires anyway: the entry on the list expires with
\* the token, and the token's claims were read before.
EndedStaysOut ==
  [][\A r \in Req :
       /\ Serve(r) => Presented(r) \notin request[r].ended \/ now >= Expires
       /\ Take(r) /\ request[r].key \in Account =>
            \/ now >= Expires
            \/ \E c \in {request[r].cookie, request[r].bearer} \ (request[r].ended \cup {None}) :
                 Subject[c] = request[r].key]_vars

=============================================================================
