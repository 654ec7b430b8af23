------------------------------- MODULE SignIn -------------------------------
(***************************************************************************)
(* Signing in to Reli with Google (backend/mcp_oauth.py, backend/auth.py): *)
(* a connector registers, its request is approved on the consent page, the *)
(* callback mints a code and the token endpoint exchanges it; or the web   *)
(* view signs in and later out.  Requests run beside each other, several   *)
(* sign-ins are open in one browser, and links are opened in another.      *)
(* Each step is one transaction on the stores of BoundedStore, or a call   *)
(* of Google, or a response that arrives.                                  *)
(***************************************************************************)
EXTENDS Naturals, FiniteSetsExt

CONSTANTS Worker,      \* requests in flight
          Browser,     \* those a link may be opened in
          Client,      \* connectors that register
          State,       \* the states drawn, one for each sign-in
          GraceTtl,    \* the life of a registration nobody signed in through
          FamilyTtl,   \* the life of the tokens of a sign-in
          SessionTtl,  \* the life of a session of the web view
          MaxTime,     \* bound: the clock stops here
          Web,         \* the web view, as the asker of a sign-in
          None         \* no value

ASSUME SignInAssumption ==
  /\ {GraceTtl, FamilyTtl, SessionTtl} \subseteq Nat \ {0}
  /\ MaxTime \in Nat
  /\ Web \notin Client
  /\ None \notin Client \cup State \cup Browser \cup {Web}

VARIABLES now,       \* the clock
          allowed,   \* whether the account is in ALLOWED_EMAILS
          due,       \* expires_at of each registration, 0 if it has no row
          flows,     \* states with a row: the sign-ins in flight
          codes,     \* states whose authorization code has a row
          revoked,   \* expires_at of each session's revocation, 0 if it has no row
          cookie,    \* the MCP_FLOW_COOKIE of each browser
          asked,     \* history: who asked for each state
          grace,     \* history: the first expires_at of each registration
          approved,  \* history: where the owner continued from a state's consent page
          minted,    \* history: codes and sessions minted from each state
          delivered, \* where the code or the session of each state arrived
          deadline,  \* the deadline of the tokens of each sign-in, 0 if it has none
          held,      \* the sign-ins whose tokens arrived
          exp,       \* the exp of each session
          out,       \* history: the sessions whose logout was answered
          pc,        \* where each request stands
          state,     \* the sign-in each request is about
          browser,   \* the browser it came from
          client     \* the client it is for

server == <<due, flows, codes, revoked>>
history == <<asked, grace, approved, minted>>
clients == <<cookie, delivered, deadline, held, exp, out>>
request == <<pc, state, browser, client>>
vars == <<now, allowed, server, history, clients, request>>

Init == /\ now = 0
        /\ allowed = TRUE
        /\ due = [c \in Client |-> 0]
        /\ flows = {}
        /\ codes = {}
        /\ revoked = [s \in State |-> 0]
        /\ cookie = [b \in Browser |-> None]
        /\ asked = [s \in State |-> None]
        /\ grace = [c \in Client |-> 0]
        /\ approved = [s \in State |-> {}]
        /\ minted = [s \in State |-> 0]
        /\ delivered = [s \in State |-> {}]
        /\ deadline = [s \in State |-> 0]
        /\ held = {}
        /\ exp = [s \in State |-> 0]
        /\ out = {}
        /\ pc = [w \in Worker |-> "idle"]
        /\ state = [w \in Worker |-> None]
        /\ browser = [w \in Worker |-> None]
        /\ client = [w \in Worker |-> None]

-----------------------------------------------------------------------------
\* The operators named ...Mutant are each a bug the definition after them could
\* have had; nothing uses them but the mutation runs PROJECT.json lists.

Goto(w, step) == pc' = [pc EXCEPT ![w] = step]

\* A request is answered, or dies.
Finish(w) == /\ Goto(w, "idle")
             /\ state' = [state EXCEPT ![w] = None]
             /\ browser' = [browser EXCEPT ![w] = None]
             /\ client' = [client EXCEPT ![w] = None]

\* _purge_expired over a store whose rows expire by the clock.
Live(rows) == [k \in DOMAIN rows |-> IF rows[k] <= now THEN 0 ELSE rows[k]]

Fresh == {s \in State : asked[s] = None}

-----------------------------------------------------------------------------
\* oauth_register: a client_id never seen before, with its hour.
Register(c) ==
  /\ grace[c] = 0
  /\ due' = [Live(due) EXCEPT ![c] = now + GraceTtl]
  /\ grace' = [grace EXCEPT ![c] = now + GraceTtl]
  /\ UNCHANGED <<now, allowed, flows, codes, revoked, asked, approved, minted, clients, request>>

\* oauth_authorize purges and looks the client up; an unknown one is refused.
Authorize(w, c) ==
  /\ pc[w] = "idle"
  /\ due' = Live(due)
  /\ \/ /\ due'[c] # 0
        /\ client' = [client EXCEPT ![w] = c]
        /\ Goto(w, "authorizing")
     \/ /\ due'[c] = 0
        /\ UNCHANGED <<client, pc>>
  /\ UNCHANGED <<now, allowed, flows, codes, revoked, history, clients, state, browser>>

\* It stores what the client asked for under a new state, and the consent page shows it.
StoreFlow(w) ==
  /\ pc[w] = "authorizing"
  /\ \E s \in Fresh : /\ asked' = [asked EXCEPT ![s] = client[w]]
                      /\ flows' = flows \cup {s}
  /\ Finish(w)
  /\ UNCHANGED <<now, allowed, due, codes, revoked, grace, approved, minted, clients>>

\* google_sign_in: the web view's own sign-in starts.
GoogleSignIn ==
  /\ \E s \in Fresh : /\ asked' = [asked EXCEPT ![s] = Web]
                      /\ flows' = flows \cup {s}
  /\ UNCHANGED <<now, allowed, due, codes, revoked, grace, approved, minted, clients, request>>

\* Any page's POST will do.
SameOriginMutant(own) == TRUE

\* is_same_origin: the POST came from Reli's own consent page.
SameOrigin(own) == own

\* oauth_authorize_confirm: the owner continues from the consent page, or another
\* page posts its form; the flow is read and stays.
Confirm(w, b, s, own) ==
  /\ pc[w] = "idle"
  /\ SameOrigin(own)
  /\ s \in flows
  /\ asked[s] \in Client
  /\ state' = [state EXCEPT ![w] = s]
  /\ browser' = [browser EXCEPT ![w] = b]
  /\ approved' = [approved EXCEPT ![s] = IF own THEN @ \cup {b} ELSE @]
  /\ Goto(w, "confirmed")
  /\ UNCHANGED <<now, allowed, server, asked, grace, minted, clients, client>>

\* The redirect to Google arrives, and the cookie with it.
SetCookie(w) ==
  /\ pc[w] = "confirmed"
  /\ cookie' = [cookie EXCEPT ![browser[w]] = state[w]]
  /\ Finish(w)
  /\ UNCHANGED <<now, allowed, server, history, delivered, deadline, held, exp, out>>

-----------------------------------------------------------------------------
\* The flow is read, and deleted only by its expiry.
WithoutFlowMutant(s) == flows

\* cleanup_and_pop: of any number of callbacks one gets the row.
WithoutFlow(s) == flows \ {s}

\* Any flow this browser approved will do.
ThisBrowserMutant(b, s) == cookie[b] # None

\* The callback's browser is the one that approved this state last.
ThisBrowser(b, s) == asked[s] = Web \/ cookie[b] = s

\* google_callback pops the flow, of the web view or of a client; a state that is
\* gone, or an MCP state in another browser, is refused with its row spent.
Callback(w, b, s) ==
  /\ pc[w] = "idle"
  /\ s \in flows
  /\ flows' = WithoutFlow(s)
  /\ \/ /\ ThisBrowser(b, s)
        /\ state' = [state EXCEPT ![w] = s]
        /\ browser' = [browser EXCEPT ![w] = b]
        /\ Goto(w, "popped")
        /\ UNCHANGED client
     \/ /\ ~ ThisBrowser(b, s)
        /\ UNCHANGED request
  /\ UNCHANGED <<now, allowed, due, codes, revoked, history, clients>>

\* exchange_code: Google answers with an identity, the sign-in was cancelled or the
\* account is not allowed, or Google fails, which raises.
ExchangeCode(w) ==
  /\ pc[w] = "popped"
  /\ \/ /\ allowed
        /\ Goto(w, "identified")
        /\ UNCHANGED <<state, browser, client>>
     \/ /\ Goto(w, "denied")
        /\ UNCHANGED <<state, browser, client>>
     \/ Finish(w)
  /\ UNCHANGED <<now, allowed, server, history, clients>>

\* _finish_mcp_sign_in stores a code; a full store raises.
StoreCode(w) ==
  /\ pc[w] = "identified"
  /\ asked[state[w]] \in Client
  /\ \/ /\ codes' = codes \cup {state[w]}
        /\ minted' = [minted EXCEPT ![state[w]] = @ + 1]
        /\ Goto(w, "minted")
        /\ UNCHANGED <<state, browser, client>>
     \/ /\ Finish(w)
        /\ UNCHANGED <<codes, minted>>
  /\ UNCHANGED <<now, allowed, due, flows, revoked, asked, grace, approved, clients>>

\* _finish_web_sign_in mints a session.
MintSession(w) ==
  /\ pc[w] = "identified"
  /\ asked[state[w]] = Web
  /\ exp' = [exp EXCEPT ![state[w]] = now + SessionTtl]
  /\ minted' = [minted EXCEPT ![state[w]] = @ + 1]
  /\ Goto(w, "minted")
  /\ UNCHANGED <<now, allowed, server, asked, grace, approved, cookie, delivered, deadline, held, out,
                 state, browser, client>>

\* The redirect arrives with a code, a session or the reason there is none; after an
\* MCP sign-in the cookie is deleted, whatever state it names by then.
Deliver(w) ==
  /\ pc[w] \in {"minted", "denied"}
  /\ delivered' = [delivered EXCEPT ![state[w]] = IF pc[w] = "minted" THEN @ \cup {browser[w]} ELSE @]
  /\ cookie' = [cookie EXCEPT ![browser[w]] = IF asked[state[w]] \in Client THEN None ELSE @]
  /\ Finish(w)
  /\ UNCHANGED <<now, allowed, server, history, deadline, held, exp, out>>

-----------------------------------------------------------------------------
\* _authenticated_grant: a code that arrived and stands, and a client that still has
\* its registration; anything else is refused with the code as it was.
Authenticate(w, s) ==
  /\ pc[w] = "idle"
  /\ delivered[s] # {}
  /\ s \in codes
  /\ due' = Live(due)
  /\ \/ /\ due'[asked[s]] # 0
        /\ state' = [state EXCEPT ![w] = s]
        /\ client' = [client EXCEPT ![w] = asked[s]]
        /\ Goto(w, "authenticated")
     \/ /\ due'[asked[s]] = 0
        /\ UNCHANGED <<state, client, pc>>
  /\ UNCHANGED <<now, allowed, flows, codes, revoked, history, clients, browser>>

\* The code is popped; one that is gone, or a verifier that does not match, ends it.
RedeemCode(w) ==
  /\ pc[w] = "authenticated"
  /\ codes' = codes \ {state[w]}
  /\ \/ /\ state[w] \in codes
        /\ Goto(w, "redeemed")
        /\ UNCHANGED <<state, browser, client>>
     \/ Finish(w)
  /\ UNCHANGED <<now, allowed, due, flows, revoked, history, clients>>

\* _issue_token_response: an account not allowed or a full store ends it.
IssueToken(w) ==
  /\ pc[w] = "redeemed"
  /\ \/ /\ allowed
        /\ deadline' = [deadline EXCEPT ![state[w]] = now + FamilyTtl]
        /\ Goto(w, "issued")
        /\ UNCHANGED <<state, browser, client>>
     \/ /\ Finish(w)
        /\ UNCHANGED deadline
  /\ UNCHANGED <<now, allowed, server, history, cookie, delivered, held, exp, out>>

\* The last family's deadline wins.
LaterMutant(c, t) == t

\* GREATEST.
Later(c, t) == Max({due[c], t})

\* extend_expiry: the registration, if it has a row, lives as long as the family.
Promote(w) ==
  /\ pc[w] = "issued"
  /\ due' = [due EXCEPT ![client[w]] = IF @ = 0 THEN 0 ELSE Later(client[w], deadline[state[w]])]
  /\ Goto(w, "promoted")
  /\ UNCHANGED <<now, allowed, flows, codes, revoked, history, clients, state, browser, client>>

\* The tokens arrive.
Respond(w) ==
  /\ pc[w] = "promoted"
  /\ held' = held \cup {state[w]}
  /\ Finish(w)
  /\ UNCHANGED <<now, allowed, server, history, cookie, delivered, deadline, exp, out>>

-----------------------------------------------------------------------------
\* decode_jwt and is_allowed: a session presented, by its browser or as a copy, before
\* its exp, to web_session or to logout.
Decodes(s) == /\ delivered[s] # {}
              /\ now < exp[s]

\* web_session gets as far as the revocation list.
Present(w, s) ==
  /\ pc[w] = "idle"
  /\ Decodes(s)
  /\ allowed
  /\ state' = [state EXCEPT ![w] = s]
  /\ Goto(w, "presented")
  /\ UNCHANGED <<now, allowed, server, history, clients, browser, client>>

\* is_revoked: purge, then look; a session not on the list is admitted.
Look(w) ==
  /\ pc[w] = "presented"
  /\ revoked' = Live(revoked)
  /\ Goto(w, IF revoked'[state[w]] = 0 THEN "admitted" ELSE "refused")
  /\ UNCHANGED <<now, allowed, due, flows, codes, history, clients, state, browser, client>>

\* The request goes on, or answers 401.
Answer(w) ==
  /\ pc[w] \in {"admitted", "refused"}
  /\ Finish(w)
  /\ UNCHANGED <<now, allowed, server, history, clients>>

\* logout decodes the session; one it cannot decode is only a cookie deleted.
Logout(w, s) ==
  /\ pc[w] = "idle"
  /\ Decodes(s)
  /\ state' = [state EXCEPT ![w] = s]
  /\ Goto(w, "leaving")
  /\ UNCHANGED <<now, allowed, server, history, clients, browser, client>>

\* A revocation kept as long as a sign-in.
RevokedUntilMutant(s) == now + GraceTtl

\* A revocation is kept until the session's own exp.
RevokedUntil(s) == exp[s]

\* _revoke: stored, replacing an earlier one; a full store leaves the session as it was.
Revoke(w) ==
  /\ pc[w] = "leaving"
  /\ \/ /\ revoked' = [Live(revoked) EXCEPT ![state[w]] = RevokedUntil(state[w])]
        /\ out' = out \cup {state[w]}
     \/ UNCHANGED <<revoked, out>>
  /\ Finish(w)
  /\ UNCHANGED <<now, allowed, due, flows, codes, history, cookie, delivered, deadline, held, exp>>

-----------------------------------------------------------------------------
\* A request dies between two transactions, or its response is lost.
Abort(w) ==
  /\ pc[w] # "idle"
  /\ Finish(w)
  /\ UNCHANGED <<now, allowed, server, history, clients>>

\* A sign-in in flight or a code expires, or an evicting store displaces the sign-in.
Forget(s) ==
  /\ s \in flows \cup codes
  /\ flows' = flows \ {s}
  /\ codes' = codes \ {s}
  /\ UNCHANGED <<now, allowed, due, revoked, history, clients, request>>

\* A flood of registrations displaces one (BoundedStore says which).
Displace(c) ==
  /\ due[c] # 0
  /\ due' = [due EXCEPT ![c] = 0]
  /\ UNCHANGED <<now, allowed, flows, codes, revoked, history, clients, request>>

\* The owner takes the account out of ALLOWED_EMAILS.
Disallow == /\ allowed
            /\ allowed' = FALSE
            /\ UNCHANGED <<now, server, history, clients, request>>

Tick == /\ now < MaxTime
        /\ now' = now + 1
        /\ UNCHANGED <<allowed, server, history, clients, request>>

FromConnector(w) == \/ \E c \in Client : Authorize(w, c)
                    \/ StoreFlow(w)
                    \/ \E s \in State : Authenticate(w, s)
                    \/ RedeemCode(w) \/ IssueToken(w) \/ Promote(w) \/ Respond(w)

FromBrowser(w) == \/ \E b \in Browser, s \in State : \/ \E own \in BOOLEAN : Confirm(w, b, s, own)
                                                     \/ Callback(w, b, s)
                  \/ SetCookie(w) \/ ExchangeCode(w) \/ StoreCode(w) \/ MintSession(w) \/ Deliver(w)
                  \/ \E s \in State : Present(w, s) \/ Logout(w, s)
                  \/ Look(w) \/ Answer(w) \/ Revoke(w)

Next == \/ \E w \in Worker : FromConnector(w) \/ FromBrowser(w) \/ Abort(w)
        \/ \E c \in Client : Register(c) \/ Displace(c)
        \/ \E s \in State : Forget(s)
        \/ GoogleSignIn
        \/ Disallow
        \/ Tick

Spec == Init /\ [][Next]_vars

-----------------------------------------------------------------------------
\* Type correctness.
TypeOK ==
  /\ now \in Nat
  /\ allowed \in BOOLEAN
  /\ due \in [Client -> Nat]
  /\ flows \subseteq State
  /\ codes \subseteq State
  /\ revoked \in [State -> Nat]
  /\ cookie \in [Browser -> State \cup {None}]
  /\ asked \in [State -> Client \cup {Web, None}]
  /\ grace \in [Client -> Nat]
  /\ approved \in [State -> SUBSET Browser]
  /\ minted \in [State -> Nat]
  /\ delivered \in [State -> SUBSET Browser]
  /\ deadline \in [State -> Nat]
  /\ held \subseteq State
  /\ exp \in [State -> Nat]
  /\ out \subseteq State
  /\ pc \in [Worker -> {"idle", "authorizing", "confirmed", "popped", "identified", "denied",
                        "minted", "authenticated", "redeemed", "issued", "promoted",
                        "presented", "admitted", "refused", "leaving"}]
  /\ state \in [Worker -> State \cup {None}]
  /\ browser \in [Worker -> Browser \cup {None}]
  /\ client \in [Worker -> Client \cup {None}]

\* A connector's sign-in is honoured only in the browser whose owner continued from its
\* own consent page (google_callback, #1701): wherever a code arrives, that very state
\* was approved there, whatever else was approved there since.
ConsentInThisBrowser ==
  \A s \in State : asked[s] \in Client => delivered[s] \subseteq approved[s]

\* A state is used once (cleanup_and_pop): however many callbacks come with it, one code
\* or one session is minted.
OneAnswerPerState == \A s \in State : minted[s] <= 1

\* A registration lives its hour until a token is minted for it, then as long as the
\* family it serves (oauth_state's docstring): its deadline is its first or that of a
\* family minted for it, and never before that of a family whose tokens arrived.
RegistrationServes ==
  \A c \in Client : due[c] # 0 =>
    LET families == {s \in State : asked[s] = c /\ deadline[s] # 0}
    IN  /\ due[c] \in {grace[c]} \cup {deadline[s] : s \in families}
        /\ \A s \in families \cap held : deadline[s] <= due[c]

\* A session logged out stays out, copies included (logout): nobody is admitted with it
\* before the exp that ends it anyway.
LoggedOutStaysOut ==
  [][\A w \in Worker : pc[w] = "presented" /\ pc'[w] = "admitted" /\ state[w] \in out =>
       exp[state[w]] <= now]_vars

=============================================================================
