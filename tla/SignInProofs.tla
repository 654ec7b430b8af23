----------------------------- MODULE SignInProofs -----------------------------
(***************************************************************************)
(* SignIn for any number of requests, browsers, connectors and sign-ins.   *)
(* A state is spent by one callback and its code by one exchange; what     *)
(* reaches a browser was approved in it, before the cookie said so; a      *)
(* registration that stands serves the families whose tokens arrived; and  *)
(* a session that was logged out is on the list until its exp.             *)
(***************************************************************************)
EXTENDS SignIn, TLAPS

\* Where a request stands says what it knows.
Answering(w) == pc[w] \in {"popped", "identified"}

Issuing(w) == pc[w] \in {"redeemed", "issued", "promoted"}

PlacedAt(w) ==
  /\ pc[w] = "authorizing" => client[w] \in Client /\ grace[client[w]] # 0
  /\ pc[w] \in {"confirmed", "popped", "identified", "denied", "minted"} =>
       state[w] \in State /\ browser[w] \in Browser /\ asked[state[w]] # None
  /\ pc[w] = "authenticated" \/ Issuing(w) =>
       state[w] \in State /\ client[w] \in Client /\ asked[state[w]] = client[w]
  /\ pc[w] \in {"presented", "leaving"} => state[w] \in State /\ exp[state[w]] # 0

Placed == \A w \in Worker : PlacedAt(w)

\* Nothing is made of a state before its callback, and nothing of a code before its exchange.
Drawn ==
  \A s \in State :
    /\ asked[s] = None => minted[s] = 0 /\ s \notin flows
    /\ s \in flows => minted[s] = 0
    /\ minted[s] = 0 => s \notin codes /\ deadline[s] = 0 /\ exp[s] = 0
    /\ s \in codes => asked[s] \in Client /\ deadline[s] = 0
    /\ s \in held => deadline[s] # 0
    /\ s \in out => exp[s] # 0

\* One callback has a state, one exchange its code.
Once ==
  /\ OneAnswerPerState
  /\ \A w \in Worker : Answering(w) => state[w] \notin flows /\ minted[state[w]] = 0
  /\ \A w, v \in Worker : Answering(w) /\ Answering(v) /\ state[w] = state[v] => w = v
  /\ \A w \in Worker : Issuing(w) => /\ state[w] \notin codes /\ minted[state[w]] # 0
                                     /\ pc[w] = "redeemed" <=> deadline[state[w]] = 0
  /\ \A w, v \in Worker : Issuing(w) /\ Issuing(v) /\ state[w] = state[v] => w = v

\* Consent comes before the cookie, the cookie before the callback, the callback before
\* what it delivers.
ApprovedAt(w) ==
  /\ pc[w] = "confirmed" => browser[w] \in approved[state[w]]
  /\ pc[w] \in {"popped", "identified", "minted"} =>
       asked[state[w]] = Web \/ browser[w] \in approved[state[w]]

Consent ==
  /\ \A b \in Browser : cookie[b] # None => b \in approved[cookie[b]]
  /\ \A w \in Worker : ApprovedAt(w)
  /\ \A s \in State : asked[s] = Web \/ delivered[s] \subseteq approved[s]

Serves ==
  /\ \A c \in Client : grace[c] = 0 => due[c] = 0 /\ \A s \in State : asked[s] # c
  /\ \A c \in Client : due[c] \in {0, grace[c]} \/
       \E s \in State : asked[s] = c /\ deadline[s] # 0 /\ due[c] = deadline[s]
  /\ \A s \in held : asked[s] \in Client /\ due[asked[s]] # 0 => deadline[s] <= due[asked[s]]
  /\ \A w \in Worker : pc[w] = "promoted" /\ due[client[w]] # 0 =>
       deadline[state[w]] <= due[client[w]]

StaysOut == \A s \in out : revoked[s] = exp[s] \/ exp[s] <= now

IInv == TypeOK /\ Placed /\ Drawn /\ Once /\ Consent /\ Serves /\ StaysOut

-----------------------------------------------------------------------------
LEMMA LaterIsMax ==
  ASSUME NEW c \in Client, NEW t \in Nat, due[c] \in Nat
  PROVE  Later(c, t) \in {due[c], t} /\ Later(c, t) >= due[c] /\ Later(c, t) >= t
<1>1. \E x \in {due[c], t} : \A y \in {due[c], t} : x >= y
  OBVIOUS
<1>2. QED
  BY <1>1 DEF Later, Max

LEMMA LiveRows ==
  ASSUME NEW K, NEW rows \in [K -> Nat]
  PROVE  /\ Live(rows) \in [K -> Nat]
         /\ \A k \in K : Live(rows)[k] = IF rows[k] <= now THEN 0 ELSE rows[k]
  BY DEF Live

\* The request that is answered, or dies.
LEMMA Finished ==
  ASSUME TypeOK, NEW w \in Worker, Finish(w)
  PROVE  /\ pc'[w] = "idle"
         /\ \A v \in Worker \ {w} : /\ pc'[v] = pc[v] /\ state'[v] = state[v]
                                    /\ browser'[v] = browser[v] /\ client'[v] = client[v]
  BY DEF TypeOK, Finish, Goto

LEMMA TypeStep ==
  ASSUME TypeOK, Placed, Drawn, [Next]_vars
  PROVE  TypeOK'
<1> USE DEF TypeOK, Goto, Finish, server, history, clients, request
<1>0. CASE UNCHANGED vars
  BY <1>0 DEF vars
<1>1. ASSUME NEW c \in Client, Register(c) PROVE TypeOK'
  BY <1>1, SignInAssumption, LiveRows DEF Register
<1>2. ASSUME NEW w \in Worker, NEW c \in Client, Authorize(w, c) PROVE TypeOK'
  BY <1>2, LiveRows DEF Authorize
<1>3. ASSUME NEW w \in Worker, StoreFlow(w) PROVE TypeOK'
  BY <1>3 DEF StoreFlow, Fresh
<1>4. CASE GoogleSignIn
  BY <1>4 DEF GoogleSignIn, Fresh
<1>5. ASSUME NEW w \in Worker, NEW b \in Browser, NEW s \in State, NEW own \in BOOLEAN, Confirm(w, b, s, own)
      PROVE  TypeOK'
  BY <1>5 DEF Confirm
<1>6. ASSUME NEW w \in Worker, SetCookie(w) PROVE TypeOK'
  BY <1>6 DEF SetCookie
<1>7. ASSUME NEW w \in Worker, NEW b \in Browser, NEW s \in State, Callback(w, b, s) PROVE TypeOK'
  BY <1>7, SMTT(30) DEF Callback, WithoutFlow
<1>8. ASSUME NEW w \in Worker, ExchangeCode(w) PROVE TypeOK'
  BY <1>8 DEF ExchangeCode
<1>9. ASSUME NEW w \in Worker, StoreCode(w) PROVE TypeOK'
  <2>1. state[w] \in State
    BY <1>9 DEF StoreCode, Placed, PlacedAt
  <2>2. codes' \subseteq State /\ minted' \in [State -> Nat]
    BY <1>9, <2>1 DEF StoreCode
  <2>3. QED
    BY <1>9, <2>2 DEF StoreCode
<1>10. ASSUME NEW w \in Worker, MintSession(w) PROVE TypeOK'
  BY <1>10, SignInAssumption DEF MintSession, Placed, PlacedAt
<1>11. ASSUME NEW w \in Worker, Deliver(w) PROVE TypeOK'
  BY <1>11 DEF Deliver, Placed, PlacedAt
<1>12. ASSUME NEW w \in Worker, NEW s \in State, Authenticate(w, s) PROVE TypeOK'
  BY <1>12, LiveRows, SMTT(30) DEF Authenticate, Drawn
<1>13. ASSUME NEW w \in Worker, RedeemCode(w) PROVE TypeOK'
  BY <1>13 DEF RedeemCode
<1>14. ASSUME NEW w \in Worker, IssueToken(w) PROVE TypeOK'
  BY <1>14, SignInAssumption, SMTT(30) DEF IssueToken
<1>15. ASSUME NEW w \in Worker, Promote(w) PROVE TypeOK'
  BY <1>15, LaterIsMax, SMTT(30) DEF Promote, Placed, PlacedAt, Issuing
<1>16. ASSUME NEW w \in Worker, Respond(w) PROVE TypeOK'
  BY <1>16 DEF Respond, Placed, PlacedAt, Issuing
<1>17. ASSUME NEW w \in Worker, NEW s \in State, Present(w, s) \/ Logout(w, s) PROVE TypeOK'
  BY <1>17 DEF Present, Logout
<1>18. ASSUME NEW w \in Worker, Look(w) PROVE TypeOK'
  BY <1>18, LiveRows DEF Look
<1>19. ASSUME NEW w \in Worker, Answer(w) \/ Abort(w) PROVE TypeOK'
  BY <1>19 DEF Answer, Abort
<1>20. ASSUME NEW w \in Worker, Revoke(w) PROVE TypeOK'
  BY <1>20, LiveRows, SMTT(30) DEF Revoke, RevokedUntil, Placed, PlacedAt
<1>21. ASSUME NEW s \in State, Forget(s) PROVE TypeOK'
  BY <1>21 DEF Forget
<1>22. ASSUME NEW c \in Client, Displace(c) PROVE TypeOK'
  BY <1>22 DEF Displace
<1>23. CASE Disallow
  BY <1>23 DEF Disallow
<1>24. CASE Tick
  <2>1. now' \in Nat
    BY <1>24 DEF Tick
  <2>2. QED
    BY <1>24, <2>1 DEF Tick
<1> HIDE DEF TypeOK, Goto, Finish, server, history, clients, request
<1>25. QED
  BY <1>0, <1>1, <1>2, <1>3, <1>4, <1>5, <1>6, <1>7, <1>8, <1>9, <1>10, <1>11, <1>12, <1>13, <1>14,
     <1>15, <1>16, <1>17, <1>18, <1>19, <1>20, <1>21, <1>22, <1>23, <1>24 DEF Next, FromConnector, FromBrowser

-----------------------------------------------------------------------------
LEMMA DrawnStep ==
  ASSUME TypeOK, Placed, Drawn, Once, [Next]_vars
  PROVE  Drawn'
<1>1. CASE UNCHANGED <<asked, minted, flows, codes, deadline, exp, held, out>>
  BY <1>1 DEF Drawn
<1>2. ASSUME NEW w \in Worker, StoreFlow(w) PROVE Drawn'
  <2>1. client[w] \in Client /\ client[w] # None
    BY <1>2, SignInAssumption DEF StoreFlow, Placed, PlacedAt
  <2>2. QED
    BY <1>2, <2>1 DEF StoreFlow, Fresh, Drawn, clients, TypeOK
<1>3. CASE GoogleSignIn
  BY <1>3, SignInAssumption DEF GoogleSignIn, Fresh, Drawn, clients, TypeOK
<1>4. ASSUME NEW w \in Worker, NEW b \in Browser, NEW s \in State, Callback(w, b, s) PROVE Drawn'
  BY <1>4 DEF Callback, WithoutFlow, Drawn, history, clients
<1>5. ASSUME NEW w \in Worker, StoreCode(w) \/ MintSession(w) PROVE Drawn'
  <2>1. state[w] \in State /\ asked[state[w]] # None /\ state[w] \notin flows /\ minted[state[w]] = 0
    BY <1>5 DEF StoreCode, MintSession, Placed, PlacedAt, Once, Answering
  <2>2. CASE StoreCode(w)
    BY <2>1, <2>2 DEF StoreCode, Drawn, clients, TypeOK
  <2>3. CASE MintSession(w)
    <3>1. now + SessionTtl # 0
      BY SignInAssumption DEF TypeOK
    <3>2. QED
      BY <2>1, <2>3, <3>1 DEF MintSession, Drawn, server, TypeOK
  <2>4. QED
    BY <1>5, <2>2, <2>3
<1>6. ASSUME NEW w \in Worker, RedeemCode(w) PROVE Drawn'
  BY <1>6 DEF RedeemCode, Drawn, history, clients
<1>7. ASSUME NEW w \in Worker, IssueToken(w) PROVE Drawn'
  <2>1. state[w] \in State /\ minted[state[w]] # 0 /\ state[w] \notin codes
    BY <1>7 DEF IssueToken, Placed, PlacedAt, Once, Issuing
  <2>2. now + FamilyTtl # 0
    BY SignInAssumption DEF TypeOK
  <2>3. QED
    BY <1>7, <2>1, <2>2 DEF IssueToken, Drawn, server, history, TypeOK
<1>8. ASSUME NEW w \in Worker, Respond(w) PROVE Drawn'
  <2>1. state[w] \in State /\ deadline[state[w]] # 0
    BY <1>8 DEF Respond, Placed, PlacedAt, Once, Issuing
  <2>2. QED
    BY <1>8, <2>1 DEF Respond, Drawn, server, history
<1>9. ASSUME NEW w \in Worker, Revoke(w) PROVE Drawn'
  BY <1>9 DEF Revoke, Placed, PlacedAt, Drawn, history
<1>10. ASSUME NEW s \in State, Forget(s) PROVE Drawn'
  BY <1>10 DEF Forget, Drawn, history, clients
<1>11. ASSUME NEW w \in Worker,
              \/ SetCookie(w) \/ ExchangeCode(w) \/ Deliver(w) \/ Promote(w) \/ Look(w) \/ Answer(w)
              \/ Abort(w)
       PROVE  Drawn'
  BY <1>1, <1>11 DEF SetCookie, ExchangeCode, Deliver, Promote, Look, Answer, Abort, server, history, clients
<1>12. ASSUME NEW w \in Worker, NEW s \in State, Authenticate(w, s) \/ Present(w, s) \/ Logout(w, s)
       PROVE  Drawn'
  BY <1>1, <1>12 DEF Authenticate, Present, Logout, server, history, clients
<1>13. ASSUME NEW c \in Client, Register(c) \/ Displace(c) \/ \E w \in Worker : Authorize(w, c)
       PROVE  Drawn'
  BY <1>1, <1>13 DEF Register, Displace, Authorize, history, clients
<1>14. ASSUME NEW w \in Worker, NEW b \in Browser, NEW s \in State, NEW own \in BOOLEAN, Confirm(w, b, s, own)
       PROVE  Drawn'
  BY <1>1, <1>14 DEF Confirm, server, clients
<1>15. CASE Disallow \/ Tick \/ UNCHANGED vars
  BY <1>1, <1>15 DEF Disallow, Tick, vars, server, history, clients
<1>16. QED
  BY <1>2, <1>3, <1>4, <1>5, <1>6, <1>7, <1>8, <1>9, <1>10, <1>11, <1>12, <1>13, <1>14, <1>15
     DEF Next, FromConnector, FromBrowser

\* A step that gives no request a state, and none a code.
LEMMA OnceStays ==
  ASSUME Once, UNCHANGED <<minted, deadline>>, flows' \subseteq flows, codes' \subseteq codes,
         \A v \in Worker :
           /\ Answering(v)' => Answering(v) /\ state'[v] = state[v]
           /\ Issuing(v)' => /\ Issuing(v) /\ state'[v] = state[v]
                             /\ pc'[v] = "redeemed" <=> pc[v] = "redeemed"
  PROVE  Once'
<1>1. OneAnswerPerState'
  BY DEF Once, OneAnswerPerState
<1>2. \A w \in Worker : Answering(w)' => state'[w] \notin flows' /\ minted'[state'[w]] = 0
  BY DEF Once
<1>3. \A w, v \in Worker : Answering(w)' /\ Answering(v)' /\ state'[w] = state'[v] => w = v
  BY DEF Once
<1>4. \A w \in Worker : Issuing(w)' => /\ state'[w] \notin codes' /\ minted'[state'[w]] # 0
                                       /\ pc'[w] = "redeemed" <=> deadline'[state'[w]] = 0
  BY DEF Once
<1>5. \A w, v \in Worker : Issuing(w)' /\ Issuing(v)' /\ state'[w] = state'[v] => w = v
  BY DEF Once
<1>6. QED
  BY <1>1, <1>2, <1>3, <1>4, <1>5 DEF Once

LEMMA OnceStep ==
  ASSUME TypeOK, Placed, Drawn, Once, [Next]_vars
  PROVE  Once'
<1> USE DEF Answering, Issuing, Goto, Finish, server, history, clients, request
<1>1. ASSUME UNCHANGED <<minted, deadline, pc, state>>, flows' \subseteq flows, codes' \subseteq codes
      PROVE  Once'
  BY <1>1, OnceStays
<1>2. ASSUME NEW w \in Worker, StoreFlow(w) PROVE Once'
  <2>1. PICK s \in State : asked[s] = None /\ flows' = flows \cup {s}
    BY <1>2 DEF StoreFlow, Fresh
  <2>2. \A v \in Worker : /\ Answering(v)' => Answering(v) /\ state'[v] = state[v] /\ state[v] # s
                          /\ Issuing(v)' => /\ Issuing(v) /\ state'[v] = state[v]
                                            /\ pc'[v] = pc[v]
    BY <1>2, <2>1 DEF StoreFlow, TypeOK, Placed, PlacedAt
  <2>3. UNCHANGED <<minted, deadline, codes>>
    BY <1>2 DEF StoreFlow
  <2> HIDE DEF Answering, Issuing
  <2>4. QED
    BY <2>1, <2>2, <2>3 DEF Once, OneAnswerPerState
<1>3. CASE GoogleSignIn
  <2>1. PICK s \in State : asked[s] = None /\ flows' = flows \cup {s}
    BY <1>3 DEF GoogleSignIn, Fresh
  <2>2. \A v \in Worker : Answering(v) => state[v] # s
    BY <2>1 DEF Placed, PlacedAt
  <2>3. QED
    BY <1>3, <2>1, <2>2 DEF GoogleSignIn, Once, OneAnswerPerState
<1>4. ASSUME NEW w \in Worker, NEW b \in Browser, NEW s \in State, Callback(w, b, s) PROVE Once'
  <2>1. /\ s \in flows /\ flows' = flows \ {s} /\ minted[s] = 0 /\ pc[w] = "idle"
        /\ UNCHANGED <<minted, deadline, codes>>
    BY <1>4 DEF Callback, WithoutFlow, Drawn
  <2>2. \A v \in Worker : Answering(v) => state[v] # s
    BY <2>1 DEF Once
  <2>3. \A v \in Worker \ {w} : pc'[v] = pc[v] /\ state'[v] = state[v]
    BY <1>4 DEF Callback, TypeOK
  <2>4. (pc'[w] = "popped" /\ state'[w] = s) \/ (pc'[w] = "idle" /\ state'[w] = state[w])
    BY <1>4, <2>1 DEF Callback, TypeOK
  <2>5. \A v \in Worker : Issuing(v)' => Issuing(v) /\ state'[v] = state[v] /\ pc'[v] = pc[v]
    BY <2>3, <2>4
  <2>6. \A v \in Worker : Answering(v)' => \/ v = w /\ state'[v] = s
                                           \/ v # w /\ Answering(v) /\ state'[v] = state[v]
    BY <2>3, <2>4
  <2> HIDE DEF Answering, Issuing
  <2>7. QED
    BY <2>1, <2>2, <2>5, <2>6 DEF Once, OneAnswerPerState
<1>5. ASSUME NEW w \in Worker, StoreCode(w) \/ MintSession(w) PROVE Once'
  <2>1. /\ state[w] \in State /\ minted[state[w]] = 0 /\ Answering(w)
        /\ \A v \in Worker : Answering(v) /\ v # w => state[v] # state[w]
        /\ \A v \in Worker : Issuing(v) => state[v] # state[w]
    BY <1>5 DEF StoreCode, MintSession, Placed, PlacedAt, Once
  <2>2. \A v \in Worker \ {w} : pc'[v] = pc[v] /\ state'[v] = state[v]
    BY <1>5 DEF StoreCode, MintSession, TypeOK
  <2>3. pc'[w] \in {"idle", "minted"}
    BY <1>5 DEF StoreCode, MintSession, TypeOK
  <2>4. /\ flows' = flows /\ deadline' = deadline
        /\ codes' \subseteq codes \cup {state[w]}
        /\ minted'[state[w]] <= 1
        /\ \A s \in State \ {state[w]} : minted'[s] = minted[s]
    BY <1>5, <2>1 DEF StoreCode, MintSession, TypeOK
  <2>5. \A v \in Worker : /\ Answering(v)' => /\ Answering(v) /\ v # w /\ state'[v] = state[v]
                                              /\ state[v] \in State /\ state[v] # state[w]
                          /\ Issuing(v)' => /\ Issuing(v) /\ v # w /\ state'[v] = state[v] /\ pc'[v] = pc[v]
                                            /\ state[v] \in State /\ state[v] # state[w]
    BY <2>1, <2>2, <2>3 DEF Placed, PlacedAt
  <2> HIDE DEF Answering, Issuing
  <2>6. QED
    BY <2>1, <2>4, <2>5 DEF Once, OneAnswerPerState
<1>6. ASSUME NEW w \in Worker, RedeemCode(w) PROVE Once'
  <2>1. codes' \subseteq codes /\ state[w] \notin codes' /\ UNCHANGED <<minted, deadline, flows>>
    BY <1>6 DEF RedeemCode
  <2>2. \A v \in Worker \ {w} : pc'[v] = pc[v] /\ state'[v] = state[v]
    BY <1>6 DEF RedeemCode, TypeOK
  <2>3. CASE pc'[w] = "redeemed"
    <3>1. state[w] \in codes /\ state'[w] = state[w] /\ state[w] \in State
      BY <1>6, <2>3 DEF RedeemCode, TypeOK
    <3>2. /\ minted[state[w]] # 0 /\ deadline[state[w]] = 0
          /\ \A v \in Worker : Issuing(v) => state[v] # state[w]
      BY <3>1 DEF Drawn, Once
    <3>3. \A v \in Worker : /\ Answering(v)' => Answering(v) /\ v # w /\ state'[v] = state[v]
                            /\ Issuing(v)' => \/ v = w
                                              \/ /\ Issuing(v) /\ v # w
                                                 /\ state'[v] = state[v] /\ pc'[v] = pc[v]
      BY <2>2, <2>3
    <3> HIDE DEF Answering, Issuing
    <3>4. QED
      BY <2>1, <2>3, <3>1, <3>2, <3>3 DEF Once, OneAnswerPerState
  <2>4. CASE pc'[w] # "redeemed"
    <3>1. pc'[w] = "idle"
      BY <1>6, <2>4 DEF RedeemCode, TypeOK
    <3>2. QED
      BY <2>1, <2>2, <3>1, OnceStays
  <2>5. QED
    BY <2>3, <2>4
<1>7. ASSUME NEW w \in Worker, IssueToken(w) PROVE Once'
  <2>1. /\ state[w] \in State /\ Issuing(w)
        /\ \A v \in Worker : Issuing(v) /\ v # w => state[v] # state[w]
    BY <1>7 DEF IssueToken, Placed, PlacedAt, Once
  <2>2. \A v \in Worker \ {w} : pc'[v] = pc[v] /\ state'[v] = state[v]
    BY <1>7 DEF IssueToken, TypeOK
  <2>3. UNCHANGED <<minted, codes, flows>>
    BY <1>7 DEF IssueToken
  <2>4. CASE pc'[w] = "issued"
    <3>1. /\ state'[w] = state[w] /\ deadline'[state[w]] # 0
          /\ \A s \in State \ {state[w]} : deadline'[s] = deadline[s]
      BY <1>7, <2>1, <2>4, SignInAssumption DEF IssueToken, TypeOK
    <3>2. \A v \in Worker : /\ Answering(v)' => Answering(v) /\ v # w /\ state'[v] = state[v]
                            /\ Issuing(v)' => \/ v = w
                                              \/ /\ Issuing(v) /\ v # w /\ state[v] \in State
                                                 /\ state'[v] = state[v] /\ pc'[v] = pc[v]
      BY <2>2, <2>4 DEF Placed, PlacedAt
    <3> HIDE DEF Answering, Issuing
    <3>3. QED
      BY <2>1, <2>3, <2>4, <3>1, <3>2 DEF Once, OneAnswerPerState
  <2>5. CASE pc'[w] # "issued"
    <3>1. pc'[w] = "idle" /\ deadline' = deadline
      BY <1>7, <2>5 DEF IssueToken, TypeOK
    <3>2. QED
      BY <2>2, <2>3, <3>1, OnceStays
  <2>6. QED
    BY <2>4, <2>5
<1>8. ASSUME NEW w \in Worker, SetCookie(w) \/ ExchangeCode(w) \/ Deliver(w) PROVE Once'
  BY <1>8, OnceStays DEF SetCookie, ExchangeCode, Deliver, TypeOK
<1>9. ASSUME NEW w \in Worker, Promote(w) \/ Respond(w) PROVE Once'
  BY <1>9, OnceStays DEF Promote, Respond, TypeOK
<1>10. ASSUME NEW w \in Worker, Look(w) \/ Answer(w) \/ Revoke(w) \/ Abort(w) PROVE Once'
  BY <1>10, OnceStays DEF Look, Answer, Revoke, Abort, TypeOK
<1>11. ASSUME NEW w \in Worker, NEW s \in State, Authenticate(w, s) \/ Present(w, s) \/ Logout(w, s)
       PROVE  Once'
  BY <1>11, OnceStays DEF Authenticate, Present, Logout, TypeOK
<1>12. ASSUME NEW w \in Worker, NEW c \in Client, Authorize(w, c) PROVE Once'
  BY <1>12, OnceStays DEF Authorize, TypeOK
<1>13. ASSUME NEW w \in Worker, NEW b \in Browser, NEW s \in State, NEW own \in BOOLEAN, Confirm(w, b, s, own)
       PROVE  Once'
  BY <1>13, OnceStays DEF Confirm, TypeOK
<1>14. ASSUME NEW c \in Client, Register(c) \/ Displace(c) PROVE Once'
  BY <1>1, <1>14 DEF Register, Displace
<1>15. ASSUME NEW s \in State, Forget(s) PROVE Once'
  BY <1>1, <1>15 DEF Forget
<1>16. CASE Disallow \/ Tick \/ UNCHANGED vars
  BY <1>1, <1>16 DEF Disallow, Tick, vars
<1> HIDE DEF Answering, Issuing, Goto, Finish, server, history, clients, request
<1>17. QED
  BY <1>2, <1>3, <1>4, <1>5, <1>6, <1>7, <1>8, <1>9, <1>10, <1>11, <1>12, <1>13, <1>14, <1>15, <1>16
     DEF Next, FromConnector, FromBrowser

\* What a sign-in was asked by, approved in and given, no step takes back.
Lasting ==
  /\ \A s \in State : asked[s] # None => asked'[s] = asked[s]
  /\ \A c \in Client : grace[c] # 0 => grace'[c] = grace[c]
  /\ \A s \in State : exp[s] # 0 => exp'[s] = exp[s]
  /\ \A s \in State : deadline[s] # 0 => deadline'[s] = deadline[s]
  /\ \A s \in State : approved[s] \subseteq approved'[s]

LEMMA HistoryLasts ==
  ASSUME TypeOK, Placed, Drawn, Once, [Next]_vars
  PROVE  Lasting
<1>1. CASE UNCHANGED <<asked, grace, exp, deadline, approved>>
  BY <1>1 DEF Lasting
<1>2. ASSUME NEW c \in Client, Register(c) PROVE Lasting
  BY <1>2 DEF Register, Lasting, TypeOK, clients
<1>3. CASE GoogleSignIn \/ \E w \in Worker : StoreFlow(w)
  BY <1>3 DEF GoogleSignIn, StoreFlow, Fresh, Lasting, TypeOK, clients
<1>4. ASSUME NEW w \in Worker, NEW b \in Browser, NEW s \in State, NEW own \in BOOLEAN, Confirm(w, b, s, own)
      PROVE  Lasting
  BY <1>4 DEF Confirm, Lasting, TypeOK, clients
<1>5. ASSUME NEW w \in Worker, MintSession(w) PROVE Lasting
  <2>1. state[w] \in State /\ exp[state[w]] = 0
    BY <1>5 DEF MintSession, Placed, PlacedAt, Once, Answering, Drawn
  <2>2. QED
    BY <1>5, <2>1 DEF MintSession, Lasting, TypeOK
<1>6. ASSUME NEW w \in Worker, IssueToken(w) PROVE Lasting
  <2>1. state[w] \in State /\ deadline[state[w]] = 0
    BY <1>6 DEF IssueToken, Placed, PlacedAt, Once, Issuing
  <2>2. QED
    BY <1>6, <2>1 DEF IssueToken, Lasting, TypeOK, history
<1>7. ASSUME NEW w \in Worker, \E c \in Client : Authorize(w, c) PROVE Lasting
  BY <1>1, <1>7 DEF Authorize, history, clients
<1>8. ASSUME NEW w \in Worker, NEW s \in State, Authenticate(w, s) \/ Present(w, s) \/ Logout(w, s)
      PROVE  Lasting
  BY <1>1, <1>8 DEF Authenticate, Present, Logout, history, clients
<1>9. ASSUME NEW w \in Worker, SetCookie(w) \/ ExchangeCode(w) \/ StoreCode(w) \/ Deliver(w) PROVE Lasting
  BY <1>1, <1>9 DEF SetCookie, ExchangeCode, StoreCode, Deliver, history, clients
<1>10. ASSUME NEW w \in Worker, RedeemCode(w) \/ Promote(w) \/ Respond(w) PROVE Lasting
  BY <1>1, <1>10 DEF RedeemCode, Promote, Respond, history, clients
<1>11. ASSUME NEW w \in Worker, Look(w) \/ Answer(w) \/ Revoke(w) \/ Abort(w) PROVE Lasting
  BY <1>1, <1>11 DEF Look, Answer, Revoke, Abort, history, clients
<1>12. ASSUME NEW w \in Worker, NEW b \in Browser, NEW s \in State, Callback(w, b, s) PROVE Lasting
  BY <1>1, <1>12 DEF Callback, history, clients
<1>13. CASE \/ Disallow \/ Tick \/ UNCHANGED vars
            \/ \E s \in State : Forget(s)
            \/ \E c \in Client : Displace(c)
  BY <1>1, <1>13 DEF Disallow, Tick, vars, Forget, Displace, history, clients
<1>14. QED
  BY <1>2, <1>3, <1>4, <1>5, <1>6, <1>7, <1>8, <1>9, <1>10, <1>11, <1>12, <1>13
     DEF Next, FromConnector, FromBrowser

LEMMA PlacedStays ==
  ASSUME Placed, Lasting, NEW v \in Worker,
         pc'[v] = pc[v], state'[v] = state[v], browser'[v] = browser[v], client'[v] = client[v]
  PROVE  PlacedAt(v)'
<1>1. PlacedAt(v)
  BY DEF Placed
<1>2. pc'[v] = "authorizing" => client'[v] \in Client /\ grace'[client'[v]] # 0
  BY <1>1 DEF PlacedAt, Lasting
<1>3. pc'[v] \in {"confirmed", "popped", "identified", "denied", "minted"} =>
        state'[v] \in State /\ browser'[v] \in Browser /\ asked'[state'[v]] # None
  BY <1>1 DEF PlacedAt, Lasting
<1>4. pc'[v] = "authenticated" \/ Issuing(v)' =>
        state'[v] \in State /\ client'[v] \in Client /\ asked'[state'[v]] = client'[v]
  BY <1>1, SignInAssumption DEF PlacedAt, Lasting, Issuing
<1>5. pc'[v] \in {"presented", "leaving"} => state'[v] \in State /\ exp'[state'[v]] # 0
  BY <1>1 DEF PlacedAt, Lasting
<1>6. QED
  BY <1>2, <1>3, <1>4, <1>5 DEF PlacedAt

LEMMA PlacedStep ==
  ASSUME TypeOK, Placed, Drawn, Once, Serves, [Next]_vars
  PROVE  Placed'
<1> DEFINE Alone(w) == \A v \in Worker \ {w} : /\ pc'[v] = pc[v] /\ state'[v] = state[v]
                                               /\ browser'[v] = browser[v] /\ client'[v] = client[v]
<1>0. Lasting
  BY HistoryLasts
<1>1. ASSUME UNCHANGED request PROVE Placed'
  BY <1>0, <1>1, PlacedStays DEF Placed, request
<1>2. ASSUME NEW w \in Worker, Alone(w), PlacedAt(w)' PROVE Placed'
  BY <1>0, <1>2, PlacedStays DEF Placed
<1>3. ASSUME NEW w \in Worker, Finish(w) PROVE Placed'
  BY <1>2, <1>3, Finished DEF PlacedAt, Issuing
<1>4. ASSUME NEW w \in Worker, NEW step, Goto(w, step), UNCHANGED <<state, browser, client>>
      PROVE  Alone(w) /\ pc'[w] = step
  BY <1>4 DEF Goto, TypeOK
<1>5. ASSUME NEW w \in Worker,
             \/ ExchangeCode(w) \/ StoreCode(w) \/ MintSession(w) \/ RedeemCode(w) \/ IssueToken(w)
             \/ Promote(w)
      PROVE  Placed'
  <2>1. CASE Finish(w)
    BY <1>3, <2>1
  <2>2. CASE ~ Finish(w)
    <3>1. /\ UNCHANGED <<state, browser, client>>
          /\ \/ pc[w] \in {"popped", "identified"} /\ \E step \in {"identified", "denied", "minted"} : Goto(w, step)
             \/ pc[w] = "authenticated" /\ Goto(w, "redeemed")
             \/ pc[w] = "redeemed" /\ Goto(w, "issued")
             \/ pc[w] = "issued" /\ Goto(w, "promoted")
      BY <1>5, <2>2 DEF ExchangeCode, StoreCode, MintSession, RedeemCode, IssueToken, Promote
    <3>2. /\ Alone(w) /\ UNCHANGED <<state, browser, client>>
          /\ \/ pc[w] \in {"popped", "identified"} /\ pc'[w] \in {"identified", "denied", "minted"}
             \/ (pc[w] = "authenticated" \/ Issuing(w)) /\ pc'[w] \in {"redeemed", "issued", "promoted"}
      BY <1>4, <3>1 DEF Issuing
    <3>3. PlacedAt(w)
      BY DEF Placed
    <3>4. PlacedAt(w)'
      BY <1>0, <3>2, <3>3, SignInAssumption DEF PlacedAt, Issuing, Lasting
    <3>5. QED
      BY <1>2, <3>2, <3>4
  <2>3. QED
    BY <2>1, <2>2
<1>6. ASSUME NEW w \in Worker, NEW c \in Client, Authorize(w, c) PROVE Placed'
  <2>1. CASE UNCHANGED request
    BY <1>1, <2>1
  <2>2. CASE ~ UNCHANGED request
    <3>1. /\ due'[c] # 0 /\ due' = Live(due) /\ grace' = grace
          /\ client' = [client EXCEPT ![w] = c] /\ Goto(w, "authorizing")
          /\ UNCHANGED <<state, browser>>
      BY <1>6, <2>2 DEF Authorize, request, history
    <3>2. grace'[c] # 0
      BY <3>1, LiveRows DEF TypeOK, Serves
    <3>3. Alone(w) /\ PlacedAt(w)'
      BY <3>1, <3>2 DEF Goto, TypeOK, PlacedAt, Issuing
    <3>4. QED
      BY <1>2, <3>3
  <2>3. QED
    BY <2>1, <2>2
<1>7. ASSUME NEW w \in Worker, NEW b \in Browser, NEW s \in State, NEW own \in BOOLEAN, Confirm(w, b, s, own)
      PROVE  Placed'
  <2>1. asked'[s] # None
    BY <1>7, SignInAssumption DEF Confirm
  <2>2. Alone(w) /\ PlacedAt(w)'
    BY <1>7, <2>1 DEF Confirm, Goto, TypeOK, PlacedAt, Issuing
  <2>3. QED
    BY <1>2, <2>2
<1>8. ASSUME NEW w \in Worker, NEW b \in Browser, NEW s \in State, Callback(w, b, s) PROVE Placed'
  <2>1. CASE UNCHANGED request
    BY <1>1, <2>1
  <2>2. CASE ~ UNCHANGED request
    <3>1. asked'[s] # None
      BY <1>8 DEF Callback, Drawn, history
    <3>2. Alone(w) /\ PlacedAt(w)'
      BY <1>8, <2>2, <3>1 DEF Callback, Goto, TypeOK, PlacedAt, Issuing
    <3>3. QED
      BY <1>2, <3>2
  <2>3. QED
    BY <2>1, <2>2
<1>9. ASSUME NEW w \in Worker, NEW s \in State, Authenticate(w, s) PROVE Placed'
  <2>1. CASE UNCHANGED request
    BY <1>1, <2>1
  <2>2. CASE ~ UNCHANGED request
    <3>1. asked[s] \in Client /\ asked' = asked
      BY <1>9 DEF Authenticate, Drawn, history
    <3>2. Alone(w) /\ PlacedAt(w)'
      BY <1>9, <2>2, <3>1 DEF Authenticate, Goto, TypeOK, PlacedAt, Issuing, request
    <3>3. QED
      BY <1>2, <3>2
  <2>3. QED
    BY <2>1, <2>2
<1>10. ASSUME NEW w \in Worker, NEW s \in State, Present(w, s) \/ Logout(w, s) PROVE Placed'
  <2>1. exp'[s] # 0
    BY <1>10 DEF Present, Logout, Decodes, TypeOK, clients
  <2>2. Alone(w) /\ PlacedAt(w)'
    BY <1>10, <2>1 DEF Present, Logout, Goto, TypeOK, PlacedAt, Issuing
  <2>3. QED
    BY <1>2, <2>2
<1>11. ASSUME NEW w \in Worker, Look(w) PROVE Placed'
  <2>1. Alone(w) /\ PlacedAt(w)'
    BY <1>11 DEF Look, Goto, TypeOK, PlacedAt, Issuing
  <2>2. QED
    BY <1>2, <2>1
<1>12. ASSUME NEW w \in Worker,
              \/ StoreFlow(w) \/ SetCookie(w) \/ Deliver(w) \/ Respond(w) \/ Answer(w) \/ Revoke(w) \/ Abort(w)
       PROVE  Placed'
  BY <1>3, <1>12 DEF StoreFlow, SetCookie, Deliver, Respond, Answer, Revoke, Abort
<1>13. ASSUME \/ GoogleSignIn \/ Disallow \/ Tick \/ UNCHANGED vars
              \/ \E s \in State : Forget(s)
              \/ \E c \in Client : Register(c) \/ Displace(c)
       PROVE  Placed'
  BY <1>1, <1>13 DEF GoogleSignIn, Disallow, Tick, vars, Forget, Register, Displace
<1>14. QED
  BY <1>5, <1>6, <1>7, <1>8, <1>9, <1>10, <1>11, <1>12, <1>13 DEF Next, FromConnector, FromBrowser

LEMMA ApprovedStays ==
  ASSUME Placed, Lasting, NEW v \in Worker, ApprovedAt(v),
         pc'[v] = pc[v], state'[v] = state[v], browser'[v] = browser[v]
  PROVE  ApprovedAt(v)'
<1>1. PlacedAt(v)
  BY DEF Placed
<1>2. QED
  BY <1>1 DEF PlacedAt, ApprovedAt, Lasting

LEMMA ConsentStep ==
  ASSUME TypeOK, Placed, Drawn, Once, Consent, [Next]_vars
  PROVE  Consent'
<1> DEFINE Alone(w) == \A v \in Worker \ {w} : /\ pc'[v] = pc[v] /\ state'[v] = state[v]
                                               /\ browser'[v] = browser[v]
           Cookies == \A b \in Browser : cookie'[b] # None => b \in approved'[cookie'[b]]
           Delivered == \A s \in State : asked'[s] = Web \/ delivered'[s] \subseteq approved'[s]
<1>0. Lasting
  BY HistoryLasts
<1>1. ASSUME UNCHANGED cookie PROVE Cookies
  BY <1>0, <1>1 DEF Consent, Lasting, TypeOK
<1>2. ASSUME UNCHANGED delivered PROVE Delivered
  BY <1>0, <1>2, SignInAssumption DEF Consent, Lasting, TypeOK
<1>3. ASSUME UNCHANGED request PROVE \A w \in Worker : ApprovedAt(w)'
  BY <1>0, <1>3, ApprovedStays DEF Consent, request
<1>4. ASSUME NEW w \in Worker, Alone(w), ApprovedAt(w)' PROVE \A v \in Worker : ApprovedAt(v)'
  BY <1>0, <1>4, ApprovedStays DEF Consent
<1>5. ASSUME NEW w \in Worker, Finish(w) PROVE \A v \in Worker : ApprovedAt(v)'
  BY <1>4, <1>5, Finished DEF ApprovedAt
<1> HIDE DEF Cookies, Delivered
<1>6. ASSUME Cookies, Delivered, \A w \in Worker : ApprovedAt(w)' PROVE Consent'
  BY <1>6 DEF Consent, Cookies, Delivered
<1>7. ASSUME NEW w \in Worker, NEW b \in Browser, NEW s \in State, NEW own \in BOOLEAN, Confirm(w, b, s, own)
      PROVE  Consent'
  <2>1. b \in approved'[s]
    BY <1>7 DEF Confirm, SameOrigin, TypeOK
  <2>2. Alone(w) /\ pc'[w] = "confirmed" /\ state'[w] = s /\ browser'[w] = b
    BY <1>7 DEF Confirm, Goto, TypeOK
  <2>3. UNCHANGED <<cookie, delivered>>
    BY <1>7 DEF Confirm, clients
  <2>4. ApprovedAt(w)'
    BY <2>1, <2>2 DEF ApprovedAt
  <2>5. QED
    BY <1>1, <1>2, <1>4, <1>6, <2>2, <2>3, <2>4
<1>8. ASSUME NEW w \in Worker, SetCookie(w) PROVE Consent'
  <2>1. state[w] \in State /\ browser[w] \in approved[state[w]] /\ approved' = approved
    BY <1>8 DEF SetCookie, Placed, PlacedAt, Consent, ApprovedAt, history
  <2>2. Cookies
    BY <1>8, <2>1 DEF SetCookie, Cookies, Consent, TypeOK
  <2>3. Finish(w) /\ UNCHANGED delivered
    BY <1>8 DEF SetCookie
  <2>4. QED
    BY <1>2, <1>5, <1>6, <2>2, <2>3
<1>9. ASSUME NEW w \in Worker, NEW b \in Browser, NEW s \in State, Callback(w, b, s) PROVE Consent'
  <2>1. UNCHANGED <<cookie, delivered, asked, approved>>
    BY <1>9 DEF Callback, history, clients
  <2>2. CASE UNCHANGED request
    BY <1>1, <1>2, <1>3, <1>6, <2>1, <2>2
  <2>3. CASE ~ UNCHANGED request
    <3>1. asked[s] = Web \/ cookie[b] = s
      BY <1>9, <2>3 DEF Callback, ThisBrowser
    <3>2. asked[s] = Web \/ b \in approved[s]
      BY <3>1, SignInAssumption DEF Consent
    <3>3. Alone(w) /\ pc'[w] = "popped" /\ state'[w] = s /\ browser'[w] = b
      BY <1>9, <2>3 DEF Callback, Goto, TypeOK
    <3>4. ApprovedAt(w)'
      BY <2>1, <3>2, <3>3 DEF ApprovedAt
    <3>5. QED
      BY <1>1, <1>2, <1>4, <1>6, <2>1, <3>3, <3>4
  <2>4. QED
    BY <2>2, <2>3
<1>10. ASSUME NEW w \in Worker, ExchangeCode(w) \/ StoreCode(w) \/ MintSession(w) PROVE Consent'
  <2>1. UNCHANGED <<cookie, delivered, asked, approved>>
    BY <1>10 DEF ExchangeCode, StoreCode, MintSession, history, clients
  <2>2. CASE Finish(w)
    BY <1>1, <1>2, <1>5, <1>6, <2>1, <2>2
  <2>3. CASE ~ Finish(w)
    <3>1. /\ UNCHANGED <<state, browser, client>> /\ pc[w] \in {"popped", "identified"}
          /\ \E step \in {"identified", "denied", "minted"} : Goto(w, step)
      BY <1>10, <2>3 DEF ExchangeCode, StoreCode, MintSession
    <3>2. Alone(w) /\ pc'[w] \in {"identified", "denied", "minted"}
      BY <3>1 DEF Goto, TypeOK
    <3>3. ApprovedAt(w)'
      BY <2>1, <3>1, <3>2 DEF Consent, ApprovedAt
    <3>4. QED
      BY <1>1, <1>2, <1>4, <1>6, <2>1, <3>2, <3>3
  <2>4. QED
    BY <2>2, <2>3
<1>11. ASSUME NEW w \in Worker, Deliver(w) PROVE Consent'
  <2>1. state[w] \in State /\ browser[w] \in Browser /\ UNCHANGED <<asked, approved>>
    BY <1>11 DEF Deliver, Placed, PlacedAt, history
  <2>2. pc[w] = "minted" => asked[state[w]] = Web \/ browser[w] \in approved[state[w]]
    BY DEF Consent, ApprovedAt
  <2>3. Cookies
    BY <1>11, <2>1 DEF Deliver, Cookies, Consent, TypeOK
  <2>4. Delivered
    BY <1>11, <2>1, <2>2 DEF Deliver, Delivered, Consent, TypeOK
  <2>5. Finish(w)
    BY <1>11 DEF Deliver
  <2>6. QED
    BY <1>5, <1>6, <2>3, <2>4, <2>5
<1>12. ASSUME NEW w \in Worker,
              \/ StoreFlow(w) \/ RedeemCode(w) \/ IssueToken(w) \/ Promote(w) \/ Respond(w)
              \/ Look(w) \/ Answer(w) \/ Revoke(w) \/ Abort(w)
       PROVE  Consent'
  <2>1. UNCHANGED <<cookie, delivered>>
    BY <1>12 DEF StoreFlow, RedeemCode, IssueToken, Promote, Respond, Look, Answer, Revoke, Abort, clients
  <2>2. CASE Finish(w)
    BY <1>1, <1>2, <1>5, <1>6, <2>1, <2>2
  <2>3. CASE ~ Finish(w)
    <3>1. /\ UNCHANGED <<state, browser>>
          /\ \E step \in {"redeemed", "issued", "promoted", "admitted", "refused"} : Goto(w, step)
      BY <1>12, <2>3 DEF StoreFlow, RedeemCode, IssueToken, Promote, Respond, Look, Answer, Revoke, Abort
    <3>2. Alone(w) /\ ApprovedAt(w)'
      BY <3>1 DEF Goto, TypeOK, ApprovedAt
    <3>3. QED
      BY <1>1, <1>2, <1>4, <1>6, <2>1, <3>2
  <2>4. QED
    BY <2>2, <2>3
<1>13. ASSUME NEW w \in Worker, NEW s \in State, Authenticate(w, s) \/ Present(w, s) \/ Logout(w, s)
       PROVE  Consent'
  <2>1. UNCHANGED <<cookie, delivered>>
    BY <1>13 DEF Authenticate, Present, Logout, clients
  <2>2. CASE pc' = pc
    <3>1. UNCHANGED request
      BY <1>13, <2>2 DEF Authenticate, Present, Logout, Goto, TypeOK, request
    <3>2. QED
      BY <1>1, <1>2, <1>3, <1>6, <2>1, <3>1
  <2>3. CASE pc' # pc
    <3>1. Alone(w) /\ ApprovedAt(w)'
      BY <1>13, <2>3 DEF Authenticate, Present, Logout, Goto, TypeOK, ApprovedAt
    <3>2. QED
      BY <1>1, <1>2, <1>4, <1>6, <2>1, <3>1
  <2>4. QED
    BY <2>2, <2>3
<1>14. ASSUME NEW w \in Worker, NEW c \in Client, Authorize(w, c) PROVE Consent'
  <2>1. UNCHANGED <<cookie, delivered, state, browser>>
    BY <1>14 DEF Authorize, clients
  <2>2. \/ pc' = pc
        \/ Alone(w) /\ pc'[w] = "authorizing"
    BY <1>14 DEF Authorize, Goto, TypeOK
  <2>3. \A v \in Worker : ApprovedAt(v)'
    BY <1>0, <1>4, <2>1, <2>2, ApprovedStays DEF Consent, ApprovedAt
  <2>4. QED
    BY <1>1, <1>2, <1>6, <2>1, <2>3
<1>15. ASSUME \/ GoogleSignIn \/ Disallow \/ Tick \/ UNCHANGED vars
              \/ \E s \in State : Forget(s)
              \/ \E c \in Client : Register(c) \/ Displace(c)
       PROVE  Consent'
  BY <1>1, <1>2, <1>3, <1>6, <1>15 DEF GoogleSignIn, Disallow, Tick, vars, Forget, Register, Displace, clients
<1>16. QED
  BY <1>7, <1>8, <1>9, <1>10, <1>11, <1>12, <1>13, <1>14, <1>15 DEF Next, FromConnector, FromBrowser

\* Registrations are dropped, if anything.
LEMMA ServesStays ==
  ASSUME TypeOK, Serves, UNCHANGED <<grace, asked, deadline, held>>,
         \A c \in Client : due'[c] \in {0, due[c]},
         \A v \in Worker : pc'[v] = "promoted" =>
           pc[v] = "promoted" /\ state'[v] = state[v] /\ client'[v] = client[v] /\ client[v] \in Client
  PROVE  Serves'
<1>1. \A c \in Client : grace'[c] = 0 => due'[c] = 0 /\ \A s \in State : asked'[s] # c
  BY DEF Serves
<1>2. \A c \in Client : due'[c] \in {0, grace'[c]} \/
        \E s \in State : asked'[s] = c /\ deadline'[s] # 0 /\ due'[c] = deadline'[s]
  BY DEF Serves
<1>3. \A s \in held' : asked'[s] \in Client /\ due'[asked'[s]] # 0 => deadline'[s] <= due'[asked'[s]]
  BY DEF Serves
<1>4. \A w \in Worker : pc'[w] = "promoted" /\ due'[client'[w]] # 0 => deadline'[state'[w]] <= due'[client'[w]]
  BY DEF Serves
<1>5. QED
  BY <1>1, <1>2, <1>3, <1>4 DEF Serves

LEMMA ServesRegister ==
  ASSUME TypeOK, Placed, Serves, NEW c \in Client, Register(c)
  PROVE  Serves'
<1>1. /\ grace[c] = 0 /\ due[c] = 0 /\ \A s \in State : asked[s] # c
      /\ now + GraceTtl # 0
      /\ UNCHANGED <<asked, deadline, held, pc, state, client>>
  BY SignInAssumption DEF Register, Serves, TypeOK, clients, request
<1>2. /\ due'[c] = now + GraceTtl /\ grace'[c] = now + GraceTtl
      /\ \A d \in Client \ {c} : due'[d] \in {0, due[d]} /\ grace'[d] = grace[d]
  BY LiveRows DEF Register, TypeOK
<1>3. \A s \in held : asked[s] # c
  BY <1>1 DEF TypeOK
<1>4. \A w \in Worker : pc[w] = "promoted" => client[w] \in Client \ {c}
  BY <1>1 DEF Placed, PlacedAt, Issuing
<1>5. \A d \in Client : grace'[d] = 0 => due'[d] = 0 /\ \A s \in State : asked'[s] # d
  BY <1>1, <1>2 DEF Serves
<1>6. \A d \in Client : due'[d] \in {0, grace'[d]} \/
        \E s \in State : asked'[s] = d /\ deadline'[s] # 0 /\ due'[d] = deadline'[s]
  BY <1>1, <1>2 DEF Serves
<1>7. \A s \in held' : asked'[s] \in Client /\ due'[asked'[s]] # 0 => deadline'[s] <= due'[asked'[s]]
  BY <1>1, <1>2, <1>3 DEF Serves
<1>8. \A w \in Worker : pc'[w] = "promoted" /\ due'[client'[w]] # 0 => deadline'[state'[w]] <= due'[client'[w]]
  BY <1>1, <1>2, <1>4 DEF Serves
<1>9. QED
  BY <1>5, <1>6, <1>7, <1>8 DEF Serves

\* A new sign-in has no family yet.
LEMMA ServesAsked ==
  ASSUME TypeOK, Placed, Drawn, Serves, NEW s \in Fresh, NEW c \in Client \cup {Web},
         asked' = [asked EXCEPT ![s] = c], c \in Client => grace[c] # 0,
         UNCHANGED <<due, grace, deadline, held>>,
         \A v \in Worker : pc'[v] = "promoted" =>
           pc[v] = "promoted" /\ state'[v] = state[v] /\ client'[v] = client[v]
  PROVE  Serves'
<1>1. /\ s \in State /\ asked[s] = None /\ deadline[s] = 0 /\ s \notin held
      /\ asked'[s] = c /\ \A t \in State \ {s} : asked'[t] = asked[t]
  BY DEF Fresh, Drawn, TypeOK
<1>2. \A d \in Client : grace'[d] = 0 => due'[d] = 0 /\ \A t \in State : asked'[t] # d
  BY <1>1 DEF Serves
<1>3. \A d \in Client : due'[d] \in {0, grace'[d]} \/
        \E t \in State : asked'[t] = d /\ deadline'[t] # 0 /\ due'[d] = deadline'[t]
  BY <1>1 DEF Serves
<1>4. \A t \in held' : asked'[t] \in Client /\ due'[asked'[t]] # 0 => deadline'[t] <= due'[asked'[t]]
  BY <1>1 DEF Serves, TypeOK
<1>5. \A w \in Worker : pc'[w] = "promoted" /\ due'[client'[w]] # 0 => deadline'[state'[w]] <= due'[client'[w]]
  BY DEF Serves
<1>6. QED
  BY <1>2, <1>3, <1>4, <1>5 DEF Serves

LEMMA ServesIssue ==
  ASSUME TypeOK, Placed, Drawn, Once, Serves, NEW w \in Worker, IssueToken(w)
  PROVE  Serves'
<1>1. /\ state[w] \in State /\ deadline[state[w]] = 0 /\ state[w] \notin held
      /\ \A v \in Worker : pc[v] = "promoted" => state[v] \in State \ {state[w]} /\ client[v] \in Client
  BY DEF IssueToken, Placed, PlacedAt, Once, Issuing, Drawn
<1>2. /\ UNCHANGED <<due, grace, asked, held>>
      /\ \A s \in State \ {state[w]} : deadline'[s] = deadline[s]
  BY <1>1 DEF IssueToken, TypeOK, server, history
<1>3. \A v \in Worker : pc'[v] = "promoted" =>
        pc[v] = "promoted" /\ state'[v] = state[v] /\ client'[v] = client[v]
  BY DEF IssueToken, Goto, Finish, TypeOK
<1>4. \A d \in Client : grace'[d] = 0 => due'[d] = 0 /\ \A s \in State : asked'[s] # d
  BY <1>2 DEF Serves
<1>5. \A d \in Client : due'[d] \in {0, grace'[d]} \/
        \E s \in State : asked'[s] = d /\ deadline'[s] # 0 /\ due'[d] = deadline'[s]
  BY <1>1, <1>2 DEF Serves
<1>6. \A s \in held' : asked'[s] \in Client /\ due'[asked'[s]] # 0 => deadline'[s] <= due'[asked'[s]]
  BY <1>1, <1>2 DEF Serves, TypeOK
<1>7. \A v \in Worker : pc'[v] = "promoted" /\ due'[client'[v]] # 0 => deadline'[state'[v]] <= due'[client'[v]]
  BY <1>1, <1>2, <1>3 DEF Serves
<1>8. QED
  BY <1>4, <1>5, <1>6, <1>7 DEF Serves

LEMMA ServesPromote ==
  ASSUME TypeOK, Placed, Once, Serves, NEW w \in Worker, Promote(w)
  PROVE  Serves'
<1> DEFINE c == client[w]
           t == deadline[state[w]]
<1>1. /\ c \in Client /\ state[w] \in State /\ asked[state[w]] = c /\ t \in Nat \ {0}
      /\ UNCHANGED <<grace, asked, deadline, held, state, client>>
  BY DEF Promote, Placed, PlacedAt, Once, Issuing, TypeOK, history, clients
<1>2. Later(c, t) \in {due[c], t} /\ Later(c, t) >= due[c] /\ Later(c, t) >= t
  BY <1>1, LaterIsMax DEF TypeOK
<1>3. /\ due'[c] = IF due[c] = 0 THEN 0 ELSE Later(c, t)
      /\ \A d \in Client \ {c} : due'[d] = due[d]
  BY <1>1 DEF Promote, TypeOK
<1>4. \A v \in Worker \ {w} : pc'[v] = pc[v]
  BY DEF Promote, Goto, TypeOK
<1> HIDE DEF c, t
<1>5. \A d \in Client : due[d] \in Nat /\ due'[d] >= due[d] /\ (due'[d] # 0 => due[d] # 0)
  BY <1>2, <1>3, <1>1 DEF TypeOK
<1>6. \A d \in Client : grace'[d] = 0 => due'[d] = 0 /\ \A s \in State : asked'[s] # d
  BY <1>1, <1>3 DEF Serves
<1>7. \A d \in Client : due'[d] \in {0, grace'[d]} \/
        \E s \in State : asked'[s] = d /\ deadline'[s] # 0 /\ due'[d] = deadline'[s]
  <2>1. ASSUME NEW d \in Client
        PROVE  due'[d] \in {0, due[d]} \/ (d = c /\ due'[d] = t)
    BY <1>1, <1>2, <1>3
  <2>2. QED
    BY <1>1, <2>1 DEF Serves, t
<1>8. \A s \in held' : asked'[s] \in Client /\ due'[asked'[s]] # 0 => deadline'[s] <= due'[asked'[s]]
  <2>1. ASSUME NEW s \in held, asked[s] \in Client, due'[asked[s]] # 0
        PROVE  deadline[s] <= due'[asked[s]]
    <3>1. deadline[s] <= due[asked[s]] /\ deadline[s] \in Nat /\ due'[asked[s]] \in Nat
      BY <1>1, <1>2, <1>3, <1>5, <2>1 DEF Serves, TypeOK
    <3>2. QED
      BY <1>5, <2>1, <3>1
  <2>2. QED
    BY <1>1, <2>1
<1>9. ASSUME NEW v \in Worker, pc'[v] = "promoted", due'[client'[v]] # 0
      PROVE  deadline'[state'[v]] <= due'[client'[v]]
  <2>1. CASE v = w
    BY <1>1, <1>2, <1>3, <1>9, <2>1 DEF TypeOK, c, t
  <2>2. CASE v # w
    <3>1. pc[v] = "promoted" /\ client[v] \in Client /\ state[v] \in State
      BY <1>4, <1>9, <2>2 DEF Placed, PlacedAt, Issuing
    <3>2. deadline[state[v]] <= due[client[v]] /\ deadline[state[v]] \in Nat /\ due'[client[v]] \in Nat
      BY <1>1, <1>2, <1>3, <1>5, <1>9, <3>1 DEF Serves, TypeOK
    <3>3. QED
      BY <1>1, <1>5, <3>1, <3>2
  <2>3. QED
    BY <2>1, <2>2
<1>10. QED
  BY <1>6, <1>7, <1>8, <1>9 DEF Serves

LEMMA ServesRespond ==
  ASSUME TypeOK, Placed, Serves, NEW w \in Worker, Respond(w)
  PROVE  Serves'
<1>1. /\ client[w] \in Client /\ asked[state[w]] = client[w]
      /\ due[client[w]] # 0 => deadline[state[w]] <= due[client[w]]
  BY DEF Respond, Placed, PlacedAt, Issuing, Serves
<1>2. /\ UNCHANGED <<due, grace, asked, deadline>> /\ held' = held \cup {state[w]}
      /\ \A v \in Worker : pc'[v] = "promoted" =>
           pc[v] = "promoted" /\ state'[v] = state[v] /\ client'[v] = client[v]
  BY DEF Respond, Finish, Goto, TypeOK, server, history
<1>3. QED
  BY <1>1, <1>2 DEF Serves

LEMMA ServesStep ==
  ASSUME TypeOK, Placed, Drawn, Once, Serves, [Next]_vars
  PROVE  Serves'
<1>1. \A v \in Worker : pc[v] = "promoted" => client[v] \in Client
  BY DEF Placed, PlacedAt, Issuing
<1>2. ASSUME UNCHANGED <<due, grace, asked, deadline, held>>,
             \A v \in Worker : pc'[v] = "promoted" =>
               pc[v] = "promoted" /\ state'[v] = state[v] /\ client'[v] = client[v]
      PROVE  Serves'
  BY <1>1, <1>2, ServesStays
<1>3. ASSUME NEW w \in Worker, StoreFlow(w) PROVE Serves'
  <2>1. PICK s \in Fresh : asked' = [asked EXCEPT ![s] = client[w]]
    BY <1>3 DEF StoreFlow
  <2>2. client[w] \in Client /\ grace[client[w]] # 0
    BY <1>3 DEF StoreFlow, Placed, PlacedAt
  <2>3. UNCHANGED <<due, grace, deadline, held>>
    BY <1>3 DEF StoreFlow, clients
  <2>4. \A v \in Worker : pc'[v] = "promoted" =>
          pc[v] = "promoted" /\ state'[v] = state[v] /\ client'[v] = client[v]
    BY <1>3 DEF StoreFlow, Finish, Goto, TypeOK
  <2>5. QED
    BY <2>1, <2>2, <2>3, <2>4, ServesAsked
<1>4. CASE GoogleSignIn
  <2>1. PICK s \in Fresh : asked' = [asked EXCEPT ![s] = Web]
    BY <1>4 DEF GoogleSignIn
  <2>2. UNCHANGED <<due, grace, deadline, held, pc, state, client>> /\ Web \notin Client
    BY <1>4, SignInAssumption DEF GoogleSignIn, clients, request
  <2>3. QED
    BY <2>1, <2>2, ServesAsked
<1>5. ASSUME NEW w \in Worker, NEW c \in Client, Authorize(w, c) PROVE Serves'
  BY <1>1, <1>5, LiveRows, ServesStays DEF Authorize, Goto, TypeOK, history, clients
<1>6. ASSUME NEW w \in Worker, NEW s \in State, Authenticate(w, s) PROVE Serves'
  BY <1>1, <1>6, LiveRows, ServesStays DEF Authenticate, Goto, TypeOK, history, clients
<1>7. ASSUME NEW c \in Client, Displace(c) PROVE Serves'
  BY <1>1, <1>7, ServesStays DEF Displace, TypeOK, history, clients, request
<1>8. ASSUME NEW w \in Worker, SetCookie(w) \/ ExchangeCode(w) \/ StoreCode(w) \/ MintSession(w) PROVE Serves'
  BY <1>2, <1>8 DEF SetCookie, ExchangeCode, StoreCode, MintSession, Finish, Goto, TypeOK, server, history, clients
<1>9. ASSUME NEW w \in Worker, Deliver(w) \/ RedeemCode(w) \/ Look(w) \/ Answer(w) \/ Revoke(w) \/ Abort(w)
      PROVE  Serves'
  BY <1>2, <1>9 DEF Deliver, RedeemCode, Look, Answer, Revoke, Abort, Finish, Goto, TypeOK, server, history, clients
<1>10. ASSUME NEW w \in Worker, NEW s \in State,
              \/ Present(w, s) \/ Logout(w, s)
              \/ \E b \in Browser : \/ Callback(w, b, s)
                                    \/ \E own \in BOOLEAN : Confirm(w, b, s, own)
       PROVE  Serves'
  BY <1>2, <1>10 DEF Present, Logout, Callback, Confirm, Goto, TypeOK, server, history, clients, request
<1>11. CASE Disallow \/ Tick \/ UNCHANGED vars \/ \E s \in State : Forget(s)
  BY <1>2, <1>11 DEF Disallow, Tick, vars, Forget, server, history, clients, request
<1>12. QED
  BY <1>3, <1>4, <1>5, <1>6, <1>7, <1>8, <1>9, <1>10, <1>11,
     ServesRegister, ServesIssue, ServesPromote, ServesRespond DEF Next, FromConnector, FromBrowser

LEMMA StaysOutStep ==
  ASSUME TypeOK, Placed, Drawn, Once, StaysOut, [Next]_vars
  PROVE  StaysOut'
<1>1. \A s \in out : s \in State /\ exp'[s] = exp[s] /\ exp[s] \in Nat
  BY HistoryLasts DEF Lasting, Drawn, TypeOK
<1>2. CASE UNCHANGED <<now, revoked, out>>
  BY <1>1, <1>2 DEF StaysOut
<1>3. CASE Tick
  <2>1. \A e \in Nat : e <= now => e <= now'
    BY <1>3 DEF Tick, TypeOK
  <2>2. QED
    BY <1>1, <1>3, <2>1 DEF Tick, StaysOut, server, clients
<1>4. ASSUME NEW w \in Worker, Look(w) PROVE StaysOut'
  BY <1>1, <1>4, LiveRows DEF Look, StaysOut, TypeOK, clients
<1>5. ASSUME NEW w \in Worker, Revoke(w) PROVE StaysOut'
  <2>1. state[w] \in State /\ exp' = exp /\ now' = now
    BY <1>5 DEF Revoke, Placed, PlacedAt
  <2>2. CASE UNCHANGED <<revoked, out>>
    BY <1>2, <2>1, <2>2
  <2>3. CASE ~ UNCHANGED <<revoked, out>>
    <3>1. /\ revoked' = [Live(revoked) EXCEPT ![state[w]] = exp[state[w]]]
          /\ out' = out \cup {state[w]}
      BY <1>5, <2>3 DEF Revoke, RevokedUntil
    <3>2. /\ revoked'[state[w]] = exp[state[w]]
          /\ \A s \in State \ {state[w]} : revoked'[s] = IF revoked[s] <= now THEN 0 ELSE revoked[s]
      BY <2>1, <3>1, LiveRows DEF TypeOK
    <3>3. QED
      BY <1>1, <2>1, <3>1, <3>2 DEF StaysOut, TypeOK
  <2>4. QED
    BY <2>2, <2>3
<1>6. ASSUME NEW w \in Worker,
             \/ StoreFlow(w) \/ RedeemCode(w) \/ IssueToken(w) \/ Promote(w) \/ Respond(w)
             \/ \E c \in Client : Authorize(w, c)
      PROVE  StaysOut'
  BY <1>2, <1>6 DEF StoreFlow, RedeemCode, IssueToken, Promote, Respond, Authorize, server, clients
<1>7. ASSUME NEW w \in Worker,
             SetCookie(w) \/ ExchangeCode(w) \/ StoreCode(w) \/ MintSession(w) \/ Deliver(w) \/ Answer(w) \/ Abort(w)
      PROVE  StaysOut'
  BY <1>2, <1>7 DEF SetCookie, ExchangeCode, StoreCode, MintSession, Deliver, Answer, Abort, server, clients
<1>8. ASSUME NEW w \in Worker, NEW s \in State,
             \/ Authenticate(w, s) \/ Present(w, s) \/ Logout(w, s)
             \/ \E b \in Browser : \/ Callback(w, b, s)
                                   \/ \E own \in BOOLEAN : Confirm(w, b, s, own)
      PROVE  StaysOut'
  BY <1>2, <1>8 DEF Authenticate, Present, Logout, Callback, Confirm, server, clients
<1>9. CASE \/ GoogleSignIn \/ Disallow \/ UNCHANGED vars
           \/ \E s \in State : Forget(s)
           \/ \E c \in Client : Register(c) \/ Displace(c)
  BY <1>2, <1>9 DEF GoogleSignIn, Disallow, vars, Forget, Register, Displace, server, clients
<1>10. QED
  BY <1>3, <1>4, <1>5, <1>6, <1>7, <1>8, <1>9 DEF Next, FromConnector, FromBrowser

LEMMA Invariant == Spec => []IInv
<1>1. Init => IInv
  <2> SUFFICES ASSUME Init PROVE IInv
    OBVIOUS
  <2>1. TypeOK
    BY SignInAssumption DEF Init, TypeOK
  <2>2. Placed /\ Drawn
    BY DEF Init, Placed, PlacedAt, Issuing, Drawn
  <2>3. Once
    BY DEF Init, Once, OneAnswerPerState, Answering, Issuing
  <2>4. Consent /\ Serves /\ StaysOut
    BY SignInAssumption DEF Init, Consent, ApprovedAt, Serves, StaysOut
  <2>5. QED
    BY <2>1, <2>2, <2>3, <2>4 DEF IInv
<1>2. IInv /\ [Next]_vars => IInv'
  BY TypeStep, PlacedStep, DrawnStep, OnceStep, ConsentStep, ServesStep, StaysOutStep DEF IInv
<1>3. QED
  BY <1>1, <1>2, PTL DEF Spec

-----------------------------------------------------------------------------
\* Type correctness, for any number of requests, browsers, connectors and sign-ins.
THEOREM TypeCorrect == Spec => []TypeOK
<1>1. IInv => TypeOK
  BY DEF IInv
<1>2. QED
  BY <1>1, Invariant, PTL

\* Wherever a connector's code arrives, the owner continued from that very state's consent
\* page in that browser, however many sign-ins and callbacks run beside each other
\* (google_callback and the MCP_FLOW_COOKIE, #1701).
THEOREM CodesFollowConsent == Spec => []ConsentInThisBrowser
<1>1. IInv => ConsentInThisBrowser
  BY SignInAssumption DEF IInv, Consent, ConsentInThisBrowser
<1>2. QED
  BY <1>1, Invariant, PTL

\* However many callbacks bring a state, one code or one session is minted from it
\* (oauth_state.cleanup_and_pop).
THEOREM StatesAnsweredOnce == Spec => []OneAnswerPerState
<1>1. IInv => OneAnswerPerState
  BY DEF IInv, Once
<1>2. QED
  BY <1>1, Invariant, PTL

\* A registration that stands expires with its first hour or with a family minted for it,
\* and not before a family whose tokens arrived (oauth_state.extend_expiry).
THEOREM RegistrationsServe == Spec => []RegistrationServes
<1>1. ASSUME IInv PROVE RegistrationServes
  <2>1. ASSUME NEW c \in Client, due[c] # 0
        PROVE  due[c] \in {grace[c]} \cup {deadline[s] : s \in {t \in State : asked[t] = c /\ deadline[t] # 0}}
    BY <1>1, <2>1 DEF IInv, Serves
  <2>2. ASSUME NEW c \in Client, due[c] # 0, NEW s \in held, asked[s] = c
        PROVE  deadline[s] <= due[c]
    BY <1>1, <2>2 DEF IInv, Serves
  <2>3. QED
    BY <2>1, <2>2 DEF RegistrationServes
<1>2. QED
  BY <1>1, Invariant, PTL

LEMMA OnlyLookAdmits ==
  ASSUME TypeOK, [Next]_vars, NEW w \in Worker, pc[w] = "presented", pc'[w] = "admitted"
  PROVE  Look(w)
<1> SUFFICES ASSUME ~ Look(w) PROVE FALSE
  OBVIOUS
<1>1. pc' # pc
  OBVIOUS
<1>2. ASSUME NEW v \in Worker, Finish(v) PROVE FALSE
  BY <1>2, Finished
<1>3. ASSUME NEW v \in Worker, Look(v) PROVE FALSE
  BY <1>3 DEF Look, Goto, TypeOK
<1>4. ASSUME NEW v \in Worker, ExchangeCode(v) \/ StoreCode(v) \/ MintSession(v) PROVE FALSE
  BY <1>2, <1>4 DEF ExchangeCode, StoreCode, MintSession, Goto, TypeOK
<1>5. ASSUME NEW v \in Worker, RedeemCode(v) \/ IssueToken(v) \/ Promote(v) PROVE FALSE
  BY <1>2, <1>5 DEF RedeemCode, IssueToken, Promote, Goto, TypeOK
<1>6. ASSUME NEW v \in Worker,
             \/ StoreFlow(v) \/ SetCookie(v) \/ Deliver(v) \/ Respond(v) \/ Answer(v) \/ Revoke(v) \/ Abort(v)
      PROVE  FALSE
  BY <1>2, <1>6 DEF StoreFlow, SetCookie, Deliver, Respond, Answer, Revoke, Abort
<1>7. ASSUME NEW v \in Worker, NEW s \in State, Authenticate(v, s) \/ Present(v, s) \/ Logout(v, s)
      PROVE  FALSE
  BY <1>1, <1>7 DEF Authenticate, Present, Logout, Goto, TypeOK
<1>8. ASSUME NEW v \in Worker, NEW b \in Browser, NEW s \in State,
             Callback(v, b, s) \/ \E own \in BOOLEAN : Confirm(v, b, s, own)
      PROVE  FALSE
  BY <1>1, <1>8 DEF Callback, Confirm, Goto, TypeOK, request
<1>9. ASSUME NEW v \in Worker, NEW c \in Client, Authorize(v, c) PROVE FALSE
  BY <1>1, <1>9 DEF Authorize, Goto, TypeOK
<1>10. ASSUME \/ GoogleSignIn \/ Disallow \/ Tick \/ UNCHANGED vars
              \/ \E s \in State : Forget(s)
              \/ \E c \in Client : Register(c) \/ Displace(c)
       PROVE  FALSE
  BY <1>1, <1>10 DEF GoogleSignIn, Disallow, Tick, vars, Forget, Register, Displace, request
<1>11. QED
  BY <1>3, <1>4, <1>5, <1>6, <1>7, <1>8, <1>9, <1>10 DEF Next, FromConnector, FromBrowser

\* Nobody is admitted with a session once its logout was answered, copies of it included,
\* until the exp that ends it anyway (auth.py's logout and web_session, is_revoked).
THEOREM LogoutLasts == Spec => LoggedOutStaysOut
<1>1. ASSUME IInv, [Next]_vars, NEW w \in Worker, pc[w] = "presented", pc'[w] = "admitted", state[w] \in out
      PROVE  exp[state[w]] <= now
  <2>2. Look(w)
    BY <1>1, OnlyLookAdmits DEF IInv
  <2>3. pc'[w] = IF Live(revoked)[state[w]] = 0 THEN "admitted" ELSE "refused"
    BY <1>1, <2>2 DEF Look, Goto, IInv, TypeOK
  <2>4. state[w] \in State /\ exp[state[w]] # 0
    BY <1>1 DEF IInv, TypeOK, Drawn
  <2>5. revoked[state[w]] <= now
    BY <1>1, <2>3, <2>4, LiveRows DEF IInv, TypeOK
  <2>6. QED
    BY <1>1, <2>4, <2>5 DEF IInv, StaysOut
<1>2. IInv /\ [Next]_vars =>
        [\A w \in Worker : pc[w] = "presented" /\ pc'[w] = "admitted" /\ state[w] \in out =>
           exp[state[w]] <= now]_vars
  BY <1>1
<1>3. QED
  BY <1>2, Invariant, PTL DEF Spec, LoggedOutStaysOut

=============================================================================
