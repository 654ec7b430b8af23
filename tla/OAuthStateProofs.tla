-------------------------- MODULE OAuthStateProofs --------------------------
(***************************************************************************)
(* The two models of backend/oauth_state.py, for every number of requests, *)
(* codes, families, tokens, keys and rows.  First RefreshTokens: the       *)
(* inductive invariant follows a family from its code; every row and every *)
(* request knows its family, a request that is to store the first row of a *)
(* family has it to itself, and the row a request has marked stands and is *)
(* the one live token of its family.  Then BoundedStore, whose             *)
(* specification is StoreSpec: its invariant counts the rows that would    *)
(* stand if any of the requests under way committed and any choice of      *)
(* evictions were made.                                                    *)
(***************************************************************************)
EXTENDS RefreshTokens, BoundedStore, FiniteSetTheorems, TLAPS

\* The steps at which a request may have a row marked.
Holding == {"consumed", "counted", "revoking"}

\* A request has a grant while it runs and a family once its grant is accepted; it
\* has marked the token it rotates, and nothing else.
InFlight(w) ==
  /\ pc[w] # "idle" => grant[w] \in Token \cup Code
  /\ pc[w] = "presented" => grant[w] \in Code
  /\ pc[w] \in {"authenticated", "replayed"} => grant[w] \in Token
  /\ pc[w] \notin {"idle", "presented"} => family[w] \in Family
  /\ mine[w] # None => pc[w] \in Holding /\ mine[w] = grant[w]
  /\ pc[w] \in {"consumed", "counted"} /\ grant[w] \in Token => mine[w] = grant[w]
  /\ pc[w] = "stored" => new[w] \in Token
  /\ pc[w] # "revoking" => doomed[w] = {}

Typed == TypeOK /\ \A w \in Worker : InFlight(w)

\* What a row says of its family is what history says.
RowKin(t) == Present(t) =>
  /\ minted[t] = tokens[t].family
  /\ tokens[t].from \in Token => minted[tokens[t].from] = tokens[t].family
  /\ tokens[t].from \in Code => origin[tokens[t].family] = tokens[t].from

\* A family comes of one code, which is gone; a token's family has begun, and only a
\* family with a token runs out.
FamilyKin ==
  /\ \A t \in Token : minted[t] # None => origin[minted[t]] # None
  /\ \A f \in Family : origin[f] \notin codes
  /\ \A f \in expired : \E t \in Token : minted[t] = f
  /\ CodesRedeemOnce

\* A request acts on the family of its grant; a DELETE found rows of that family.
RequestKin(w) ==
  /\ pc[w] \notin {"idle", "presented"} =>
       /\ grant[w] \in Token => minted[grant[w]] = family[w]
       /\ grant[w] \in Code => origin[family[w]] = grant[w]
       /\ origin[family[w]] # None
  /\ \A t \in doomed[w] : minted[t] = family[w]

Kin == /\ \A t \in Token : RowKin(t)
       /\ FamilyKin
       /\ \A w \in Worker : RequestKin(w)

\* A family that has no token yet is the affair of the request that redeemed its code.
Alone(w) == pc[w] \in Holding /\ grant[w] \in Code =>
  /\ \A t \in Token : minted[t] # family[w]
  /\ \A v \in Worker \ {w} : pc[v] \notin {"idle", "presented"} => family[v] # family[w]

\* A marked row stands, unconsumed, and is marked by one request.
Marked(w) == mine[w] # None =>
  /\ Present(mine[w])
  /\ ~ tokens[mine[w]].consumed
  /\ \A v \in Worker : mine[v] = mine[w] => v = w

Locks == /\ \A w \in Worker : Alone(w) /\ Marked(w)
         /\ OneLiveToken

\* A DELETE that takes a replacement takes what it replaced.
Closed(w) == \A s, t \in Token :
  s \in doomed[w] /\ Present(s) /\ Present(t) /\ tokens[s].from = t => t \in doomed[w]

\* A replayed token is never good again, and nobody is rotating it; once its
\* revocation has begun, what replaced it is among the rows to go.
Replayed(w) ==
  /\ pc[w] \in {"replayed", "revoking"} /\ mine[w] = None /\ grant[w] \in Token =>
       /\ ~ Redeemable(grant[w])
       /\ \A v \in Worker : mine[v] # grant[w]
  /\ pc[w] = "revoking" /\ mine[w] = None =>
       \A t \in Token : Present(t) /\ tokens[t].from = grant[w] => t \in doomed[w]

Successors == /\ \A w \in Worker : Closed(w) /\ Replayed(w)
              /\ ConsumedHasSuccessor

-----------------------------------------------------------------------------
\* The row stored for a grant is a row.
LEMMA SuccessorIsRow ==
  ASSUME Typed, NEW w \in Worker, pc[w] \in {"consumed", "counted"}
  PROVE  Successor(w) \in Row
<1>1. family[w] \in Family /\ grant[w] \in Token \cup Code
  BY DEF Typed, InFlight
<1>2. QED
  BY <1>1 DEF Successor, Row

\* A purge leaves rows or takes them.
LEMMA PurgedIsTyped ==
  ASSUME TypeOK, NEW w \in Worker
  PROVE  /\ Purged(w) \in [Token -> Row \cup {NoRow}]
         /\ \A t \in Token : Purged(w)[t] = IF Expired(t) /\ RowFree(w, t) THEN NoRow ELSE tokens[t]
  BY DEF TypeOK, Purged

LEMMA TypedInit == Init => Typed
  BY DEF Init, Typed, TypeOK, InFlight, Row

LEMMA TypedStep == Typed /\ [Next]_vars => Typed'
<1> SUFFICES ASSUME Typed, [Next]_vars PROVE Typed'
  OBVIOUS
<1> USE TokenAssumption DEF Typed, Goto, Holding
<1>1. ASSUME NEW w \in Worker, PresentToken(w) PROVE Typed'
  <2>1. tokens' \in [Token -> Row \cup {NoRow}]
    BY <1>1, PurgedIsTyped DEF PresentToken
  <2>2. PICK t \in held :
          \/ /\ tokens'[t] # NoRow
             /\ grant' = [grant EXCEPT ![w] = t]
             /\ family' = [family EXCEPT ![w] = tokens[t].family]
             /\ pc' = [pc EXCEPT ![w] = "authenticated"]
          \/ /\ tokens'[t] = NoRow
             /\ UNCHANGED <<grant, family, pc>>
    BY <1>1 DEF PresentToken
  <2>3. t \in Token
    BY DEF TypeOK
  <2>4. tokens'[t] # NoRow => tokens[t].family \in Family
    BY <1>1, <2>3, PurgedIsTyped DEF PresentToken, TypeOK, Row
  <2>5. pc[w] = "idle"
    BY <1>1 DEF PresentToken, MayBegin
  <2>6. TypeOK'
    BY <1>1, <2>1, <2>2, <2>3, <2>4 DEF PresentToken, TypeOK
  <2>7. ASSUME NEW v \in Worker PROVE InFlight(v)'
    BY <1>1, <2>2, <2>3, <2>4, <2>5 DEF PresentToken, TypeOK, InFlight
  <2>8. QED
    BY <2>6, <2>7
<1>2. ASSUME NEW w \in Worker, PresentCode(w) PROVE Typed'
  <2>1. PICK c \in codes : grant' = [grant EXCEPT ![w] = c]
    BY <1>2 DEF PresentCode
  <2>2. c \in Code /\ pc[w] = "idle"
    BY <1>2 DEF TypeOK, PresentCode, MayBegin
  <2>3. QED
    BY <1>2, <2>1, <2>2 DEF PresentCode, TypeOK, InFlight
<1>3. ASSUME NEW w \in Worker, Consume(w) PROVE Typed'
  BY <1>3 DEF Consume, TypeOK, InFlight
<1>4. ASSUME NEW w \in Worker, Finish(w), UNCHANGED <<allowed, minted>>,
             tokens' \in [Token -> Row \cup {NoRow}], codes' \subseteq codes,
             expired' = expired, held' \subseteq Token, origin' = origin
      PROVE  Typed'
  BY <1>4 DEF Finish, TypeOK, InFlight
<1>5. ASSUME NEW w \in Worker, RedeemCode(w) PROVE Typed'
  <2>1. CASE Finish(w) /\ UNCHANGED origin
    BY <1>4, <1>5, <2>1 DEF RedeemCode, TypeOK
  <2>2. CASE ~ (Finish(w) /\ UNCHANGED origin)
    <3>1. grant[w] \in Code /\ pc[w] = "presented"
      BY <1>5 DEF RedeemCode, InFlight
    <3>2. PICK f \in Family :
            /\ origin' = [origin EXCEPT ![f] = grant[w]]
            /\ family' = [family EXCEPT ![w] = f]
      BY <1>5, <2>2 DEF RedeemCode
    <3>3. QED
      BY <1>5, <2>2, <3>1, <3>2 DEF RedeemCode, TypeOK, InFlight
  <2>3. QED
    BY <2>1, <2>2
<1>6. ASSUME NEW w \in Worker, BeginRevoke(w) PROVE Typed'
  BY <1>6 DEF BeginRevoke, store, Rows, TypeOK, InFlight
<1>7. ASSUME NEW w \in Worker, Revoke(w) PROVE Typed'
  <2>1. tokens' \in [Token -> Row \cup {NoRow}]
    BY <1>7, PurgedIsTyped DEF Revoke
  <2>2. QED
    BY <1>4, <1>7, <2>1 DEF Revoke, TypeOK
<1>8. ASSUME NEW w \in Worker, CountRows(w) PROVE Typed'
  <2>1. CASE Finish(w) /\ UNCHANGED tokens
    BY <1>4, <1>8, <2>1 DEF CountRows, TypeOK
  <2>2. CASE ~ (Finish(w) /\ UNCHANGED tokens)
    BY <1>8, <2>2 DEF CountRows, Refuse, TypeOK, InFlight
  <2>3. QED
    BY <2>1, <2>2
<1>9. ASSUME NEW w \in Worker, StoreToken(w) PROVE Typed'
  <2>1. PICK t \in Token : /\ tokens' = WithSuccessor(w, t)
                           /\ minted' = [minted EXCEPT ![t] = family[w]]
                           /\ new' = [new EXCEPT ![w] = t]
    BY <1>9 DEF StoreToken
  <2>2. family[w] \in Family /\ pc[w] = "counted"
    BY <1>9 DEF StoreToken, InFlight
  <2>3. Successor(w) \in Row
    BY <2>2, SuccessorIsRow
  <2>4. ASSUME NEW s \in Token, Purged(w)[s] # NoRow
        PROVE  [tokens[s] EXCEPT !.consumed = TRUE] \in Row
    <3>1. tokens[s] \in Row
      BY <2>4, PurgedIsTyped DEF TypeOK
    <3>2. QED
      BY <3>1 DEF Row
  <2>5. tokens' \in [Token -> Row \cup {NoRow}]
    BY <2>1, <2>3, <2>4, PurgedIsTyped DEF WithSuccessor
  <2>6. QED
    <3>1. TypeOK'
      BY <1>9, <2>1, <2>2, <2>5 DEF StoreToken, TypeOK
    <3>2. ASSUME NEW v \in Worker PROVE InFlight(v)'
      BY <1>9, <2>1, <2>2 DEF StoreToken, TypeOK, InFlight
    <3>3. QED
      BY <3>1, <3>2
<1>10. ASSUME NEW w \in Worker, Respond(w) PROVE Typed'
  <2>1. held' \subseteq Token
    BY <1>10 DEF Respond, TypeOK, InFlight
  <2>2. QED
    BY <1>4, <1>10, <2>1 DEF Respond, TypeOK
<1>11. ASSUME NEW w \in Worker, Abort(w) PROVE Typed'
  BY <1>4, <1>11 DEF Abort, store, TypeOK
<1>12. ASSUME NEW f \in Family, Expire(f) PROVE Typed'
  BY <1>12 DEF Expire, TypeOK, InFlight
<1>13. CASE Disallow
  BY <1>13 DEF Disallow, TypeOK, InFlight
<1>14. CASE UNCHANGED vars
  BY <1>14 DEF vars, TypeOK, InFlight
<1>15. QED
  BY <1>1, <1>2, <1>3, <1>5, <1>6, <1>7, <1>8, <1>9, <1>10, <1>11, <1>12, <1>13, <1>14
     DEF Next, Exchange

\* Every variable of the token endpoint keeps its type, and a request has the grant
\* and the family its step needs.
THEOREM TypeCorrect == Spec => []TypeOK
<1>1. Typed => TypeOK
  BY DEF Typed
<1>2. QED
  BY <1>1, TypedInit, TypedStep, PTL DEF Spec

-----------------------------------------------------------------------------
\* What a step of one request leaves of the others, of the rows and of history.
SameRequest(v) == /\ pc'[v] = pc[v]
                  /\ grant'[v] = grant[v]
                  /\ family'[v] = family[v]
                  /\ mine'[v] = mine[v]
                  /\ doomed'[v] = doomed[v]

Ended(w) == pc'[w] = "idle" /\ mine'[w] = None /\ doomed'[w] = {}

RowsOnlyGo == \A t \in Token : tokens'[t] = tokens[t] \/ tokens'[t] = NoRow

MarkedStay(w) == \A v \in Worker \ {w} :
                   mine[v] # None => tokens'[mine[v]] = tokens[mine[v]]

HistoryGrows == /\ \A t \in Token : minted[t] # None => minted'[t] = minted[t]
                /\ \A f \in Family : origin[f] # None => origin'[f] = origin[f]

\* What StoreToken makes of the rows when t is the new one.
Stored(w, t) ==
  /\ minted[t] = None
  /\ minted' = [minted EXCEPT ![t] = family[w]]
  /\ tokens'[t] = Successor(w)
  /\ \A s \in Token \ {t} :
       \/ s # mine[w] /\ tokens'[s] = tokens[s] /\ ~ (Expired(s) /\ RowFree(w, s))
       \/ Expired(s) /\ RowFree(w, s) /\ tokens'[s] = NoRow
       \/ /\ s = mine[w]
          /\ tokens'[s] = IF tokens[s] = NoRow THEN NoRow
                          ELSE [tokens[s] EXCEPT !.consumed = TRUE]

Act(w) == PresentToken(w) \/ PresentCode(w) \/ Exchange(w) \/ Abort(w)

LEMMA FinishEnds ==
  ASSUME Typed, NEW w \in Worker, Finish(w)
  PROVE  Ended(w) /\ \A v \in Worker \ {w} : SameRequest(v)
  BY DEF Finish, Goto, Ended, SameRequest, Typed, TypeOK

LEMMA OthersStand ==
  ASSUME Typed, NEW w \in Worker, Act(w), NEW v \in Worker \ {w}
  PROVE  SameRequest(v)
<1> USE DEF Goto, SameRequest, Typed, TypeOK
<1>1. CASE PresentToken(w)
  BY <1>1 DEF PresentToken
<1>2. CASE PresentCode(w)
  BY <1>2 DEF PresentCode
<1>3. CASE Consume(w)
  BY <1>3 DEF Consume
<1>4. CASE RedeemCode(w)
  BY <1>4, FinishEnds DEF RedeemCode
<1>5. CASE BeginRevoke(w)
  BY <1>5 DEF BeginRevoke
<1>6. CASE Revoke(w)
  BY <1>6, FinishEnds DEF Revoke
<1>7. CASE CountRows(w)
  BY <1>7, FinishEnds DEF CountRows
<1>8. CASE StoreToken(w)
  BY <1>8 DEF StoreToken
<1>9. CASE Respond(w)
  BY <1>9, FinishEnds DEF Respond
<1>10. CASE Abort(w)
  BY <1>10, FinishEnds DEF Abort
<1>11. QED
  BY <1>1, <1>2, <1>3, <1>4, <1>5, <1>6, <1>7, <1>8, <1>9, <1>10 DEF Act, Exchange

\* Only StoreToken adds a row; no step takes a row that another request has marked.
LEMMA RowsGo ==
  ASSUME Typed, NEW w \in Worker, Act(w), ~ StoreToken(w)
  PROVE  RowsOnlyGo /\ MarkedStay(w) /\ minted' = minted
<1>1. CASE tokens' = tokens
  BY <1>1 DEF RowsOnlyGo, MarkedStay, Act, Exchange, PresentToken, PresentCode, Consume,
              RedeemCode, BeginRevoke, Revoke, CountRows, Respond, Abort, store
<1>2. \A v \in Worker \ {w} : mine[v] # None => mine[v] \in Token /\ ~ RowFree(w, mine[v])
  BY DEF Typed, TypeOK, RowFree
<1>3. CASE PresentToken(w)
  BY <1>2, <1>3, PurgedIsTyped DEF PresentToken, RowsOnlyGo, MarkedStay, Typed
<1>4. CASE Revoke(w)
  <2>1. \A t \in Token : /\ tokens'[t] = tokens[t] \/ tokens'[t] = NoRow
                         /\ ~ RowFree(w, t) => tokens'[t] = tokens[t]
    BY <1>4, PurgedIsTyped DEF Revoke, Typed
  <2>2. QED
    BY <1>2, <1>4, <2>1 DEF Revoke, RowsOnlyGo, MarkedStay
<1>5. CASE ~ PresentToken(w) /\ ~ Revoke(w)
  BY <1>1, <1>5 DEF Act, Exchange, PresentCode, Consume, RedeemCode, BeginRevoke, CountRows,
                    Refuse, Respond, Abort, store
<1>6. QED
  BY <1>3, <1>4, <1>5

LEMMA StoreTokenRows ==
  ASSUME Typed, NEW w \in Worker, StoreToken(w)
  PROVE  \E t \in Token : Stored(w, t)
<1>1. PICK t \in Token : /\ minted[t] = None
                         /\ tokens' = WithSuccessor(w, t)
                         /\ minted' = [minted EXCEPT ![t] = family[w]]
  BY DEF StoreToken
<1>2. tokens'[t] = Successor(w)
  BY <1>1 DEF WithSuccessor
<1>3. ASSUME NEW s \in Token \ {t}
      PROVE  \/ s # mine[w] /\ tokens'[s] = tokens[s] /\ ~ (Expired(s) /\ RowFree(w, s))
             \/ Expired(s) /\ RowFree(w, s) /\ tokens'[s] = NoRow
             \/ /\ s = mine[w]
                /\ tokens'[s] = IF tokens[s] = NoRow THEN NoRow
                                ELSE [tokens[s] EXCEPT !.consumed = TRUE]
  BY <1>1, PurgedIsTyped DEF WithSuccessor, Typed
<1>4. QED
  BY <1>1, <1>2, <1>3 DEF Stored

\* Codes and tokens keep the family history gave them.
LEMMA HistoryStands ==
  ASSUME Typed, NEW w \in Worker, Act(w)
  PROVE  HistoryGrows
<1>1. CASE StoreToken(w)
  BY <1>1 DEF StoreToken, HistoryGrows, Typed, TypeOK
<1>2. CASE RedeemCode(w)
  BY <1>2 DEF RedeemCode, HistoryGrows, Typed, TypeOK
<1>3. CASE ~ StoreToken(w) /\ ~ RedeemCode(w)
  BY <1>3 DEF HistoryGrows, Act, Exchange, PresentToken, PresentCode, Consume,
              BeginRevoke, Revoke, CountRows, Respond, Abort, store
<1>4. QED
  BY <1>1, <1>2, <1>3

-----------------------------------------------------------------------------
\* Rows that stay keep their kin as history grows.
LEMMA RowKinStays ==
  ASSUME Typed, Kin, HistoryGrows, RowsOnlyGo
  PROVE  \A t \in Token : RowKin(t)'
<1>1. ASSUME NEW t \in Token, Present(t)' PROVE RowKin(t)'
  <2>1. tokens'[t] = tokens[t] /\ Present(t) /\ tokens[t] \in Row
    BY <1>1 DEF RowsOnlyGo, Present, Typed, TypeOK
  <2>2. /\ minted[t] = tokens[t].family
        /\ tokens[t].family \in Family
        /\ tokens[t].from \in Token => minted[tokens[t].from] = tokens[t].family
        /\ tokens[t].from \in Code => origin[tokens[t].family] = tokens[t].from
    BY <2>1 DEF Kin, RowKin, Row
  <2>3. QED
    BY <2>1, <2>2, TokenAssumption DEF RowKin, HistoryGrows
<1>2. QED
  BY <1>1 DEF RowKin

LEMMA RequestKinStays ==
  ASSUME Typed, Kin, HistoryGrows, NEW v \in Worker, SameRequest(v) \/ Ended(v)
  PROVE  RequestKin(v)'
<1>1. CASE Ended(v)
  BY <1>1 DEF Ended, RequestKin
<1>2. CASE SameRequest(v)
  <2>1. pc[v] \notin {"idle", "presented"} => family[v] \in Family
    BY DEF Typed, InFlight
  <2>2. RequestKin(v) /\ (doomed[v] # {} => family[v] \in Family)
    BY <2>1 DEF Kin, Typed, InFlight
  <2>3. doomed[v] \subseteq Token
    BY DEF Typed, TypeOK
  <2>4. QED
    BY <1>2, <2>1, <2>2, <2>3, TokenAssumption DEF SameRequest, RequestKin, HistoryGrows
<1>3. QED
  BY <1>1, <1>2

LEMMA KinInit == Init => Kin
  BY TokenAssumption DEF Init, Kin, RowKin, Present, FamilyKin, RequestKin, CodesRedeemOnce

LEMMA KinByAct ==
  ASSUME Typed, Kin, NEW w \in Worker, Act(w)
  PROVE  Kin'
<1> USE DEF Goto
<1>1. HistoryGrows /\ \A v \in Worker \ {w} : RequestKin(v)'
  BY HistoryStands, OthersStand, RequestKinStays
<1>2. ASSUME ~ StoreToken(w) PROVE \A t \in Token : RowKin(t)'
  BY <1>1, <1>2, RowsGo, RowKinStays
<1>3. ASSUME UNCHANGED <<codes, expired, origin, minted>> PROVE FamilyKin'
  BY <1>3 DEF Kin, FamilyKin, CodesRedeemOnce
<1>4. ASSUME ~ StoreToken(w), FamilyKin', RequestKin(w)' PROVE Kin'
  BY <1>1, <1>2, <1>4 DEF Kin
<1>5. CASE PresentToken(w)
  <2>1. PICK t \in held :
          \/ /\ tokens'[t] # NoRow
             /\ grant' = [grant EXCEPT ![w] = t]
             /\ family' = [family EXCEPT ![w] = tokens[t].family]
             /\ pc' = [pc EXCEPT ![w] = "authenticated"]
          \/ UNCHANGED <<grant, family, pc>>
    BY <1>5 DEF PresentToken
  <2>2. pc[w] = "idle" /\ t \in Token
    BY <1>5 DEF PresentToken, MayBegin, Typed, TypeOK
  <2>3. tokens'[t] # NoRow => Present(t) /\ tokens[t].family \in Family
    BY <1>5, <2>2, PurgedIsTyped DEF PresentToken, Present, Typed, TypeOK, Row
  <2>4. tokens'[t] # NoRow => /\ minted[t] = tokens[t].family
                              /\ minted[t] # None
                              /\ origin[minted[t]] # None
    BY <2>2, <2>3, TokenAssumption DEF Kin, RowKin, FamilyKin
  <2>5. doomed[w] = {} /\ doomed' = doomed /\ minted' = minted /\ origin' = origin
    BY <1>5, <2>2 DEF PresentToken, Typed, InFlight
  <2>6. RequestKin(w)'
    BY <2>1, <2>2, <2>4, <2>5, TokenAssumption DEF RequestKin, Typed, TypeOK
  <2>7. QED
    BY <1>3, <1>4, <1>5, <2>2, <2>6 DEF PresentToken, StoreToken
<1>6. CASE PresentCode(w)
  <2>1. pc'[w] = "presented" /\ doomed'[w] = {} /\ ~ StoreToken(w)
    BY <1>6 DEF PresentCode, MayBegin, StoreToken, Typed, TypeOK, InFlight
  <2>2. QED
    BY <1>3, <1>4, <1>6, <2>1 DEF PresentCode, RequestKin
<1>7. CASE Consume(w)
  <2>1. pc[w] = "authenticated" /\ pc'[w] \in {"consumed", "replayed"}
    BY <1>7 DEF Consume, Typed, TypeOK
  <2>2. QED
    BY <1>3, <1>4, <1>7, <2>1 DEF Consume, StoreToken, RequestKin, Kin
<1>8. CASE RedeemCode(w)
  <2>1. ~ StoreToken(w) /\ pc[w] = "presented" /\ grant[w] \in Code
    BY <1>8 DEF RedeemCode, StoreToken, Typed, InFlight
  <2>2. CASE Finish(w) /\ UNCHANGED origin
    <3>1. RequestKin(w)'
      BY <1>1, <2>2, FinishEnds, RequestKinStays
    <3>2. FamilyKin'
      BY <1>8, <2>2 DEF RedeemCode, Kin, FamilyKin, CodesRedeemOnce
    <3>3. QED
      BY <1>4, <2>1, <3>1, <3>2
  <2>3. CASE ~ (Finish(w) /\ UNCHANGED origin)
    <3>1. PICK f \in Family :
            /\ origin[f] = None
            /\ origin' = [origin EXCEPT ![f] = grant[w]]
            /\ family' = [family EXCEPT ![w] = f]
      BY <1>8, <2>3 DEF RedeemCode
    <3>2. /\ grant[w] \in codes
          /\ codes' = codes \ {grant[w]}
          /\ pc'[w] = "consumed"
          /\ UNCHANGED <<grant, doomed, minted, expired>>
      BY <1>8, <2>3 DEF RedeemCode, Pop, Typed, TypeOK
    <3>3. origin'[f] = grant[w] /\ family'[w] = f /\ \A g \in Family \ {f} : origin'[g] = origin[g]
      BY <3>1 DEF Typed, TypeOK
    <3>4. FamilyKin'
      <4>1. \A g \in Family : origin[g] # grant[w]
        BY <3>2 DEF Kin, FamilyKin
      <4>2. CodesRedeemOnce'
        BY <3>3, <4>1 DEF Kin, FamilyKin, CodesRedeemOnce
      <4>3. \A t \in Token : minted[t] # None => minted[t] \in Family /\ origin'[minted[t]] # None
        BY <2>1, <3>3, TokenAssumption DEF Kin, FamilyKin, Typed, TypeOK
      <4>4. \A g \in Family : origin'[g] \notin codes'
        BY <3>2, <3>3 DEF Kin, FamilyKin
      <4>5. QED
        BY <3>2, <4>2, <4>3, <4>4 DEF Kin, FamilyKin
    <3>5. RequestKin(w)'
      <4>1. doomed[w] = {}
        BY <2>1 DEF Typed, InFlight
      <4>2. QED
        BY <2>1, <3>2, <3>3, <4>1, TokenAssumption DEF RequestKin
    <3>6. QED
      BY <1>4, <2>1, <3>4, <3>5
  <2>4. QED
    BY <2>2, <2>3
<1>9. CASE BeginRevoke(w)
  <2>1. /\ pc[w] \in {"replayed", "consumed"}
        /\ pc'[w] = "revoking"
        /\ doomed'[w] = Rows(family[w])
    BY <1>9 DEF BeginRevoke, Typed, TypeOK
  <2>2. \A t \in Rows(family[w]) : minted[t] = family[w]
    BY DEF Rows, Kin, RowKin
  <2>3. QED
    BY <1>3, <1>4, <1>9, <2>1, <2>2 DEF BeginRevoke, store, StoreToken, RequestKin, Kin
<1>10. CASE Revoke(w)
  <2>1. RequestKin(w)'
    BY <1>1, <1>10, FinishEnds, RequestKinStays DEF Revoke
  <2>2. QED
    BY <1>3, <1>4, <1>10, <2>1 DEF Revoke, StoreToken
<1>11. CASE CountRows(w)
  <2>1. CASE Finish(w)
    <3>1. RequestKin(w)'
      BY <1>1, <2>1, FinishEnds, RequestKinStays
    <3>2. QED
      BY <1>3, <1>4, <1>11, <3>1 DEF CountRows, StoreToken
  <2>2. CASE ~ Finish(w)
    <3>1. pc[w] = "consumed" /\ pc'[w] = "counted" /\ UNCHANGED <<grant, family, doomed, minted, origin>>
      BY <1>11, <2>2 DEF CountRows, Typed, TypeOK
    <3>2. QED
      BY <1>3, <1>4, <1>11, <3>1 DEF CountRows, StoreToken, RequestKin, Kin
  <2>3. QED
    BY <2>1, <2>2
<1>12. CASE StoreToken(w)
  <2>1. PICK t \in Token : Stored(w, t)
    BY <1>12, StoreTokenRows
  <2> USE <2>1 DEF Stored
  <2>2. /\ pc[w] = "counted" /\ pc'[w] = "stored"
        /\ family[w] \in Family /\ grant[w] \in Token \cup Code
        /\ grant[w] \in Token => minted[grant[w]] = family[w]
        /\ grant[w] \in Code => origin[family[w]] = grant[w]
        /\ origin[family[w]] # None
        /\ UNCHANGED <<codes, expired, origin, grant, family, doomed>>
    BY <1>12 DEF StoreToken, Typed, TypeOK, InFlight, Kin, RequestKin
  <2>3. minted'[t] = family[w] /\ \A s \in Token \ {t} : minted'[s] = minted[s]
    BY <2>1 DEF Typed, TypeOK
  <2>4. ASSUME NEW s \in Token \ {t}, Present(s)'
        PROVE  /\ Present(s) /\ tokens[s] \in Row
               /\ tokens'[s].family = tokens[s].family
               /\ tokens'[s].from = tokens[s].from
    <3>1. Present(s)
      BY <2>1, <2>4 DEF Present
    <3>2. tokens[s] \in Row
      BY <3>1 DEF Present, Typed, TypeOK
    <3>3. \/ tokens'[s] = tokens[s]
          \/ tokens'[s] = [tokens[s] EXCEPT !.consumed = TRUE]
      BY <2>1, <2>4 DEF Present
    <3>4. QED
      BY <3>1, <3>2, <3>3 DEF Row
  <2>5. ASSUME NEW s \in Token \ {t} PROVE RowKin(s)'
    <3>1. ASSUME Present(s)'
          PROVE  /\ minted'[s] = tokens'[s].family
                 /\ tokens'[s].from \in Token => minted'[tokens'[s].from] = tokens'[s].family
                 /\ tokens'[s].from \in Code => origin'[tokens'[s].family] = tokens'[s].from
      <4>1. /\ Present(s) /\ tokens[s].family \in Family
            /\ tokens'[s].family = tokens[s].family
            /\ tokens'[s].from = tokens[s].from
        BY <2>4, <3>1 DEF Row
      <4>2. RowKin(s)
        BY DEF Kin
      <4>3. tokens[s].from # t
        BY <2>1, <4>1, <4>2, TokenAssumption DEF RowKin
      <4>4. QED
        BY <2>2, <2>3, <4>1, <4>2, <4>3 DEF RowKin
    <3>2. QED
      BY <3>1 DEF RowKin
  <2>6. RowKin(t)'
    <3>1. tokens'[t].family = family[w] /\ tokens'[t].from = grant[w]
      BY <2>1 DEF Successor
    <3>2. grant[w] \in Token => grant[w] # t
      BY <2>1, <2>2, TokenAssumption
    <3>3. QED
      BY <2>2, <2>3, <3>1, <3>2 DEF RowKin
  <2>7. FamilyKin'
    <3>1. \A s \in Token : minted'[s] # None => origin'[minted'[s]] # None
      BY <2>2, <2>3 DEF Kin, FamilyKin
    <3>2. \A f \in expired : \E s \in Token \ {t} : minted'[s] = f
      BY <2>1, <2>3, TokenAssumption DEF Kin, FamilyKin, Typed, TypeOK
    <3>3. QED
      BY <2>2, <3>1, <3>2 DEF Kin, FamilyKin, CodesRedeemOnce
  <2>8. RequestKin(w)'
    BY <1>1, <2>2, TokenAssumption DEF RequestKin, HistoryGrows, Kin, Typed, InFlight
  <2>9. QED
    BY <1>1, <2>5, <2>6, <2>7, <2>8 DEF Kin
<1>13. CASE Respond(w)
  <2>1. RequestKin(w)'
    BY <1>1, <1>13, FinishEnds, RequestKinStays DEF Respond
  <2>2. QED
    BY <1>3, <1>4, <1>13, <2>1 DEF Respond, StoreToken
<1>14. CASE Abort(w) /\ ~ StoreToken(w)
  <2>1. RequestKin(w)'
    BY <1>1, <1>14, FinishEnds, RequestKinStays DEF Abort
  <2>2. QED
    BY <1>3, <1>4, <1>14, <2>1 DEF Abort, store
<1>15. QED
  BY <1>5, <1>6, <1>7, <1>8, <1>9, <1>10, <1>11, <1>12, <1>13, <1>14 DEF Act, Exchange

LEMMA KinStep == Typed /\ Kin /\ [Next]_vars => Kin'
<1> SUFFICES ASSUME Typed, Kin, [Next]_vars PROVE Kin'
  OBVIOUS
<1>1. ASSUME NEW f \in Family, Expire(f) PROVE Kin'
  <2>1. PICK t \in Token : Present(t) /\ tokens[t].family = f
    BY <1>1 DEF Expire
  <2>2. minted[t] = f
    BY <2>1 DEF Kin, RowKin
  <2>3. /\ expired' = expired \cup {f}
        /\ UNCHANGED <<tokens, codes, origin, minted, pc, grant, family, doomed>>
    BY <1>1 DEF Expire
  <2>4. QED
    BY <2>2, <2>3 DEF Kin, RowKin, Present, FamilyKin, RequestKin, CodesRedeemOnce
<1>2. CASE Disallow \/ UNCHANGED vars
  BY <1>2 DEF Disallow, vars, Kin, RowKin, Present, FamilyKin, RequestKin, CodesRedeemOnce
<1>3. QED
  BY <1>1, <1>2, KinByAct DEF Next, Act

\* However exchanges interleave, no two families come of one code.
THEOREM CodesRedeemedOnce == Spec => []CodesRedeemOnce
<1>1. Kin => CodesRedeemOnce
  BY DEF Kin, FamilyKin
<1>2. QED
  BY <1>1, TypedInit, TypedStep, KinInit, KinStep, PTL DEF Spec

-----------------------------------------------------------------------------
LEMMA LocksInit == Init => Locks
  BY DEF Init, Locks, Alone, Marked, OneLiveToken, Rows, Present, Holding

\* Fewer rows, no more live tokens.
LEMMA OneLiveStays ==
  ASSUME OneLiveToken, RowsOnlyGo PROVE OneLiveToken'
  BY DEF OneLiveToken, RowsOnlyGo, Rows, Present

\* A request that keeps its place keeps its family to itself and its row marked, if
\* nobody joins the family or marks the row.
LEMMA AloneStays ==
  ASSUME Typed, Kin, NEW w \in Worker, Act(w), NEW v \in Worker \ {w}, Alone(v), Alone(w)
  PROVE  Alone(v)'
<1> SUFFICES ASSUME pc[v] \in Holding, grant[v] \in Code PROVE Alone(v)'
  BY OthersStand DEF Alone, SameRequest
<1>1. /\ \A t \in Token : minted[t] # family[v]
      /\ \A u \in Worker \ {v} : pc[u] \notin {"idle", "presented"} => family[u] # family[v]
      /\ family[v] \in Family
      /\ origin[family[v]] # None
      /\ \A u \in Worker \ {w} : SameRequest(u)
  BY OthersStand DEF Alone, Holding, Typed, InFlight, Kin, RequestKin
<1>2. \A t \in Token : minted'[t] # family[v]
  <2>1. CASE StoreToken(w)
    <3>1. family[w] # family[v]
      BY <1>1, <2>1 DEF StoreToken
    <3>2. QED
      BY <1>1, <2>1, <3>1 DEF StoreToken, Typed, TypeOK
  <2>2. QED
    BY <1>1, <2>1, RowsGo
<1>3. pc'[w] \notin {"idle", "presented"} => family'[w] # family[v]
  <2>1. CASE PresentToken(w)
    <3>1. PICK t \in held :
            \/ /\ tokens'[t] # NoRow
               /\ family' = [family EXCEPT ![w] = tokens[t].family]
               /\ Goto(w, "authenticated")
            \/ UNCHANGED <<family, pc>>
      BY <2>1 DEF PresentToken
    <3>2. tokens'[t] # NoRow => tokens[t].family # family[v]
      BY <1>1, <2>1, PurgedIsTyped DEF PresentToken, Present, Typed, TypeOK, Kin, RowKin
    <3>3. QED
      BY <1>1, <3>1, <3>2, <2>1 DEF PresentToken, MayBegin, Goto, Typed, TypeOK
  <2>2. CASE RedeemCode(w)
    BY <1>1, <2>2, FinishEnds DEF RedeemCode, Ended, Typed, TypeOK
  <2>3. CASE ~ PresentToken(w) /\ ~ RedeemCode(w)
    <3>1. CASE Finish(w)
      BY <3>1, FinishEnds DEF Ended
    <3>2. CASE ~ Finish(w)
      BY <1>1, <2>3, <3>2 DEF Act, Exchange, PresentCode, Consume, BeginRevoke, Revoke, CountRows,
                    StoreToken, Respond, Abort, Goto, Typed, TypeOK
    <3>3. QED
      BY <3>1, <3>2
  <2>4. QED
    BY <2>1, <2>2, <2>3
<1>4. QED
  BY <1>1, <1>2, <1>3 DEF Alone, SameRequest

LEMMA MarkedStays ==
  ASSUME Typed, Kin, Locks, NEW w \in Worker, Act(w), NEW v \in Worker \ {w},
         mine'[w] = None \/ mine'[w] = mine[w] \/ \A u \in Worker : mine[u] # mine'[w]
  PROVE  Marked(v)'
<1> SUFFICES ASSUME mine[v] # None PROVE Marked(v)'
  BY OthersStand DEF Marked, SameRequest
<1>1. /\ mine[v] \in Token
      /\ Present(mine[v]) /\ ~ tokens[mine[v]].consumed
      /\ \A u \in Worker : mine[u] = mine[v] => u = v
      /\ \A u \in Worker \ {w} : SameRequest(u)
  BY OthersStand DEF Typed, TypeOK, Locks, Marked
<1>2. tokens'[mine[v]] = tokens[mine[v]]
  <2>1. CASE StoreToken(w)
    <3>1. PICK t \in Token : Stored(w, t)
      BY <2>1, StoreTokenRows
    <3> USE <3>1 DEF Stored
    <3>2. minted[mine[v]] # None
      BY <1>1, TokenAssumption DEF Kin, RowKin, Row, Present, Typed, TypeOK
    <3>3. mine[v] # mine[w] /\ ~ RowFree(w, mine[v])
      BY <1>1 DEF RowFree
    <3>4. QED
      BY <1>1, <3>1, <3>2, <3>3
  <2>2. CASE ~ StoreToken(w)
    BY <2>2, RowsGo DEF MarkedStay
  <2>3. QED
    BY <2>1, <2>2
<1>3. mine'[w] # mine[v]
  BY <1>1
<1>4. QED
  BY <1>1, <1>2, <1>3 DEF Marked, Present, SameRequest

LEMMA LocksByAct ==
  ASSUME Typed, Kin, Locks, NEW w \in Worker, Act(w)
  PROVE  Locks'
<1> USE DEF Goto
<1>1. \A v \in Worker \ {w} : Alone(v)'
  BY AloneStays DEF Locks
<1>2. ASSUME mine'[w] = None \/ mine'[w] = mine[w] \/ \A u \in Worker : mine[u] # mine'[w],
             ~ StoreToken(w), Alone(w)', Marked(w)'
      PROVE  Locks'
  BY <1>1, <1>2, MarkedStays, RowsGo, OneLiveStays DEF Locks
<1>3. ASSUME Finish(w), ~ StoreToken(w) PROVE Locks'
  BY <1>2, <1>3, FinishEnds DEF Ended, Alone, Marked, Holding
<1>4. ASSUME pc'[w] \notin Holding, mine'[w] = None, ~ StoreToken(w) PROVE Locks'
  BY <1>2, <1>4 DEF Alone, Marked
<1>5. CASE PresentToken(w) \/ PresentCode(w)
  <2>1. pc[w] = "idle" /\ mine[w] = None /\ mine'[w] = None
    BY <1>5 DEF PresentToken, PresentCode, MayBegin, Typed, InFlight, Holding
  <2>2. pc'[w] \notin Holding
    BY <1>5, <2>1 DEF PresentToken, PresentCode, Typed, TypeOK, Holding
  <2>3. QED
    BY <1>4, <2>1, <2>2 DEF StoreToken
<1>6. CASE Consume(w)
  <2>1. pc[w] = "authenticated" /\ mine[w] = None /\ grant[w] \in Token /\ ~ StoreToken(w)
    BY <1>6 DEF Consume, StoreToken, Typed, InFlight, Holding
  <2>2. CASE pc'[w] = "replayed"
    BY <1>4, <1>6, <2>1, <2>2 DEF Consume, Holding, Typed, TypeOK
  <2>3. CASE pc'[w] # "replayed"
    <3>1. /\ Redeemable(grant[w])
          /\ mine' = [mine EXCEPT ![w] = grant[w]]
          /\ RowFree(w, grant[w])
          /\ UNCHANGED <<tokens, grant>>
      BY <1>6, <2>3 DEF Consume, Typed, TypeOK
    <3>2. mine'[w] = grant[w] /\ \A v \in Worker \ {w} : mine'[v] = mine[v] /\ mine[v] # grant[w]
      BY <3>1 DEF RowFree, Typed, TypeOK
    <3>3. \A v \in Worker : mine[v] # mine'[w]
      BY <2>1, <3>2, TokenAssumption
    <3>4. Marked(w)'
      BY <3>1, <3>2 DEF Marked, Redeemable, Present
    <3>5. Alone(w)'
      BY <2>1, <3>1, TokenAssumption DEF Alone
    <3>6. QED
      BY <1>2, <2>1, <3>3, <3>4, <3>5
  <2>4. QED
    BY <2>2, <2>3
<1>7. CASE RedeemCode(w)
  <2>1. ~ StoreToken(w) /\ mine[w] = None
    BY <1>7 DEF RedeemCode, StoreToken, Typed, InFlight, Holding
  <2>2. CASE Finish(w)
    BY <1>3, <2>1, <2>2
  <2>3. CASE ~ Finish(w)
    <3>1. PICK f \in Family :
            /\ origin[f] = None
            /\ family' = [family EXCEPT ![w] = f]
            /\ UNCHANGED <<minted, mine>>
      BY <1>7, <2>3 DEF RedeemCode
    <3>2. \A t \in Token : minted[t] # f
      BY <3>1, TokenAssumption DEF Kin, FamilyKin
    <3>3. \A v \in Worker \ {w} : pc'[v] \notin {"idle", "presented"} => family'[v] # f
      BY <3>1, OthersStand DEF SameRequest, Kin, RequestKin
    <3>4. family'[w] = f
      BY <3>1 DEF Typed, TypeOK
    <3>5. Alone(w)' /\ Marked(w)'
      BY <2>1, <3>1, <3>2, <3>3, <3>4 DEF Alone, Marked
    <3>6. QED
      BY <1>2, <2>1, <3>1, <3>5
  <2>4. QED
    BY <2>2, <2>3
<1>8. ASSUME pc[w] \in {"replayed", "consumed"}, pc'[w] \in Holding, ~ StoreToken(w),
             UNCHANGED <<tokens, minted, grant, family, mine>>
      PROVE  Locks'
  <2>1. Marked(w)'
    BY <1>8 DEF Locks, Marked, Present
  <2>2. Alone(w)'
    <3>1. ASSUME grant[w] \in Code PROVE pc[w] \in Holding /\ Alone(w)
      BY <1>8, <3>1, TokenAssumption DEF Holding, Locks, Typed, InFlight
    <3>2. QED
      BY <1>8, <3>1, OthersStand DEF Alone, SameRequest
  <2>3. QED
    BY <1>2, <1>8, <2>1, <2>2
<1>9. CASE BeginRevoke(w)
  BY <1>8, <1>9 DEF BeginRevoke, store, StoreToken, Holding, Typed, TypeOK
<1>10. CASE CountRows(w)
  <2>1. CASE Finish(w)
    BY <1>3, <1>10, <2>1 DEF CountRows, StoreToken
  <2>2. CASE ~ Finish(w)
    BY <1>8, <1>10, <2>2 DEF CountRows, StoreToken, Holding, Typed, TypeOK
  <2>3. QED
    BY <2>1, <2>2
<1>11. CASE Revoke(w) \/ Respond(w) \/ (Abort(w) /\ ~ StoreToken(w))
  BY <1>3, <1>11 DEF Revoke, Respond, Abort, StoreToken
<1>12. CASE StoreToken(w)
  <2>1. PICK t \in Token : Stored(w, t)
    BY <1>12, StoreTokenRows
  <2> USE <2>1 DEF Stored
  <2>2. pc[w] = "counted" /\ pc'[w] = "stored" /\ mine'[w] = None
    BY <1>12 DEF StoreToken, Typed, TypeOK
  <2>3. ASSUME NEW s \in Token \ {t}, Present(s)', ~ tokens'[s].consumed
        PROVE  Present(s) /\ s # mine[w] /\ tokens'[s] = tokens[s]
    <3>1. CASE s = mine[w]
      <4>1. tokens[s] \in Row /\ tokens'[s] = [tokens[s] EXCEPT !.consumed = TRUE]
        <5>1. tokens'[s] = [tokens[s] EXCEPT !.consumed = TRUE] /\ tokens[s] # NoRow
          BY <2>3, <3>1 DEF Present
        <5>2. QED
          BY <5>1 DEF Typed, TypeOK
      <4>2. QED
        BY <2>3, <4>1 DEF Row
    <3>2. QED
      BY <2>1, <2>3, <3>1 DEF Present
  <2>4. ASSUME NEW s \in Token \ {t}, Present(s)', ~ tokens'[s].consumed
        PROVE  tokens'[s].family # family[w]
    <3>1. Present(s) /\ s # mine[w] /\ tokens'[s] = tokens[s]
      BY <2>3, <2>4
    <3>2. CASE grant[w] \in Token
      <4>1. /\ mine[w] = grant[w] /\ Present(mine[w]) /\ ~ tokens[mine[w]].consumed
            /\ tokens[mine[w]].family = family[w]
        BY <2>2, <3>2, TokenAssumption DEF Typed, InFlight, Locks, Marked, Kin, RequestKin, RowKin
      <4>2. family[w] \in Family
        BY <2>2 DEF Typed, InFlight
      <4>3. QED
        BY <2>4, <3>1, <3>2, <4>1, <4>2 DEF Locks, OneLiveToken, Rows
    <3>3. CASE grant[w] \in Code
      <4>1. minted[s] # family[w]
        BY <2>2, <3>3 DEF Locks, Alone, Holding
      <4>2. QED
        BY <3>1, <4>1 DEF Kin, RowKin
    <3>4. QED
      BY <2>2, <3>2, <3>3 DEF Typed, InFlight
  <2>5. OneLiveToken'
    <3>1. tokens'[t].family = family[w]
      BY <2>1 DEF Successor
    <3>2. ASSUME NEW f \in Family, NEW r \in Rows(f)', NEW s \in Rows(f)',
                 ~ tokens'[r].consumed, ~ tokens'[s].consumed
          PROVE  r = s
      <4>1. CASE r = t \/ s = t
        BY <2>4, <3>1, <3>2, <4>1 DEF Rows
      <4>2. CASE r # t /\ s # t
        <5>1. r \in Rows(f) /\ s \in Rows(f) /\ ~ tokens[r].consumed /\ ~ tokens[s].consumed
          BY <2>3, <3>2, <4>2 DEF Rows
        <5>2. QED
          BY <5>1 DEF Locks, OneLiveToken
      <4>3. QED
        BY <4>1, <4>2
    <3>3. QED
      BY <3>2 DEF OneLiveToken
  <2>6. QED
    BY <1>1, <2>2, <2>5, MarkedStays DEF Locks, Alone, Marked, Holding
<1>13. QED
  BY <1>5, <1>6, <1>7, <1>9, <1>10, <1>11, <1>12 DEF Act, Exchange

LEMMA LocksStep == Typed /\ Kin /\ Locks /\ [Next]_vars => Locks'
<1> SUFFICES ASSUME Typed, Kin, Locks, [Next]_vars PROVE Locks'
  OBVIOUS
<1>1. ASSUME UNCHANGED <<tokens, minted, pc, grant, family, mine>> PROVE Locks'
  BY <1>1 DEF Locks, Alone, Marked, OneLiveToken, Rows, Present
<1>2. CASE (\E f \in Family : Expire(f)) \/ Disallow \/ UNCHANGED vars
  BY <1>1, <1>2 DEF Expire, Disallow, vars
<1>3. QED
  BY <1>2, LocksByAct DEF Next, Act

\* However exchanges interleave, a family has one token left to redeem at most.
THEOREM OneTokenLives == Spec => []OneLiveToken
<1>1. Locks => OneLiveToken
  BY DEF Locks
<1>2. QED
  BY <1>1, TypedInit, TypedStep, KinInit, KinStep, LocksInit, LocksStep, PTL DEF Spec

-----------------------------------------------------------------------------
LEMMA SuccessorsInit == Init => Successors
  BY DEF Init, Successors, Closed, Replayed, ConsumedHasSuccessor, Present

\* A consumed row is expired with its replacement, and nobody has it marked.
LEMMA PurgedTogether ==
  ASSUME Typed, Kin, Locks, NEW w \in Worker, NEW s \in Token, NEW t \in Token,
         Present(s), Present(t), tokens[s].from = t, tokens[t].consumed, Expired(s)
  PROVE  Expired(t) /\ RowFree(w, t)
<1>1. tokens[s].family = tokens[t].family
  BY DEF Kin, RowKin
<1>2. \A v \in Worker : mine[v] # t
  BY TokenAssumption DEF Locks, Marked
<1>3. QED
  BY <1>1, <1>2 DEF Expired, RowFree

\* A new token is nobody's predecessor, has no row and is in no request's hands.
LEMMA FreshToken ==
  ASSUME Typed, Kin, NEW t \in Token, minted[t] = None
  PROVE  /\ ~ Present(t)
         /\ \A s \in Token : Present(s) => tokens[s].from # t
         /\ \A v \in Worker : t \notin doomed[v]
         /\ \A v \in Worker : pc[v] \notin {"idle", "presented"} => grant[v] # t
<1>1. \A s \in Token : Present(s) => tokens[s].family \in Family
  BY DEF Typed, TypeOK, Present, Row
<1>2. ~ Present(t) /\ \A s \in Token : Present(s) => tokens[s].from # t
  BY <1>1, TokenAssumption DEF Kin, RowKin
<1>3. \A v \in Worker : pc[v] \notin {"idle", "presented"} => family[v] \in Family
  BY DEF Typed, InFlight
<1>4. \A v \in Worker : t \notin doomed[v]
  BY <1>3, TokenAssumption DEF Kin, RequestKin, Typed, InFlight
<1>5. \A v \in Worker : pc[v] \notin {"idle", "presented"} => grant[v] # t
  BY <1>3, TokenAssumption DEF Kin, RequestKin
<1>6. QED
  BY <1>2, <1>4, <1>5

LEMMA SuccessorStays ==
  ASSUME Typed, Kin, Locks, Successors, NEW w \in Worker, Act(w)
  PROVE  ConsumedHasSuccessor'
<1> SUFFICES ASSUME NEW t \in Token, Present(t)', tokens'[t].consumed
             PROVE  \E s \in Token : Present(s)' /\ tokens'[s].from = t
  BY DEF ConsumedHasSuccessor
<1>1. ASSUME tokens'[t] = tokens[t]
      PROVE  \E s \in Token : /\ Present(s) /\ tokens[s].from = t
                              /\ Present(t) /\ tokens[t].consumed
  BY <1>1 DEF Successors, ConsumedHasSuccessor, Present
<1>2. CASE PresentToken(w)
  <2>1. tokens'[t] = tokens[t] /\ ~ (Expired(t) /\ RowFree(w, t))
    BY <1>2, PurgedIsTyped DEF PresentToken, Present, Typed
  <2>2. PICK s \in Token : Present(s) /\ tokens[s].from = t /\ Present(t) /\ tokens[t].consumed
    BY <1>1, <2>1
  <2>3. tokens'[s] = tokens[s]
    BY <1>2, <2>1, <2>2, PurgedTogether, PurgedIsTyped DEF PresentToken, Typed
  <2>4. QED
    BY <2>2, <2>3 DEF Present
<1>3. CASE Revoke(w)
  <2>1. tokens'[t] = tokens[t] /\ ~ (Expired(t) /\ RowFree(w, t)) /\ t \notin doomed[w]
    BY <1>3, PurgedIsTyped DEF Revoke, Present, Typed
  <2>2. PICK s \in Token : Present(s) /\ tokens[s].from = t /\ Present(t) /\ tokens[t].consumed
    BY <1>1, <2>1
  <2>3. s \notin doomed[w]
    BY <2>1, <2>2 DEF Successors, Closed
  <2>4. ~ (Expired(s) /\ RowFree(w, s))
    BY <2>1, <2>2, PurgedTogether
  <2>5. tokens'[s] = tokens[s]
    BY <1>3, <2>3, <2>4, PurgedIsTyped DEF Revoke, Typed
  <2>6. QED
    BY <2>2, <2>5 DEF Present
<1>4. CASE StoreToken(w)
  <2>1. PICK n \in Token : Stored(w, n)
    BY <1>4, StoreTokenRows
  <2>2. tokens'[n] = Successor(w) /\ tokens'[n].consumed = FALSE /\ tokens'[n].from = grant[w]
    BY <2>1 DEF Stored, Successor
  <2>3. Present(n)'
    <3>1. Successor(w) \in Row
      BY <1>4, SuccessorIsRow DEF StoreToken
    <3>2. QED
      BY <2>2, <3>1, TokenAssumption DEF Present
  <2>4. CASE t = mine[w]
    <3>1. grant[w] = t
      BY <2>4, TokenAssumption DEF Typed, InFlight
    <3>2. QED
      BY <2>2, <2>3, <3>1
  <2>5. CASE t # mine[w]
    <3>1. tokens'[t] = tokens[t] /\ ~ (Expired(t) /\ RowFree(w, t)) /\ t # n
      BY <2>1, <2>2, <2>5 DEF Stored, Present
    <3>2. PICK s \in Token : Present(s) /\ tokens[s].from = t /\ Present(t) /\ tokens[t].consumed
      BY <1>1, <3>1
    <3>3. ~ (Expired(s) /\ RowFree(w, s))
      BY <3>1, <3>2, PurgedTogether
    <3>4. s # n
      BY <2>1, <3>2, FreshToken DEF Stored
    <3>5. tokens'[s] = tokens[s] \/ tokens'[s] = [tokens[s] EXCEPT !.consumed = TRUE]
      BY <2>1, <3>2, <3>3, <3>4 DEF Stored, Present
    <3>6. tokens[s] \in Row
      BY <3>2 DEF Present, Typed, TypeOK
    <3>7. tokens'[s].from = t /\ tokens'[s] \in Row
      BY <3>2, <3>5, <3>6 DEF Row
    <3>8. QED
      BY <3>7, TokenAssumption DEF Present
  <2>6. QED
    BY <2>4, <2>5
<1>5. CASE ~ PresentToken(w) /\ ~ Revoke(w) /\ ~ StoreToken(w)
  <2>1. tokens' = tokens
    BY <1>5 DEF Act, Exchange, PresentCode, Consume, RedeemCode, BeginRevoke, CountRows, Refuse,
                Respond, Abort, store
  <2>2. QED
    BY <1>1, <2>1 DEF Present
<1>6. QED
  BY <1>2, <1>3, <1>4, <1>5

LEMMA ClosedStays ==
  ASSUME Typed, Kin, Locks, Successors, NEW w \in Worker, Act(w), NEW v \in Worker,
         doomed'[v] \in {{}, doomed[v]}
  PROVE  Closed(v)'
<1> SUFFICES ASSUME NEW s \in Token, NEW t \in Token, s \in doomed[v], Present(s)', Present(t)',
                    tokens'[s].from = t, doomed'[v] = doomed[v]
             PROVE  t \in doomed[v]
  BY DEF Closed
<1>1. Present(s) /\ Present(t) /\ tokens[s].from = t
  <2>1. CASE StoreToken(w)
    <3>1. PICK n \in Token : Stored(w, n)
      BY <2>1, StoreTokenRows
    <3>2. s # n
      BY <3>1, FreshToken DEF Stored
    <3>3. Present(s)
      BY <3>1, <3>2 DEF Stored, Present
    <3>4. tokens[s] \in Row
      BY <3>3 DEF Present, Typed, TypeOK
    <3>5. tokens'[s] = tokens[s] \/ tokens'[s] = [tokens[s] EXCEPT !.consumed = TRUE]
      BY <3>1, <3>2 DEF Stored, Present
    <3>6. tokens[s].from = t
      BY <3>4, <3>5 DEF Row
    <3>7. t # n
      BY <3>1, <3>3, <3>6, FreshToken DEF Stored
    <3>8. Present(t)
      BY <3>1, <3>7 DEF Stored, Present
    <3>9. QED
      BY <3>3, <3>6, <3>8
  <2>2. CASE ~ StoreToken(w)
    BY <2>2, RowsGo DEF RowsOnlyGo, Present
  <2>3. QED
    BY <2>1, <2>2
<1>2. QED
  BY <1>1 DEF Successors, Closed

\* A replayed token stays dead, and what replaced it stays doomed, whatever the next
\* request does.
LEMMA ReplayedStays ==
  ASSUME Typed, Kin, Locks, Successors, NEW w \in Worker, Act(w),
         NEW v \in Worker, SameRequest(v)
  PROVE  Replayed(v)'
<1> USE DEF SameRequest
<1>1. ASSUME pc[v] \in {"replayed", "revoking"}, mine[v] = None, grant[v] \in Token
      PROVE  ~ Redeemable(grant[v])' /\ \A u \in Worker : mine'[u] # grant[v]
  <2>1. ~ Redeemable(grant[v]) /\ \A u \in Worker : mine[u] # grant[v]
    BY <1>1 DEF Successors, Replayed
  <2>2. expired' = expired
    BY DEF Act, Exchange, PresentToken, PresentCode, Consume, RedeemCode, BeginRevoke, Revoke,
           CountRows, StoreToken, Respond, Abort, store
  <2>3. ~ Redeemable(grant[v])'
    <3>1. CASE StoreToken(w)
      <4>1. PICK n \in Token : Stored(w, n)
        BY <3>1, StoreTokenRows
      <4>2. n # grant[v] /\ mine[w] # grant[v]
        BY <1>1, <2>1, <4>1, FreshToken DEF Stored
      <4>3. tokens'[grant[v]] = tokens[grant[v]] \/ tokens'[grant[v]] = NoRow
        BY <1>1, <4>1, <4>2 DEF Stored
      <4>4. QED
        BY <2>1, <2>2, <4>3 DEF Redeemable, Expired, Present
    <3>2. CASE ~ StoreToken(w)
      BY <1>1, <2>1, <2>2, <3>2, RowsGo DEF RowsOnlyGo, Redeemable, Expired, Present
    <3>3. QED
      BY <3>1, <3>2
  <2>4. mine'[w] # grant[v]
    <3>1. CASE Consume(w)
      BY <1>1, <2>1, <3>1 DEF Consume, Typed, TypeOK
    <3>2. CASE Finish(w)
      BY <1>1, <3>2, FinishEnds, TokenAssumption DEF Ended
    <3>3. CASE ~ Consume(w) /\ ~ Finish(w)
      BY <1>1, <2>1, <3>3, TokenAssumption
         DEF Act, Exchange, PresentToken, PresentCode, RedeemCode, BeginRevoke, Revoke,
             CountRows, StoreToken, Respond, Abort, Typed, TypeOK
    <3>4. QED
      BY <3>1, <3>2, <3>3
  <2>5. QED
    BY <2>1, <2>3, <2>4, OthersStand
<1>2. ASSUME pc[v] = "revoking", mine[v] = None, NEW t \in Token, Present(t)',
             tokens'[t].from = grant[v]
      PROVE  t \in doomed[v]
  <2>1. ASSUME Present(t), tokens[t].from = grant[v] PROVE t \in doomed[v]
    BY <1>2, <2>1 DEF Successors, Replayed
  <2>2. CASE StoreToken(w)
    <3>1. PICK n \in Token : Stored(w, n)
      BY <2>2, StoreTokenRows
    <3>2. pc[w] = "counted" /\ v # w
      BY <1>2, <2>2 DEF StoreToken
    <3>3. grant[w] # grant[v]
      <4>1. CASE grant[w] \in Token
        BY <1>2, <3>2, <4>1 DEF Typed, InFlight, Successors, Replayed
      <4>2. CASE grant[w] \in Code
        <5>1. ASSUME grant[v] = grant[w] PROVE FALSE
          <6>1. origin[family[w]] = grant[w] /\ origin[family[v]] = grant[w]
            BY <1>2, <3>2, <4>2, <5>1 DEF Kin, RequestKin
          <6>2. family[w] = family[v]
            <7>1. family[w] \in Family /\ family[v] \in Family
              BY <1>2, <3>2 DEF Typed, InFlight
            <7>2. QED
              BY <4>2, <6>1, <7>1, TokenAssumption DEF Kin, FamilyKin, CodesRedeemOnce
          <6>3. QED
            BY <1>2, <3>2, <4>2, <5>1, <6>2 DEF Locks, Alone, Holding
        <5>2. QED
          BY <5>1
      <4>3. QED
        BY <3>2, <4>1, <4>2 DEF Typed, InFlight
    <3>4. t # n
      BY <1>2, <3>1, <3>3 DEF Stored, Successor
    <3>5. Present(t)
      BY <1>2, <3>1, <3>4 DEF Stored, Present
    <3>6. tokens[t] \in Row
      BY <3>5 DEF Present, Typed, TypeOK
    <3>7. tokens'[t] = tokens[t] \/ tokens'[t] = [tokens[t] EXCEPT !.consumed = TRUE]
      BY <1>2, <3>1, <3>4 DEF Stored, Present
    <3>8. tokens[t].from = grant[v]
      BY <1>2, <3>6, <3>7 DEF Row
    <3>9. QED
      BY <2>1, <3>5, <3>8
  <2>3. CASE ~ StoreToken(w)
    BY <1>2, <2>1, <2>3, RowsGo DEF RowsOnlyGo, Present
  <2>4. QED
    BY <2>2, <2>3
<1>3. QED
  BY <1>1, <1>2 DEF Replayed

LEMMA SuccessorsByAct ==
  ASSUME Typed, Kin, Locks, Successors, NEW w \in Worker, Act(w)
  PROVE  Successors'
<1> USE DEF Goto
<1>1. \A v \in Worker \ {w} : Closed(v)' /\ Replayed(v)'
  BY OthersStand, ClosedStays, ReplayedStays DEF SameRequest
<1>2. ASSUME Closed(w)', Replayed(w)' PROVE Successors'
  BY <1>1, <1>2, SuccessorStays DEF Successors
<1>3. ASSUME Finish(w) PROVE Successors'
  BY <1>2, <1>3, FinishEnds DEF Ended, Closed, Replayed
<1>4. ASSUME pc'[w] \notin {"replayed", "revoking"}, doomed'[w] = doomed[w] PROVE Successors'
  BY <1>2, <1>4, ClosedStays DEF Replayed
<1>5. CASE Consume(w)
  <2>1. pc[w] = "authenticated" /\ grant[w] \in Token /\ mine[w] = None /\ doomed[w] = {}
    BY <1>5 DEF Consume, Typed, InFlight, Holding
  <2>2. CASE Redeemable(grant[w])
    BY <1>4, <1>5, <2>2 DEF Consume, Typed, TypeOK
  <2>3. CASE ~ Redeemable(grant[w])
    <3>1. /\ RowFree(w, grant[w])
          /\ pc'[w] = "replayed"
          /\ UNCHANGED <<tokens, expired, grant, mine, doomed>>
      BY <1>5, <2>3 DEF Consume, Typed, TypeOK
    <3>2. \A u \in Worker : mine[u] # grant[w]
      BY <2>1, <3>1, TokenAssumption DEF RowFree
    <3>3. Replayed(w)'
      BY <2>3, <3>1, <3>2 DEF Replayed, Redeemable, Expired, Present
    <3>4. Closed(w)'
      BY <2>1, <3>1, ClosedStays
    <3>5. QED
      BY <1>2, <3>3, <3>4
  <2>4. QED
    BY <2>2, <2>3
<1>6. CASE BeginRevoke(w)
  <2>1. /\ pc[w] \in {"replayed", "consumed"}
        /\ pc'[w] = "revoking"
        /\ doomed'[w] = Rows(family[w])
        /\ UNCHANGED <<tokens, expired, minted, origin, grant, family, mine>>
    BY <1>6 DEF BeginRevoke, store, Typed, TypeOK
  <2>2. family[w] \in Family /\ grant[w] \in Token \cup Code
    BY <2>1 DEF Typed, InFlight
  <2>3. Closed(w)'
    BY <2>1 DEF Closed, Rows, Present, Kin, RowKin
  <2>4. ASSUME mine[w] = None, grant[w] \in Token
        PROVE  ~ Redeemable(grant[w]) /\ \A u \in Worker : mine[u] # grant[w]
    BY <2>1, <2>4, TokenAssumption DEF Typed, InFlight, Successors, Replayed
  <2>5. ASSUME NEW t \in Token, Present(t), tokens[t].from = grant[w]
        PROVE  t \in Rows(family[w])
    <3>1. tokens[t].family \in Family
      BY <2>5 DEF Present, Typed, TypeOK, Row
    <3>2. CASE grant[w] \in Token
      BY <2>1, <2>5, <3>2 DEF Kin, RowKin, RequestKin, Rows
    <3>3. CASE grant[w] \in Code
      <4>1. origin[tokens[t].family] = grant[w] /\ origin[family[w]] = grant[w]
        BY <2>1, <2>5, <3>3 DEF Kin, RowKin, RequestKin
      <4>2. QED
        BY <2>2, <2>5, <3>1, <3>3, <4>1, TokenAssumption DEF Kin, FamilyKin, CodesRedeemOnce, Rows
    <3>4. QED
      BY <2>2, <3>2, <3>3
  <2>6. Replayed(w)'
    BY <2>1, <2>4, <2>5 DEF Replayed, Redeemable, Expired, Present
  <2>7. QED
    BY <1>2, <2>3, <2>6
<1>7. CASE PresentToken(w)
  BY <1>4, <1>7 DEF PresentToken, MayBegin, Typed, TypeOK
<1>8. CASE PresentCode(w) \/ StoreToken(w)
  BY <1>4, <1>8 DEF PresentCode, StoreToken, Typed, TypeOK
<1>9. CASE RedeemCode(w)
  BY <1>3, <1>4, <1>9 DEF RedeemCode, Typed, TypeOK
<1>10. CASE CountRows(w)
  BY <1>3, <1>4, <1>10 DEF CountRows, Typed, TypeOK
<1>11. CASE Revoke(w) \/ Respond(w) \/ Abort(w)
  BY <1>3, <1>11 DEF Revoke, Respond, Abort
<1>12. QED
  BY <1>5, <1>6, <1>7, <1>8, <1>9, <1>10, <1>11 DEF Act, Exchange

LEMMA SuccessorsStep == Typed /\ Kin /\ Locks /\ Successors /\ [Next]_vars => Successors'
<1> SUFFICES ASSUME Typed, Kin, Locks, Successors, [Next]_vars PROVE Successors'
  OBVIOUS
<1>1. ASSUME UNCHANGED <<tokens, pc, grant, mine, doomed>>, expired \subseteq expired'
      PROVE  Successors'
  BY <1>1 DEF Successors, Closed, Replayed, ConsumedHasSuccessor, Redeemable, Expired, Present
<1>2. CASE (\E f \in Family : Expire(f)) \/ Disallow \/ UNCHANGED vars
  BY <1>1, <1>2 DEF Expire, Disallow, vars
<1>3. QED
  BY <1>2, SuccessorsByAct DEF Next, Act

IInv == Typed /\ Kin /\ Locks /\ Successors

LEMMA Inductive == Spec => []IInv
<1>1. Init => IInv
  BY TypedInit, KinInit, LocksInit, SuccessorsInit DEF IInv
<1>2. IInv /\ [Next]_vars => IInv'
  BY TypedStep, KinStep, LocksStep, SuccessorsStep DEF IInv
<1>3. QED
  BY <1>1, <1>2, PTL DEF Spec

\* Whatever is consumed has its replacement beside it, so a client whose response was
\* lost finds no token consumed without one.
THEOREM ConsumedTokensReplaced == Spec => []ConsumedHasSuccessor
<1>1. IInv => ConsumedHasSuccessor
  BY DEF IInv, Successors
<1>2. QED
  BY <1>1, Inductive, PTL

-----------------------------------------------------------------------------
\* A request that has marked its token waits for nobody: what it may come to delete
\* is of its own family, whose live token it has marked itself.
LEMMA HolderWaitsForNobody ==
  ASSUME IInv, NEW w \in Worker, mine[w] # None, NEW v \in Worker \ {w}
  PROVE  ~ WaitsFor(w, v)
<1> USE DEF IInv
<1>1. /\ mine[w] \in Token /\ Present(mine[w]) /\ ~ tokens[mine[w]].consumed
      /\ pc[w] \in Holding
      /\ mine[w] = grant[w]
      /\ family[w] \in Family
  BY DEF Typed, TypeOK, InFlight, Holding, Locks, Marked
<1>2. pc[w] # "authenticated"
  BY <1>1 DEF Holding
<1>3. ASSUME mine[v] \in doomed[w] PROVE FALSE
  <2>1. mine[v] \in Token
    BY <1>3 DEF Typed, TypeOK
  <2>2. Present(mine[v]) /\ ~ tokens[mine[v]].consumed
    BY <2>1, TokenAssumption DEF Locks, Marked
  <2>3. tokens[mine[v]].family = family[w]
    BY <1>3, <2>1, <2>2 DEF Kin, RowKin, RequestKin
  <2>4. tokens[mine[w]].family = family[w]
    BY <1>1 DEF Kin, RowKin, RequestKin, Holding
  <2>5. mine[v] = mine[w]
    BY <1>1, <2>1, <2>2, <2>3, <2>4 DEF Locks, OneLiveToken, Rows
  <2>6. QED
    BY <1>1, <2>5 DEF Locks, Marked
<1>4. QED
  BY <1>2, <1>3 DEF WaitsFor

\* No set of exchanges, however many, can wait for each other in a circle.
THEOREM NobodyDeadlocks == Spec => []NoCircle
<1>1. IInv => NoCircle
  <2> SUFFICES ASSUME IInv, NEW S \in SUBSET Worker, S # {}
               PROVE  \E w \in S : \A v \in S \ {w} : ~ WaitsFor(w, v)
    BY DEF NoCircle
  <2>1. PICK w \in S : TRUE
    OBVIOUS
  <2>2. CASE \A v \in S \ {w} : ~ WaitsFor(w, v)
    BY <2>2
  <2>3. CASE \E v \in S \ {w} : WaitsFor(w, v)
    <3>1. PICK v \in S \ {w} : WaitsFor(w, v)
      BY <2>3
    <3>2. mine[v] \in Token
      BY <3>1 DEF WaitsFor, IInv, Typed, TypeOK, InFlight
    <3>3. \A u \in S \ {v} : ~ WaitsFor(v, u)
      BY <3>2, HolderWaitsForNobody, TokenAssumption
    <3>4. QED
      BY <3>3
  <2>4. QED
    BY <2>2, <2>3
<1>2. QED
  BY <1>1, Inductive, PTL

\* Once a replay has been revoked, what replaced the replayed token is gone, even when
\* its rotation committed while the replay was being answered.
THEOREM ReplaysKill == Spec => ReplayKillsSuccessor
<1>1. IInv /\ [Next]_vars =>
        [\A w \in Worker :
           pc[w] = "revoking" /\ mine[w] = None /\ Revoke(w) =>
             \A t \in Token : tokens'[t] # NoRow => tokens'[t].from # grant[w]]_vars
  <2> SUFFICES ASSUME IInv, NEW w \in Worker, pc[w] = "revoking", mine[w] = None, Revoke(w),
                      NEW t \in Token, tokens'[t] # NoRow
               PROVE  tokens'[t].from # grant[w]
    OBVIOUS
  <2>1. t \notin doomed[w] /\ tokens'[t] = tokens[t] /\ Present(t)
    BY PurgedIsTyped DEF Revoke, Present, IInv, Typed
  <2>2. QED
    BY <2>1 DEF IInv, Successors, Replayed
<1>2. QED
  BY <1>1, Inductive, PTL DEF Spec, ReplayKillsSuccessor

-----------------------------------------------------------------------------
\* The state functions RefreshTokens substitutes for TokenChain's variables.
Live == [f \in Family |-> Unspent(f)]
Started == {minted[t] : t \in Token} \ {None}
Spent == {t \in Token : minted[t] # None}

\* A purge takes nothing that could be redeemed.
LEMMA PurgeKeepsLive ==
  ASSUME Typed, NEW w \in Worker, NEW t \in Token,
         tokens'[t] = Purged(w)[t], expired' = expired
  PROVE  /\ Redeemable(t)' <=> Redeemable(t)
         /\ Redeemable(t) => tokens'[t] = tokens[t]
  BY PurgedIsTyped DEF Typed, Redeemable, Expired, Present

LEMMA LiveStays ==
  ASSUME \A t \in Token : /\ Redeemable(t)' <=> Redeemable(t)
                          /\ Redeemable(t) => tokens'[t] = tokens[t]
  PROVE  Live' = Live
<1>1. ASSUME NEW f \in Family PROVE Unspent(f)' = Unspent(f)
  BY DEF Unspent, Rows, Redeemable
<1>2. QED
  BY <1>1 DEF Live

\* A revocation ends the family it is about, or finds its rows gone already.
LEMMA RevokeEnds ==
  ASSUME IInv, NEW w \in Worker, Revoke(w)
  PROVE  Live' = Live \/ (Live' = [Live EXCEPT ![family[w]] = {}] /\ family[w] \in Family)
<1> USE DEF IInv
<1>0. PICK f \in Family : f = family[w]
  BY DEF Revoke, Typed, InFlight
<1>1. expired' = expired /\ \A t \in doomed[w] : minted[t] = f
  BY <1>0 DEF Revoke, Typed, InFlight, Kin, RequestKin
<1>2. \A t \in Token : \/ tokens'[t] = Purged(w)[t] /\ t \notin doomed[w]
                       \/ tokens'[t] = NoRow /\ t \in doomed[w]
  BY DEF Revoke
<1>3. \A t \in Token \ doomed[w] : /\ Redeemable(t)' <=> Redeemable(t)
                                   /\ Redeemable(t) => tokens'[t] = tokens[t]
  BY <1>1, <1>2, PurgeKeepsLive
<1>4. \A t \in doomed[w] : ~ Redeemable(t)'
  BY <1>2 DEF Redeemable, Present, Typed, TypeOK
<1>5. CASE \A t \in doomed[w] : ~ Redeemable(t)
  BY <1>3, <1>4, <1>5, LiveStays
<1>6. ASSUME NEW d \in doomed[w], Redeemable(d) PROVE Live' = [Live EXCEPT ![f] = {}]
  <2>1. d \in Token /\ Present(d) /\ tokens[d].family = f
    BY <1>1, <1>6 DEF Redeemable, Typed, TypeOK, Kin, RowKin
  <2>2. Unspent(f)' = {}
    <3>1. ASSUME NEW t \in Token, t \in Unspent(f)' PROVE FALSE
      <4>1. t \notin doomed[w] /\ Redeemable(t) /\ tokens[t].family = f
        BY <1>3, <1>4, <3>1 DEF Unspent, Rows
      <4>2. t = d
        BY <1>1, <1>6, <2>1, <4>1 DEF Locks, OneLiveToken, Rows, Redeemable
      <4>3. QED
        BY <1>6, <4>1, <4>2
    <3>2. QED
      BY <3>1 DEF Unspent, Rows
  <2>3. ASSUME NEW g \in Family \ {f} PROVE Unspent(g)' = Unspent(g)
    <3>1. \A t \in doomed[w] : t \notin Unspent(g)
      BY <1>1 DEF Unspent, Rows, Kin, RowKin
    <3>2. \A t \in doomed[w] : t \notin Unspent(g)'
      BY <1>4 DEF Unspent
    <3>3. \A t \in Token \ doomed[w] : t \in Unspent(g)' <=> t \in Unspent(g)
      BY <1>3 DEF Unspent, Rows, Redeemable
    <3>4. QED
      BY <3>1, <3>2, <3>3 DEF Unspent, Rows
  <2>4. QED
    BY <1>1, <2>2, <2>3 DEF Live
<1>7. QED
  BY <1>0, <1>1, <1>5, <1>6

\* A stored token starts its family, replaces the family's live token, or is wasted on
\* a family past its deadline.
LEMMA StoreExtends ==
  ASSUME IInv, NEW w \in Worker, StoreToken(w)
  PROVE  \E t \in Token : \/ Chain!Issue(family[w], t) /\ family[w] \in Family
                          \/ Chain!Rotate(family[w], t) /\ family[w] \in Family
                          \/ Chain!Waste(t)
<1> USE DEF IInv
<1>1. PICK t \in Token : Stored(w, t)
  BY StoreTokenRows
<1> USE <1>1 DEF Stored
<1>0. PICK f \in Family : f = family[w]
  BY DEF StoreToken, Typed, InFlight
<1>2. pc[w] = "counted" /\ expired' = expired /\ grant[w] \in Token \cup Code
  BY DEF StoreToken, Typed, InFlight
<1>3. /\ minted'[t] = f
      /\ \A s \in Token \ {t} : minted'[s] = minted[s]
  BY <1>0 DEF Typed, TypeOK
<1>4. Spent' = Spent \cup {t} /\ t \notin Spent
  BY <1>0, <1>2, <1>3, TokenAssumption DEF Spent
<1>5. Started' = Started \cup {f}
  BY <1>0, <1>2, <1>3, TokenAssumption DEF Started
<1>6. /\ tokens'[t].family = f /\ ~ tokens'[t].consumed /\ Present(t)'
      /\ Redeemable(t)' <=> f \notin expired
  <2>1. Successor(w) \in Row
    BY <1>0, <1>2, SuccessorIsRow
  <2>2. Present(t)'
    BY <2>1, TokenAssumption DEF Present
  <2>3. tokens'[t].family = f /\ tokens'[t].consumed = FALSE
    BY <1>0 DEF Successor
  <2>4. QED
    BY <1>2, <2>2, <2>3 DEF Redeemable, Expired
<1>7. ASSUME NEW s \in Token \ {t}, s # mine[w]
      PROVE  /\ Redeemable(s)' <=> Redeemable(s)
             /\ Redeemable(s) => tokens'[s] = tokens[s]
  BY <1>0, <1>2, <1>7 DEF Redeemable, Expired, Present
<1>8. ASSUME NEW m \in Token, m = mine[w] PROVE m # t /\ ~ Redeemable(m)'
  <2>1. Present(m) /\ tokens[m] \in Row
    BY <1>8, TokenAssumption DEF Typed, TypeOK, Locks, Marked, Present
  <2>2. m # t
    BY <2>1, FreshToken
  <2>3. tokens'[m] = NoRow \/ tokens'[m] = [tokens[m] EXCEPT !.consumed = TRUE]
    BY <1>8, <2>1, <2>2 DEF Present
  <2>4. tokens'[m] # NoRow => tokens'[m].consumed = TRUE
    BY <2>1, <2>3 DEF Row
  <2>5. QED
    BY <2>2, <2>4 DEF Redeemable, Present
<1>9. ASSUME NEW g \in Family \ {f} PROVE Unspent(g)' = Unspent(g)
  <2>1. t \notin Unspent(g) /\ t \notin Unspent(g)'
    BY <1>6, FreshToken DEF Unspent, Rows
  <2>2. ASSUME NEW m \in Token, m = mine[w] PROVE m \notin Unspent(g) /\ m \notin Unspent(g)'
    <3>1. tokens[m].family = f
      BY <1>0, <1>2, <2>2, TokenAssumption
         DEF Typed, InFlight, Locks, Marked, Kin, RowKin, RequestKin
    <3>2. QED
      BY <1>8, <2>2, <3>1 DEF Unspent, Rows
  <2>3. \A s \in Token \ {t} : s # mine[w] => (s \in Unspent(g)' <=> s \in Unspent(g))
    BY <1>7 DEF Unspent, Rows, Redeemable
  <2>4. QED
    BY <2>1, <2>2, <2>3, TokenAssumption DEF Unspent, Rows
<1>10. ASSUME NEW s \in Token \ {t} PROVE s \notin Unspent(f)'
  <2>1. CASE s = mine[w]
    BY <1>8, <2>1 DEF Unspent
  <2>2. CASE s # mine[w]
    <3> SUFFICES ASSUME s \in Unspent(f) PROVE FALSE
      BY <1>7, <2>2 DEF Unspent, Rows, Redeemable
    <3>1. /\ Present(s) /\ tokens[s].family = f /\ ~ tokens[s].consumed
          /\ minted[s] = f
      BY DEF Unspent, Rows, Redeemable, Kin, RowKin
    <3>2. CASE grant[w] \in Code
      BY <1>0, <1>2, <3>1, <3>2 DEF Locks, Alone, Holding
    <3>3. CASE grant[w] \in Token
      <4>1. PICK m \in Token : m = mine[w] /\ m = grant[w] /\ m # None
        BY <1>2, <3>3, TokenAssumption DEF Typed, InFlight
      <4>2. Present(m) /\ ~ tokens[m].consumed
        BY <4>1 DEF Locks, Marked
      <4>3. tokens[m].family = f
        BY <1>0, <1>2, <4>1, <4>2 DEF Kin, RowKin, RequestKin
      <4>4. s \in Rows(f) /\ m \in Rows(f)
        BY <3>1, <4>2, <4>3 DEF Rows
      <4>5. QED
        BY <2>2, <3>1, <4>1, <4>2, <4>4 DEF Locks, OneLiveToken
    <3>4. QED
      BY <1>2, <3>2, <3>3
  <2>3. QED
    BY <2>1, <2>2
<1>11. Unspent(f)' = IF f \in expired THEN {} ELSE {t}
  <2>1. t \in Rows(f)'
    BY <1>6 DEF Rows
  <2>2. QED
    BY <1>6, <1>10, <2>1 DEF Unspent, Rows
<1>12. Live' = [Live EXCEPT ![f] = IF f \in expired THEN {} ELSE {t}]
  BY <1>0, <1>2, <1>9, <1>11 DEF Live
<1>13. CASE grant[w] \in Code
  <2>1. \A s \in Token : minted[s] # f
    BY <1>0, <1>2, <1>13 DEF Locks, Alone, Holding
  <2>2. f \notin Started /\ f \notin expired
    BY <2>1 DEF Started, Kin, FamilyKin
  <2>3. QED
    BY <1>0, <1>2, <1>4, <1>5, <1>12, <2>2 DEF Chain!Issue, Live, Started, Spent
<1>14. CASE grant[w] \in Token
  <2>1. /\ mine[w] = grant[w] /\ mine[w] \in Token /\ minted[mine[w]] = f
        /\ Present(mine[w]) /\ ~ tokens[mine[w]].consumed
        /\ tokens[mine[w]].family = f
    BY <1>0, <1>2, <1>14, TokenAssumption DEF Typed, InFlight, Locks, Marked, Kin, RowKin, RequestKin
  <2>2. Started' = Started
    BY <1>0, <1>2, <1>5, <2>1, TokenAssumption DEF Started
  <2>3. CASE f \in expired
    <3>1. Unspent(f) = {}
      BY <2>3 DEF Unspent, Rows, Redeemable, Expired
    <3>2. Live' = Live
      BY <1>0, <1>2, <1>12, <2>3, <3>1 DEF Live
    <3>3. QED
      BY <1>4, <2>2, <3>2 DEF Chain!Waste, Live, Started, Spent
  <2>4. CASE f \notin expired
    <3>1. mine[w] \in Live[f]
      BY <1>0, <1>2, <2>1, <2>4 DEF Live, Unspent, Rows, Redeemable, Expired
    <3>2. Live[f] # {}
      BY <3>1
    <3>3. QED
      BY <1>0, <1>2, <1>4, <1>12, <2>2, <2>4, <3>2 DEF Chain!Rotate, Live, Started, Spent
  <2>5. QED
    BY <2>3, <2>4
<1>15. QED
  BY <1>0, <1>2, <1>13, <1>14

\* An exchange is one step of the chain its family promises, or none.
LEMMA StepExtendsChain == IInv /\ [Next]_vars => [Chain!Next]_(Chain!vars)
<1> SUFFICES ASSUME IInv, [Next]_vars PROVE Chain!Next \/ UNCHANGED <<Live, Started, Spent>>
  BY DEF Chain!vars, Live, Started, Spent
<1> USE DEF IInv
<1>1. ASSUME UNCHANGED minted PROVE UNCHANGED <<Started, Spent>>
  BY <1>1 DEF Started, Spent
<1>2. ASSUME UNCHANGED <<tokens, expired, minted>> PROVE UNCHANGED <<Live, Started, Spent>>
  BY <1>1, <1>2, LiveStays DEF Redeemable, Expired, Present
<1>3. ASSUME NEW w \in Worker, PresentToken(w) PROVE UNCHANGED <<Live, Started, Spent>>
  BY <1>1, <1>3, PurgeKeepsLive, LiveStays DEF PresentToken
<1>4. ASSUME NEW w \in Worker, Revoke(w) PROVE Chain!Next \/ UNCHANGED <<Live, Started, Spent>>
  <2>1. UNCHANGED <<Started, Spent>>
    BY <1>1, <1>4 DEF Revoke
  <2>2. CASE Live' = Live
    BY <2>1, <2>2
  <2>3. CASE Live' = [Live EXCEPT ![family[w]] = {}] /\ family[w] \in Family
    <3>1. Chain!End(family[w])
      BY <2>1, <2>3 DEF Chain!End, Live, Started, Spent
    <3>2. QED
      BY <2>3, <3>1 DEF Chain!Next
  <2>4. QED
    BY <1>4, <2>2, <2>3, RevokeEnds
<1>5. ASSUME NEW w \in Worker, StoreToken(w) PROVE Chain!Next
  BY <1>5, StoreExtends DEF Chain!Next
<1>6. ASSUME NEW f \in Family, Expire(f) PROVE Chain!Next
  <2>1. /\ expired' = expired \cup {f}
        /\ UNCHANGED <<tokens, minted>>
    BY <1>6 DEF Expire
  <2>2. Unspent(f)' = {}
    BY <2>1 DEF Unspent, Rows, Redeemable, Expired, Present
  <2>3. ASSUME NEW g \in Family \ {f} PROVE Unspent(g)' = Unspent(g)
    BY <2>1 DEF Unspent, Rows, Redeemable, Expired, Present
  <2>4. Live' = [Live EXCEPT ![f] = {}]
    BY <2>2, <2>3 DEF Live
  <2>5. Chain!End(f)
    BY <1>1, <2>1, <2>4 DEF Chain!End, Live, Started, Spent
  <2>6. QED
    BY <2>5 DEF Chain!Next
<1>7. ASSUME NEW w \in Worker,
             PresentCode(w) \/ Consume(w) \/ RedeemCode(w) \/ BeginRevoke(w)
               \/ CountRows(w) \/ Respond(w) \/ Abort(w)
      PROVE  UNCHANGED <<tokens, expired, minted>>
  BY <1>7 DEF PresentCode, Consume, RedeemCode, BeginRevoke, CountRows, Refuse, Respond, Abort, store
<1>8. CASE Disallow \/ UNCHANGED vars
  BY <1>2, <1>8 DEF Disallow, vars
<1>9. QED
  BY <1>2, <1>3, <1>4, <1>5, <1>6, <1>7, <1>8 DEF Next, Exchange

\* The token endpoint implements TokenChain: each family's tokens form one chain, in
\* which at most the last can be redeemed, and a chain that has ended stays ended.
THEOREM ExchangesImplementChain == Spec => ImplementsChain
<1>1. Init => Chain!Init
  <2> SUFFICES ASSUME Init PROVE Chain!Init
    OBVIOUS
  <2>1. \A f \in Family : Unspent(f) = {}
    BY DEF Init, Unspent, Rows, Present
  <2>2. {minted[t] : t \in Token} \ {None} = {} /\ {t \in Token : minted[t] # None} = {}
    BY DEF Init
  <2>3. QED
    BY <2>1, <2>2 DEF Chain!Init
<1>2. QED
  BY <1>1, Inductive, StepExtendsChain, PTL DEF Spec, ImplementsChain, Chain!Spec

-----------------------------------------------------------------------------
\* BoundedStore.

\* The steps between a request's count and its commit.
Counted == {"full", "evicting", "room", "replacing", "inserting", "inserted"}

Storing == {w \in Request : stage[w] \in Counted}

\* The rows that a request deletes, replaces or has chosen to evict.
Spoken(w) == touched[w] \cup {key[w]} \cup (IF stage[w] = "evicting" THEN chosen[w] ELSE {})

\* A choice of rows for every request of T that has not made its own yet.
MayEvict(T, D) ==
  \A w \in T : stage[w] = "full" =>
    D[w] \subseteq OtherRows(w) /\ Cardinality(D[w]) = excess[w]

\* The rows that stand once T has committed and such a choice was made, those that T
\* stores left out.
Left(T, D) ==
  {k \in Occupied : \A w \in T : k \notin Spoken(w) /\ (stage[w] = "full" => k \notin D[w])}

\* Whichever of the requests that have counted commit, and whatever those evict that are
\* still to choose, there is room for them.
Room ==
  \A T \in SUBSET Storing : \A D \in [Request -> SUBSET Key] :
    MayEvict(T, D) =>
      Cardinality(Left(T, D)) + Cardinality(T) < MaxEntries + Cardinality(Request)

\* A request has its row's key and due while it runs, and deletes rows that stand and
\* nobody else deletes; one key is inserted by one request, after its old row is gone;
\* where nothing is evicted, what a request deletes has expired or is replaced.
Apart(w) ==
  /\ stage[w] = "idle" => touched[w] = {}
  /\ stage[w] # "idle" => key[w] \in Key /\ due[w] > 0
  /\ touched[w] \subseteq Occupied
  /\ \A v \in Request \ {w} : touched[v] \cap touched[w] = {}
  /\ stage[w] = "inserted" =>
       /\ key[w] \in Occupied => key[w] \in touched[w]
       /\ \A v \in Request \ {w} : stage[v] = "inserted" => key[v] # key[w]
  /\ looked \notin Evicting =>
       /\ stage[w] \notin {"full", "evicting"}
       /\ touched[w] \subseteq ExpiredRows \cup {key[w]}

Requests == \A w \in Request : Apart(w)

StoreInv == StoreTypeOK /\ IsFiniteSet(Occupied) /\ Requests /\ Room

-----------------------------------------------------------------------------
\* The cardinality that a cap leaves, and the later of two times.
LEMMA LesserOf ==
  ASSUME NEW m \in Nat, NEW n \in Nat
  PROVE  /\ Min({m, n}) = IF m <= n THEN m ELSE n
         /\ Max({m, n}) = IF m <= n THEN n ELSE m
  BY DEF Min, Max

\* How many requests have counted.
LEMMA FewStoring ==
  ASSUME NEW T \in SUBSET Request
  PROVE  /\ IsFiniteSet(T) /\ Cardinality(T) \in Nat
         /\ Cardinality(Request) \in Nat /\ Cardinality(T) <= Cardinality(Request)
         /\ MaxEntries \in Nat /\ MaxEntries > 0
<1>1. IsFiniteSet(Request) /\ MaxEntries \in Nat /\ MaxEntries > 0
  BY StoreAssumption DEF StoreAssumption
<1>2. QED
  BY <1>1, FS_Subset, FS_CardinalityType

LEMMA FewLeft ==
  ASSUME IsFiniteSet(Occupied), NEW S \in SUBSET Occupied
  PROVE  IsFiniteSet(S) /\ Cardinality(S) \in Nat
  BY FS_Subset, FS_CardinalityType

\* What an eviction chooses: as many as there are too many, or all there are.
LEMMA NearestAre ==
  ASSUME NEW n \in Nat, NEW from, IsFiniteSet(from), NEW ks \in Nearest(n, from)
  PROVE  /\ ks \subseteq from
         /\ Cardinality(ks) = n \/ ks = from
<1>1. /\ ks \subseteq from
      /\ Cardinality(ks) = Min({n, Cardinality(from)})
  BY DEF Nearest
<1>2. Cardinality(from) \in Nat
  BY FS_CardinalityType
<1>3. Cardinality(ks) = n \/ Cardinality(ks) = Cardinality(from)
  BY <1>1, <1>2, LesserOf
<1>4. QED
  BY <1>1, <1>3, FS_Subset

\* Room is kept where no row is added and nobody gives up what it has spoken for.
LEMMA RoomShrinks ==
  ASSUME Room, IsFiniteSet(Occupied),
         Storing' \subseteq Storing, Occupied' \subseteq Occupied,
         \A w \in Storing' :
           /\ Occupied' \cap Spoken(w) \subseteq Spoken(w)'
           /\ stage[w] = "full" <=> stage'[w] = "full"
           /\ stage[w] = "full" => /\ excess'[w] = excess[w]
                                   /\ OtherRows(w)' \subseteq OtherRows(w)
  PROVE  Room'
<1>1. SUFFICES ASSUME NEW T \in SUBSET Storing', NEW D \in [Request -> SUBSET Key],
                      MayEvict(T, D)'
               PROVE  Cardinality(Left(T, D)') + Cardinality(T) < MaxEntries + Cardinality(Request)
  BY DEF Room
<1>2. MayEvict(T, D)
  BY <1>1 DEF MayEvict
<1>3. Left(T, D)' \subseteq Left(T, D) /\ Left(T, D) \subseteq Occupied
  BY <1>1 DEF Left
<1>4. Cardinality(Left(T, D)) + Cardinality(T) < MaxEntries + Cardinality(Request)
  BY <1>1, <1>2 DEF Room
<1>5. /\ IsFiniteSet(Left(T, D)) /\ Cardinality(Left(T, D)) \in Nat
      /\ Cardinality(Left(T, D)') \in Nat
      /\ Cardinality(Left(T, D)') <= Cardinality(Left(T, D))
  BY <1>3, FewLeft, FS_Subset
<1>6. T \subseteq Request
  BY <1>1 DEF Storing
<1>7. QED
  BY <1>4, <1>5, <1>6, FewStoring

\* The fields of the requests other than w stand.
RestStands(w) == \A v \in Request \ {w} :
  /\ stage'[v] = stage[v] /\ key'[v] = key[v] /\ due'[v] = due[v] /\ excess'[v] = excess[v]
  /\ chosen'[v] = chosen[v] /\ touched'[v] = touched[v]

\* A request that has counted leaves less than the cap, for itself and whoever else: with
\* room, what it counted; at the cap, what is left when as many as it found too many go.
LEMMA RoomCounted ==
  ASSUME StoreTypeOK, Room, IsFiniteSet(Occupied),
         NEW w \in Request, stage[w] = "purged", RestStands(w), UNCHANGED rows,
         key'[w] = key[w], touched'[w] = touched[w],
         \/ stage'[w] = "room" /\ Cardinality(OtherRows(w)) < MaxEntries
         \/ /\ stage'[w] = "full" /\ Cardinality(OtherRows(w)) >= MaxEntries
            /\ excess'[w] = Cardinality(OtherRows(w)) - MaxEntries + 1
  PROVE  Room'
<1>1. /\ Occupied' = Occupied
      /\ \A v \in Request : OtherRows(v)' = OtherRows(v)
  BY DEF RestStands, Occupied, OtherRows, Seen
<1>2. \A v \in Request \ {w} : Spoken(v)' = Spoken(v)
  BY DEF RestStands, Spoken
<1>3. SUFFICES ASSUME NEW T \in SUBSET Storing', NEW D \in [Request -> SUBSET Key],
                      MayEvict(T, D)'
               PROVE  Cardinality(Left(T, D)') + Cardinality(T) < MaxEntries + Cardinality(Request)
  BY DEF Room
<1>4. T \subseteq Request
  BY <1>3 DEF Storing
<1>5. CASE w \notin T
  <2>1. \A v \in T : v \in Request \ {w}
    BY <1>4, <1>5
  <2>2. T \in SUBSET Storing
    BY <1>3, <2>1 DEF Storing, RestStands
  <2>3. MayEvict(T, D)
    BY <1>1, <1>3, <2>1 DEF MayEvict, RestStands
  <2>4. Left(T, D)' = Left(T, D)
    BY <1>1, <1>2, <2>1 DEF Left, RestStands
  <2>5. QED
    BY <2>2, <2>3, <2>4 DEF Room
<1>6. CASE w \in T
  <2> DEFINE rest == OtherRows(w)
  <2>1. rest \subseteq Occupied
    BY DEF OtherRows, Seen
  <2>2. IsFiniteSet(rest) /\ Cardinality(rest) \in Nat
    BY <2>1, FewLeft
  <2>3. Left(T, D)' \subseteq rest
    BY <1>1, <1>6 DEF Left, Spoken, OtherRows, Seen
  <2>4. /\ Cardinality(T) \in Nat /\ Cardinality(Request) \in Nat
        /\ Cardinality(T) <= Cardinality(Request) /\ MaxEntries \in Nat /\ MaxEntries > 0
    BY <1>4, FewStoring
  <2>5. CASE stage'[w] = "room" /\ Cardinality(rest) < MaxEntries
    <3>1. Cardinality(Left(T, D)') \in Nat /\ Cardinality(Left(T, D)') <= Cardinality(rest)
      BY <2>2, <2>3, FS_Subset, FS_CardinalityType
    <3> HIDE DEF rest
    <3>2. QED
      BY <2>2, <2>4, <2>5, <3>1
  <2>6. CASE /\ stage'[w] = "full" /\ Cardinality(rest) >= MaxEntries
             /\ excess'[w] = Cardinality(rest) - MaxEntries + 1
    <3>1. D[w] \subseteq rest /\ Cardinality(D[w]) = Cardinality(rest) - MaxEntries + 1
      BY <1>1, <1>3, <1>6, <2>6 DEF MayEvict
    <3>2. Left(T, D)' \subseteq rest \ D[w]
      BY <1>6, <2>3, <2>6 DEF Left
    <3>3. IsFiniteSet(rest \ D[w]) /\ IsFiniteSet(D[w])
      BY <2>2, <3>1, FS_Subset
    <3>4. /\ Cardinality(rest) = Cardinality(rest \ D[w]) + Cardinality(D[w])
          /\ Cardinality(rest \ D[w]) \in Nat
      <4>1. (rest \ D[w]) \cup D[w] = rest /\ (rest \ D[w]) \cap D[w] = {}
        BY <3>1
      <4>2. Cardinality(rest) = Cardinality(rest \ D[w]) + Cardinality(D[w]) - Cardinality({})
        BY <3>3, <4>1, FS_Union
      <4>3. /\ Cardinality({}) = 0 /\ Cardinality(D[w]) \in Nat
            /\ Cardinality(rest \ D[w]) \in Nat
        BY <3>3, FS_EmptySet, FS_CardinalityType
      <4> HIDE DEF rest
      <4>4. QED
        BY <2>2, <4>2, <4>3
    <3>5. /\ Cardinality(Left(T, D)') \in Nat
          /\ Cardinality(Left(T, D)') <= Cardinality(rest \ D[w])
      BY <3>2, <3>3, FS_Subset, FS_CardinalityType
    <3> HIDE DEF rest
    <3>6. QED
      BY <2>2, <2>4, <3>1, <3>4, <3>5
  <2>7. QED
    BY <2>5, <2>6
<1>7. QED
  BY <1>5, <1>6

\* The choice a request makes is one it could make, or takes everything.
LEMMA RoomChosen ==
  ASSUME StoreTypeOK, Room, IsFiniteSet(Occupied),
         NEW w \in Request, stage[w] = "full", RestStands(w), UNCHANGED rows,
         key'[w] = key[w], touched'[w] = touched[w], stage'[w] = "evicting",
         chosen'[w] \in Nearest(excess[w], OtherRows(w))
  PROVE  Room'
<1>1. /\ Occupied' = Occupied
      /\ \A v \in Request : OtherRows(v)' = OtherRows(v)
  BY DEF RestStands, Occupied, OtherRows, Seen
<1>2. \A v \in Request \ {w} : Spoken(v)' = Spoken(v)
  BY DEF RestStands, Spoken
<1>3. Spoken(w)' = Spoken(w) \cup chosen'[w]
  BY DEF Spoken
<1>4. OtherRows(w) \subseteq Occupied /\ OtherRows(w) \subseteq Key
  BY DEF OtherRows, Seen, Occupied
<1>5. /\ chosen'[w] \subseteq OtherRows(w)
      /\ Cardinality(chosen'[w]) = excess[w] \/ chosen'[w] = OtherRows(w)
  <2>1. IsFiniteSet(OtherRows(w)) /\ excess[w] \in Nat
    BY <1>4, FewLeft DEF StoreTypeOK
  <2>2. QED
    BY <2>1, NearestAre
<1>6. SUFFICES ASSUME NEW T \in SUBSET Storing', NEW D \in [Request -> SUBSET Key],
                      MayEvict(T, D)'
               PROVE  Cardinality(Left(T, D)') + Cardinality(T) < MaxEntries + Cardinality(Request)
  BY DEF Room
<1>7. T \subseteq Request /\ T \in SUBSET Storing
  BY <1>6 DEF Storing, RestStands, Counted
<1>8. CASE w \notin T
  <2>1. \A v \in T : v \in Request \ {w}
    BY <1>7, <1>8
  <2>2. MayEvict(T, D)
    BY <1>1, <1>6, <2>1 DEF MayEvict, RestStands
  <2>3. Left(T, D)' = Left(T, D)
    BY <1>1, <1>2, <2>1 DEF Left, RestStands
  <2>4. QED
    BY <1>7, <2>2, <2>3 DEF Room
<1>9. CASE w \in T /\ chosen'[w] = OtherRows(w)
  <2>1. Left(T, D)' = {}
    BY <1>1, <1>3, <1>9 DEF Left, Spoken, OtherRows, Seen
  <2>2. QED
    BY <1>7, <2>1, FewStoring, FS_EmptySet
<1>10. CASE w \in T /\ Cardinality(chosen'[w]) = excess[w]
  <2> DEFINE E == [D EXCEPT ![w] = chosen'[w]]
  <2>1. /\ E \in [Request -> SUBSET Key] /\ E[w] = chosen'[w]
        /\ \A v \in Request \ {w} : E[v] = D[v]
    BY <1>4, <1>5
  <2> HIDE DEF E
  <2>2. MayEvict(T, E)
    BY <1>1, <1>5, <1>6, <1>7, <1>10, <2>1 DEF MayEvict, RestStands
  <2>3. Left(T, D)' = Left(T, E)
    BY <1>1, <1>2, <1>3, <1>7, <1>10, <2>1 DEF Left, RestStands
  <2>4. QED
    BY <1>7, <2>1, <2>2, <2>3 DEF Room
<1>11. QED
  BY <1>5, <1>8, <1>9, <1>10

\* A commit adds its row to what was left when it was counted in.  A choice that takes the
\* new row could not have been made before; one that takes a row left over instead could.
LEMMA RoomCommitted ==
  ASSUME StoreTypeOK, Room, IsFiniteSet(Occupied),
         NEW v \in Request, stage[v] = "inserted", stage'[v] = "idle", RestStands(v),
         \A k \in Occupied' : k # key[v] => k \in Occupied \ touched[v]
  PROVE  Room'
<1> DEFINE n == key[v]
<1>1. SUFFICES ASSUME NEW T \in SUBSET Storing', NEW D \in [Request -> SUBSET Key],
                      MayEvict(T, D)'
               PROVE  Cardinality(Left(T, D)') + Cardinality(T) < MaxEntries + Cardinality(Request)
  BY DEF Room
<1> DEFINE U == T \cup {v}
<1>2. T \subseteq Request \ {v}
  BY <1>1 DEF Storing, Counted
<1>3. U \in SUBSET Storing /\ T \subseteq Request
  BY <1>1, <1>2 DEF Storing, RestStands, Counted
<1>4. /\ Cardinality(T) \in Nat /\ Cardinality(U) = Cardinality(T) + 1
      /\ MaxEntries \in Nat /\ MaxEntries > 0
      /\ Cardinality(Request) \in Nat /\ Cardinality(T) <= Cardinality(Request)
  BY <1>2, <1>3, FewStoring, FS_AddElement
<1>5. \A w \in T : Spoken(w)' = Spoken(w) /\ stage'[w] = stage[w]
  BY <1>2 DEF RestStands, Spoken
<1>6. \A w \in T : \A k \in OtherRows(w)' : k # n => k \in OtherRows(w)
  BY <1>2 DEF RestStands, OtherRows, Seen
<1>7. \A w \in T : stage[w] = "full" =>
        D[w] \subseteq OtherRows(w)' /\ Cardinality(D[w]) = excess[w]
  BY <1>1, <1>2, <1>5 DEF MayEvict, RestStands
<1>8. \A k \in Left(T, D)' : k # n => k \in Left(U, D)
  BY <1>5 DEF Left, Spoken
<1>9. ASSUME NEW X \in [Request -> SUBSET Key], MayEvict(U, X), NEW y,
             Left(T, D)' \subseteq Left(U, X) \cup {y}
      PROVE  Cardinality(Left(T, D)') + Cardinality(T) < MaxEntries + Cardinality(Request)
  <2>1. Cardinality(Left(U, X)) + Cardinality(U) < MaxEntries + Cardinality(Request)
    BY <1>3, <1>9 DEF Room
  <2>2. IsFiniteSet(Left(U, X)) /\ Cardinality(Left(U, X)) \in Nat
    <3>1. Left(U, X) \subseteq Occupied
      BY DEF Left
    <3>2. QED
      BY <3>1, FewLeft
  <2>3. /\ IsFiniteSet(Left(U, X) \cup {y})
        /\ Cardinality(Left(U, X) \cup {y}) <= Cardinality(Left(U, X)) + 1
        /\ Cardinality(Left(U, X) \cup {y}) \in Nat
    <3>1. IsFiniteSet(Left(U, X) \cup {y})
      BY <2>2, FS_AddElement
    <3>2. Cardinality(Left(U, X) \cup {y})
            = IF y \in Left(U, X) THEN Cardinality(Left(U, X)) ELSE Cardinality(Left(U, X)) + 1
      BY <2>2, FS_AddElement
    <3>3. QED
      BY <2>2, <3>1, <3>2
  <2>4. /\ Cardinality(Left(T, D)') \in Nat
        /\ Cardinality(Left(T, D)') <= Cardinality(Left(U, X) \cup {y})
    BY <1>9, <2>3, FS_Subset, FS_CardinalityType
  <2>5. QED
    BY <1>4, <2>1, <2>2, <2>3, <2>4
<1>10. CASE \A w \in T : stage[w] = "full" => D[w] \subseteq OtherRows(w)
  <2>1. MayEvict(U, D)
    BY <1>7, <1>10 DEF MayEvict
  <2>2. Left(T, D)' \subseteq Left(U, D) \cup {n}
    BY <1>8
  <2>3. QED
    BY <1>9, <2>1, <2>2
<1>11. ASSUME NEW f \in T, stage[f] = "full", ~ (D[f] \subseteq OtherRows(f))
       PROVE  Cardinality(Left(T, D)') + Cardinality(T) < MaxEntries + Cardinality(Request)
  <2>1. n \in D[f] /\ n \in OtherRows(f)' /\ n \notin OtherRows(f)
    BY <1>6, <1>7, <1>11
  <2>2. n \notin Occupied
    BY <1>2, <1>11, <2>1 DEF RestStands, OtherRows, Seen
  <2>3. Left(T, D)' \subseteq Left(U, D)
    BY <1>5, <1>8, <1>11, <2>1 DEF Left
  <2>4. CASE Left(U, D) = {}
    <3>1. Cardinality(Left(T, D)') = 0
      BY <2>3, <2>4, FS_EmptySet
    <3>2. QED
      BY <1>4, <3>1
  <2>5. ASSUME NEW x \in Left(U, D)
        PROVE  Cardinality(Left(T, D)') + Cardinality(T) < MaxEntries + Cardinality(Request)
    <3> DEFINE E == [w \in Request |-> IF n \in D[w] THEN (D[w] \ {n}) \cup {x} ELSE D[w]]
    <3>1. E \in [Request -> SUBSET Key]
      BY <2>5 DEF Left, Occupied
    <3>2. \A w \in Request : /\ n \in D[w] => E[w] = (D[w] \ {n}) \cup {x}
                             /\ n \notin D[w] => E[w] = D[w]
      OBVIOUS
    <3> HIDE DEF E
    <3>3. ASSUME NEW w \in T, stage[w] = "full"
          PROVE  E[w] \subseteq OtherRows(w) /\ Cardinality(E[w]) = excess[w]
      <4>1. D[w] \ {n} \subseteq OtherRows(w)
        BY <1>6, <1>7, <3>3
      <4>2. CASE n \notin D[w]
        <5>1. E[w] = D[w] /\ D[w] \ {n} = D[w]
          BY <1>3, <3>2, <4>2
        <5>2. QED
          BY <1>7, <3>3, <4>1, <5>1
      <4>3. CASE n \in D[w]
        <5>1. E[w] = (D[w] \ {n}) \cup {x}
          BY <1>3, <3>2, <4>3
        <5>2. x \in OtherRows(w) /\ x \notin D[w]
          BY <2>5, <3>3 DEF Left, Spoken, OtherRows, Seen
        <5>3. IsFiniteSet(D[w] \ {n})
          <6>1. D[w] \ {n} \subseteq Occupied
            BY <4>1 DEF OtherRows, Seen
          <6>2. QED
            BY <6>1, FewLeft
        <5> DEFINE less == D[w] \ {n}
        <5>4. D[w] = less \cup {n} /\ n \notin less /\ x \notin less /\ IsFiniteSet(less)
          BY <4>3, <5>2, <5>3
        <5>5. E[w] = less \cup {x} /\ E[w] \subseteq OtherRows(w)
          BY <4>1, <5>1, <5>2
        <5> HIDE DEF less
        <5>6. /\ Cardinality(less \cup {n}) = Cardinality(less) + 1
              /\ Cardinality(less \cup {x}) = Cardinality(less) + 1
          BY <5>4, FS_AddElement
        <5>7. QED
          BY <1>7, <3>3, <5>4, <5>5, <5>6
      <4>4. QED
        BY <4>2, <4>3
    <3>4. MayEvict(U, E)
      BY <3>3 DEF MayEvict
    <3>5. \A k \in Left(U, D) : k # x => k \in Left(U, E)
      BY <1>3, <3>2 DEF Left, Storing
    <3>6. Left(T, D)' \subseteq Left(U, E) \cup {x}
      BY <2>3, <3>5
    <3>7. QED
      BY <1>9, <3>1, <3>4, <3>6
  <2>6. QED
    BY <2>4, <2>5
<1>12. QED
  BY <1>10, <1>11

\* The session of w closes.
Emptied(w) == /\ stage'[w] = "idle" /\ due'[w] = 0 /\ excess'[w] = 0
             /\ key'[w] = NoKey /\ chosen'[w] = {} /\ touched'[w] = {}

LEMMA FinishEmpties ==
  ASSUME StoreTypeOK, NEW w \in Request, Close(w)
  PROVE  RestStands(w) /\ Emptied(w)
  BY DEF StoreTypeOK, Close, Proceed, RestStands, Emptied

\* A request changes its own fields only.
LEMMA OneRequest ==
  ASSUME StoreTypeOK, NEW w \in Request, StoreRow(w) \/ Fail(w)
  PROVE  RestStands(w) /\ now' = now /\ looked' = looked
<1>1. CASE BeginStore(w)
  BY <1>1 DEF BeginStore, StoreTypeOK, Proceed, RestStands
<1>2. CASE CountOthers(w)
  BY <1>2, FinishEmpties DEF CountOthers, StoreTypeOK, Proceed, RestStands
<1>3. CASE ChooseEvicted(w)
  BY <1>3 DEF ChooseEvicted, StoreTypeOK, Proceed, RestStands
<1>4. CASE Evict(w)
  BY <1>4 DEF Evict, StoreTypeOK, Proceed, RestStands
<1>5. CASE FindOld(w)
  BY <1>5 DEF FindOld, StoreTypeOK, Proceed, RestStands
<1>6. CASE DeleteOld(w)
  BY <1>6 DEF DeleteOld, StoreTypeOK, Proceed, RestStands
<1>7. CASE Insert(w)
  BY <1>7, FinishEmpties DEF Insert, StoreTypeOK, Proceed, RestStands
<1>8. CASE CommitStore(w)
  BY <1>8, FinishEmpties DEF CommitStore
<1>9. CASE Fail(w)
  BY <1>9, FinishEmpties DEF Fail
<1>10. QED
  BY <1>1, <1>2, <1>3, <1>4, <1>5, <1>6, <1>7, <1>8, <1>9 DEF StoreRow

\* What may stand after a step: what stood, and the row of a commit.
LEMMA PresentAfter ==
  ASSUME StoreTypeOK, [StoreNext]_storeVars
  PROVE  \/ Occupied' \subseteq Occupied
         \/ \E w \in Request : /\ CommitStore(w)
                               /\ Occupied' \subseteq (Occupied \ touched[w]) \cup {key[w]}
<1>1. CASE rows' = rows
  BY <1>1 DEF Occupied
<1>2. ASSUME NEW ks, rows' = Without(ks)
      PROVE  Occupied' \subseteq Occupied
  BY <1>2 DEF Occupied, Without
<1>3. ASSUME NEW w \in Request, CommitStore(w)
      PROVE  Occupied' \subseteq (Occupied \ touched[w]) \cup {key[w]}
  BY <1>3 DEF CommitStore, Occupied
<1>4. ASSUME NEW w \in Request, NEW k \in Key, NEW t, ExtendExpiry(w, k, t)
      PROVE  Occupied' \subseteq Occupied
  BY <1>4 DEF ExtendExpiry, Occupied, StoreTypeOK
<1>5. ASSUME NEW w \in Request, StoreRow(w), ~ CommitStore(w) PROVE rows' = rows
  BY <1>5 DEF StoreRow, BeginStore, CountOthers, ChooseEvicted,
              Evict, FindOld, DeleteOld, Insert
<1>6. QED
  BY <1>1, <1>2, <1>3, <1>4, <1>5
     DEF StoreNext, Fail, CleanupAndGet, CleanupAndPop, Tick, storeVars

LEMMA PresentIsFinite ==
  ASSUME StoreTypeOK, IsFiniteSet(Occupied),
         [StoreNext]_storeVars
  PROVE  IsFiniteSet(Occupied')
<1>1. CASE Occupied' \subseteq Occupied
  BY <1>1, FS_Subset
<1>2. ASSUME NEW w \in Request,
             Occupied' \subseteq (Occupied \ touched[w]) \cup {key[w]}
      PROVE  IsFiniteSet(Occupied')
  <2>1. Occupied' \subseteq Occupied \cup {key[w]}
    BY <1>2
  <2>2. QED
    BY <2>1, FS_Subset, FS_AddElement
<1>3. QED
  BY <1>1, <1>2, PresentAfter

LEMMA StoreTyped ==
  ASSUME StoreTypeOK, IsFiniteSet(Occupied),
         [StoreNext]_storeVars
  PROVE  StoreTypeOK'
<1> USE DEF StoreTypeOK
<1>1. Occupied \subseteq Key /\ ExpiredRows \subseteq Key
  BY DEF Occupied, ExpiredRows
<1>2. ASSUME NEW w \in Request, Close(w), UNCHANGED <<looked, now>>, rows' \in [Key -> Nat]
      PROVE  StoreTypeOK'
  BY <1>2 DEF Close, Proceed
<1>3. ASSUME NEW ks, rows' = Without(ks), UNCHANGED <<looked, now, idle>>
      PROVE  StoreTypeOK'
  BY <1>3 DEF Without, idle
<1>4. ASSUME NEW w \in Request, BeginStore(w) PROVE StoreTypeOK'
  <2>1. PICK k \in Key, ttl \in 1..Ttl :
             key' = [key EXCEPT ![w] = k] /\ due' = [due EXCEPT ![w] = now + ttl]
    BY <1>4 DEF BeginStore, Due
  <2>2. now + ttl \in Nat
    BY StoreAssumption DEF StoreAssumption
  <2>3. QED
    BY <1>1, <1>4, <2>1, <2>2 DEF BeginStore, Proceed
<1>5. ASSUME NEW w \in Request, CountOthers(w) PROVE StoreTypeOK'
  <2>1. Cardinality(OtherRows(w)) \in Nat /\ MaxEntries \in Nat
    <3>1. OtherRows(w) \subseteq Occupied
      BY DEF OtherRows, Seen
    <3>2. QED
      BY <3>1, FewLeft, StoreAssumption DEF StoreAssumption
  <2>2. UNCHANGED <<looked, rows, now>>
    BY <1>5 DEF CountOthers
  <2>3. CASE Close(w)
    BY <1>2, <2>2, <2>3
  <2>4. CASE Proceed(w, "room") /\ UNCHANGED <<key, due, excess, chosen, touched>>
    BY <2>2, <2>4 DEF Proceed
  <2>5. CASE /\ Cardinality(OtherRows(w)) >= MaxEntries /\ Proceed(w, "full")
             /\ excess' = [excess EXCEPT ![w] = Excess(w)]
             /\ UNCHANGED <<key, due, chosen, touched>>
    <3>1. Excess(w) \in Nat
      BY <2>1, <2>5 DEF Excess
    <3>2. QED
      BY <2>2, <2>5, <3>1 DEF Proceed
  <2>6. QED
    BY <1>5, <2>3, <2>4, <2>5 DEF CountOthers
<1>6. ASSUME NEW w \in Request, ChooseEvicted(w) PROVE StoreTypeOK'
  <2>1. PICK ks \in Nearest(excess[w], OtherRows(w)) :
             chosen' = [chosen EXCEPT ![w] = ks]
    BY <1>6 DEF ChooseEvicted
  <2>2. ks \subseteq Key
    BY <1>1 DEF Nearest, OtherRows, Seen
  <2>3. QED
    BY <1>6, <2>1, <2>2 DEF ChooseEvicted, Proceed
<1>7. ASSUME NEW w \in Request, Evict(w) PROVE StoreTypeOK'
  BY <1>1, <1>7 DEF Evict, Proceed
<1>8. ASSUME NEW w \in Request, FindOld(w) PROVE StoreTypeOK'
  BY <1>8 DEF FindOld, Proceed
<1>9. ASSUME NEW w \in Request, DeleteOld(w) PROVE StoreTypeOK'
  BY <1>1, <1>9 DEF DeleteOld, Proceed
<1>10. ASSUME NEW w \in Request, Insert(w) PROVE StoreTypeOK'
  <2>1. CASE Close(w)
    BY <1>2, <1>10, <2>1 DEF Insert
  <2>2. CASE ~ Close(w)
    BY <1>10, <2>2 DEF Insert, Proceed
  <2>3. QED
    BY <2>1, <2>2
<1>11. ASSUME NEW w \in Request, CommitStore(w) PROVE StoreTypeOK'
  <2>1. rows' \in [Key -> Nat]
    BY <1>11 DEF CommitStore
  <2>2. QED
    BY <1>2, <1>11, <2>1 DEF CommitStore
<1>12. ASSUME NEW w \in Request, Fail(w) PROVE StoreTypeOK'
  BY <1>2, <1>12 DEF Fail
<1>13. ASSUME NEW w \in Request, CleanupAndGet(w) PROVE StoreTypeOK'
  BY <1>3, <1>13 DEF CleanupAndGet
<1>14. ASSUME NEW w \in Request, NEW k \in Key, CleanupAndPop(w, k) PROVE StoreTypeOK'
  BY <1>3, <1>14 DEF CleanupAndPop
<1>15. ASSUME NEW w \in Request, NEW k \in Key, NEW ttl \in 1..Ttl,
              ExtendExpiry(w, k, Due(ttl))
       PROVE  StoreTypeOK'
  <2>1. now + ttl \in Nat /\ rows[k] \in Nat
    BY StoreAssumption DEF StoreAssumption
  <2>2. Later(k, Due(ttl)) \in Nat
    BY <2>1, LesserOf DEF Later, Due
  <2>3. QED
    BY <1>15, <2>2 DEF ExtendExpiry, idle
<1>16. CASE Tick
  BY <1>16 DEF Tick, idle
<1>17. CASE UNCHANGED storeVars
  BY <1>17 DEF storeVars
<1>18. QED
  BY <1>4, <1>5, <1>6, <1>7, <1>8, <1>9, <1>10, <1>11, <1>12, <1>13, <1>14, <1>15, <1>16, <1>17
     DEF StoreNext, StoreRow

\* A request that keeps apart from the others leaves them apart from it.
LEMMA ApartKept ==
  ASSUME Requests, NEW w \in Request, RestStands(w), UNCHANGED <<rows, now, looked>>, Apart(w)'
  PROVE  Requests'
<1>1. SUFFICES ASSUME NEW v \in Request \ {w} PROVE Apart(v)'
  BY DEF Requests
<1>2. Occupied' = Occupied /\ ExpiredRows' = ExpiredRows
  BY DEF Occupied, ExpiredRows
<1>3. /\ Apart(v) /\ stage'[v] = stage[v] /\ key'[v] = key[v] /\ due'[v] = due[v]
      /\ touched'[v] = touched[v]
  BY <1>1 DEF Requests, RestStands
<1>4. \A u \in Request \ {v} : touched'[u] \cap touched'[v] = {}
  <2>1. touched'[w] \cap touched'[v] = {}
    BY <1>1 DEF Apart
  <2>2. ASSUME NEW u \in Request \ {v}, u # w PROVE touched'[u] \cap touched'[v] = {}
    BY <1>3, <2>2 DEF Apart, RestStands
  <2>3. QED
    BY <2>1, <2>2
<1>5. ASSUME stage[v] = "inserted", NEW u \in Request \ {v}, stage'[u] = "inserted"
      PROVE  key'[u] # key'[v]
  <2>1. CASE u = w
    BY <1>1, <1>3, <1>5, <2>1 DEF Apart
  <2>2. CASE u # w
    BY <1>3, <1>5, <2>2 DEF Apart, RestStands
  <2>3. QED
    BY <2>1, <2>2
<1>6. QED
  BY <1>2, <1>3, <1>4, <1>5 DEF Apart

\* Rows that nobody deletes may go, or be extended, or be purged later.
LEMMA ApartFrom ==
  ASSUME Requests, UNCHANGED <<looked, stage, key, due, touched>>,
         Occupied' \subseteq Occupied,
         \A w \in Request : touched[w] \subseteq Occupied',
         \A w \in Request : touched[w] \cap ExpiredRows \subseteq ExpiredRows'
  PROVE  Requests'
<1>1. SUFFICES ASSUME NEW w \in Request PROVE Apart(w)'
  BY DEF Requests
<1>2. Apart(w)
  BY DEF Requests
<1>3. touched[w] \subseteq ExpiredRows \cup {key[w]} => touched[w] \subseteq ExpiredRows' \cup {key[w]}
  OBVIOUS
<1>4. QED
  BY <1>2, <1>3 DEF Apart

LEMMA RequestsStep ==
  ASSUME StoreTypeOK, Requests, [StoreNext]_storeVars
  PROVE  Requests'
<1>1. ASSUME NEW w \in Request PROVE Apart(w)
  BY DEF Requests
<1>2. ASSUME NEW w \in Request, StoreRow(w) \/ Fail(w), UNCHANGED rows
      PROVE  /\ Occupied' = Occupied /\ ExpiredRows' = ExpiredRows
             /\ RestStands(w) /\ UNCHANGED <<rows, now, looked>>
             /\ Apart(w)' => Requests'
  BY <1>2, OneRequest, ApartKept DEF Occupied, ExpiredRows
<1>3. ASSUME NEW w \in Request, Close(w) PROVE Apart(w)'
  BY <1>3, FinishEmpties DEF Emptied, Apart
<1>4. ASSUME NEW w \in Request, BeginStore(w) PROVE Requests'
  <2>1. /\ stage'[w] = "purged" /\ touched'[w] = ExpiredRows /\ key'[w] \in Key /\ due'[w] > 0
        /\ \A v \in Request \ {w} : touched[v] \cap ExpiredRows = {} /\ touched'[v] = touched[v]
    BY <1>4, StoreAssumption
    DEF BeginStore, Proceed, Free, Due, StoreTypeOK, StoreAssumption
  <2>2. UNCHANGED rows /\ StoreRow(w)
    BY <1>4 DEF BeginStore, StoreRow
  <2>3. ExpiredRows \subseteq Occupied
    BY DEF ExpiredRows
  <2>4. Apart(w)'
    BY <1>2, <2>1, <2>2, <2>3 DEF Apart
  <2>5. QED
    BY <1>2, <2>2, <2>4
<1>5. ASSUME NEW w \in Request, CountOthers(w) PROVE Requests'
  <2>1. UNCHANGED rows /\ StoreRow(w)
    BY <1>5 DEF CountOthers, StoreRow
  <2>2. CASE Close(w)
    BY <1>2, <1>3, <2>1, <2>2
  <2>3. CASE /\ stage[w] = "purged" /\ UNCHANGED <<key, due, touched>>
             /\ stage'[w] = "room" \/ (stage'[w] = "full" /\ looked \in Evicting)
    <3>1. Apart(w)'
      BY <1>1, <1>2, <2>1, <2>3 DEF Apart, RestStands
    <3>2. QED
      BY <1>2, <2>1, <3>1
  <2>4. QED
    BY <1>5, <2>2, <2>3 DEF CountOthers, Proceed, StoreTypeOK, Evicts
<1>6. ASSUME NEW w \in Request, ChooseEvicted(w) PROVE Requests'
  <2>1. /\ UNCHANGED <<rows, key, due, touched>> /\ StoreRow(w)
        /\ stage[w] = "full" /\ stage'[w] = "evicting"
    BY <1>6 DEF ChooseEvicted, StoreRow, Proceed, StoreTypeOK
  <2>2. Apart(w)'
    BY <1>1, <1>2, <2>1 DEF Apart, RestStands
  <2>3. QED
    BY <1>2, <2>1, <2>2
<1>7. ASSUME NEW w \in Request, Evict(w) PROVE Requests'
  <2>1. /\ UNCHANGED <<rows, key, due>> /\ StoreRow(w)
        /\ stage[w] = "evicting" /\ stage'[w] = "room"
        /\ touched'[w] = touched[w] \cup (chosen[w] \cap Occupied)
        /\ \A v \in Request \ {w} : touched[v] \cap chosen[w] = {}
    BY <1>7 DEF Evict, StoreRow, Proceed, StoreTypeOK, Free
  <2>2. Apart(w) /\ looked \in Evicting
    BY <1>1, <2>1 DEF Apart
  <2>3. Apart(w)'
    BY <1>2, <2>1, <2>2 DEF Apart, RestStands
  <2>4. QED
    BY <1>2, <2>1, <2>3
<1>8. ASSUME NEW w \in Request, FindOld(w) PROVE Requests'
  <2>1. /\ UNCHANGED <<rows, key, due, touched>> /\ StoreRow(w)
        /\ stage[w] = "room" /\ stage'[w] \in {"replacing", "inserting"}
    BY <1>8 DEF FindOld, StoreRow, Proceed, StoreTypeOK
  <2>2. Apart(w)'
    BY <1>1, <1>2, <2>1 DEF Apart, RestStands
  <2>3. QED
    BY <1>2, <2>1, <2>2
<1>9. ASSUME NEW w \in Request, DeleteOld(w) PROVE Requests'
  <2>1. /\ UNCHANGED <<rows, key, due>> /\ StoreRow(w)
        /\ stage[w] = "replacing" /\ stage'[w] = "inserting"
        /\ touched'[w] = touched[w] \cup ({key[w]} \cap Occupied)
        /\ \A v \in Request \ {w} : touched[v] \cap {key[w]} = {}
    BY <1>9 DEF DeleteOld, StoreRow, Proceed, StoreTypeOK, Free
  <2>2. Apart(w)'
    BY <1>1, <1>2, <2>1 DEF Apart, RestStands
  <2>3. QED
    BY <1>2, <2>1, <2>2
<1>10. ASSUME NEW w \in Request, Insert(w) PROVE Requests'
  <2>1. UNCHANGED rows /\ StoreRow(w)
    BY <1>10 DEF Insert, StoreRow
  <2>2. CASE Close(w)
    BY <1>2, <1>3, <2>1, <2>2
  <2>3. CASE ~ Close(w)
    <3>1. /\ UNCHANGED <<key, due, touched>> /\ stage[w] = "inserting" /\ stage'[w] = "inserted"
          /\ key[w] \in Occupied => key[w] \in touched[w]
          /\ \A v \in Request \ {w} : stage[v] = "inserted" => key[v] # key[w]
      BY <1>10, <2>3 DEF Insert, Proceed, StoreTypeOK, Seen
    <3>2. Apart(w)'
      BY <1>1, <1>2, <2>1, <3>1 DEF Apart, RestStands
    <3>3. QED
      BY <1>2, <2>1, <3>2
  <2>4. QED
    BY <2>2, <2>3
<1>11. ASSUME NEW w \in Request, CommitStore(w) PROVE Requests'
  <2>1. RestStands(w) /\ Emptied(w) /\ now' = now /\ looked' = looked /\ stage[w] = "inserted"
    BY <1>11, FinishEmpties DEF CommitStore
  <2>2. \A k \in Key : /\ k # key[w] /\ k \notin touched[w] => rows'[k] = rows[k]
                       /\ k # key[w] /\ k \in touched[w] => rows'[k] = 0
    BY <1>11 DEF CommitStore
  <2>3. SUFFICES ASSUME NEW v \in Request \ {w} PROVE Apart(v)'
    BY <1>1, <2>1 DEF Requests, Apart, Emptied, RestStands
  <2>4. /\ Apart(v) /\ Apart(w) /\ stage'[v] = stage[v] /\ key'[v] = key[v] /\ due'[v] = due[v]
        /\ touched'[v] = touched[v]
    BY <1>1, <2>1 DEF RestStands
  <2>5. ASSUME NEW k \in touched[v] PROVE k \in Key /\ k # key[w] /\ rows'[k] = rows[k] /\ rows[k] # 0
    <3>1. k \in Occupied /\ k \notin touched[w] /\ k # key[w]
      BY <2>1, <2>4 DEF Apart
    <3>2. QED
      BY <2>2, <3>1 DEF Occupied
  <2>6. touched[v] \subseteq Occupied'
    BY <2>5 DEF Occupied
  <2>7. looked \notin Evicting => touched[v] \subseteq ExpiredRows' \cup {key[v]}
    <3>1. touched[v] \cap ExpiredRows \subseteq ExpiredRows'
      BY <2>1, <2>5, <2>6 DEF ExpiredRows
    <3>2. QED
      BY <2>4, <3>1 DEF Apart
  <2>8. stage[v] = "inserted" /\ key[v] \in Occupied' => key[v] \in touched[v]
    <3>1. stage[v] = "inserted" => key[v] # key[w]
      BY <2>1, <2>4 DEF Apart
    <3>2. \A k \in Occupied' : k # key[w] => k \in Occupied
      BY <2>2 DEF Occupied
    <3>3. QED
      BY <2>4, <3>1, <3>2 DEF Apart
  <2>9. \A u \in Request \ {v} : /\ touched'[u] \cap touched[v] = {}
                                 /\ stage[v] = "inserted" /\ stage'[u] = "inserted" => key'[u] # key[v]
    BY <2>1, <2>4 DEF Apart, Emptied, RestStands
  <2>10. QED
    BY <2>1, <2>4, <2>6, <2>7, <2>8, <2>9 DEF Apart
<1>12. ASSUME NEW w \in Request, Fail(w) PROVE Requests'
  BY <1>2, <1>3, <1>12 DEF Fail
<1>13. ASSUME NEW w \in Request, stage[w] = "idle", NEW ks, Free(w, ks),
              UNCHANGED <<looked, now, idle>>, rows' = Without(ks)
       PROVE  Requests'
  <2>1. \A v \in Request : touched[v] \cap ks = {} /\ touched[v] \subseteq Occupied
    BY <1>1, <1>13 DEF Apart, Free
  <2>2. \A k \in Key : (k \in ks => rows'[k] = 0) /\ (k \notin ks => rows'[k] = rows[k])
    BY <1>13 DEF Without
  <2>3. Occupied' = Occupied \ ks /\ ExpiredRows' = ExpiredRows \ ks
    BY <1>13, <2>2 DEF Occupied, ExpiredRows
  <2>4. UNCHANGED <<looked, stage, key, due, touched>>
    BY <1>13 DEF idle
  <2>5. QED
    BY <2>1, <2>3, <2>4, ApartFrom
<1>14. ASSUME NEW w \in Request, NEW k \in Key, NEW ttl \in 1..Ttl,
              ExtendExpiry(w, k, Due(ttl))
       PROVE  Requests'
  <2>1. \A v \in Request : k \notin touched[v] /\ touched[v] \subseteq Occupied
    BY <1>1, <1>14 DEF ExtendExpiry, Apart, Free
  <2>2. /\ \A j \in Key \ {k} : rows'[j] = rows[j]
        /\ UNCHANGED <<looked, now, stage, key, due, touched>> /\ k \in Occupied
    BY <1>14 DEF ExtendExpiry, idle, StoreTypeOK
  <2>3. Occupied' \subseteq Occupied
    BY <2>2 DEF Occupied
  <2>4. \A v \in Request : /\ touched[v] \subseteq Occupied'
                           /\ touched[v] \cap ExpiredRows \subseteq ExpiredRows'
    BY <2>1, <2>2 DEF Occupied, ExpiredRows
  <2>5. QED
    BY <2>2, <2>3, <2>4, ApartFrom
<1>15. CASE Tick
  <2>1. UNCHANGED <<looked, rows, stage, key, due, touched>> /\ now' = now + 1
    BY <1>15 DEF Tick, idle
  <2>2. Occupied' = Occupied
    BY <2>1 DEF Occupied
  <2>3. ExpiredRows \subseteq ExpiredRows'
    BY <2>1, <2>2 DEF ExpiredRows, Occupied, StoreTypeOK
  <2>4. QED
    BY <1>1, <2>1, <2>2, <2>3, ApartFrom DEF Apart
<1>16. CASE UNCHANGED storeVars
  <2>1. UNCHANGED <<looked, rows, now, stage, key, due, touched>>
    BY <1>16 DEF storeVars
  <2>2. Occupied' = Occupied /\ ExpiredRows' = ExpiredRows
    BY <2>1 DEF ExpiredRows, Occupied
  <2>3. QED
    BY <1>1, <2>1, <2>2, ApartFrom DEF Apart
<1>17. ASSUME NEW w \in Request, CleanupAndGet(w) PROVE Requests'
  BY <1>13, <1>17 DEF CleanupAndGet
<1>18. ASSUME NEW w \in Request, NEW k \in Key, CleanupAndPop(w, k) PROVE Requests'
  BY <1>13, <1>18 DEF CleanupAndPop
<1>19. QED
  BY <1>4, <1>5, <1>6, <1>7, <1>8, <1>9, <1>10, <1>11, <1>12, <1>14, <1>15, <1>16, <1>17, <1>18
     DEF StoreNext, StoreRow

LEMMA RoomStep ==
  ASSUME StoreInv, [StoreNext]_storeVars
  PROVE  Room'
<1>1. StoreTypeOK /\ IsFiniteSet(Occupied) /\ Room /\ Requests
  BY DEF StoreInv
<1>2. ASSUME NEW w \in Request, RestStands(w), stage'[w] \notin Counted,
             Occupied' \subseteq Occupied
      PROVE  Room'
  <2>1. Storing' \subseteq Storing \ {w}
    BY <1>2 DEF Storing, RestStands
  <2>2. \A v \in Storing' : v \in Request \ {w}
    BY <2>1 DEF Storing
  <2>3. \A v \in Storing' :
          /\ Spoken(v)' = Spoken(v) /\ stage'[v] = stage[v] /\ excess'[v] = excess[v]
          /\ OtherRows(v)' \subseteq OtherRows(v)
    BY <1>2, <2>2 DEF RestStands, Spoken, OtherRows, Seen
  <2>4. QED
    BY <1>1, <1>2, <2>1, <2>3, RoomShrinks
<1>3. ASSUME NEW w \in Request, RestStands(w), UNCHANGED rows, stage[w] \in Counted,
             stage[w] # "full", stage'[w] # "full", Occupied \cap Spoken(w) \subseteq Spoken(w)'
      PROVE  Room'
  <2>1. Storing' \subseteq Storing /\ Occupied' = Occupied
    BY <1>3 DEF Storing, RestStands, Occupied
  <2>2. \A v \in Request \ {w} :
          /\ Spoken(v)' = Spoken(v) /\ stage'[v] = stage[v] /\ excess'[v] = excess[v]
          /\ OtherRows(v)' \subseteq OtherRows(v)
    BY <1>3, <2>1 DEF RestStands, Spoken, OtherRows, Seen
  <2>3. \A v \in Storing' : v = w \/ v \in Request \ {w}
    BY DEF Storing
  <2>4. QED
    BY <1>1, <1>3, <2>1, <2>2, <2>3, RoomShrinks
<1>4. ASSUME UNCHANGED idle, Occupied' \subseteq Occupied
      PROVE  Room'
  <2>1. Storing' = Storing
    BY <1>4 DEF Storing, idle
  <2>2. \A v \in Request :
          /\ Spoken(v)' = Spoken(v) /\ stage'[v] = stage[v] /\ excess'[v] = excess[v]
          /\ OtherRows(v)' \subseteq OtherRows(v)
    BY <1>4 DEF idle, Spoken, OtherRows, Seen
  <2>3. QED
    BY <1>1, <1>4, <2>1, <2>2, RoomShrinks DEF Storing
<1>5. ASSUME NEW w \in Request, StoreRow(w) \/ Fail(w), UNCHANGED rows
      PROVE  Occupied' = Occupied /\ RestStands(w)
  BY <1>1, <1>5, OneRequest DEF Occupied
<1>6. ASSUME NEW w \in Request, BeginStore(w) PROVE Room'
  <2>1. stage'[w] = "purged" /\ UNCHANGED rows
    BY <1>1, <1>6 DEF BeginStore, Proceed, StoreTypeOK
  <2>2. QED
    BY <1>2, <1>5, <1>6, <2>1 DEF Counted, StoreRow
<1>7. ASSUME NEW w \in Request, CountOthers(w) PROVE Room'
  <2>1. stage[w] = "purged" /\ UNCHANGED rows
    BY <1>7 DEF CountOthers
  <2>2. RestStands(w) /\ Occupied' = Occupied
    BY <1>5, <1>7, <2>1 DEF StoreRow
  <2>3. CASE Close(w)
    BY <1>1, <1>2, <2>2, <2>3, FinishEmpties DEF Emptied, Counted
  <2>4. CASE /\ UNCHANGED <<key, touched>>
             /\ \/ stage'[w] = "room" /\ Cardinality(OtherRows(w)) < MaxEntries
                \/ /\ stage'[w] = "full" /\ Cardinality(OtherRows(w)) >= MaxEntries
                   /\ excess'[w] = Cardinality(OtherRows(w)) - MaxEntries + 1
    BY <1>1, <2>1, <2>2, <2>4, RoomCounted
  <2>5. QED
    BY <1>1, <1>7, <2>3, <2>4
       DEF CountOthers, Proceed, StoreTypeOK, Excess
<1>8. ASSUME NEW w \in Request, ChooseEvicted(w) PROVE Room'
  <2>1. /\ stage[w] = "full" /\ stage'[w] = "evicting" /\ UNCHANGED <<rows, key, touched>>
        /\ chosen'[w] \in Nearest(excess[w], OtherRows(w))
    BY <1>1, <1>8 DEF ChooseEvicted, Proceed, StoreTypeOK
  <2>2. RestStands(w)
    BY <1>5, <1>8, <2>1 DEF StoreRow
  <2>3. QED
    BY <1>1, <2>1, <2>2, RoomChosen
<1>9. ASSUME NEW w \in Request, Evict(w) PROVE Room'
  <2>1. /\ stage[w] = "evicting" /\ stage'[w] = "room" /\ UNCHANGED <<rows, key, chosen>>
        /\ touched'[w] = touched[w] \cup (chosen[w] \cap Occupied)
    BY <1>1, <1>9 DEF Evict, Proceed, StoreTypeOK
  <2>2. RestStands(w)
    BY <1>5, <1>9, <2>1 DEF StoreRow
  <2>3. Occupied \cap Spoken(w) \subseteq Spoken(w)'
    BY <2>1 DEF Spoken
  <2>4. QED
    BY <1>3, <2>1, <2>2, <2>3 DEF Counted
<1>10. ASSUME NEW w \in Request, FindOld(w) PROVE Room'
  <2>1. /\ stage[w] = "room" /\ stage'[w] \in {"replacing", "inserting"}
        /\ UNCHANGED <<rows, key, chosen, touched>>
    BY <1>1, <1>10 DEF FindOld, Proceed, StoreTypeOK
  <2>2. RestStands(w)
    BY <1>5, <1>10, <2>1 DEF StoreRow
  <2>3. Occupied \cap Spoken(w) \subseteq Spoken(w)'
    BY <2>1 DEF Spoken
  <2>4. QED
    BY <1>3, <2>1, <2>2, <2>3 DEF Counted
<1>11. ASSUME NEW w \in Request, DeleteOld(w) PROVE Room'
  <2>1. /\ stage[w] = "replacing" /\ stage'[w] = "inserting" /\ UNCHANGED <<rows, key, chosen>>
        /\ touched'[w] = touched[w] \cup ({key[w]} \cap Occupied)
    BY <1>1, <1>11 DEF DeleteOld, Proceed, StoreTypeOK
  <2>2. RestStands(w)
    BY <1>5, <1>11, <2>1 DEF StoreRow
  <2>3. Occupied \cap Spoken(w) \subseteq Spoken(w)'
    BY <2>1 DEF Spoken
  <2>4. QED
    BY <1>3, <2>1, <2>2, <2>3 DEF Counted
<1>12. ASSUME NEW w \in Request, Insert(w) PROVE Room'
  <2>1. stage[w] = "inserting" /\ UNCHANGED rows
    BY <1>12 DEF Insert
  <2>2. RestStands(w) /\ Occupied' = Occupied
    BY <1>5, <1>12, <2>1 DEF StoreRow
  <2>3. CASE Close(w)
    BY <1>1, <1>2, <2>2, <2>3, FinishEmpties DEF Emptied, Counted
  <2>4. CASE stage'[w] = "inserted" /\ UNCHANGED <<key, chosen, touched>>
    <3>1. Occupied \cap Spoken(w) \subseteq Spoken(w)'
      BY <2>1, <2>4 DEF Spoken
    <3>2. QED
      BY <1>3, <2>1, <2>2, <2>4, <3>1 DEF Counted
  <2>5. QED
    BY <1>1, <1>12, <2>3, <2>4 DEF Insert, Proceed, StoreTypeOK
<1>13. ASSUME NEW w \in Request, CommitStore(w) PROVE Room'
  <2>1. RestStands(w) /\ stage[w] = "inserted" /\ stage'[w] = "idle"
    BY <1>1, <1>13, FinishEmpties DEF CommitStore, Emptied
  <2>2. \A k \in Occupied' : k # key[w] => k \in Occupied \ touched[w]
    BY <1>13 DEF CommitStore, Occupied
  <2>3. QED
    BY <1>1, <2>1, <2>2, RoomCommitted
<1>14. ASSUME NEW w \in Request, Fail(w) PROVE Room'
  BY <1>1, <1>2, <1>5, <1>14, FinishEmpties DEF Fail, Emptied, Counted
<1>15. ASSUME NEW w \in Request, CleanupAndGet(w) PROVE Room'
  BY <1>4, <1>15 DEF CleanupAndGet, Without, Occupied
<1>16. ASSUME NEW w \in Request, NEW k \in Key, CleanupAndPop(w, k) PROVE Room'
  BY <1>4, <1>16 DEF CleanupAndPop, Without, Occupied
<1>17. ASSUME NEW w \in Request, NEW k \in Key, NEW t, ExtendExpiry(w, k, t) PROVE Room'
  BY <1>1, <1>4, <1>17 DEF ExtendExpiry, Occupied, StoreTypeOK
<1>18. CASE Tick
  BY <1>4, <1>18 DEF Tick, Occupied
<1>19. CASE UNCHANGED storeVars
  BY <1>4, <1>19 DEF storeVars, idle, Occupied
<1>20. QED
  BY <1>6, <1>7, <1>8, <1>9, <1>10, <1>11, <1>12, <1>13, <1>14, <1>15, <1>16, <1>17, <1>18, <1>19
     DEF StoreNext, StoreRow

LEMMA StoreInductive == StoreSpec => []StoreInv
<1>1. StoreInit => StoreInv
  <2>1. SUFFICES ASSUME StoreInit PROVE StoreInv
    OBVIOUS
  <2>2. StoreTypeOK
    BY <2>1 DEF StoreInit, StoreTypeOK
  <2>3. Occupied = {} /\ Storing = {}
    BY <2>1 DEF StoreInit, Occupied, Storing, Counted
  <2>4. Requests
    BY <2>1 DEF StoreInit, Requests, Apart
  <2>5. Room
    <3>1. SUFFICES ASSUME NEW D
                   PROVE  Cardinality(Left({}, D)) + Cardinality({}) < MaxEntries + Cardinality(Request)
      BY <2>3 DEF Room
    <3>2. Left({}, D) = {}
      BY <2>3 DEF Left
    <3>3. QED
      BY <3>2, FS_EmptySet, FewStoring
  <2>6. QED
    BY <2>2, <2>3, <2>4, <2>5, FS_EmptySet DEF StoreInv
<1>2. StoreInv /\ [StoreNext]_storeVars => StoreInv'
  BY StoreTyped, PresentIsFinite, RequestsStep, RoomStep DEF StoreInv
<1>3. QED
  BY <1>1, <1>2, PTL DEF StoreSpec

\* Type correctness, for every store of this kind.
THEOREM StoreTypeCorrect == StoreSpec => []StoreTypeOK
<1>1. StoreInv => StoreTypeOK
  BY DEF StoreInv
<1>2. QED
  BY <1>1, StoreInductive, PTL

\* A store grows past its cap by less than the requests there are (cleanup_and_store),
\* whatever they count, choose and commit in whatever order.
THEOREM OverflowsAreBounded == StoreSpec => []OverflowIsBounded
<1>1. StoreInv => OverflowIsBounded
  <2>1. SUFFICES ASSUME StoreInv PROVE OverflowIsBounded
    OBVIOUS
  <2> DEFINE D == [w \in Request |-> {}]
  <2>2. D \in [Request -> SUBSET Key] /\ MayEvict({}, D) /\ Left({}, D) = Occupied
    BY DEF MayEvict, Left
  <2> HIDE DEF D
  <2>3. Cardinality(Left({}, D)) + Cardinality({}) < MaxEntries + Cardinality(Request)
    BY <2>1, <2>2 DEF StoreInv, Room
  <2>4. Cardinality(Occupied) \in Nat /\ Cardinality({}) = 0
    BY <2>1, FS_CardinalityType, FS_EmptySet DEF StoreInv
  <2>5. QED
    BY <2>2, <2>3, <2>4 DEF OverflowIsBounded
<1>2. QED
  BY <1>1, StoreInductive, PTL

\* In a store that refuses, a row goes when it expires or is popped, and for nothing that
\* another request stores (the comment on the stores of oauth_state).
THEOREM RowsStayUntilDue == StoreSpec => StaysUntilDue
<1>1. ASSUME StoreInv, [StoreNext]_storeVars, looked \notin Evicting,
             NEW k \in Key, rows[k] > now, rows'[k] = 0
      PROVE  \E w \in Request : CleanupAndPop(w, k)
  <2>1. /\ StoreTypeOK /\ k \in Occupied /\ k \notin ExpiredRows /\ rows[k] # rows'[k]
    BY <1>1 DEF StoreInv, StoreTypeOK, Occupied, ExpiredRows
  <2>2. ASSUME NEW w \in Request, CommitStore(w) PROVE FALSE
    <3>1. Apart(w) /\ stage[w] = "inserted"
      BY <1>1, <2>2 DEF StoreInv, Requests, CommitStore
    <3>2. k # key[w] /\ k \in touched[w]
      BY <1>1, <2>1, <2>2, <3>1 DEF Apart, CommitStore
    <3>3. QED
      BY <1>1, <2>1, <3>1, <3>2 DEF Apart
  <2>3. ASSUME NEW w \in Request, CleanupAndGet(w) PROVE FALSE
    BY <2>1, <2>3 DEF CleanupAndGet, Without
  <2>4. ASSUME NEW w \in Request, NEW j \in Key, CleanupAndPop(w, j) PROVE j = k
    BY <2>1, <2>4 DEF CleanupAndPop, Without
  <2>5. ASSUME NEW w \in Request, NEW j \in Key, NEW ttl \in 1..Ttl,
               ExtendExpiry(w, j, Due(ttl))
        PROVE  FALSE
    <3>1. now + ttl \in Nat /\ rows[j] \in Nat
      BY <2>1, StoreAssumption DEF StoreAssumption, StoreTypeOK
    <3>2. Later(j, Due(ttl)) >= rows[j]
      <4>1. Later(j, Due(ttl)) = Max({rows[j], now + ttl})
        BY DEF Later, Due
      <4>2. Max({rows[j], now + ttl}) = IF rows[j] <= now + ttl THEN now + ttl ELSE rows[j]
        BY <3>1, LesserOf
      <4>3. QED
        BY <3>1, <4>1, <4>2
    <3>3. QED
      BY <1>1, <2>1, <2>5, <3>1, <3>2 DEF ExtendExpiry, StoreTypeOK, Occupied
  <2>6. QED
    BY <1>1, <2>1, <2>2, <2>3, <2>4, <2>5
       DEF StoreNext, StoreRow, BeginStore, CountOthers,
           ChooseEvicted, Evict, FindOld, DeleteOld,
           Insert, Fail, Tick, storeVars
<1>2. StoreInv => [looked \notin Evicting => \A k \in Key : rows[k] > now /\ rows'[k] = 0 =>
                     \E w \in Request : CleanupAndPop(w, k)]_storeVars
                  \/ ~ [StoreNext]_storeVars
  BY <1>1
<1>3. QED
  BY <1>2, StoreInductive, PTL DEF StoreSpec, StaysUntilDue

=============================================================================
