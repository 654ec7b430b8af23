----------------------------- MODULE TokenChain -----------------------------
(***************************************************************************)
(* What the refresh tokens of Reli's authorization server promise: a       *)
(* family, started by one sign-in, has at most one token that can be       *)
(* redeemed; redeeming it puts a new token in its place; a family that has *)
(* ended stays ended and a token that was replaced is never good again.    *)
(* RefreshTokens is shown to implement this.                               *)
(***************************************************************************)
CONSTANTS Family,  \* one per authorization code exchanged
          Token    \* refresh tokens

VARIABLES live,    \* the redeemable token of each family, if it has one, as a set
          started, \* the families that have had one
          spent    \* the tokens that are or were live

vars == <<live, started, spent>>

Init == /\ live = [f \in Family |-> {}]
        /\ started = {}
        /\ spent = {}

\* A sign-in: the first token of a family that never had one.
Issue(f, t) == /\ f \notin started
               /\ t \notin spent
               /\ live' = [live EXCEPT ![f] = {t}]
               /\ started' = started \cup {f}
               /\ spent' = spent \cup {t}

\* A refresh: a token never seen before replaces the live one.
Rotate(f, t) == /\ live[f] # {}
                /\ t \notin spent
                /\ live' = [live EXCEPT ![f] = {t}]
                /\ spent' = spent \cup {t}
                /\ UNCHANGED started

\* A family ends: revoked, or past its deadline.
End(f) == /\ live' = [live EXCEPT ![f] = {}]
          /\ UNCHANGED <<started, spent>>

\* A token minted for a family that has ended is never live.
Waste(t) == /\ t \notin spent
            /\ spent' = spent \cup {t}
            /\ UNCHANGED <<live, started>>

Next == \/ \E f \in Family, t \in Token : Issue(f, t) \/ Rotate(f, t)
        \/ \E f \in Family : End(f)
        \/ \E t \in Token : Waste(t)

Spec == Init /\ [][Next]_vars

=============================================================================
