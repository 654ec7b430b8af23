--------------------------- MODULE MCRequestGates ---------------------------
(* Small instances of RequestGates for TLC.                                *)
EXTENDS RequestGates, TLC

\* Two a minute for the API, one for the rest.
SmallLimits == [registration |-> 1, auth |-> 1, api |-> 2]

\* Every credential is one owner's.
OneOwner == [c \in Cookie \cup Bearer |-> CHOOSE a \in Account : TRUE]

\* The web view, with an access token only beside a session; its logout; an assistant.
Asks ==
  {a \in [path : {"api"}, from : Address, cookie : Cookie \cup {None}, bearer : Bearer \cup {None}] :
     a.bearer # None => a.cookie # None}
    \cup [path : {"logout"}, from : Address, cookie : Cookie, bearer : {None}]
    \cup [path : {"mcp"}, from : Address, cookie : {None}, bearer : Bearer]

Interchangeable == Permutations(Req)
=============================================================================
