------------------------- MODULE RequestGatesProofs -------------------------
(***************************************************************************)
(* RequestGates for any limits, any number of buckets and of requests.     *)
(* A bucket's account is kept between any two times it is asked; the keys  *)
(* behind one in the order have all asked since it did; and what logout    *)
(* had ended when a request arrived stays on the list while it is on its   *)
(* way.                                                                    *)
(***************************************************************************)
EXTENDS RequestGates, FiniteSetTheorems, SequenceTheorems, TLAPS

Ways == {"take", "cookie", "cookieRow", "bearer", "bearerRow", "gate", "gateRow", "logout"}

InFlight ==
  [pc : Ways, path : STRING, key : Account \cup Address, cookie : Cookie \cup {None},
   bearer : Bearer \cup {None}, ended : SUBSET Credential]

Memory == [born : Nat, admitted : Nat, promised : SUBSET Nat, others : SUBSET Key]

TypedRequests ==
  /\ request \in [Req -> {Idle} \cup InFlight]
  /\ \A r \in Req : ~ At(r, "idle") => TierOf(request[r].path) \in Tiers

TypedBuckets ==
  /\ \A k \in DOMAIN buckets :
       /\ k \in Key
       /\ buckets[k].tokens \in 0..Full(k)
       /\ buckets[k].updated \in 0..now
  /\ DOMAIN past = DOMAIN buckets
  /\ \A k \in DOMAIN past : past[k] \in Memory /\ past[k].born <= buckets[k].updated
                          /\ IsFiniteSet(past[k].others)

Typed ==
  /\ now \in Nat /\ now <= MaxClock
  /\ allowed \subseteq Account /\ revoked \subseteq Credential
  /\ TypedRequests /\ TypedBuckets

\* The order lists every key that has a bucket, once; and whoever is behind a key there
\* has asked since it did.
Ordered ==
  /\ order \in Seq(Key)
  /\ KeysOf(order) = DOMAIN buckets
  /\ \A i, j \in DOMAIN order : order[i] = order[j] => i = j
  /\ Len(order) <= MaxBuckets
  /\ \A i, j \in DOMAIN order : i < j => order[j] \in past[order[i]].others

\* A subject's bucket is spent on a credential that names it and was not on the list when
\* the request arrived.
Named(r, key) ==
  \/ now >= Expires
  \/ \E c \in {request[r].cookie, request[r].bearer} \ (request[r].ended \cup {None}) :
       Subject[c] = key

Guarded(r) ==
  /\ ~ At(r, "idle") => request[r].ended \subseteq revoked
  /\ At(r, "cookieRow") => request[r].cookie # None
  /\ At(r, "bearerRow") => request[r].bearer # None
  /\ ~ At(r, "idle") /\ request[r].key \in Account => Named(r, request[r].key)

Gated == \A r \in Req : Guarded(r)

IInv == Typed /\ Ordered /\ BudgetHolds /\ RetryAfterHolds /\ Gated

-----------------------------------------------------------------------------
LEMMA RequestsInit == Init => Typed /\ Ordered /\ BudgetHolds /\ RetryAfterHolds /\ Gated
<1>1. Init => TypedRequests /\ Gated
  BY DEF Init, TypedRequests, Gated, Guarded, At, Idle
<1>2. Init => TypedBuckets /\ Ordered /\ BudgetHolds /\ RetryAfterHolds
  BY BucketAssumption DEF Init, TypedBuckets, Ordered, KeysOf, BudgetHolds, RetryAfterHolds
<1>3. QED
  BY <1>1, <1>2, ClockAssumption DEF Init, Typed

\* A request that is on its way, is answered, or is taken up.
Onward(r, pc, key) == request' = [request EXCEPT ![r] = [request[r] EXCEPT !.pc = pc, !.key = key]]

LEMMA OnItsWay ==
  ASSUME Typed, NEW r \in Req, ~ At(r, "idle")
  PROVE  /\ request[r] \in InFlight
         /\ \A pc : Moves(r, pc) => Onward(r, pc, request[r].key)
<1>1. request[r] \in InFlight
  BY DEF Typed, TypedRequests, At, Idle
<1>2. ASSUME NEW pc, Moves(r, pc) PROVE Onward(r, pc, request[r].key)
  <2>1. [request[r] EXCEPT !.pc = pc] = [request[r] EXCEPT !.pc = pc, !.key = request[r].key]
    BY <1>1 DEF InFlight
  <2>2. QED
    BY <1>2, <2>1 DEF Moves, Onward
<1>3. QED
  BY <1>1, <1>2

LEMMA OnwardTyped ==
  ASSUME Typed, NEW r \in Req, ~ At(r, "idle"),
         NEW pc \in Ways, NEW key \in Account \cup Address, Onward(r, pc, key)
  PROVE  /\ TypedRequests'
         /\ request'[r].pc = pc /\ request'[r].key = key
         /\ request'[r].cookie = request[r].cookie /\ request'[r].bearer = request[r].bearer
         /\ request'[r].ended = request[r].ended
         /\ \A o \in Req \ {r} : request'[o] = request[o]
<1>1. request[r] \in InFlight
  BY OnItsWay
<1>2. [request[r] EXCEPT !.pc = pc, !.key = key] \in InFlight
  BY <1>1 DEF InFlight
<1>3. /\ request'[r] = [request[r] EXCEPT !.pc = pc, !.key = key]
      /\ \A o \in Req \ {r} : request'[o] = request[o]
      /\ request' \in [Req -> {Idle} \cup InFlight]
  BY <1>2 DEF Typed, TypedRequests, Onward
<1>4. request'[r].path = request[r].path
  BY <1>1, <1>3 DEF InFlight
<1>5. \A o \in Req : ~ At(o, "idle")' => TierOf(request'[o].path) \in Tiers
  BY <1>3, <1>4 DEF Typed, TypedRequests, At
<1>6. TypedRequests'
  BY <1>3, <1>5 DEF TypedRequests, At, TierOf
<1>7. QED
  BY <1>1, <1>3, <1>6 DEF InFlight

LEMMA EndsTyped ==
  ASSUME Typed, NEW r \in Req, Ends(r)
  PROVE  /\ TypedRequests'
         /\ request'[r] = Idle
         /\ \A o \in Req \ {r} : request'[o] = request[o]
<1>1. /\ request'[r] = Idle
      /\ \A o \in Req \ {r} : request'[o] = request[o]
      /\ request' \in [Req -> {Idle} \cup InFlight]
  BY DEF Typed, TypedRequests, Ends
<1>2. \A o \in Req : ~ At(o, "idle")' => TierOf(request'[o].path) \in Tiers
  BY <1>1 DEF Typed, TypedRequests, At, Idle
<1>3. QED
  BY <1>1, <1>2 DEF TypedRequests, At, TierOf

-----------------------------------------------------------------------------
\* The list only grows while a request is on its way, and the clock only runs on.
LEMMA GuardedStays ==
  ASSUME Typed, Gated, NEW r \in Req, request'[r] = request[r],
         revoked \subseteq revoked', now' \in Nat, now <= now'
  PROVE  Guarded(r)'
<1>1. Guarded(r)
  BY DEF Gated
<1>2. now >= Expires => now' >= Expires
  <2>1. now \in Nat /\ Expires \in Nat
    BY ClockAssumption DEF Typed
  <2>2. QED
    BY <2>1
<1>3. QED
  BY <1>1, <1>2 DEF Guarded, Named, At

LEMMA GatedOnward ==
  ASSUME Typed, Gated, NEW r \in Req, ~ At(r, "idle"),
         NEW pc \in Ways, NEW key \in Account \cup Address, Onward(r, pc, key),
         UNCHANGED <<now, revoked>>,
         pc = "cookieRow" => request[r].cookie # None,
         pc = "bearerRow" => request[r].bearer # None,
         key \in Account => Named(r, key)
  PROVE  Gated'
<1>1. Guarded(r)
  BY DEF Gated
<1>2. /\ request'[r].pc = pc /\ request'[r].key = key
      /\ request'[r].cookie = request[r].cookie /\ request'[r].bearer = request[r].bearer
      /\ request'[r].ended = request[r].ended
      /\ \A o \in Req \ {r} : request'[o] = request[o]
  BY OnwardTyped
<1>3. Guarded(r)'
  BY <1>1, <1>2 DEF Guarded, Named, At
<1>4. \A o \in Req \ {r} : Guarded(o)'
  BY <1>2, GuardedStays DEF Typed
<1>5. QED
  BY <1>3, <1>4 DEF Gated

LEMMA GatedEnds ==
  ASSUME Typed, Gated, NEW r \in Req, Ends(r), now' = now, revoked \subseteq revoked'
  PROVE  Gated'
<1>1. request'[r] = Idle /\ \A o \in Req \ {r} : request'[o] = request[o]
  BY EndsTyped
<1>2. Guarded(r)'
  BY <1>1 DEF Guarded, At, Idle
<1>3. \A o \in Req \ {r} : Guarded(o)'
  BY <1>1, GuardedStays DEF Typed
<1>4. QED
  BY <1>2, <1>3 DEF Gated

LEMMA GatedArrive ==
  ASSUME Typed, Gated, NEW r \in Req, Arrive(r)
  PROVE  TypedRequests' /\ Gated'
<1>1. PICK a \in Ask :
        /\ TierOf(a.path) # "exempt"
        /\ request' = [request EXCEPT ![r] =
             [pc     |-> IF TierOf(a.path) = "api" THEN "cookie" ELSE "take",
              path   |-> a.path, key |-> a.from, cookie |-> a.cookie, bearer |-> a.bearer,
              ended  |-> revoked \cap {a.cookie, a.bearer}]]
  BY DEF Arrive
<1>2. a \in [path : STRING, from : Address, cookie : Cookie \cup {None}, bearer : Bearer \cup {None}]
  BY AskAssumption
<1> DEFINE new == [pc     |-> IF TierOf(a.path) = "api" THEN "cookie" ELSE "take",
                   path   |-> a.path, key |-> a.from, cookie |-> a.cookie, bearer |-> a.bearer,
                   ended  |-> revoked \cap {a.cookie, a.bearer}]
<1>3. new \in InFlight
  BY <1>2 DEF InFlight, Ways, Typed
<1>4. /\ new.pc \notin {"idle", "cookieRow", "bearerRow"} /\ new.path = a.path
      /\ new.key \notin Account /\ new.ended \subseteq revoked
  BY <1>2, KeyAssumption
<1>5. request' = [request EXCEPT ![r] = new]
  BY <1>1
<1> HIDE DEF new
<1>6. /\ request'[r] = new
      /\ \A o \in Req \ {r} : request'[o] = request[o]
      /\ request' \in [Req -> {Idle} \cup InFlight]
      /\ UNCHANGED <<now, revoked>>
  BY <1>3, <1>5 DEF Typed, TypedRequests, Arrive, Quiet
<1>7. TierOf(a.path) \in Tiers
  BY <1>1 DEF TierOf, Tiers
<1>8. \A o \in Req : ~ At(o, "idle")' => TierOf(request'[o].path) \in Tiers
  BY <1>4, <1>6, <1>7 DEF Typed, TypedRequests, At
<1>9. Guarded(r)'
  BY <1>4, <1>6 DEF Guarded, At
<1>10. \A o \in Req \ {r} : Guarded(o)'
  BY <1>6, GuardedStays DEF Typed
<1>11. QED
  BY <1>6, <1>8, <1>9, <1>10 DEF Gated, TypedRequests, At, TierOf

\* The subject a look-up names.
LEMMA GatedRow ==
  ASSUME Typed, Gated, NEW r \in Req, ~ At(r, "idle"), UNCHANGED <<now, revoked>>,
         NEW c \in {request[r].cookie, request[r].bearer} \ {None}, ~ Listed(c),
         request' = [request EXCEPT ![r].pc = "take", ![r].key = Subject[c]]
  PROVE  TypedRequests' /\ Gated'
<1>1. request[r] \in InFlight
  BY OnItsWay
<1>2. c \in Credential /\ Subject[c] \in Account
  BY <1>1, SubjectAssumption DEF InFlight, Credential
<1>3. Onward(r, "take", Subject[c])
  BY <1>1 DEF Onward, InFlight
<1>4. Named(r, Subject[c])
  <2>1. c \notin revoked \/ now >= Expires
    BY ClockAssumption DEF Listed, Typed
  <2>2. request[r].ended \subseteq revoked
    BY DEF Gated, Guarded
  <2>3. QED
    BY <2>1, <2>2 DEF Named
<1>5. "take" \in Ways
  BY DEF Ways
<1>6. QED
  BY <1>2, <1>3, <1>4, <1>5, OnwardTyped, GatedOnward

-----------------------------------------------------------------------------
\* The order, when a key is asked: the others move up behind one another, the key goes to
\* the end, and one too many pushes the first one out.
LEMMA AskedOrder ==
  ASSUME Ordered, NEW k \in Key
  PROVE  /\ Asked(k) \in Seq(Key)
         /\ \E p \in 1..(Len(order) + 1) :
              /\ \/ p <= Len(order) /\ order[p] = k /\ Len(Asked(k)) = Len(order)
                 \/ p = Len(order) + 1 /\ k \notin DOMAIN buckets /\ Len(Asked(k)) = Len(order) + 1
              /\ Asked(k)[Len(Asked(k))] = k
              /\ \A i \in 1..(Len(Asked(k)) - 1) :
                   Asked(k)[i] = IF i < p THEN order[i] ELSE order[i + 1]
<1>0. order \in Seq(Key)
  BY DEF Ordered
<1>1. /\ order \in Seq(Key) /\ Len(order) \in Nat /\ DOMAIN order = 1..Len(order)
      /\ \A i \in 1..Len(order) : order[i] \in Key
  BY <1>0, LenProperties, ElementOfSeq
<1>2. CASE k \notin DOMAIN buckets
  <2>1. Asked(k) = Append(order, k)
    BY <1>2 DEF Asked
  <2>2. /\ Asked(k) \in Seq(Key) /\ Len(Asked(k)) = Len(order) + 1
        /\ Asked(k)[Len(order) + 1] = k
        /\ \A i \in 1..Len(order) : Asked(k)[i] = order[i]
    BY <1>1, <2>1, AppendProperties
  <2>3. Len(order) + 1 \in 1..(Len(order) + 1) /\ Len(Asked(k)) - 1 = Len(order)
    BY <1>1, <2>2
  <2>4. \A i \in 1..(Len(Asked(k)) - 1) :
          Asked(k)[i] = IF i < Len(order) + 1 THEN order[i] ELSE order[i + 1]
    BY <1>1, <2>2, <2>3
  <2>5. Asked(k)[Len(Asked(k))] = k
    BY <2>2
  <2>6. QED
    BY <1>2, <2>2, <2>3, <2>4, <2>5, Zenon
<1>3. CASE k \in DOMAIN buckets
  <2> DEFINE p == CHOOSE i \in DOMAIN order : order[i] = k
             front == SubSeq(order, 1, p - 1)
             back == SubSeq(order, p + 1, Len(order))
  <2>1. p \in 1..Len(order) /\ order[p] = k
    BY <1>1, <1>3 DEF Ordered, KeysOf
  <2>2. Asked(k) = front \o back \o <<k>>
    BY <1>3 DEF Asked
  <2> HIDE DEF p
  <2>3. /\ front \in Seq(Key) /\ Len(front) = p - 1
        /\ \A i \in 1..(p - 1) : front[i] = order[i]
    <3>1. \A i \in 1..(p - 1) : order[i] \in Key
      BY <1>1, <2>1, ElementOfSeq
    <3>2. 1 \in Int /\ p - 1 \in Int
      BY <2>1
    <3>3. QED
      BY <2>1, <3>1, <3>2, SubSeqProperties
  <2>4. /\ back \in Seq(Key) /\ Len(back) = Len(order) - p
        /\ \A i \in 1..(Len(order) - p) : back[i] = order[p + i]
    <3>1. \A i \in (p + 1)..Len(order) : order[i] \in Key
      <4>1. \A i \in (p + 1)..Len(order) : i \in 1..Len(order)
        BY <1>1, <2>1
      <4>2. QED
        BY <1>1, <4>1
    <3>2. PICK L \in Nat : L = Len(order)
      BY <1>1, Zenon
    <3>3. p + 1 \in Int /\ L \in Int
      BY <2>1, <3>2
    <3>4. /\ back \in Seq(Key)
          /\ Len(back) = IF p + 1 <= L THEN L - (p + 1) + 1 ELSE 0
          /\ \A i \in 1..(L - (p + 1) + 1) : back[i] = order[p + 1 + i - 1]
      BY <3>1, <3>2, <3>3, SubSeqProperties
    <3> HIDE DEF back
    <3>5. p \in Nat /\ p <= L
      BY <2>1, <3>2
    <3>6. L - (p + 1) + 1 = L - p /\ (~ (p + 1 <= L) => L - p = 0)
      BY <3>5
    <3>7. ASSUME NEW i \in 1..(L - p) PROVE back[i] = order[p + i]
      <4>1. p + 1 + i - 1 = p + i
        BY <3>5
      <4>2. QED
        BY <3>4, <3>6, <4>1
    <3>8. QED
      BY <3>2, <3>4, <3>6, <3>7
  <2> HIDE DEF front, back
  <2> DEFINE rest == front \o back
  <2>5. /\ rest \in Seq(Key) /\ Len(rest) = Len(order) - 1
        /\ \A i \in 1..(Len(order) - 1) : rest[i] = IF i < p THEN order[i] ELSE order[i + 1]
    <3>1. /\ rest \in Seq(Key) /\ Len(rest) = Len(front) + Len(back)
          /\ \A i \in 1..(Len(front) + Len(back)) :
               rest[i] = IF i <= Len(front) THEN front[i] ELSE back[i - Len(front)]
      BY <2>3, <2>4, ConcatProperties
    <3> HIDE DEF rest
    <3>2. ASSUME NEW i \in 1..(Len(order) - 1) PROVE rest[i] = IF i < p THEN order[i] ELSE order[i + 1]
      <4>1. CASE i < p
        <5>1. i <= Len(front) /\ i \in 1..(p - 1)
          BY <1>1, <2>1, <2>3, <4>1
        <5>2. i \in 1..(Len(front) + Len(back))
          BY <1>1, <2>1, <2>3, <2>4
        <5>3. rest[i] = front[i] /\ front[i] = order[i]
          BY <2>3, <3>1, <5>1, <5>2
        <5>4. QED
          BY <4>1, <5>3
      <4>2. CASE i >= p
        <5>1. i - (p - 1) \in 1..(Len(order) - p) /\ ~ (i <= Len(front))
          BY <1>1, <2>1, <2>3, <4>2
        <5>2. back[i - (p - 1)] = order[p + (i - (p - 1))]
          BY <2>4, <5>1
        <5>3. p + (i - (p - 1)) = i + 1
          BY <2>1
        <5>4. i \in 1..(Len(front) + Len(back))
          BY <1>1, <2>1, <2>3, <2>4
        <5>5. rest[i] = back[i - Len(front)] /\ Len(front) = p - 1
          BY <2>3, <3>1, <5>1, <5>4
        <5>6. rest[i] = order[i + 1]
          BY <5>2, <5>3, <5>5
        <5>7. ~ (i < p)
          BY <2>1, <4>2
        <5>8. QED
          BY <5>6, <5>7
      <4>3. i \in Int /\ p \in Int
        BY <1>1, <2>1
      <4>4. QED
        <5>1. i < p \/ i >= p
          BY <4>3
        <5>2. QED
          BY <4>1, <4>2, <5>1
    <3>3. QED
      BY <1>1, <2>1, <2>3, <2>4, <3>1, <3>2
  <2> HIDE DEF rest
  <2>6. /\ Asked(k) \in Seq(Key) /\ Len(Asked(k)) = Len(order)
        /\ Asked(k)[Len(order)] = k
        /\ \A i \in 1..(Len(order) - 1) : Asked(k)[i] = rest[i]
    <3>1. <<k>> \in Seq(Key) /\ Len(<<k>>) = 1 /\ <<k>>[1] = k
      OBVIOUS
    <3>2. Asked(k) = rest \o <<k>>
      BY <2>2 DEF rest
    <3>3. /\ Asked(k) \in Seq(Key) /\ Len(Asked(k)) = Len(rest) + Len(<<k>>)
          /\ \A i \in 1..(Len(rest) + Len(<<k>>)) :
               Asked(k)[i] = IF i <= Len(rest) THEN rest[i] ELSE <<k>>[i - Len(rest)]
      BY <2>5, <3>1, <3>2, ConcatProperties
    <3>4. Len(rest) + Len(<<k>>) = Len(order) /\ Len(rest) = Len(order) - 1
      BY <1>1, <2>5, <3>1
    <3>5. Asked(k)[Len(order)] = k
      <4>1. /\ Len(order) \in 1..(Len(rest) + Len(<<k>>)) /\ ~ (Len(order) <= Len(rest))
            /\ Len(order) - Len(rest) = 1
        BY <1>1, <2>1, <3>4
      <4>2. Asked(k)[Len(order)] = <<k>>[1]
        BY <3>3, <4>1
      <4>3. QED
        BY <3>1, <4>2
    <3>6. ASSUME NEW i \in 1..(Len(order) - 1) PROVE Asked(k)[i] = rest[i]
      <4>1. i <= Len(rest) /\ i \in 1..(Len(rest) + Len(<<k>>))
        BY <1>1, <3>4
      <4>2. QED
        BY <3>3, <4>1
    <3>7. QED
      BY <3>3, <3>4, <3>5, <3>6
  <2>7. \A i \in 1..(Len(Asked(k)) - 1) : Asked(k)[i] = IF i < p THEN order[i] ELSE order[i + 1]
    BY <2>5, <2>6
  <2>8. p \in 1..(Len(order) + 1) /\ p <= Len(order)
    BY <1>1, <2>1
  <2>9. QED
    BY <2>1, <2>6, <2>7, <2>8
<1>4. QED
  BY <1>2, <1>3

\* The order with its new end, before anything goes.
LEMMA AskedKeys ==
  ASSUME Ordered, NEW k \in Key
  PROVE  LET n == Len(Asked(k))
         IN /\ n \in Nat \ {0} /\ n <= MaxBuckets + 1 /\ Asked(k)[n] = k
            /\ n > MaxBuckets => k \notin DOMAIN buckets /\ Len(order) = MaxBuckets
                                 /\ \A i \in 1..(n - 1) : Asked(k)[i] = order[i]
            /\ \A i \in 1..(n - 1) : Asked(k)[i] \in DOMAIN buckets \ {k}
            /\ \A i, j \in 1..(n - 1) : i < j =>
                 Asked(k)[i] # Asked(k)[j] /\ Asked(k)[j] \in past[Asked(k)[i]].others
            /\ \A x \in DOMAIN buckets : \E i \in 1..n : Asked(k)[i] = x
<1> DEFINE a == Asked(k)
           n == Len(a)
           m == Len(order)
<1>1. order \in Seq(Key) /\ m \in Nat /\ m <= MaxBuckets /\ MaxBuckets \in Nat
  BY LenProperties, BucketAssumption DEF Ordered
<1>2. DOMAIN order = 1..m /\ DOMAIN buckets = {order[i] : i \in 1..m}
  BY <1>1, LenProperties DEF Ordered, KeysOf
<1>3. PICK p \in 1..(m + 1) :
        /\ \/ p <= m /\ order[p] = k /\ n = m
           \/ p = m + 1 /\ k \notin DOMAIN buckets /\ n = m + 1
        /\ a[n] = k
        /\ \A i \in 1..(n - 1) : a[i] = IF i < p THEN order[i] ELSE order[i + 1]
  BY AskedOrder
<1> HIDE DEF n, a, m
<1>4. n \in Nat \ {0} /\ n <= MaxBuckets + 1 /\ p \in Nat
  BY <1>1, <1>3
<1> DEFINE pos(i) == IF i < p THEN i ELSE i + 1
<1>5. ASSUME NEW i \in 1..(n - 1)
      PROVE  pos(i) \in 1..m /\ pos(i) # p /\ a[i] = order[pos(i)]
  BY <1>1, <1>3, <1>4, <1>5
<1>6. ASSUME NEW i \in 1..(n - 1), NEW j \in 1..(n - 1), i < j PROVE pos(i) < pos(j)
  BY <1>4, <1>6
<1> HIDE DEF pos
<1>7. ASSUME NEW i \in 1..(n - 1) PROVE a[i] \in DOMAIN buckets \ {k}
  <2>1. order[pos(i)] # k
    <3>1. CASE p <= m
      BY <1>1, <1>2, <1>3, <1>4, <1>5, <3>1 DEF Ordered
    <3>2. CASE p = m + 1
      BY <1>1, <1>2, <1>3, <1>5, <3>2
    <3>3. QED
      BY <1>3, <3>1, <3>2
  <2>2. QED
    BY <1>2, <1>5, <2>1
<1>8. ASSUME NEW i \in 1..(n - 1), NEW j \in 1..(n - 1), i < j
      PROVE  a[i] # a[j] /\ a[j] \in past[a[i]].others
  <2>1. /\ pos(i) \in 1..m /\ pos(j) \in 1..m /\ pos(i) < pos(j)
        /\ a[i] = order[pos(i)] /\ a[j] = order[pos(j)]
    BY <1>5, <1>6, <1>8
  <2>2. QED
    BY <1>2, <2>1 DEF Ordered
<1>9. ASSUME n > MaxBuckets
      PROVE  k \notin DOMAIN buckets /\ m = MaxBuckets /\ \A i \in 1..(n - 1) : a[i] = order[i]
  <2>1. p = m + 1 /\ k \notin DOMAIN buckets /\ n = m + 1
    BY <1>1, <1>3, <1>9
  <2>2. QED
    BY <1>1, <1>3, <1>9, <2>1
<1>10. ASSUME NEW x \in DOMAIN buckets PROVE \E i \in 1..n : a[i] = x
  <2>1. PICK q \in 1..m : order[q] = x
    BY <1>2
  <2>2. CASE q = p
    <3>1. x = k /\ n \in 1..n
      BY <1>1, <1>3, <1>4, <2>1, <2>2
    <3>2. QED
      BY <1>3, <3>1
  <2>3. CASE q < p
    <3>1. q \in 1..(n - 1) /\ q \in 1..n
      BY <1>1, <1>3, <1>4, <2>1, <2>3
    <3>2. a[q] = order[q]
      BY <1>3, <2>3, <3>1
    <3>3. QED
      BY <2>1, <3>1, <3>2
  <2>4. CASE q > p
    <3>1. q - 1 \in 1..(n - 1) /\ q - 1 \in 1..n /\ ~ (q - 1 < p) /\ (q - 1) + 1 = q
      BY <1>1, <1>3, <1>4, <2>1, <2>4
    <3>2. a[q - 1] = order[q]
      BY <1>3, <3>1
    <3>3. QED
      BY <2>1, <3>1, <3>2
  <2>5. QED
    BY <1>1, <1>4, <2>2, <2>3, <2>4
<1>11. QED
  BY <1>3, <1>4, <1>7, <1>8, <1>9, <1>10 DEF a, n, m

LEMMA KeptOrder ==
  ASSUME Ordered, NEW k \in Key
  PROVE  LET o == Kept(k) n == Len(Kept(k))
         IN /\ o \in Seq(Key) /\ n \in 1..MaxBuckets /\ o[n] = k
            /\ \A i \in 1..(n - 1) : o[i] \in DOMAIN buckets \ {k}
            /\ \A i, j \in 1..(n - 1) : i < j => o[i] # o[j] /\ o[j] \in past[o[i]].others
            /\ \A x \in DOMAIN buckets \ KeysOf(o) :
                 k \notin DOMAIN buckets /\ Len(order) = MaxBuckets /\ x = order[1]
<1> DEFINE a == Asked(k)
           m == Len(a)
           o == Kept(k)
           n == Len(o)
<1>1. /\ m \in Nat \ {0} /\ m <= MaxBuckets + 1 /\ a[m] = k
      /\ m > MaxBuckets => k \notin DOMAIN buckets /\ Len(order) = MaxBuckets
                           /\ \A i \in 1..(m - 1) : a[i] = order[i]
      /\ \A i \in 1..(m - 1) : a[i] \in DOMAIN buckets \ {k}
      /\ \A i, j \in 1..(m - 1) : i < j => a[i] # a[j] /\ a[j] \in past[a[i]].others
      /\ \A x \in DOMAIN buckets : \E i \in 1..m : a[i] = x
  BY AskedKeys
<1>2. a \in Seq(Key) /\ MaxBuckets \in Nat \ {0} /\ DOMAIN a = 1..m
  BY AskedOrder, BucketAssumption, LenProperties
<1>3. o = IF m > MaxBuckets THEN Tail(a) ELSE a
  BY DEF Kept
<1> HIDE DEF a
<1>4. CASE ~ (m > MaxBuckets)
  <2>1. o = a /\ n = m
    BY <1>3, <1>4
  <2>2. m \in 1..MaxBuckets
    BY <1>1, <1>2, <1>4
  <2>3. DOMAIN buckets \subseteq KeysOf(o)
    BY <1>1, <1>2, <2>1 DEF KeysOf
  <2> HIDE DEF m, n, o
  <2>4. QED
    BY <1>1, <1>2, <2>1, <2>2, <2>3 DEF m, n, o
<1>5. CASE m > MaxBuckets
  <2> HIDE DEF m
  <2>1. m = MaxBuckets + 1 /\ m - 1 = MaxBuckets
    BY <1>1, <1>2, <1>5
  <2>2. a # << >>
    BY <1>2, <2>1, EmptySeq DEF m
  <2>3. /\ o \in Seq(Key) /\ n = m - 1
        /\ \A i \in 1..n : o[i] = a[i + 1]
    BY <1>2, <1>3, <1>5, <2>2, HeadTailProperties DEF m
  <2> HIDE DEF o, n
  <2>4. n \in 1..MaxBuckets /\ n = MaxBuckets /\ o[n] = k
    <3>1. n \in 1..n /\ n + 1 = m
      BY <1>2, <2>1, <2>3
    <3>2. QED
      BY <1>1, <1>2, <2>1, <2>3, <3>1
  <2>5. ASSUME NEW i \in 1..(n - 1)
        PROVE  i + 1 \in 1..(m - 1) /\ o[i] = a[i + 1]
    BY <1>2, <2>3, <2>4
  <2>6. ASSUME NEW i \in 1..(n - 1), NEW j \in 1..(n - 1), i < j
        PROVE  o[i] # o[j] /\ o[j] \in past[o[i]].others
    <3>1. i + 1 < j + 1
      BY <1>2, <2>4, <2>6
    <3>2. QED
      BY <1>1, <2>5, <3>1
  <2>7. ASSUME NEW x \in DOMAIN buckets, x \notin KeysOf(o) PROVE x = order[1]
    <3>1. PICK i \in 1..m : a[i] = x
      BY <1>1
    <3>2. i = 1
      <4>1. SUFFICES ASSUME i # 1 PROVE FALSE
        OBVIOUS
      <4>2. i - 1 \in 1..n /\ (i - 1) + 1 = i
        BY <1>2, <2>1, <2>3, <4>1
      <4>3. o[i - 1] = x
        BY <2>3, <3>1, <4>2
      <4>4. DOMAIN o = 1..n
        BY <2>3, LenProperties DEF n
      <4>5. QED
        BY <2>7, <4>2, <4>3, <4>4 DEF KeysOf
    <3>3. 1 \in 1..(m - 1)
      BY <1>2, <2>1
    <3>4. QED
      BY <1>1, <1>5, <3>1, <3>2, <3>3
  <2>8. \A i \in 1..(n - 1) : o[i] \in DOMAIN buckets \ {k}
    BY <1>1, <2>5
  <2>9. k \notin DOMAIN buckets /\ Len(order) = MaxBuckets
    BY <1>1, <1>5
  <2>10. QED
    BY <2>3, <2>4, <2>6, <2>7, <2>8, <2>9 DEF o, n
<1>6. QED
  BY <1>4, <1>5

LEMMA OrderCounts ==
  ASSUME Ordered
  PROVE  Len(order) = Cardinality(DOMAIN buckets) /\ IsFiniteSet(DOMAIN buckets)
<1>1. order \in Seq(Key) /\ Len(order) \in Nat /\ DOMAIN order = 1..Len(order)
  BY LenProperties DEF Ordered
<1>2. DOMAIN buckets = {order[i] : i \in 1..Len(order)}
  BY <1>1 DEF Ordered, KeysOf
<1>3. order \in [1..Len(order) -> DOMAIN buckets]
  BY <1>1, <1>2, LenProperties
<1>4. order \in Bijection(1..Len(order), DOMAIN buckets)
  BY <1>1, <1>2, <1>3 DEF Ordered, Bijection, Injection, Surjection, IsInjective
<1>5. ExistsBijection(1..Len(order), DOMAIN buckets)
  BY <1>4 DEF ExistsBijection
<1>6. QED
  BY <1>1, <1>5, FS_CountingElements, FS_NatBijection

LEMMA FullIsNat ==
  ASSUME NEW k \in Key
  PROVE  Full(k) \in Nat /\ Limit[k[1]] \in Nat \ {0}
<1>1. Limit[k[1]] \in Nat \ {0} /\ Minute \in Nat \ {0}
  BY LimitAssumption, MinuteAssumption DEF Key
<1>2. \A a, b \in Nat : a * b \in Nat
  OBVIOUS
<1>3. QED
  BY <1>1, <1>2 DEF Full

\* A bucket that is asked holds no more than it may, and no more than time has given it.
LEMMA RefilledHolds ==
  ASSUME Typed, NEW k \in Key
  PROVE  /\ Refilled(k) \in 0..Full(k)
         /\ k \in DOMAIN buckets =>
              Refilled(k) <= buckets[k].tokens + (now - buckets[k].updated) * Limit[k[1]]
<1>1. Full(k) \in Nat /\ Limit[k[1]] \in Nat
  BY FullIsNat
<1>2. CASE k \notin DOMAIN buckets
  BY <1>1, <1>2 DEF Refilled
<1>3. CASE k \in DOMAIN buckets
  <2> DEFINE gain == (now - buckets[k].updated) * Limit[k[1]]
  <2>1. buckets[k].tokens \in 0..Full(k) /\ now - buckets[k].updated \in Nat
    BY <1>3 DEF Typed, TypedBuckets
  <2>2. \A a, b \in Nat : a * b \in Nat
    OBVIOUS
  <2>3. gain \in Nat
    BY <1>1, <2>1, <2>2
  <2>4. Refilled(k) = IF buckets[k].tokens + gain < Full(k) THEN buckets[k].tokens + gain ELSE Full(k)
    BY <1>3 DEF Refilled
  <2> HIDE DEF gain
  <2>5. Refilled(k) \in 0..Full(k) /\ Refilled(k) <= buckets[k].tokens + gain
    BY <1>1, <2>1, <2>3, <2>4
  <2>6. QED
    BY <2>5 DEF gain
<1>4. QED
  BY <1>2, <1>3

\* What _take makes of the buckets.
LEMMA TakeMakes ==
  ASSUME Typed, Ordered, NEW r \in Req, Take(r)
  PROVE  LET k == KeyOf(r)
             tokens == Refilled(k)
             kept == KeysOf(Kept(k))
         IN /\ k \in Key /\ k \in kept /\ kept \ {k} \subseteq DOMAIN buckets
            /\ order' = Kept(k) /\ DOMAIN buckets' = kept /\ DOMAIN past' = kept
            /\ buckets'[k].updated = now
            /\ buckets'[k].tokens = IF tokens >= Minute THEN tokens - Minute ELSE tokens
            /\ past'[k] = Remembered(k, tokens >= Minute, tokens)
            /\ \A x \in kept \ {k} : /\ buckets'[x] = buckets[x]
                                     /\ past'[x] = [past[x] EXCEPT !.others = @ \cup {k}]
            /\ now' = now /\ UNCHANGED <<allowed, revoked>>
<1> DEFINE k == KeyOf(r)
           tokens == Refilled(k)
           kept == KeysOf(Kept(k))
<1>1. request[r] \in InFlight /\ TierOf(request[r].path) \in Tiers
  BY OnItsWay DEF Take, At, Typed, TypedRequests
<1>2. k \in Key
  BY <1>1 DEF KeyOf, Key, InFlight
<1>3. /\ order' = Kept(k)
      /\ buckets' = [x \in kept |->
           IF x = k THEN [tokens |-> IF tokens >= Minute THEN tokens - Minute ELSE tokens, updated |-> now]
           ELSE buckets[x]]
      /\ past' = [x \in kept |->
           IF x = k THEN Remembered(k, tokens >= Minute, tokens)
           ELSE [past[x] EXCEPT !.others = @ \cup {k}]]
      /\ UNCHANGED <<now, allowed, revoked>>
  BY DEF Take
<1>4. k \in kept /\ kept \ {k} \subseteq DOMAIN buckets
  <2>1. LET o == Kept(k) n == Len(Kept(k))
        IN /\ o \in Seq(Key) /\ n \in 1..MaxBuckets /\ o[n] = k
           /\ \A i \in 1..(n - 1) : o[i] \in DOMAIN buckets \ {k}
    BY <1>2, KeptOrder
  <2> DEFINE o == Kept(k)
             n == Len(o)
  <2>2. DOMAIN o = 1..n /\ n \in Nat /\ n \in 1..n
    BY <2>1, LenProperties, BucketAssumption
  <2> HIDE DEF n, o
  <2>3. \A i \in 1..n : i = n \/ i \in 1..(n - 1)
    BY <2>2
  <2>4. o[n] = k /\ \A i \in 1..(n - 1) : o[i] \in DOMAIN buckets \ {k}
    BY <2>1 DEF o, n
  <2>5. \A i \in 1..n : o[i] = k \/ o[i] \in DOMAIN buckets
    BY <2>3, <2>4
  <2>6. KeysOf(o) = {o[i] : i \in 1..n}
    BY <2>2 DEF KeysOf
  <2>7. k \in KeysOf(o)
    BY <2>2, <2>4, <2>6
  <2>8. KeysOf(o) \ {k} \subseteq DOMAIN buckets
    BY <2>5, <2>6
  <2>9. QED
    BY <2>7, <2>8 DEF o
<1> HIDE DEF k, tokens, kept
<1>5. QED
  BY <1>2, <1>3, <1>4 DEF k, tokens, kept

LEMMA OrderedTake ==
  ASSUME Typed, Ordered, NEW r \in Req, Take(r)
  PROVE  Ordered'
<1> DEFINE k == KeyOf(r)
           o == Kept(k)
           n == Len(o)
<1>1. /\ k \in Key /\ order' = o /\ DOMAIN buckets' = KeysOf(o) /\ k \in KeysOf(o)
      /\ \A x \in KeysOf(o) \ {k} : past'[x] = [past[x] EXCEPT !.others = @ \cup {k}]
      /\ KeysOf(o) \ {k} \subseteq DOMAIN buckets
  BY TakeMakes
<1>2. /\ o \in Seq(Key) /\ n \in 1..MaxBuckets /\ o[n] = k
      /\ \A i \in 1..(n - 1) : o[i] \in DOMAIN buckets \ {k}
      /\ \A i, j \in 1..(n - 1) : i < j => o[i] # o[j] /\ o[j] \in past[o[i]].others
  BY <1>1, KeptOrder
<1>3. DOMAIN o = 1..n /\ n \in Nat /\ MaxBuckets \in Nat
  BY <1>2, LenProperties, BucketAssumption
<1> HIDE DEF k, o, n
<1>4. \A i, j \in 1..n : o[i] = o[j] => i = j
  BY <1>2, <1>3
<1>5. ASSUME NEW i \in 1..n, NEW j \in 1..n, i < j PROVE o[j] \in past'[o[i]].others
  <2>1. i \in 1..(n - 1) /\ (j = n \/ j \in 1..(n - 1))
    BY <1>3, <1>5
  <2>2. o[i] \in KeysOf(o) \ {k} /\ o[i] \in DOMAIN buckets
    BY <1>2, <1>3, <2>1 DEF KeysOf
  <2>3. past[o[i]] \in Memory /\ past'[o[i]] = [past[o[i]] EXCEPT !.others = @ \cup {k}]
    BY <1>1, <2>2 DEF Typed, TypedBuckets
  <2>4. past'[o[i]].others = past[o[i]].others \cup {k}
    BY <2>3 DEF Memory
  <2>5. o[j] = k \/ o[j] \in past[o[i]].others
    BY <1>2, <1>5, <2>1
  <2>6. QED
    BY <2>4, <2>5
<1>6. Len(order') = n /\ n <= MaxBuckets
  BY <1>1, <1>2, <1>3 DEF n
<1>7. KeysOf(order)' = DOMAIN buckets'
  BY <1>1 DEF KeysOf
<1>8. QED
  BY <1>1, <1>2, <1>3, <1>4, <1>5, <1>6, <1>7 DEF Ordered

LEMMA RetryAfterIsNat ==
  ASSUME NEW k \in Key, NEW tokens \in Int
  PROVE  RetryAfter(k, tokens) \in Nat \ {0}
<1>1. Limit[k[1]] \in Nat \ {0} /\ Minute \in Int
  BY FullIsNat, MinuteAssumption
<1>2. \A a \in Int, b \in Nat \ {0} : a \div b \in Int
  OBVIOUS
<1>3. (Minute - tokens + Limit[k[1]] - 1) \div Limit[k[1]] \in Int
  BY <1>1, <1>2
<1>4. QED
  BY <1>3 DEF RetryAfter

\* What is remembered of a bucket that is asked.
LEMMA RememberedOf ==
  ASSUME Typed, NEW k \in Key, NEW admitted \in BOOLEAN, NEW tokens \in Int
  PROVE  LET it == Remembered(k, admitted, tokens)
         IN /\ it \in Memory /\ it.born <= now /\ it.others = {}
            /\ admitted => it.promised = {}
            /\ k \in DOMAIN buckets =>
                 /\ ~ admitted => it.promised = past[k].promised \cup {now + RetryAfter(k, tokens)}
                 /\ it.born = past[k].born
                 /\ it.admitted = past[k].admitted + (IF admitted THEN 1 ELSE 0)
            /\ k \notin DOMAIN buckets =>
                 /\ ~ admitted => it.promised = {now + RetryAfter(k, tokens)}
                 /\ it.born = now /\ it.admitted = IF admitted THEN 1 ELSE 0
<1>1. now \in Nat /\ RetryAfter(k, tokens) \in Nat /\ DOMAIN past = DOMAIN buckets
  BY RetryAfterIsNat DEF Typed, TypedBuckets
<1> DEFINE was == IF k \in DOMAIN past THEN past[k]
                  ELSE [born |-> now, admitted |-> 0, promised |-> {}, others |-> {}]
<1>2. was.born \in Nat /\ was.admitted \in Nat /\ was.born <= now /\ was.promised \subseteq Nat
  <2>1. CASE k \in DOMAIN past
    <3>1. past[k] \in Memory /\ past[k].born <= buckets[k].updated /\ buckets[k].updated \in 0..now
      BY <2>1 DEF Typed, TypedBuckets
    <3>2. past[k].born \in Nat /\ past[k].admitted \in Nat /\ past[k].promised \subseteq Nat
      BY <3>1 DEF Memory
    <3>3. QED
      BY <1>1, <2>1, <3>1, <3>2
  <2>2. CASE k \notin DOMAIN past
    BY <1>1, <2>2
  <2>3. QED
    BY <2>1, <2>2
<1>3. /\ k \in DOMAIN buckets => was = past[k]
      /\ k \notin DOMAIN buckets => was.born = now /\ was.admitted = 0 /\ was.promised = {}
  BY <1>1
<1>4. Remembered(k, admitted, tokens) =
        [born     |-> was.born,
         admitted |-> was.admitted + (IF admitted THEN 1 ELSE 0),
         promised |-> IF admitted THEN {} ELSE was.promised \cup {now + RetryAfter(k, tokens)},
         others   |-> {}]
  BY DEF Remembered
<1> HIDE DEF was
<1>5. QED
  BY <1>1, <1>2, <1>3, <1>4 DEF Memory

LEMMA BucketsTake ==
  ASSUME Typed, Ordered, NEW r \in Req, Take(r)
  PROVE  TypedBuckets'
<1> DEFINE k == KeyOf(r)
           tokens == Refilled(k)
           given == tokens >= Minute
           kept == KeysOf(Kept(k))
<1>1. /\ k \in Key /\ k \in kept /\ kept \ {k} \subseteq DOMAIN buckets
      /\ DOMAIN buckets' = kept /\ DOMAIN past' = kept
      /\ buckets'[k].updated = now
      /\ buckets'[k].tokens = IF given THEN tokens - Minute ELSE tokens
      /\ past'[k] = Remembered(k, given, tokens)
      /\ \A x \in kept \ {k} : /\ buckets'[x] = buckets[x]
                               /\ past'[x] = [past[x] EXCEPT !.others = @ \cup {k}]
      /\ now' = now
  BY TakeMakes
<1>2. tokens \in 0..Full(k) /\ Full(k) \in Nat /\ Minute \in Nat /\ now \in Nat
  BY <1>1, RefilledHolds, FullIsNat, MinuteAssumption DEF Typed
<1> HIDE DEF k, tokens, kept, given
<1>3. tokens \in Int /\ given \in BOOLEAN
  BY <1>2 DEF given
<1>4. past'[k] \in Memory /\ past'[k].born <= now /\ past'[k].others = {}
  BY <1>1, <1>3, RememberedOf
<1>5. buckets'[k].tokens \in 0..Full(k) /\ buckets'[k].updated \in 0..now
  BY <1>1, <1>2 DEF given
<1>6. IsFiniteSet(past'[k].others)
  BY <1>4, FS_EmptySet
<1>7. ASSUME NEW x \in kept \ {k}
      PROVE  /\ x \in Key
             /\ buckets'[x].tokens \in 0..Full(x)
             /\ buckets'[x].updated \in 0..now
             /\ past'[x] \in Memory /\ past'[x].born <= buckets'[x].updated
             /\ IsFiniteSet(past'[x].others)
  <2>1. /\ x \in Key /\ buckets[x].tokens \in 0..Full(x) /\ buckets[x].updated \in 0..now
        /\ past[x] \in Memory /\ past[x].born <= buckets[x].updated /\ IsFiniteSet(past[x].others)
    BY <1>1 DEF Typed, TypedBuckets
  <2>2. buckets'[x] = buckets[x] /\ past'[x] = [past[x] EXCEPT !.others = @ \cup {k}]
    BY <1>1
  <2>3. past'[x] \in Memory /\ past'[x].born = past[x].born /\ past'[x].others = past[x].others \cup {k}
    BY <1>1, <2>1, <2>2 DEF Memory
  <2>4. IsFiniteSet(past'[x].others)
    BY <2>1, <2>3, FS_AddElement
  <2>5. QED
    BY <2>1, <2>2, <2>3, <2>4
<1>8. \A x \in kept : /\ x \in Key
                      /\ buckets'[x].tokens \in 0..Full(x)
                      /\ buckets'[x].updated \in 0..now
                      /\ past'[x] \in Memory /\ past'[x].born <= buckets'[x].updated
                      /\ IsFiniteSet(past'[x].others)
  BY <1>1, <1>4, <1>5, <1>6, <1>7
<1>9. \A x \in kept : Full(x)' = Full(x)
  BY DEF Full
<1>10. TypedBuckets' <=>
        /\ \A x \in kept : x \in Key /\ buckets'[x].tokens \in 0..Full(x)' /\ buckets'[x].updated \in 0..now'
        /\ DOMAIN past' = kept
        /\ \A x \in kept : past'[x] \in Memory /\ past'[x].born <= buckets'[x].updated
                          /\ IsFiniteSet(past'[x].others)
  BY <1>1 DEF TypedBuckets
<1>11. QED
  BY <1>1, <1>8, <1>9, <1>10

LEMMA Distributes ==
  ASSUME NEW a \in Int, NEW b \in Int, NEW c \in Int
  PROVE  /\ (a + b) * c = a * c + b * c
         /\ a * c \in Int /\ 1 * c = c /\ 0 * c = 0
  OBVIOUS

LEMMA BudgetTake ==
  ASSUME Typed, Ordered, BudgetHolds, NEW r \in Req, Take(r)
  PROVE  BudgetHolds'
<1> DEFINE k == KeyOf(r)
           tokens == Refilled(k)
           given == tokens >= Minute
           kept == KeysOf(Kept(k))
           L == Limit[k[1]]
<1>1. /\ k \in Key /\ k \in kept /\ kept \ {k} \subseteq DOMAIN buckets
      /\ DOMAIN buckets' = kept
      /\ buckets'[k].updated = now
      /\ buckets'[k].tokens = IF given THEN tokens - Minute ELSE tokens
      /\ past'[k] = Remembered(k, given, tokens)
      /\ \A x \in kept \ {k} : /\ buckets'[x] = buckets[x]
                               /\ past'[x] = [past[x] EXCEPT !.others = @ \cup {k}]
  BY TakeMakes
<1>2. /\ tokens \in 0..Full(k) /\ Full(k) \in Nat /\ Minute \in Nat /\ now \in Nat /\ L \in Nat
      /\ k \in DOMAIN buckets => tokens <= buckets[k].tokens + (now - buckets[k].updated) * L
  BY <1>1, RefilledHolds, FullIsNat, MinuteAssumption DEF Typed
<1> HIDE DEF k, tokens, kept, given, L
<1>3. tokens \in Int /\ given \in BOOLEAN
  BY <1>2 DEF given
<1>4. /\ k \in DOMAIN buckets => /\ past'[k].born = past[k].born
                                 /\ past'[k].admitted = past[k].admitted + (IF given THEN 1 ELSE 0)
      /\ k \notin DOMAIN buckets => past'[k].born = now /\ past'[k].admitted = IF given THEN 1 ELSE 0
  BY <1>1, <1>3, RememberedOf
<1>5. past'[k].admitted * Minute + buckets'[k].tokens
        <= Full(k) + (buckets'[k].updated - past'[k].born) * L
  <2>1. CASE k \notin DOMAIN buckets
    <3>1. past'[k].admitted * Minute + buckets'[k].tokens = tokens
      <4>1. CASE given
        <5>1. past'[k].admitted = 1 /\ buckets'[k].tokens = tokens - Minute
          BY <1>1, <1>4, <2>1, <4>1
        <5>2. past'[k].admitted * Minute = Minute
          BY <1>2, <5>1
        <5>3. QED
          BY <1>2, <5>1, <5>2
      <4>2. CASE ~ given
        <5>1. past'[k].admitted = 0 /\ buckets'[k].tokens = tokens
          BY <1>1, <1>4, <2>1, <4>2
        <5>2. past'[k].admitted * Minute = 0
          BY <1>2, <5>1
        <5>3. QED
          BY <1>2, <5>1, <5>2
      <4>3. QED
        BY <4>1, <4>2
    <3>2. (buckets'[k].updated - past'[k].born) * L = 0
      BY <1>1, <1>2, <1>4, <2>1
    <3>3. QED
      BY <1>2, <3>1, <3>2
  <2>2. CASE k \in DOMAIN buckets
    <3> DEFINE n == past[k].admitted
               t == buckets[k].tokens
               u == buckets[k].updated
               b == past[k].born
    <3>1. n \in Int /\ t \in Int /\ u \in Int /\ b \in Int
      BY <2>2 DEF Typed, TypedBuckets, Memory
    <3>2. n * Minute + t <= Full(k) + (u - b) * L
      BY <2>2 DEF BudgetHolds, L
    <3>3. tokens <= t + (now - u) * L
      BY <1>2, <2>2
    <3>4. /\ past'[k].admitted = n + (IF given THEN 1 ELSE 0)
          /\ past'[k].born = b
      BY <1>4, <2>2
    <3> HIDE DEF n, t, u, b
    <3>5. past'[k].admitted * Minute + buckets'[k].tokens = n * Minute + tokens
      <4>1. CASE given
        <5>1. (n + 1) * Minute = n * Minute + Minute /\ n * Minute \in Int
          BY <1>2, <3>1, Distributes
        <5>2. QED
          BY <1>1, <1>2, <3>4, <4>1, <5>1
      <4>2. CASE ~ given
        <5>1. n + 0 = n /\ n * Minute \in Int
          BY <1>2, <3>1, Distributes
        <5>2. QED
          BY <1>1, <1>2, <3>4, <4>2, <5>1
      <4>3. QED
        BY <4>1, <4>2
    <3>6. (now - b) * L = (now - u) * L + (u - b) * L
      <4>1. now - u \in Int /\ u - b \in Int /\ (now - u) + (u - b) = now - b
        BY <1>2, <3>1
      <4>2. ((now - u) + (u - b)) * L = (now - u) * L + (u - b) * L
        BY <1>2, <4>1, Distributes
      <4>3. QED
        BY <4>1, <4>2
    <3>7. n * Minute \in Int /\ (now - u) * L \in Int /\ (u - b) * L \in Int
      BY <1>2, <3>1, Distributes
    <3>8. n * Minute + tokens <= Full(k) + ((now - u) * L + (u - b) * L)
      BY <1>2, <3>1, <3>2, <3>3, <3>7
    <3>9. (buckets'[k].updated - past'[k].born) * L = (now - u) * L + (u - b) * L
      BY <1>1, <3>4, <3>6
    <3>10. QED
      BY <3>5, <3>8, <3>9
  <2>3. QED
    BY <2>1, <2>2
<1>6. ASSUME NEW x \in kept \ {k}
      PROVE  past'[x].admitted * Minute + buckets'[x].tokens
               <= Full(x) + (buckets'[x].updated - past'[x].born) * Limit[x[1]]
  <2>1. past[x] \in Memory
    BY <1>1 DEF Typed, TypedBuckets
  <2>2. /\ buckets'[x] = buckets[x]
        /\ past'[x].admitted = past[x].admitted /\ past'[x].born = past[x].born
    BY <1>1, <2>1 DEF Memory
  <2>3. QED
    BY <1>1, <2>2 DEF BudgetHolds
<1>7. \A x \in kept : Full(x)' = Full(x)
  BY DEF Full
<1>8. QED
  BY <1>1, <1>5, <1>6, <1>7 DEF BudgetHolds, L

\* A caller that is told to come back is told the first time there is a token.
LEMMA RetryAfterIsFirst ==
  ASSUME NEW k \in Key, NEW tokens \in Nat, tokens < Minute
  PROVE  LET L == Limit[k[1]] w == RetryAfter(k, tokens)
         IN /\ w \in Nat \ {0}
            /\ tokens + w * L >= Minute
            /\ tokens + (w - 1) * L < Minute
<1> DEFINE L == Limit[k[1]]
           a == Minute - tokens
           w == (Minute - tokens + L - 1) \div L
<1>1. L \in Nat \ {0} /\ Minute \in Nat /\ a \in Nat \ {0}
  BY FullIsNat, MinuteAssumption
<1>2. \A m \in Int, n \in Nat \ {0} : /\ m \div n \in Int
                                      /\ (m \div n) * n <= m /\ m < (m \div n) * n + n
  OBVIOUS
<1>3. w = (a + L - 1) \div L /\ a + L - 1 \in Int
  BY <1>1
<1> HIDE DEF L
<1>4. w \in Int /\ w * L <= a + L - 1 /\ a + L - 1 < w * L + L
  <2>1. w \in Int /\ ((a + L - 1) \div L) * L <= a + L - 1
        /\ a + L - 1 < ((a + L - 1) \div L) * L + L
    BY <1>1, <1>2, <1>3
  <2>2. QED
    BY <1>3, <2>1
<1>5. RetryAfter(k, tokens) = IF w > 1 THEN w ELSE 1
  BY DEF RetryAfter, L
<1>6. tokens = Minute - a
  BY <1>1
<1> HIDE DEF w, a
<1>7. w >= 1
  <2>1. SUFFICES ASSUME w <= 0 PROVE FALSE
    BY <1>4
  <2>2. w * L <= 0
    BY <1>1, <1>4, <2>1
  <2>3. w * L \in Int
    BY <1>1, <1>4
  <2>4. QED
    BY <1>1, <1>4, <2>2, <2>3
<1>8. RetryAfter(k, tokens) = w
  BY <1>4, <1>5, <1>7
<1>9. (w - 1) * L = w * L - L /\ w * L \in Int
  BY <1>1, <1>4
<1>10. tokens + w * L >= Minute /\ tokens + (w - 1) * L < Minute
  BY <1>1, <1>4, <1>6, <1>9
<1>11. QED
  BY <1>4, <1>7, <1>8, <1>10 DEF L

\* A bucket that has no token yet is refilled along the line its refusals were reckoned on:
\* asking early puts off nobody's token.
LEMMA KeepsItsWord ==
  ASSUME Typed, RetryAfterHolds, NEW k \in DOMAIN buckets, Refilled(k) < Minute,
         NEW t \in past[k].promised
  PROVE  /\ Refilled(k) + (t - now) * Limit[k[1]] >= Minute
         /\ Refilled(k) + (t - 1 - now) * Limit[k[1]] < Minute
<1> DEFINE L == Limit[k[1]]
           since == buckets[k].updated
           had == buckets[k].tokens
<1>1. /\ k \in Key /\ had \in Nat /\ since \in Nat /\ now \in Nat /\ past[k] \in Memory
  BY FullIsNat DEF Typed, TypedBuckets
<1>2. t \in Nat
  BY <1>1 DEF Memory
<1>3. L \in Nat \ {0} /\ Minute \in Nat \ {0} /\ Full(k) \in Nat /\ Full(k) = L * Minute
  BY <1>1, FullIsNat, MinuteAssumption DEF Full
<1>4. Minute <= Full(k)
  <2>1. \A m, n \in Nat \ {0} : n <= m * n
    OBVIOUS
  <2>2. QED
    BY <1>3, <2>1
<1>5. Refilled(k) = had + (now - since) * L
  <2>1. Refilled(k) = IF had + (now - since) * L < Full(k) THEN had + (now - since) * L ELSE Full(k)
    BY DEF Refilled
  <2>2. QED
    BY <1>3, <1>4, <2>1
<1>6. had + (t - since) * L >= Minute /\ had + (t - 1 - since) * L < Minute
  BY DEF RetryAfterHolds
<1>7. \A a, b, c, l \in Int : (c - b) * l + (a - c) * l = (a - b) * l
  OBVIOUS
<1> HIDE DEF L, had, since
<1>8. /\ (now - since) * L + (t - now) * L = (t - since) * L
      /\ (now - since) * L + (t - 1 - now) * L = (t - 1 - since) * L
  <2>1. now \in Int /\ since \in Int /\ L \in Int /\ t \in Int /\ t - 1 \in Int
    BY <1>1, <1>2, <1>3
  <2>2. QED
    BY <1>7, <2>1
<1>9. /\ (now - since) * L \in Int /\ (t - now) * L \in Int /\ (t - 1 - now) * L \in Int
      /\ (t - since) * L \in Int /\ (t - 1 - since) * L \in Int
  BY <1>1, <1>2, <1>3
<1>10. \A a, b, c \in Int : a + b = c =>
         /\ had + c >= Minute => had + a + b >= Minute
         /\ had + c < Minute => had + a + b < Minute
  BY <1>1, <1>3
<1>11. Refilled(k) + (t - now) * L >= Minute /\ Refilled(k) + (t - 1 - now) * L < Minute
  <2>1. (now - since) * L \in Int /\ Refilled(k) = had + (now - since) * L
    BY <1>5, <1>9
  <2>2. had + (now - since) * L + (t - now) * L >= Minute
    BY <1>6, <1>8, <1>9, <1>10
  <2>3. had + (now - since) * L + (t - 1 - now) * L < Minute
    BY <1>6, <1>8, <1>9, <1>10
  <2>4. QED
    BY <2>1, <2>2, <2>3
<1>12. QED
  BY <1>11 DEF L

LEMMA RetryAfterTake ==
  ASSUME Typed, Ordered, RetryAfterHolds, NEW r \in Req, Take(r)
  PROVE  RetryAfterHolds'
<1> DEFINE k == KeyOf(r)
           tokens == Refilled(k)
           given == tokens >= Minute
           kept == KeysOf(Kept(k))
           L == Limit[k[1]]
           w == RetryAfter(k, tokens)
<1>1. /\ k \in Key /\ k \in kept /\ kept \ {k} \subseteq DOMAIN buckets
      /\ DOMAIN buckets' = kept
      /\ buckets'[k].updated = now
      /\ buckets'[k].tokens = IF given THEN tokens - Minute ELSE tokens
      /\ past'[k] = Remembered(k, given, tokens)
      /\ \A x \in kept \ {k} : /\ buckets'[x] = buckets[x]
                               /\ past'[x] = [past[x] EXCEPT !.others = @ \cup {k}]
  BY TakeMakes
<1>2. tokens \in Nat /\ Minute \in Nat /\ now \in Nat /\ L \in Nat
  BY <1>1, RefilledHolds, FullIsNat, MinuteAssumption DEF Typed
<1>3. ~ given => w \in Nat \ {0} /\ tokens + w * L >= Minute /\ tokens + (w - 1) * L < Minute
  BY <1>1, <1>2, RetryAfterIsFirst
<1>4. /\ given => past'[k].promised = {}
      /\ ~ given => past'[k].promised = (IF k \in DOMAIN buckets THEN past[k].promised ELSE {})
                                           \cup {now + w}
  <2> HIDE DEF k, tokens, given, kept
  <2> DEFINE it == Remembered(k, given, tokens)
  <2>1. k \in Key /\ tokens \in Int /\ given \in BOOLEAN /\ past'[k] = it
    BY <1>1, <1>2 DEF given
  <2>2. /\ given => it.promised = {}
        /\ k \in DOMAIN buckets /\ ~ given => it.promised = past[k].promised \cup {now + w}
        /\ k \notin DOMAIN buckets /\ ~ given => it.promised = {now + w}
    BY <2>1, RememberedOf
  <2> HIDE DEF it
  <2>3. QED
    BY <2>1, <2>2
<1>5. ASSUME k \in DOMAIN buckets, ~ given, NEW t \in past[k].promised
      PROVE  tokens + (t - now) * L >= Minute /\ tokens + (t - 1 - now) * L < Minute
  <2> HIDE DEF k
  <2>1. Refilled(k) < Minute
    BY <1>2, <1>5
  <2>2. QED
    BY <1>5, <2>1, KeepsItsWord
<1> HIDE DEF k, tokens, kept, given, L, w
<1>6. ASSUME NEW t \in past'[k].promised
      PROVE  /\ buckets'[k].tokens + (t - buckets'[k].updated) * L >= Minute
             /\ buckets'[k].tokens + (t - 1 - buckets'[k].updated) * L < Minute
  <2>1. ~ given
    BY <1>4, <1>6
  <2>2. buckets'[k].tokens = tokens /\ buckets'[k].updated = now
    BY <1>1, <2>1
  <2>3. CASE t = now + w
    <3>1. t - now = w /\ t - 1 - now = w - 1
      BY <1>2, <1>3, <2>1, <2>3
    <3>2. QED
      BY <1>3, <2>1, <2>2, <3>1
  <2>4. CASE t # now + w
    <3>1. k \in DOMAIN buckets /\ t \in past[k].promised
      BY <1>4, <1>6, <2>1, <2>4
    <3>2. QED
      BY <1>5, <2>1, <2>2, <3>1
  <2>5. QED
    BY <2>3, <2>4
<1>7. ASSUME NEW x \in kept \ {k}
      PROVE  /\ x \in DOMAIN buckets
             /\ buckets'[x] = buckets[x] /\ past'[x].promised = past[x].promised
  BY <1>1 DEF Typed, TypedBuckets, Memory
<1>8. ASSUME NEW x \in DOMAIN buckets', NEW t \in past'[x].promised
      PROVE  /\ buckets'[x].tokens + (t - buckets'[x].updated) * Limit[x[1]] >= Minute
             /\ buckets'[x].tokens + (t - 1 - buckets'[x].updated) * Limit[x[1]] < Minute
  <2>1. CASE x = k
    BY <1>6, <1>8, <2>1 DEF L
  <2>2. CASE x # k
    BY <1>1, <1>7, <1>8, <2>2 DEF RetryAfterHolds
  <2>3. QED
    BY <2>1, <2>2
<1>9. QED
  BY <1>8 DEF RetryAfterHolds

LEMMA RequestsTake ==
  ASSUME Typed, Gated, NEW r \in Req, Take(r)
  PROVE  TypedRequests' /\ Gated'
<1>1. request[r] \in InFlight /\ ~ At(r, "idle") /\ UNCHANGED <<now, revoked>>
  BY OnItsWay DEF Take, At
<1>2. CASE Ends(r)
  BY <1>1, <1>2, EndsTyped, GatedEnds
<1>3. CASE \E path \in DOMAIN Behind : Moves(r, Behind[path])
  <2>1. PICK path \in DOMAIN Behind : Moves(r, Behind[path])
    BY <1>3
  <2>2. Behind[path] \in Ways \ {"cookieRow", "bearerRow"}
    BY DEF Behind, Ways
  <2>3. Onward(r, Behind[path], request[r].key) /\ request[r].key \in Account \cup Address
    BY <1>1, <2>1, OnItsWay DEF InFlight
  <2>4. request[r].key \in Account => Named(r, request[r].key)
    BY <1>1 DEF Gated, Guarded
  <2>5. QED
    BY <1>1, <2>2, <2>3, <2>4, OnwardTyped, GatedOnward
<1>4. QED
  BY <1>2, <1>3 DEF Take

\* What a step leaves alone while the clock runs on.
LEMMA BucketsStay ==
  ASSUME TypedBuckets, Ordered, BudgetHolds, RetryAfterHolds,
         UNCHANGED <<buckets, order, past>>, now \in Nat, now' \in Nat, now <= now'
  PROVE  TypedBuckets' /\ Ordered' /\ BudgetHolds' /\ RetryAfterHolds'
<1>1. Ordered'
  BY DEF Ordered, KeysOf
<1>2. BudgetHolds' /\ RetryAfterHolds'
  BY DEF BudgetHolds, RetryAfterHolds, Full
<1>3. \A k : Full(k)' = Full(k)
  BY DEF Full
<1>4. \A k \in DOMAIN buckets : buckets[k].updated \in 0..now'
  BY DEF TypedBuckets
<1>5. QED
  BY <1>1, <1>2, <1>3, <1>4 DEF TypedBuckets

LEMMA RequestsStay ==
  ASSUME Typed, Gated, UNCHANGED <<request, revoked>>, now' \in Nat, now <= now'
  PROVE  TypedRequests' /\ Gated'
<1>1. TypedRequests'
  BY DEF Typed, TypedRequests, At, TierOf
<1>2. Gated'
  BY GuardedStays DEF Gated
<1>3. QED
  BY <1>1, <1>2

\* A step of one request that the limiter does not see.
LEMMA OneRequest ==
  ASSUME IInv, NEW r \in Req,
         \/ Arrive(r) \/ ReadCookie(r) \/ ReadCookieRow(r) \/ ReadBearer(r) \/ ReadBearerRow(r)
         \/ Gate(r) \/ Refuse(r) \/ Serve(r) \/ Fail(r)
  PROVE  TypedRequests' /\ Gated' /\ Quiet
<1>1. Typed /\ Gated
  BY DEF IInv
<1>2. Quiet
  BY DEF Arrive, ReadCookie, ReadCookieRow, ReadBearer, ReadBearerRow, Gate, Refuse, Serve, Fail
<1>3. UNCHANGED <<now, revoked>>
  BY <1>2 DEF Quiet
<1>4. ASSUME ~ At(r, "idle"), NEW pc \in Ways, Moves(r, pc),
             pc = "cookieRow" => request[r].cookie # None,
             pc = "bearerRow" => request[r].bearer # None
      PROVE  TypedRequests' /\ Gated'
  <2>1. Onward(r, pc, request[r].key) /\ request[r].key \in Account \cup Address
    BY <1>1, <1>4, OnItsWay DEF InFlight
  <2>2. request[r].key \in Account => Named(r, request[r].key)
    BY <1>1, <1>4 DEF Gated, Guarded
  <2>3. QED
    BY <1>1, <1>3, <1>4, <2>1, <2>2, OnwardTyped, GatedOnward
<1>5. ASSUME Ends(r) PROVE TypedRequests' /\ Gated'
  BY <1>1, <1>3, <1>5, EndsTyped, GatedEnds
<1>6. {"take", "cookieRow", "bearer", "bearerRow", "gateRow"} \subseteq Ways
  BY DEF Ways
<1>7. CASE Arrive(r)
  BY <1>1, <1>2, <1>7, GatedArrive
<1>8. CASE ReadCookie(r)
  <2>1. \/ Moves(r, "cookieRow") /\ request[r].cookie # None
        \/ Moves(r, "bearer")
    BY <1>8 DEF ReadCookie, Decodes
  <2>2. ~ At(r, "idle")
    BY <1>8 DEF ReadCookie, At
  <2>3. QED
    BY <1>2, <1>4, <1>6, <2>1, <2>2
<1>9. CASE ReadCookieRow(r)
  <2>1. ~ At(r, "idle") /\ request[r].cookie # None
    BY <1>1, <1>9 DEF ReadCookieRow, At, Gated, Guarded
  <2>2. CASE Listed(request[r].cookie)
    <3>1. Moves(r, "bearer")
      BY <1>9, <2>2 DEF ReadCookieRow, Moves
    <3>2. QED
      BY <1>2, <1>4, <1>6, <2>1, <3>1
  <2>3. CASE ~ Listed(request[r].cookie)
    <3>1. request' = [request EXCEPT ![r].pc = "take", ![r].key = Subject[request[r].cookie]]
      BY <1>9, <2>3 DEF ReadCookieRow
    <3>2. QED
      BY <1>1, <1>2, <1>3, <2>1, <2>3, <3>1, GatedRow
  <2>4. QED
    BY <2>2, <2>3
<1>10. CASE ReadBearer(r)
  <2>1. \/ Moves(r, "bearerRow") /\ request[r].bearer # None
        \/ Moves(r, "take")
    BY <1>10 DEF ReadBearer, Decodes
  <2>2. ~ At(r, "idle")
    BY <1>10 DEF ReadBearer, At
  <2>3. QED
    BY <1>2, <1>4, <1>6, <2>1, <2>2
<1>11. CASE ReadBearerRow(r)
  <2>1. ~ At(r, "idle") /\ request[r].bearer # None
    BY <1>1, <1>11 DEF ReadBearerRow, At, Gated, Guarded
  <2>2. CASE Listed(request[r].bearer)
    <3>1. Moves(r, "take")
      BY <1>11, <2>2 DEF ReadBearerRow, Moves
    <3>2. QED
      BY <1>2, <1>4, <1>6, <2>1, <3>1
  <2>3. CASE ~ Listed(request[r].bearer)
    <3>1. request' = [request EXCEPT ![r].pc = "take", ![r].key = Subject[request[r].bearer]]
      BY <1>11, <2>3 DEF ReadBearerRow
    <3>2. QED
      BY <1>1, <1>2, <1>3, <2>1, <2>3, <3>1, GatedRow
  <2>4. QED
    BY <2>2, <2>3
<1>12. CASE Gate(r)
  <2>1. ~ At(r, "idle") /\ (Moves(r, "gateRow") \/ Ends(r))
    BY <1>12 DEF Gate, At
  <2>2. QED
    BY <1>2, <1>4, <1>5, <1>6, <2>1
<1>13. CASE Refuse(r) \/ Serve(r) \/ Fail(r)
  BY <1>2, <1>5, <1>13 DEF Refuse, Serve, Fail
<1>14. QED
  BY <1>7, <1>8, <1>9, <1>10, <1>11, <1>12, <1>13

LEMMA InvLogout ==
  ASSUME IInv, NEW r \in Req, Logout(r)
  PROVE  IInv'
<1>1. /\ Typed /\ Gated /\ ~ At(r, "idle") /\ Ends(r)
      /\ UNCHANGED <<now, buckets, order, past, allowed>>
  BY DEF IInv, Logout, At
<1>2. revoked \subseteq revoked' /\ revoked' \subseteq Credential
  <2>1. request[r].cookie \in Cookie \cup {None}
    BY <1>1, OnItsWay DEF InFlight
  <2>2. revoked \subseteq Credential
    BY <1>1 DEF Typed
  <2>3. QED
    BY <2>1, <2>2 DEF Logout, Credential
<1>3. TypedRequests' /\ Gated'
  BY <1>1, <1>2, EndsTyped, GatedEnds
<1>4. TypedBuckets' /\ Ordered' /\ BudgetHolds' /\ RetryAfterHolds'
  BY <1>1, BucketsStay DEF IInv, Typed
<1>5. QED
  BY <1>1, <1>2, <1>3, <1>4 DEF IInv, Typed

LEMMA InvTick ==
  ASSUME IInv, Tick
  PROVE  IInv'
<1>1. /\ Typed /\ Gated /\ now \in Nat /\ now' \in Nat /\ now <= now' /\ now' <= MaxClock
      /\ UNCHANGED <<buckets, order, past, allowed, revoked, request>>
  BY ClockAssumption DEF IInv, Typed, Tick
<1>2. TypedRequests' /\ Gated'
  BY <1>1, RequestsStay
<1>3. TypedBuckets' /\ Ordered' /\ BudgetHolds' /\ RetryAfterHolds'
  BY <1>1, BucketsStay DEF IInv, Typed
<1>4. QED
  BY <1>1, <1>2, <1>3 DEF IInv, Typed

LEMMA InvRestart ==
  ASSUME IInv, Restart
  PROVE  IInv'
<1>1. TypedRequests' /\ Gated'
  BY DEF Restart, TypedRequests, Gated, Guarded, At, Idle
<1>2. TypedBuckets' /\ Ordered' /\ BudgetHolds' /\ RetryAfterHolds'
  BY BucketAssumption DEF Restart, TypedBuckets, Ordered, KeysOf, BudgetHolds, RetryAfterHolds
<1>3. QED
  BY <1>1, <1>2 DEF IInv, Typed, Restart

LEMMA InvTake ==
  ASSUME IInv, NEW r \in Req, Take(r)
  PROVE  IInv'
<1>1. TypedRequests' /\ Gated' /\ TypedBuckets' /\ Ordered' /\ BudgetHolds' /\ RetryAfterHolds'
  BY RequestsTake, BucketsTake, OrderedTake, BudgetTake, RetryAfterTake DEF IInv
<1>2. QED
  BY <1>1 DEF IInv, Typed, Take

\* One step, whichever it is.
LEMMA Invariance == IInv /\ [Next]_vars => IInv'
<1> SUFFICES ASSUME IInv, [Next]_vars PROVE IInv'
  OBVIOUS
<1>1. ASSUME NEW r \in Req,
             \/ Arrive(r) \/ ReadCookie(r) \/ ReadCookieRow(r) \/ ReadBearer(r) \/ ReadBearerRow(r)
             \/ Gate(r) \/ Refuse(r) \/ Serve(r) \/ Fail(r)
      PROVE  IInv'
  <2>1. TypedRequests' /\ Gated' /\ Quiet
    BY <1>1, OneRequest
  <2>2. TypedBuckets' /\ Ordered' /\ BudgetHolds' /\ RetryAfterHolds'
    BY <2>1, BucketsStay DEF IInv, Typed, Quiet
  <2>3. QED
    BY <2>1, <2>2 DEF IInv, Typed, Quiet
<1>2. CASE UNCHANGED vars
  <2>1. TypedRequests' /\ Gated'
    BY <1>2, RequestsStay DEF vars, IInv, Typed
  <2>2. TypedBuckets' /\ Ordered' /\ BudgetHolds' /\ RetryAfterHolds'
    BY <1>2, BucketsStay DEF vars, IInv, Typed
  <2>3. QED
    BY <1>2, <2>1, <2>2 DEF vars, IInv, Typed
<1>3. QED
  BY <1>1, <1>2, InvTake, InvLogout, InvTick, InvRestart DEF Next

LEMMA Invariant == Spec => []IInv
<1>1. Init => IInv
  BY RequestsInit DEF IInv
<1>2. QED
  BY <1>1, Invariance, PTL DEF Spec

-----------------------------------------------------------------------------
\* Type correctness: memory is bounded by MAX_BUCKETS, and a bucket never owes a token nor
\* holds more than its tier's limit, for any limits (rate_limit.py, _take).
THEOREM TypeCorrect == Spec => []TypeOK
<1>1. IInv => TypeOK
  <2> SUFFICES ASSUME IInv PROVE TypeOK
    OBVIOUS
  <2>1. Len(order) = Cardinality(DOMAIN buckets)
    BY OrderCounts DEF IInv
  <2>2. now \in 0..MaxClock
    BY ClockAssumption DEF IInv, Typed
  <2>3. QED
    BY <2>1, <2>2 DEF IInv, Typed, TypedBuckets, Ordered, TypeOK
<1>2. QED
  BY <1>1, Invariant, PTL

\* The limit is one: since it was made, a bucket admitted no more than a minute's worth and
\* what time has refilled, however its requests were spaced, refused or abandoned (_take).
THEOREM LimitKept == Spec => []BudgetHolds
<1>1. IInv => BudgetHolds
  BY DEF IInv
<1>2. QED
  BY <1>1, Invariant, PTL

\* Retry-After is the first whole second with a token in the bucket, for any limit and any
\* length of a minute, and stays so while the caller asks too early (_take's wait).
THEOREM RetryAfterKept == Spec => []RetryAfterHolds
<1>1. IInv => RetryAfterHolds
  BY DEF IInv
<1>2. QED
  BY <1>1, Invariant, PTL

LEMMA Evicted ==
  ASSUME IInv, NEW r \in Req, Take(r), NEW x \in DOMAIN buckets \ DOMAIN buckets'
  PROVE  Cardinality(past[x].others \cup {KeyOf(r)}) >= MaxBuckets
<1> DEFINE k == KeyOf(r)
           who == past[x].others \cup {k}
           n == Len(order)
<1>1. k \in Key /\ DOMAIN buckets' = KeysOf(Kept(k)) /\ Ordered
  BY TakeMakes DEF IInv
<1>2. k \notin DOMAIN buckets /\ n = MaxBuckets /\ x = order[1]
  BY <1>1, KeptOrder
<1>3. n \in Nat \ {0} /\ DOMAIN order = 1..n
  BY <1>1, <1>2, BucketAssumption, LenProperties DEF Ordered
<1>4. DOMAIN buckets = {order[i] : i \in 1..n}
  BY <1>1, <1>3 DEF Ordered, KeysOf
<1>5. \A y \in DOMAIN buckets : y # x => y \in past[x].others
  <2>1. \A i \in 1..n : i # 1 => 1 < i
    BY <1>3
  <2>2. 1 \in 1..n
    BY <1>3
  <2>3. QED
    BY <1>1, <1>2, <1>3, <1>4, <2>1, <2>2 DEF Ordered
<1>6. IsFiniteSet(DOMAIN buckets) /\ Cardinality(DOMAIN buckets) = n
  BY <1>1, OrderCounts
<1> DEFINE behind == DOMAIN buckets \ {x}
<1>7. IsFiniteSet(behind) /\ Cardinality(behind) = n - 1
  BY <1>6, FS_RemoveElement
<1>8. IsFiniteSet(behind \cup {k}) /\ Cardinality(behind \cup {k}) = (n - 1) + 1
  BY <1>2, <1>7, FS_AddElement
<1>9. IsFiniteSet(past[x].others)
  BY DEF IInv, Typed, TypedBuckets
<1>10. IsFiniteSet(who) /\ behind \cup {k} \subseteq who
  BY <1>5, <1>9, FS_AddElement
<1>11. Cardinality(behind \cup {k}) <= Cardinality(who)
  BY <1>10, FS_Subset
<1>12. Cardinality(who) \in Nat
  BY <1>10, FS_CardinalityType
<1> HIDE DEF who, behind
<1>13. Cardinality(who) >= MaxBuckets
  BY <1>2, <1>3, <1>8, <1>11, <1>12
<1>14. QED
  BY <1>13 DEF who

\* A bucket is dropped only after MAX_BUCKETS other keys asked since it did, so nobody is
\* handed a full bucket again by waiting while the limiter is not flooded (_take's popitem).
THEOREM EvictsTheLeastRecent == Spec => LeastRecentGoes
<1>1. IInv /\ [Next]_vars =>
        [\A r \in Req : Take(r) =>
           \A k \in DOMAIN buckets \ DOMAIN buckets' :
             Cardinality(past[k].others \cup {KeyOf(r)}) >= MaxBuckets]_vars
  BY Evicted
<1>2. QED
  BY <1>1, Invariant, PTL DEF Spec, LeastRecentGoes

\* A credential that logout ended before the request arrived reaches no handler and spends
\* no bucket of the account it names, wherever the look-ups of the limiter and the gate
\* fall among other steps (_user_subject; web_view_auth.py and mcp_transport.py, is_revoked).
THEOREM EndedCredentialsStayOut == Spec => EndedStaysOut
<1>1. ASSUME IInv, NEW r \in Req, Serve(r)
      PROVE  Presented(r) \notin request[r].ended \/ now >= Expires
  <2>1. ~ At(r, "idle") /\ ~ Listed(Presented(r))
    BY <1>1 DEF Serve, At
  <2>2. request[r].ended \subseteq revoked
    BY <1>1, <2>1 DEF IInv, Gated, Guarded
  <2>3. Presented(r) \notin revoked \/ now >= Expires
    BY <1>1, <2>1, ClockAssumption DEF Listed, IInv, Typed
  <2>4. QED
    BY <2>2, <2>3
<1>2. ASSUME IInv, NEW r \in Req, Take(r), request[r].key \in Account
      PROVE  Named(r, request[r].key)
  BY <1>2 DEF Take, At, IInv, Gated, Guarded
<1>3. IInv /\ [Next]_vars =>
        [\A r \in Req :
           /\ Serve(r) => Presented(r) \notin request[r].ended \/ now >= Expires
           /\ Take(r) /\ request[r].key \in Account =>
                \/ now >= Expires
                \/ \E c \in {request[r].cookie, request[r].bearer} \ (request[r].ended \cup {None}) :
                     Subject[c] = request[r].key]_vars
  BY <1>1, <1>2 DEF Named
<1>4. QED
  BY <1>3, Invariant, PTL DEF Spec, EndedStaysOut

=============================================================================
