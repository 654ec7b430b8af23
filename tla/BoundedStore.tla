---------------------------- MODULE BoundedStore ----------------------------
(***************************************************************************)
(* The bounded stores of backend/oauth_state.py: short-lived rows under    *)
(* opaque keys, purged when they expire, with a cap at which a store       *)
(* either evicts the rows nearest expiry or refuses.  The cap is counted,  *)
(* the eviction made and the row inserted by different statements, under   *)
(* READ COMMITTED, beside other requests that do the same.                 *)
(***************************************************************************)
EXTENDS Naturals, FiniteSetsExt

CONSTANTS Request,     \* requests in flight
          Store,       \* the stores; they share no rows
          Evicting,    \* those that evict at the cap
          Key,         \* the keys their rows have
          MaxEntries,  \* the cap
          Ttl,         \* the longest a row may live
          MaxTime,     \* bound: the clock stops here
          NoKey        \* no value

ASSUME StoreAssumption ==
  /\ IsFiniteSet(Request)
  /\ Evicting \subseteq Store
  /\ MaxEntries \in Nat \ {0}
  /\ Ttl \in Nat \ {0}
  /\ MaxTime \in Nat

VARIABLES looked,   \* the store looked at
          rows,     \* committed: the expires_at of each key's row, 0 if there is none
          now,      \* the clock
          stage,    \* where each request stands
          key,      \* the key each request stores under
          due,      \* the expires_at it stores
          excess,   \* the rows it found too many
          chosen,   \* the rows its eviction chose
          touched   \* the rows its transaction has deleted

storeVars == <<looked, rows, now, stage, key, due, excess, chosen, touched>>

StoreInit == /\ looked \in Store
             /\ rows = [k \in Key |-> 0]
             /\ now = 0
             /\ stage = [w \in Request |-> "idle"]
             /\ key = [w \in Request |-> NoKey]
             /\ due = [w \in Request |-> 0]
             /\ excess = [w \in Request |-> 0]
             /\ chosen = [w \in Request |-> {}]
             /\ touched = [w \in Request |-> {}]

-----------------------------------------------------------------------------
\* The operators named ...Mutant are each a bug the definition after them could
\* have had; nothing uses them but the mutation runs PROJECT.json lists.

Proceed(w, step) == stage' = [stage EXCEPT ![w] = step]

\* The session closes; what it had not committed is undone.
Close(w) == /\ Proceed(w, "idle")
            /\ key' = [key EXCEPT ![w] = NoKey]
            /\ due' = [due EXCEPT ![w] = 0]
            /\ excess' = [excess EXCEPT ![w] = 0]
            /\ chosen' = [chosen EXCEPT ![w] = {}]
            /\ touched' = [touched EXCEPT ![w] = {}]

Occupied == {k \in Key : rows[k] # 0}

ExpiredRows == {k \in Occupied : rows[k] <= now}

\* A statement waits for a row that another transaction has deleted.
Free(w, ks) == \A v \in Request \ {w} : touched[v] \cap ks = {}

\* The rows a request's own transaction sees.
Seen(w) == Occupied \ touched[w]

OtherRows(w) == Seen(w) \ {key[w]}

-----------------------------------------------------------------------------
Due(ttl) == now + ttl

\* cleanup_and_store begins: the expired rows are purged, not yet committed.
BeginStore(w) ==
  /\ stage[w] = "idle"
  /\ Free(w, ExpiredRows)
  /\ \E k \in Key, ttl \in 1..Ttl :
       /\ key' = [key EXCEPT ![w] = k]
       /\ due' = [due EXCEPT ![w] = Due(ttl)]
  /\ touched' = [touched EXCEPT ![w] = ExpiredRows]
  /\ Proceed(w, "purged")
  /\ UNCHANGED <<looked, rows, now, excess, chosen>>

\* Every store makes room.
EvictsMutant == TRUE

Evicts == looked \in Evicting

\* One row is evicted however many there are too many.
ExcessMutant(w) == 1

\* The LIMIT of the eviction: room for one more.
Excess(w) == Cardinality(OtherRows(w)) - MaxEntries + 1

\* The rows other than the key's are counted; at the cap the store refuses, rolled
\* back, or goes on to evict.
CountOthers(w) ==
  /\ stage[w] = "purged"
  /\ \/ /\ Cardinality(OtherRows(w)) < MaxEntries
        /\ Proceed(w, "room")
        /\ UNCHANGED <<key, due, excess, chosen, touched>>
     \/ /\ Cardinality(OtherRows(w)) >= MaxEntries
        /\ Evicts
        /\ excess' = [excess EXCEPT ![w] = Excess(w)]
        /\ Proceed(w, "full")
        /\ UNCHANGED <<key, due, chosen, touched>>
     \/ /\ Cardinality(OtherRows(w)) >= MaxEntries
        /\ ~ Evicts
        /\ Close(w)
  /\ UNCHANGED <<looked, rows, now>>

\* ORDER BY expires_at LIMIT n: the n nearest expiry, or all there are; equals in
\* any order.
Nearest(n, from) ==
  {ks \in SUBSET from : /\ Cardinality(ks) = Min({n, Cardinality(from)})
                        /\ \A k \in ks, j \in from \ ks : rows[k] <= rows[j]}

\* The eviction begins: its subquery chooses among the rows there are by now.
ChooseEvicted(w) ==
  /\ stage[w] = "full"
  /\ \E ks \in Nearest(excess[w], OtherRows(w)) : chosen' = [chosen EXCEPT ![w] = ks]
  /\ Proceed(w, "evicting")
  /\ UNCHANGED <<looked, rows, now, key, due, excess, touched>>

\* It waits for the rows it chose and deletes those still there, extended or not.
Evict(w) ==
  /\ stage[w] = "evicting"
  /\ Free(w, chosen[w])
  /\ touched' = [touched EXCEPT ![w] = touched[w] \cup (chosen[w] \cap Occupied)]
  /\ Proceed(w, "room")
  /\ UNCHANGED <<looked, rows, now, key, due, excess, chosen>>

\* session.get: a row under the key is to be replaced.
FindOld(w) ==
  /\ stage[w] = "room"
  /\ Proceed(w, IF key[w] \in Seen(w) THEN "replacing" ELSE "inserting")
  /\ UNCHANGED <<looked, rows, now, key, due, excess, chosen, touched>>

\* The old row is deleted and flushed; if it went meanwhile, SQLAlchemy only warns.
DeleteOld(w) ==
  /\ stage[w] = "replacing"
  /\ Free(w, {key[w]})
  /\ touched' = [touched EXCEPT ![w] = touched[w] \cup ({key[w]} \cap Occupied)]
  /\ Proceed(w, "inserting")
  /\ UNCHANGED <<looked, rows, now, key, due, excess, chosen>>

\* The INSERT waits for another one of the key and for a row of it being deleted;
\* a row that stands then is an IntegrityError.
Insert(w) ==
  /\ stage[w] = "inserting"
  /\ Free(w, {key[w]})
  /\ \A v \in Request \ {w} : ~ (stage[v] = "inserted" /\ key[v] = key[w])
  /\ \/ /\ key[w] \in Seen(w)
        /\ Close(w)
     \/ /\ key[w] \notin Seen(w)
        /\ Proceed(w, "inserted")
        /\ UNCHANGED <<key, due, excess, chosen, touched>>
  /\ UNCHANGED <<looked, rows, now>>

\* COMMIT: the purge, the eviction and the row become visible together.
CommitStore(w) ==
  /\ stage[w] = "inserted"
  /\ rows' = [k \in Key |-> IF k = key[w] THEN due[w]
                            ELSE IF k \in touched[w] THEN 0 ELSE rows[k]]
  /\ Close(w)
  /\ UNCHANGED <<looked, now>>

\* A statement fails, or the request dies.
Fail(w) ==
  /\ stage[w] # "idle"
  /\ Close(w)
  /\ UNCHANGED <<looked, rows, now>>

-----------------------------------------------------------------------------
\* The requests of one transaction: each waits for the rows it is about.
Without(ks) == [k \in Key |-> IF k \in ks THEN 0 ELSE rows[k]]

idle == <<stage, key, due, excess, chosen, touched>>

\* cleanup_and_get: the purge is committed, then the row is read.
CleanupAndGet(w) ==
  /\ stage[w] = "idle"
  /\ Free(w, ExpiredRows)
  /\ rows' = Without(ExpiredRows)
  /\ UNCHANGED <<looked, now, idle>>

\* cleanup_and_pop: the purge and the DELETE ... RETURNING.
CleanupAndPop(w, k) ==
  /\ stage[w] = "idle"
  /\ Free(w, ExpiredRows \cup {k})
  /\ rows' = Without(ExpiredRows \cup {k})
  /\ UNCHANGED <<looked, now, idle>>

\* GREATEST: only ever later.
Later(k, t) == Max({rows[k], t})

\* extend_expiry: a missing key is a no-op.
ExtendExpiry(w, k, t) ==
  /\ stage[w] = "idle"
  /\ k \in Occupied
  /\ Free(w, {k})
  /\ rows' = [rows EXCEPT ![k] = Later(k, t)]
  /\ UNCHANGED <<looked, now, idle>>

Tick == /\ now < MaxTime
        /\ now' = now + 1
        /\ UNCHANGED <<looked, rows, idle>>

StoreRow(w) == BeginStore(w) \/ CountOthers(w) \/ ChooseEvicted(w) \/ Evict(w)
               \/ FindOld(w) \/ DeleteOld(w) \/ Insert(w) \/ CommitStore(w)

StoreNext == \/ \E w \in Request : \/ StoreRow(w)
                                   \/ Fail(w)
                                   \/ CleanupAndGet(w)
                                   \/ \E k \in Key : CleanupAndPop(w, k)
                                   \/ \E k \in Key, ttl \in 1..Ttl : ExtendExpiry(w, k, Due(ttl))
             \/ Tick

StoreSpec == StoreInit /\ [][StoreNext]_storeVars

-----------------------------------------------------------------------------
\* Type correctness.
StoreTypeOK ==
  /\ looked \in Store
  /\ rows \in [Key -> Nat]
  /\ now \in Nat
  /\ stage \in [Request -> {"idle", "purged", "full", "evicting", "room", "replacing",
                            "inserting", "inserted"}]
  /\ key \in [Request -> Key \cup {NoKey}]
  /\ due \in [Request -> Nat]
  /\ excess \in [Request -> Nat]
  /\ chosen \in [Request -> SUBSET Key]
  /\ touched \in [Request -> SUBSET Key]

\* What the cap comes to (cleanup_and_store): requests that count at once may each
\* add a row, and no store ever grows further than that past its cap.
OverflowIsBounded == Cardinality(Occupied) < MaxEntries + Cardinality(Request)

\* Nothing is evicted where that would end a session or bring one back (the comment
\* on the stores): a row of a store that refuses goes when it expires or is popped,
\* however full the store is and whoever writes to it.
StaysUntilDue ==
  [][looked \notin Evicting =>
       \A k \in Key : rows[k] > now /\ rows'[k] = 0 =>
         \E w \in Request : CleanupAndPop(w, k)]_storeVars

=============================================================================
