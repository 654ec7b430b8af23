-------------------------- MODULE JournalledStore --------------------------
(***************************************************************************)
(* What the write path of Reli promises about the mutations journal: rows  *)
(* change one at a time, every change is written together with exactly one *)
(* journal entry, and that entry's `before` is the row it replaced.  The   *)
(* modules of the write path (ThingWrites, EdgeWrites) are shown to        *)
(* implement this one; it says nothing of transactions, locks or requests. *)
(***************************************************************************)
EXTENDS Naturals, Sequences

CONSTANTS Key,    \* the ids a row may have
          Row,    \* the values a row may have
          NoRow,  \* stands for a row that is not there
          Entry   \* the journal's entries: records with key, before and after

VARIABLES rows,   \* the committed row of each id, or NoRow
          log     \* the committed journal entries, in commit order

vars == <<rows, log>>

Value == Row \cup {NoRow}

Init == /\ rows = [k \in Key |-> NoRow]
        /\ log = << >>

\* One mutation: the row and the entry that records it become visible at once.
Change(e) == /\ e \in Entry
             /\ e.key \in Key
             /\ e.before = rows[e.key]
             /\ e.after \in Value
             /\ rows' = [rows EXCEPT ![e.key] = e.after]
             /\ log' = Append(log, e)

\* The journal is append-only, so the entry of a step is the last one after it.
Next == /\ Len(log') = Len(log) + 1
        /\ Change(log'[Len(log')])

Spec == Init /\ [][Next]_vars

-----------------------------------------------------------------------------
\* v is what the first n entries leave in row k.
Stands(k, n, v) ==
  \/ /\ \A i \in 1..n : log[i].key # k
     /\ v = NoRow
  \/ \E i \in 1..n : /\ log[i].key = k
                     /\ log[i].after = v
                     /\ \A j \in (i+1)..n : log[j].key # k

\* Replaying the journal gives the rows, and every entry's `before` is what the
\* entries in front of it leave: the journal alone tells how the graph got here.
Replays == /\ \A k \in Key : Stands(k, Len(log), rows[k])
           /\ \A n \in 1..Len(log) : Stands(log[n].key, n - 1, log[n].before)

=============================================================================
