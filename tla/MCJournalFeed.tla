--------------------------- MODULE MCJournalFeed ---------------------------
(* Small instances of JournalFeed for TLC.                                 *)
EXTENDS JournalFeed, TLC

Interchangeable == Permutations(Writer) \cup Permutations(Entity)
=============================================================================
