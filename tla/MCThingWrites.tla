--------------------------- MODULE MCThingWrites ---------------------------
(* Small instances of ThingWrites for TLC.                                 *)
EXTENDS ThingWrites

CONSTANTS heartbeat, preference, rejected, new

MCTag == {heartbeat, preference, rejected, new}

\* A capture's list, a heartbeat's, a preference's: each drops what it finds.
MCTagChoice == {{new}, {heartbeat}, {preference}}

MCInternalTag == {heartbeat, preference}

=============================================================================
