----------------------------- MODULE MCLevelDB -----------------------------
(***************************************************************************)
(* Instances of LevelDB for TLC.                                           *)
(***************************************************************************)
EXTENDS LevelDB

put(k, sync) == [key |-> k, del |-> FALSE, sync |-> sync]
delete(k, sync) == [key |-> k, del |-> TRUE, sync |-> sync]

MixedCalls == {put(1, FALSE), delete(1, TRUE), put(2, FALSE)}

=============================================================================
