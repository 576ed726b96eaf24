------------------------------- MODULE MCFeed -------------------------------
(* The feed for TLC; the other constants take their values in the .cfg files. *)
EXTENDS Feed

CONSTANTS t1, t2, s1, s2, QuietLength

\* One shard carries the events, the other may only keep its thread alive.
Lengths == [s \in Shards |-> IF s = s1 THEN MaxEvents ELSE QuietLength]

=============================================================================
