----------------------------- MODULE MCCommands -----------------------------
(* Small instances of Commands for TLC. *)
EXTENDS CommandClaims

CONSTANTS c1, c2, c3, k1, a1

=============================================================================
