---------------------------- MODULE CommandClaims ----------------------------
(***************************************************************************)
(* What the repository's documents and comments say of commands and the    *)
(* code does not do.                                                       *)
(***************************************************************************)
EXTENDS Commands

\* Simulator: it always answers, so that the row does not stay stuck at SENT.
\* An answer handled before the Lambda puts the row is overwritten by that put.
NotStuckAtSent ==
    \A k \in Actuators :
        (\E m \in inbox : m.id = k /\ m.topic = "legacy") ~> [](rows[k].status # "SENT")

=============================================================================
