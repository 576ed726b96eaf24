-------------------------- MODULE EnrollmentClaims --------------------------
(***************************************************************************)
(* What the repository's documents and comments say of enrollment and the  *)
(* code does not do.  Each property is checked by a run that finds the     *)
(* behaviour that breaks it.                                               *)
(***************************************************************************)
EXTENDS Enrollment

\* Architecture guide: a re-submitted clientRequestId is answered 200 with the
\* stored summary.  Once the poller has rewritten status_summary, the replay
\* fails to parse it and answers 500.
ReplayAnswered == \A c \in Calls : calls[c].reply # "500"

=============================================================================
