---------------------------- MODULE MCEnrollment ----------------------------
(* Small instances of Enrollment for TLC. *)
EXTENDS EnrollmentClaims, TLC

CONSTANTS v1, v2, c1, c2, f1, f2, s1, k1

BothVins == {Vins}

Symmetry == Permutations(Vins) \cup Permutations(Calls)

=============================================================================
