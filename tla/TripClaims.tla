----------------------------- MODULE TripClaims -----------------------------
(***************************************************************************)
(* What the comments of the trip processor say of it, and its steps        *)
(* contradict.                                                             *)
(***************************************************************************)
EXTENDS Trips

\* "Close it out and start a fresh trip": once a stale trip has been closed on
\* ignition-on and the new trip put, with no call failing, the vehicle has an
\* ACTIVE trip.
StaleTripReplaced ==
    (work.step = "expire" /\ work.row # NoTrip /\ faults = 0) => Open # {}

=============================================================================
