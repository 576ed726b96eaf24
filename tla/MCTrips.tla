------------------------------ MODULE MCTrips ------------------------------
EXTENDS TripClaims

\* Signals, with a history that fits a page, with one that is longer than a page and
\* with lagging reads, and canonical events.
Cases ==
    {[path |-> "signal", lag |-> FALSE, page |-> 3, frames |-> 3],
     [path |-> "signal", lag |-> FALSE, page |-> 1, frames |-> 4],
     [path |-> "signal", lag |-> TRUE, page |-> 2, frames |-> 2],
     [path |-> "canonical", lag |-> FALSE, page |-> 2, frames |-> 2]}
=============================================================================
