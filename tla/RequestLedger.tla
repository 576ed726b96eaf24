--------------------------- MODULE RequestLedger ---------------------------
(***************************************************************************)
(* What the enrollment components promise about one another, without       *)
(* tables, Lambdas or polling: OEM1 takes a request for some vehicles, the *)
(* request is recorded at most once, OEM1 decides each vehicle once and    *)
(* for good, and the request is closed, once and for good, only when every *)
(* vehicle in it has been decided.                                         *)
(***************************************************************************)
CONSTANTS Requests, Vehicles

VARIABLES
    phase,    \* request -> "unused", "accepted", "recorded" or "closed"
    verdict   \* request -> vehicle -> "none", "pending" or "final"

ledger == <<phase, verdict>>

Init ==
    /\ phase = [r \in Requests |-> "unused"]
    /\ verdict = [r \in Requests |-> [v \in Vehicles |-> "none"]]

Accept(r) ==
    /\ phase[r] = "unused"
    /\ phase' = [phase EXCEPT ![r] = "accepted"]
    /\ \E vs \in SUBSET Vehicles :
          verdict' = [verdict EXCEPT ![r] =
                        [v \in Vehicles |-> IF v \in vs THEN "pending" ELSE "none"]]

Record(r) ==
    /\ phase[r] = "accepted"
    /\ phase' = [phase EXCEPT ![r] = "recorded"]
    /\ UNCHANGED verdict

Decide(r, v) ==
    /\ verdict[r][v] = "pending"
    /\ verdict' = [verdict EXCEPT ![r][v] = "final"]
    /\ UNCHANGED phase

Close(r) ==
    /\ phase[r] = "recorded"
    /\ \A v \in Vehicles : verdict[r][v] # "pending"
    /\ phase' = [phase EXCEPT ![r] = "closed"]
    /\ UNCHANGED verdict

Next ==
    \E r \in Requests :
        Accept(r) \/ Record(r) \/ Close(r) \/ \E v \in Vehicles : Decide(r, v)

Spec == Init /\ [][Next]_ledger

-----------------------------------------------------------------------------

\* No vehicle of a closed request is undecided.
ClosedIsDecided ==
    \A r \in Requests : phase[r] = "closed" => \A v \in Vehicles : verdict[r][v] # "pending"

\* Nothing happens any more to a closed request.
ClosedForGood ==
    [][\A r \in Requests : phase[r] = "closed" =>
          phase'[r] = "closed" /\ verdict'[r] = verdict[r]]_ledger

\* OEM1 does not take back what it decided.
FinalForGood ==
    [][\A r \in Requests, v \in Vehicles :
          verdict[r][v] = "final" => verdict'[r][v] = "final"]_ledger

=============================================================================
