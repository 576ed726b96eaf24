-------------------------------- MODULE MCDtc --------------------------------
(* The instance of Dtc that TLC checks: two faults at a time. *)
EXTENDS Dtc

CONSTANTS c1, c2

Fault(kind, code) == [kind |-> kind, code |-> code]
Case(S, n, f)     == [faults |-> S, reports |-> n, failures |-> f, restarts |-> 1]

\* One source's reports and a failed call; two codes of one poll, which share a
\* key; one code from two sources; an indicator without a code, and a code.
Mix == {Case({Fault("threshold", c1)}, 2, 1),
        Case({Fault("uds", c1), Fault("uds", c2)}, 2, 0),
        Case({Fault("uds", c1), Fault("oem1", c1)}, 2, 0),
        Case({Fault("lamp", c1), Fault("uds", c1)}, 2, 0)}
=============================================================================
