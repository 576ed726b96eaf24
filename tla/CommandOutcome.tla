--------------------------- MODULE CommandOutcome ---------------------------
(***************************************************************************)
(* What the commands service promises of a diagnostic command, whatever    *)
(* order its answers arrive in: it gets at most one owner, who must come   *)
(* before any answer, and its outcome only ever improves.                  *)
(***************************************************************************)
EXTENDS Integers

CONSTANTS Commands, Callers, Nobody, Best

VARIABLES
    owner,    \* command -> the caller on record, or Nobody
    outcome   \* command -> 0 unknown, 1 sent, ..., Best succeeded

record == <<owner, outcome>>

Init ==
    /\ owner = [k \in Commands |-> Nobody]
    /\ outcome = [k \in Commands |-> 0]

Issue(k, c) ==
    /\ owner[k] = Nobody /\ outcome[k] = 0
    /\ owner' = [owner EXCEPT ![k] = c]
    /\ outcome' = [outcome EXCEPT ![k] = 1]

Improve(k, n) ==
    /\ outcome[k] < n
    /\ outcome' = [outcome EXCEPT ![k] = n]
    /\ UNCHANGED owner

Next ==
    \E k \in Commands : \/ \E c \in Callers : Issue(k, c)
                        \/ \E n \in 2..Best : Improve(k, n)

Spec == Init /\ [][Next]_record

-----------------------------------------------------------------------------

\* An outcome never gets worse.
NeverWorse == [][\A k \in Commands : outcome[k] <= outcome'[k]]_record

\* Once a command was issued or answered its owner is settled: a caller who comes
\* after the first one, or after an answer, does not get the command.
OwnerSettled == [][\A k \in Commands : outcome[k] # 0 => owner'[k] = owner[k]]_record

\* No command has an owner without having been sent.
OwnedIsSent == \A k \in Commands : owner[k] # Nobody => outcome[k] # 0

=============================================================================
