--------------------------- MODULE MCSimulations ---------------------------
EXTENDS Simulations
CONSTANTS v1, v2

Starts(v)      == [kind |-> "start", vehicle |-> v]
StartsAgent(v) == [kind |-> "agent", vehicle |-> v]

Scenario(cs, s, f) == [calls |-> cs, stops |-> s, faults |-> f]
Shared     == <<Starts(v1), Starts(v1), StartsAgent(v1)>>
TwoIntents == <<Starts(v1), Starts(v1), Starts(v1)>>
Replaced   == <<StartsAgent(v1), Starts(v1), StartsAgent(v1)>>
TwoAgents  == <<Starts(v1), StartsAgent(v2), StartsAgent(v1)>>

\* An intent for an agent next to a simulator, then an agent replaced; two intents for
\* them; an agent replaced under an intent, with a failure; agents of two vehicles.
Scenarios ==
    {Scenario(Shared, 1, 0), Scenario(TwoIntents, 0, 0), Scenario(Replaced, 0, 1),
     Scenario(TwoAgents, 1, 0)}

\* The name of v2 begins with that of v1.
Prefixes == [v \in Vehicle |-> IF v = v1 THEN {v1, v2} ELSE {v}]

\* The first row comes last.
Scanned == <<3, 1, 2>>
=============================================================================
