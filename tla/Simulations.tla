------------------------------ MODULE Simulations ------------------------------
(***************************************************************************)
(* The simulation control plane.  API calls start a vehicle's agent task   *)
(* and simulator task or, when an agent already runs, hand the trip over   *)
(* by an intent in the vehicle's row, for whichever presence loop of the   *)
(* vehicle takes it first.  Stop and status calls, the tasks and their     *)
(* presence loops then all write the simulation's row.  The id of a call   *)
(* is the id of its simulation.                                            *)
(***************************************************************************)
EXTENDS Naturals, FiniteSets

CONSTANTS
    Vehicle,
    Alike,       \* of a vehicle, those whose names begin with its name
    ListPage,    \* rows that one listing reads
    ScanOrder,   \* where a scan of the table meets a row
    MaxCalls,    \* bound: calls of start and agent start
    MaxTasks,    \* bound: container tasks ever run
    Plans        \* what is called, in order; bounds on stop calls and on faults

Call == 1..MaxCalls

ASSUME SimulationsAssumption ==
    /\ MaxCalls \in Nat /\ MaxTasks \in Nat
    /\ Alike \in [Vehicle -> SUBSET Vehicle] /\ \A v \in Vehicle : v \in Alike[v]
    /\ ListPage \in Nat /\ ScanOrder \in [Call -> Nat]
    /\ Plans \subseteq [calls : [Call -> [kind : {"start", "agent"}, vehicle : Vehicle]],
                       stops : Nat, faults : Nat]

Task == 1..MaxTasks
Bus  == 0..MaxTasks     \* vcan indices
None == 0

Up       == {"starting", "running"}
Statuses == Up \cup {"stopping", "gone"}
Finished == {"stopped", "completed"}

\* A task with its presence loop: an agent, or a simulator, which first drives the
\* trips it was started for, its own.
Tasks  == [kind : {"agent", "simulator"}, vehicle : Vehicle, bus : Bus, status : Statuses,
           loop : {"own", "idle", "found", "taken", "driving", "drove", "lost"}, sim : Call \cup {None}]
NoTask == [kind |-> "none"]

\* An API call in progress: what it does next, and what it has read or made.
Calls  == [kind : {"start", "agent"}, vehicle : Vehicle,
           step : {"pick", "agent", "simulator", "intent", "put", "ended"},
           agent : Task \cup {None}, task : Task \cup {None}, bus : Bus]
NoCall == [step |-> "none"]

\* SIM_TABLE.
Rows  == [status : {"intent_pending", "running"} \cup Finished, task : Task, agent : Task \cup {None}]
NoRow == [status |-> "absent"]

VARIABLES
    plan,       \* the calls to come
    tasks,      \* the tasks of the cluster
    calls,      \* start and agent-start calls
    rows,       \* SIM_TABLE, by simulation
    intents,    \* tripIntent of each vehicle, or None
    stops,      \* simulations whose stop call is halfway
    halts,      \* stop calls so far
    observed,   \* simulations whose task a status call has found over
    ordered,    \* history: how often a simulation's trips were asked for
    driven,     \* history: how often they were started
    blind,      \* history: a bus was picked from an incomplete listing
    faults      \* failed calls to ECS and DynamoDB, crashes, raised trips

history == <<plan, ordered, driven, blind>>
readers == <<stops, observed, halts>>
vars    == <<tasks, calls, rows, intents, readers, history, faults>>

Init ==
    /\ plan \in Plans
    /\ tasks = [t \in Task |-> NoTask] /\ calls = [c \in Call |-> NoCall]
    /\ rows = [c \in Call |-> NoRow] /\ intents = [v \in Vehicle |-> None]
    /\ stops = {} /\ observed = {} /\ halts = 0
    /\ ordered = [c \in Call |-> 0] /\ driven = [c \in Call |-> 0]
    /\ blind = FALSE
    /\ faults = 0

Fault == faults < plan.faults /\ faults' = faults + 1

Ran      == {t \in Task : tasks[t] # NoTask}
Live     == {t \in Ran : tasks[t].status # "gone"}
Agents   == {t \in Ran : tasks[t].kind = "agent"}
Started(S) == {t \in S : tasks[t].status \in Up}
-----------------------------------------------------------------------------
(* ECS, as the Lambda sees it. *)

\* A task being stopped is not listed; one that starts may be ACTIVATING, which
\* is none of the states looked for.
Listings == {L \in SUBSET Started(Ran) : \A t \in Ran : tasks[t].status = "running" => t \in L}

\* The agent's VEHICLE_NAME need only begin with the name asked for.
AgentsOf(v, L) == {t \in L \cap Agents : tasks[t].vehicle \in Alike[v]}

Stopped(S) ==
    [t \in Task |-> IF t \in Started(S \cap Ran) THEN [tasks[t] EXCEPT !.status = "stopping"]
                    ELSE tasks[t]]

\* run_task: a new task, which starts.
NewTask(t, kind, v, bus, sim) ==
    /\ t \notin Ran /\ \A u \in Task \ Ran : t <= u
    /\ tasks' = [tasks EXCEPT ![t] =
           [kind |-> kind, vehicle |-> v, bus |-> bus, status |-> "starting",
            loop |-> IF sim = None THEN "idle" ELSE "own", sim |-> sim]]

-----------------------------------------------------------------------------
(* The start and agent-start calls. *)

Step(c, s)  == calls[c].step = s
Goto(c, s)  == calls' = [calls EXCEPT ![c].step = s]
Ends(c)     == Goto(c, "ended")

Enter(c, k, v, s, t) ==
    calls' = [calls EXCEPT ![c] = [kind |-> k, vehicle |-> v, step |-> s,
                                   agent |-> t, task |-> t, bus |-> 0]]

Called(c, k, v) ==
    /\ plan.calls[c] = [kind |-> k, vehicle |-> v]
    /\ Step(c, "none")
    /\ \A d \in Call : d < c => ~Step(d, "none")

\* _start: is there an agent for the vehicle?  A failed listing shows none.
Begin(c, v) ==
    /\ Called(c, "start", v)
    /\ \/ \E L \in Listings :
            /\ \/ AgentsOf(v, L) = {} /\ Enter(c, "start", v, "pick", None)
               \/ \E t \in AgentsOf(v, L) : Enter(c, "start", v, "intent", t)
            /\ UNCHANGED faults
       \/ Enter(c, "start", v, "pick", None) /\ Fault
    /\ UNCHANGED <<tasks, rows, intents, readers, history>>

\* _agent_start: the same question; the agent found is stopped.
BeginAgent(c, v) ==
    /\ Called(c, "agent", v)
    /\ Enter(c, "agent", v, "pick", None)
    /\ \/ \E L \in Listings :
            /\ \/ AgentsOf(v, L) = {} /\ UNCHANGED tasks
               \/ \E t \in AgentsOf(v, L) : tasks' = Stopped({t})
            /\ UNCHANGED faults
       \/ UNCHANGED tasks /\ Fault
    /\ UNCHANGED <<rows, intents, readers, history>>

\* Mutant: as many buses are taken as are seen in use.
BusCount(used) == Cardinality(used)

\* _next_vcan_index: the lowest index that is not in use.
NextBus(used) == CHOOSE b \in Bus \ used : \A a \in Bus \ used : b <= a

BusesOf(L) == {tasks[t].bus : t \in L}
Picked     == {calls[c].bus : c \in {d \in Call : Step(d, "agent")}}

\* The listing, which a failure leaves empty, decides the bus.
Pick(c) ==
    /\ Step(c, "pick")
    /\ \E L \in Listings \cup {{}} :
          /\ calls' = [calls EXCEPT ![c].step = "agent", ![c].bus = NextBus(BusesOf(L))]
          /\ blind' = (blind \/ ~(BusesOf(Live \cap Agents) \cup Picked \subseteq BusesOf(L)))
          /\ \/ L \in Listings /\ UNCHANGED faults
             \/ L = {} /\ Fault
    /\ UNCHANGED <<plan, tasks, rows, intents, ordered, driven, readers>>

\* A start goes on without the agent that could not be run.
RunAgent(c) ==
    /\ Step(c, "agent")
    /\ LET next == IF calls[c].kind = "start" THEN "simulator" ELSE "ended" IN
       \/ /\ \E t \in Task : /\ NewTask(t, "agent", calls[c].vehicle, calls[c].bus, None)
                             /\ calls' = [calls EXCEPT ![c].step = next, ![c].agent = t]
          /\ UNCHANGED faults
       \/ Goto(c, next) /\ UNCHANGED tasks /\ Fault
    /\ UNCHANGED <<rows, intents, readers, history>>

\* The simulator drives the trips as soon as it is up.
RunSimulator(c) ==
    /\ Step(c, "simulator")
    /\ \/ /\ \E t \in Task : /\ NewTask(t, "simulator", calls[c].vehicle, calls[c].bus, c)
                             /\ calls' = [calls EXCEPT ![c].step = "put", ![c].task = t]
          /\ ordered' = [ordered EXCEPT ![c] = @ + 1]
          /\ driven' = [driven EXCEPT ![c] = @ + 1]
          /\ UNCHANGED faults
       \/ Ends(c) /\ UNCHANGED <<tasks, ordered, driven>> /\ Fault
    /\ UNCHANGED <<plan, rows, intents, blind, readers>>

\* _resolve_agent_vcan and _write_trip_intent: the intent replaces whatever the
\* slot of the call's vehicle holds.  A write whose answer is lost is sent again.
WriteIntent(c) ==
    /\ Step(c, "intent")
    /\ \/ /\ intents' = [intents EXCEPT ![calls[c].vehicle] = c]
          /\ ordered' = [ordered EXCEPT ![c] = @ + 1]
          /\ \/ Goto(c, "put") /\ UNCHANGED faults
             \/ UNCHANGED calls /\ Fault
       \/ Ends(c) /\ UNCHANGED <<intents, ordered>> /\ Fault
    /\ UNCHANGED <<plan, tasks, rows, driven, blind, readers>>

Handed(c) == calls[c].task = calls[c].agent

\* The row comes last, whatever has happened to the simulation meanwhile.
PutRow(c) ==
    /\ Step(c, "put")
    /\ \/ /\ rows' = [rows EXCEPT ![c] =
                 [status |-> IF Handed(c) THEN "intent_pending" ELSE "running",
                  task |-> calls[c].task, agent |-> calls[c].agent]]
          /\ \/ Ends(c) /\ UNCHANGED faults
             \/ UNCHANGED calls /\ Fault
       \/ Ends(c) /\ UNCHANGED rows /\ Fault
    /\ UNCHANGED <<tasks, intents, readers, history>>

CallStep(c) == Pick(c) \/ RunAgent(c) \/ RunSimulator(c) \/ WriteIntent(c) \/ PutRow(c)

-----------------------------------------------------------------------------
(* The other calls: stop, agent stop, status and list. *)

Exists(c) == rows[c] # NoRow
SetStatus(c, s) == rows' = [rows EXCEPT ![c].status = s]

Halt == halts < plan.stops /\ halts' = halts + 1

\* _stop: the row's task and its agent, which other simulations may share; a
\* task that cannot be stopped is left running.
Stop(c) ==
    /\ Exists(c) /\ c \notin stops
    /\ Halt /\ stops' = stops \cup {c}
    /\ \/ tasks' = Stopped({rows[c].task, rows[c].agent}) /\ UNCHANGED faults
       \/ \E S \in SUBSET {rows[c].task, rows[c].agent} : tasks' = Stopped(S) /\ Fault
    /\ UNCHANGED <<calls, rows, intents, observed, history>>

StopRow(c) ==
    /\ c \in stops
    /\ stops' = stops \ {c}
    /\ \/ SetStatus(c, "stopped") /\ UNCHANGED faults
       \/ UNCHANGED rows /\ Fault
    /\ UNCHANGED <<tasks, calls, intents, observed, halts, history>>

\* _agent_stop: the agent of one vehicle, or every task of the cluster.
AgentStop ==
    /\ Halt
    /\ \/ \E v \in Vehicle, L \in Listings, t \in Task :
             t \in AgentsOf(v, L) /\ tasks' = Stopped({t})
       \/ Started(Ran) # {} /\ tasks' = Stopped(Ran)
    /\ UNCHANGED <<calls, rows, intents, stops, observed, faults, history>>

\* Mutants: a task that stops counts as over; the agent's end is what counts.
TaskNotRunning(c) == tasks[rows[c].task].status \notin Up
AgentOver(c)      == rows[c].agent # None /\ tasks[rows[c].agent].status = "gone"

\* The recorded task is STOPPED, or ECS has forgotten it.
TaskOver(c) == tasks[rows[c].task].status = "gone"

\* _list scans one page of the table and no further.
Listed(c) ==
    Exists(c) /\ Cardinality({d \in Call : Exists(d) /\ ScanOrder[d] < ScanOrder[c]}) < ListPage

\* _list, of the rows on its page, and _status, of any row, look at running ones.
Observe(c) ==
    /\ Exists(c) /\ rows[c].status = "running" /\ c \notin observed
    /\ TaskOver(c)
    /\ observed' = observed \cup {c}
    /\ UNCHANGED <<tasks, calls, rows, intents, stops, faults, halts, history>>

\* The update that follows has no condition.
Reconcile(c) ==
    /\ c \in observed
    /\ observed' = observed \ {c}
    /\ \/ SetStatus(c, "completed") /\ UNCHANGED faults
       \/ UNCHANGED rows /\ Fault
    /\ UNCHANGED <<tasks, calls, intents, stops, halts, history>>

-----------------------------------------------------------------------------
(* The tasks, and their presence loops. *)

Runs(t) == t \in Ran /\ tasks[t].status \in {"running", "stopping"}
At(t, l) == Runs(t) /\ tasks[t].loop = l
Loop(t, l, c) == tasks' = [tasks EXCEPT ![t].loop = l, ![t].sim = c]
Rest(t) == Loop(t, "idle", None)

Boot(t) ==
    /\ t \in Ran /\ tasks[t].status = "starting"
    /\ tasks' = [tasks EXCEPT ![t].status = "running"]
    /\ UNCHANGED <<calls, rows, intents, faults, readers, history>>

Gone(t) ==
    /\ tasks' = [tasks EXCEPT ![t].status = "gone", ![t].loop = "idle", ![t].sim = None]
    /\ UNCHANGED <<calls, rows, intents, readers, history>>

\* Only a task that is stopped ends: the presence loop is unbounded.
Exit(t) == t \in Live /\ tasks[t].status = "stopping" /\ Gone(t) /\ UNCHANGED faults

\* A task crashes or loses its instance; a simulator also ends when it cannot connect.
Crash(t) == t \in Started(Ran) /\ Gone(t) /\ Fault

\* The loop of an agent is a container that is not essential.  When it crashes it is
\* restarted; when it cannot connect it exits with 0, and is not.
LoseLoop(t) ==
    /\ Runs(t) /\ tasks[t].kind = "agent"
    /\ Rest(t) \/ Loop(t, "lost", None)
    /\ Fault
    /\ UNCHANGED <<calls, rows, intents, readers, history>>

\* A simulator has driven its own trips; its row stays as it is.
OwnTripsEnd(t) ==
    /\ At(t, "own") /\ Rest(t)
    /\ UNCHANGED <<calls, rows, intents, faults, readers, history>>

\* poll_trip_intent; a stale read returns an intent that is there no more.
Poll(t) ==
    /\ At(t, "idle")
    /\ \/ intents[tasks[t].vehicle] # None /\ Loop(t, "found", intents[tasks[t].vehicle])
          /\ UNCHANGED faults
       \/ \E c \in Call : /\ ordered[c] > 0 /\ calls[c].vehicle = tasks[t].vehicle
                          /\ Handed(c) /\ Loop(t, "found", c) /\ Fault
    /\ UNCHANGED <<calls, rows, intents, readers, history>>

Remove(t) == intents' = [intents EXCEPT ![tasks[t].vehicle] = None]

\* Mutant: the removal has no condition.
HoldsAlways(t) == TRUE

\* Mutant: only the agent whose task the row records takes it.
HoldsOwn(t) ==
    /\ intents[tasks[t].vehicle] = tasks[t].sim
    /\ Exists(tasks[t].sim) => rows[tasks[t].sim].agent = t

\* The condition of consume_trip_intent.
Holds(t) == intents[tasks[t].vehicle] = tasks[t].sim

\* consume_trip_intent: a removal whose answer is lost is sent again, and then
\* refused, so that the trip is dropped.
Consume(t) ==
    /\ At(t, "found")
    /\ \/ Holds(t) /\ Remove(t) /\ Loop(t, "taken", tasks[t].sim) /\ UNCHANGED faults
       \/ ~Holds(t) /\ Rest(t) /\ UNCHANGED <<intents, faults>>
       \/ Holds(t) /\ Remove(t) /\ Rest(t) /\ Fault
       \/ Rest(t) /\ UNCHANGED intents /\ Fault
    /\ UNCHANGED <<calls, rows, readers, history>>

\* Mutants: the row is marked running whatever it says; unless it is finished,
\* even if it is not there yet.
PendingOrNot(c) == Exists(c)
NotFinished(c)  == rows[c].status \notin Finished

\* The condition of _mark_simulation_running.
Pending(c) == Exists(c) /\ rows[c].status = "intent_pending"

\* _mark_simulation_running; the trips start even if it fails.
Drive(t) ==
    /\ At(t, "taken") /\ Loop(t, "driving", tasks[t].sim)
    /\ driven' = [driven EXCEPT ![tasks[t].sim] = @ + 1]
    /\ \/ Pending(tasks[t].sim) /\ SetStatus(tasks[t].sim, "running") /\ UNCHANGED faults
       \/ ~Pending(tasks[t].sim) /\ UNCHANGED <<rows, faults>>
       \/ UNCHANGED rows /\ Fault
    /\ UNCHANGED <<plan, calls, intents, ordered, blind, readers>>

\* run_trips returns, also when a publish error or a shutdown cuts it short, or
\* raises, and the row stays as it is.
Drove(t) ==
    /\ At(t, "driving")
    /\ \/ Loop(t, "drove", tasks[t].sim) /\ UNCHANGED faults
       \/ Rest(t) /\ Fault
    /\ UNCHANGED <<calls, rows, intents, readers, history>>

\* _mark_simulation_completed.
MarkCompleted(t) ==
    /\ At(t, "drove") /\ Rest(t)
    /\ LET c == tasks[t].sim IN
       \/ Exists(c) /\ rows[c].status = "running" /\ SetStatus(c, "completed") /\ UNCHANGED faults
       \/ ~(Exists(c) /\ rows[c].status = "running") /\ UNCHANGED <<rows, faults>>
       \/ UNCHANGED rows /\ Fault
    /\ UNCHANGED <<calls, intents, readers, history>>

LoopStep(t) == OwnTripsEnd(t) \/ Poll(t) \/ Consume(t) \/ Drive(t) \/ Drove(t) \/ MarkCompleted(t)

-----------------------------------------------------------------------------

Next ==
    \/ \E c \in Call :
          \/ \E v \in Vehicle : Begin(c, v) \/ BeginAgent(c, v)
          \/ CallStep(c) \/ Stop(c) \/ StopRow(c) \/ Observe(c) \/ Reconcile(c)
    \/ AgentStop
    \/ \E t \in Task : Boot(t) \/ Exit(t) \/ Crash(t) \/ LoseLoop(t) \/ LoopStep(t)

Spec == Init /\ [][Next]_vars

\* Containers boot and, once stopped, end; presence loops that are not lost tick; the
\* UI lists the simulations every five seconds.  Nothing is assumed of the other calls:
\* a row beyond the page of the list may never be looked at.
Fairness ==
    /\ \A t \in Task : WF_vars(Boot(t) \/ LoopStep(t)) /\ WF_vars(Exit(t))
    /\ \A c \in Call : WF_vars((Listed(c) /\ Observe(c)) \/ Reconcile(c))

FairSpec == Spec /\ Fairness

-----------------------------------------------------------------------------
(* Properties. *)

TypeOK ==
    /\ tasks \in [Task -> Tasks \cup {NoTask}]
    /\ calls \in [Call -> Calls \cup {NoCall}]
    /\ rows \in [Call -> Rows \cup {NoRow}]
    /\ intents \in [Vehicle -> Call \cup {None}]
    /\ plan \in Plans
    /\ halts \in 0..plan.stops
    /\ stops \subseteq Call /\ observed \subseteq Call
    /\ ordered \in [Call -> Nat] /\ driven \in [Call -> Nat]
    /\ blind \in BOOLEAN
    /\ faults \in 0..plan.faults

\* A simulation's trips are driven at most as often as they were asked for, with
\* agent and simulator loops on one vehicle, stale polls, intents that replace each
\* other, loops that restart and writes that are sent twice.
DrivenAsOrdered == \A c \in Call : driven[c] <= ordered[c]

Drives(t, c) == t \in Ran /\ tasks[t].sim = c /\ tasks[t].loop \in {"own", "driving"}

\* While a loop drives a simulation's trips its row says completed only if the task
\* the row records is gone, and the trips were taken by another one: list and status
\* ask for no more.  A retried intent, which has the trips driven twice, is exempt.
CompletedMeansOver ==
    \A c \in Call, t \in Task :
        (Exists(c) /\ rows[c].status = "completed" /\ ordered[c] <= 1 /\ Drives(t, c))
            => t # rows[c].task /\ tasks[rows[c].task].status = "gone"

\* Two agents share a vcan bus only if one of the buses was picked from a
\* listing that missed a live agent, or while another call held its pick.
BusesDistinct ==
    ~blind => \A t, u \in Live \cap Agents : tasks[t].bus = tasks[u].bus => t = u

\* A finished simulation is never taken back, except by its own start call,
\* whose put of the row is sent again.
FinishedStays ==
    [][\A c \in Call :
          (Exists(c) /\ rows[c].status \in Finished)
              => rows'[c].status \in Finished \/ Step(c, "put")]_vars

\* No row says running for good once its task is over, as long as the row is among
\* those the list reads.
RunningEnds ==
    \A c \in Call :
        (Exists(c) /\ rows[c].status = "running" /\ tasks[rows[c].task].status = "gone")
            ~> (rows[c].status # "running" \/ ~Listed(c))

\* A vehicle one of whose tasks keeps running with its loop has no intent left
\* waiting in the end, whichever agent it was written for.
IntentServed ==
    \A v \in Vehicle :
        <>[](\E t \in Ran : tasks[t].vehicle = v /\ tasks[t].status = "running"
                             /\ tasks[t].loop # "lost")
            => <>[](intents[v] = None)

=============================================================================
