--------------------------- MODULE SimulationsProofs ---------------------------
(***************************************************************************)
(* Proofs about Simulations, for any vehicles, plans, calls and tasks:     *)
(* trips are driven no more often than they were asked for, a row that     *)
(* says completed while a loop drives had its recorded task gone, a        *)
(* finished row is never taken back, buses are shared only after a blind   *)
(* pick, trips are driven on the vehicle they were asked for, and a stop   *)
(* reaches only vehicles that are named like its own.                      *)
(***************************************************************************)
EXTENDS Simulations, FiniteSetTheorems, WellFoundedInduction, TLAPS

-----------------------------------------------------------------------------
(* The inductive invariant. *)

\* A call that has not reached its put has no row, and no row is stopped that
\* does not exist.
NotYet ==
    \A c \in Call :
        /\ c \in stops => Exists(c)
        /\ calls[c].step \notin {"put", "ended"} => ~Exists(c)
        /\ Exists(c) => calls[c] # NoCall /\ rows[c].task = calls[c].task

\* What an unfinished start call holds.
Holding ==
    \A c \in Call :
        /\ calls[c] # NoCall /\ calls[c].task # None => calls[c].task \in Ran
        /\ calls[c].step \in {"intent", "put"} => calls[c].task # None

\* A vehicle's intent names a call for this vehicle.
SlotOwned ==
    \A v \in Vehicle :
        intents[v] # None => calls[intents[v]] # NoCall /\ calls[intents[v]].vehicle = v

\* A loop at work names a simulation; a task that is gone does nothing.
LoopsNamed ==
    \A t \in Ran : /\ tasks[t].loop \notin {"idle", "lost"} => tasks[t].sim \in Call
                   /\ tasks[t].status = "gone" => tasks[t].loop = "idle"

\* What is still to be driven, and who drives.
Waiting(c)  == IF \E v \in Vehicle : intents[v] = c THEN 1 ELSE 0
Taken(c)    == {t \in Task : t \in Ran /\ tasks[t].loop = "taken" /\ tasks[t].sim = c}
Drivers(c)  == {t \in Task : /\ t \in Ran /\ tasks[t].loop \in {"own", "driving", "drove"}
                             /\ tasks[t].sim = c}

\* Every time a simulation is driven, it was asked for, waited for and taken.
Booked ==
    \A c \in Call :
        /\ driven[c] + Waiting(c) + Cardinality(Taken(c)) <= ordered[c]
        /\ Cardinality(Drivers(c)) <= driven[c]

\* Why a row may say completed, or be about to.
Over(c) == tasks[rows[c].task] # NoTask /\ TaskOver(c)

CompletedCause ==
    \A c \in Call :
        /\ c \in observed => Exists(c) /\ Over(c)
        /\ Exists(c) /\ rows[c].status = "completed" => driven[c] > 0 \/ Over(c)

\* Buses that are held by agents and by picks are all different.
BusesHeld ==
    ~blind =>
        /\ \A t \in Live \cap Agents : \A c \in Call :
              calls[c].step = "agent" => tasks[t].bus # calls[c].bus
        /\ \A c, d \in Call :
              calls[c].step = "agent" /\ calls[d].step = "agent" /\ calls[c].bus = calls[d].bus
                  => c = d

Inv ==
    /\ TypeOK /\ NotYet /\ Holding /\ SlotOwned /\ LoopsNamed
    /\ Booked /\ CompletedCause /\ CompletedMeansOver /\ BusesHeld /\ BusesDistinct

-----------------------------------------------------------------------------
(* Constants and buses *)

LEMMA ConstantTypes ==
    /\ MaxCalls \in Nat /\ MaxTasks \in Nat
    /\ Call \subseteq Nat /\ Task \subseteq Nat /\ None \notin Call /\ None \notin Task
    /\ Bus \subseteq Nat /\ 0 \in Bus
    /\ \A p \in Plans : p.stops \in Nat /\ p.faults \in Nat
  BY SimulationsAssumption DEF Call, Task, Bus, None

LEMMA TasksFinite == \A S \in SUBSET Task : IsFiniteSet(S) /\ Cardinality(S) \in Nat
<1>1. IsFiniteSet(Task)
  BY ConstantTypes, FS_Interval DEF Task
<1> QED
  BY <1>1, FS_Subset, FS_CardinalityType

LEMMA Records ==
    /\ \A x \in Tasks : x # NoTask
    /\ \A x \in Calls : x # NoCall
    /\ \A x \in Rows : x # NoRow
<1>1. \A x \in Tasks : x.kind \in {"agent", "simulator"}
  BY DEF Tasks
<1>2. NoTask.kind = "none"
  BY DEF NoTask
<1>3. \A x \in Calls : x.step # "none"
  BY DEF Calls
<1>4. NoCall.step = "none"
  BY DEF NoCall
<1>5. \A x \in Rows : x.status # "absent"
  BY DEF Rows, Finished
<1>6. NoRow.status = "absent"
  BY DEF NoRow
<1> QED
  BY <1>1, <1>2, <1>3, <1>4, <1>5, <1>6

\* There are more buses than tasks, so one is free, and a lowest one is.
LEMMA FreeBus ==
    ASSUME TypeOK, NEW L \in SUBSET Ran
    PROVE  NextBus(BusesOf(L)) \in Bus \ BusesOf(L)
<1> DEFINE U == BusesOf(L)
           F == Bus \ U
<1>1. L \subseteq Task /\ \A t \in L : tasks[t] \in Tasks /\ tasks[t].bus \in Bus
  BY DEF Ran, TypeOK, Tasks
<1>2. IsFiniteSet(L) /\ Cardinality(L) <= MaxTasks
  <2>1. IsFiniteSet(Task) /\ Cardinality(Task) = MaxTasks
    BY ConstantTypes, FS_Interval DEF Task
  <2> QED
    BY <1>1, <2>1, FS_Subset
<1>3. IsFiniteSet(U) /\ Cardinality(U) <= Cardinality(L)
  <2> DEFINE f == [t \in L |-> tasks[t].bus]
  <2>1. f \in Surjection(L, U)
    BY DEF Surjection, BusesOf
  <2> QED
    BY <1>2, <2>1, FS_Surjection
<1>4. IsFiniteSet(Bus) /\ Cardinality(Bus) = MaxTasks + 1
  BY ConstantTypes, FS_Interval DEF Bus
<1>5. F # {}
  <2> SUFFICES ASSUME F = {}
               PROVE  FALSE
    OBVIOUS
  <2>1. Bus \subseteq U
    OBVIOUS
  <2>2. Cardinality(Bus) <= Cardinality(U)
    BY <1>3, <2>1, FS_Subset
  <2>3. Cardinality(U) \in Nat /\ Cardinality(L) \in Nat /\ MaxTasks \in Nat
    BY <1>2, <1>3, FS_CardinalityType, ConstantTypes
  <2> QED
    BY <1>2, <1>3, <1>4, <2>2, <2>3
<1>6. \E b \in F : \A a \in F : b <= a
  <2>1. F \subseteq Nat
    BY ConstantTypes
  <2>2. PICK b \in F : \A a \in F : <<a, b>> \notin OpToRel(<, Nat)
    BY <1>5, <2>1, NatLessThanWellFounded, WFMin
  <2>3. \A a \in F : ~(a < b)
    BY <2>1, <2>2 DEF OpToRel
  <2> QED
    BY <2>1, <2>3
<1> QED
  BY <1>6 DEF NextBus

LEMMA ListingsRan == \A L \in Listings : L \subseteq Ran
  BY DEF Listings, Started

-----------------------------------------------------------------------------
(* Types *)

TasksOK == tasks \in [Task -> Tasks \cup {NoTask}]
CallsOK == calls \in [Call -> Calls \cup {NoCall}]
RowsOK  == rows \in [Call -> Rows \cup {NoRow}]

LEMMA RanTyped == ASSUME TasksOK, NEW t \in Ran PROVE t \in Task /\ tasks[t] \in Tasks
  BY DEF Ran, TasksOK

LEMMA StoppedTyped == ASSUME TasksOK, NEW S PROVE Stopped(S) \in [Task -> Tasks \cup {NoTask}]
<1> SUFFICES ASSUME NEW t \in Started(S \cap Ran)
             PROVE  t \in Task => [tasks[t] EXCEPT !.status = "stopping"] \in Tasks
  BY DEF Stopped, TasksOK
<1>1. t \in Ran
  BY DEF Started
<1> QED
  BY <1>1, RanTyped DEF Tasks, Statuses

LEMMA NewTaskTyped ==
    ASSUME TasksOK, NEW t \in Task, NEW k \in {"agent", "simulator"}, NEW v \in Vehicle,
           NEW b \in Bus, NEW c \in Call \cup {None}, NewTask(t, k, v, b, c)
    PROVE  TasksOK'
  BY DEF NewTask, TasksOK, Tasks, Statuses, Up

LEMMA LoopTyped ==
    ASSUME TasksOK, NEW t \in Ran,
           NEW l \in {"own", "idle", "found", "taken", "driving", "drove", "lost"},
           NEW c \in Call \cup {None}, Loop(t, l, c)
    PROVE  TasksOK'
<1>1. [tasks[t] EXCEPT !.loop = l, !.sim = c] \in Tasks
  BY RanTyped DEF Tasks
<1>2. tasks' = [tasks EXCEPT ![t] = [tasks[t] EXCEPT !.loop = l, !.sim = c]]
  BY RanTyped DEF Loop, TasksOK
<1> QED
  BY <1>1, <1>2 DEF TasksOK

LEMMA StatusTyped ==
    ASSUME TasksOK, NEW t \in Ran, NEW s \in Statuses,
           tasks' = [tasks EXCEPT ![t].status = s]
    PROVE  TasksOK'
<1>1. [tasks[t] EXCEPT !.status = s] \in Tasks
  BY RanTyped DEF Tasks
<1> QED
  BY <1>1 DEF TasksOK

LEMMA GoneTyped == ASSUME TasksOK, NEW t \in Ran, Gone(t) PROVE TasksOK'
<1>1. [tasks[t] EXCEPT !.status = "gone", !.loop = "idle", !.sim = None] \in Tasks
  BY RanTyped DEF Tasks, Statuses
<1>2. tasks' = [tasks EXCEPT ![t] = [tasks[t] EXCEPT !.status = "gone", !.loop = "idle", !.sim = None]]
  BY RanTyped DEF Gone, TasksOK
<1> QED
  BY <1>1, <1>2 DEF TasksOK

LEMMA CallTyped ==
    ASSUME CallsOK, NEW c \in Call, calls[c] # NoCall
    PROVE  calls[c] \in Calls
  BY DEF CallsOK

LEMMA GotoTyped ==
    ASSUME CallsOK, NEW c \in Call, calls[c] # NoCall,
           NEW s \in {"pick", "agent", "simulator", "intent", "put", "ended"}, Goto(c, s)
    PROVE  CallsOK'
<1>1. [calls[c] EXCEPT !.step = s] \in Calls
  BY CallTyped DEF Calls
<1> QED
  BY <1>1 DEF Goto, CallsOK

LEMMA StatusRowTyped ==
    ASSUME RowsOK, NEW c \in Call, Exists(c), NEW s \in Finished \cup {"running"}, SetStatus(c, s)
    PROVE  RowsOK'
<1>1. rows[c] \in Rows
  BY DEF Exists, RowsOK
<1>2. [rows[c] EXCEPT !.status = s] \in Rows
  BY <1>1 DEF Rows
<1> QED
  BY <1>2 DEF SetStatus, RowsOK

\* A call that is at some step of its own exists.
LEMMA InProgress ==
    ASSUME NEW c \in Call, NEW s \in {"pick", "agent", "simulator", "intent", "put", "ended"},
           Step(c, s)
    PROVE  calls[c] # NoCall
  BY DEF Step, NoCall

LEMMA EnterTyped ==
    ASSUME CallsOK, NEW c \in Call, NEW v \in Vehicle, NEW k \in {"start", "agent"},
           NEW s \in {"pick", "intent"}, NEW t \in Task \cup {None}, Enter(c, k, v, s, t)
    PROVE  CallsOK'
  BY ConstantTypes DEF Enter, CallsOK, Calls

LEMMA FaultTyped ==
    ASSUME TypeOK, UNCHANGED plan, UNCHANGED faults \/ Fault
    PROVE  faults' \in 0..plan'.faults
<1>1. faults \in 0..plan.faults /\ plan.faults \in Nat
  BY ConstantTypes DEF TypeOK
<1> QED
  BY <1>1 DEF Fault

LEMMA TypeStep == ASSUME Inv, Next \/ UNCHANGED vars PROVE TypeOK'
<1> USE DEF Inv
<1>0. TasksOK /\ CallsOK /\ RowsOK /\ 0 \in Nat
  BY DEF TypeOK, TasksOK, CallsOK, RowsOK
<1> DEFINE T == TasksOK' /\ CallsOK' /\ RowsOK'
           I == intents' \in [Vehicle -> Call \cup {None}]
           H == ordered' \in [Call -> Nat] /\ driven' \in [Call -> Nat] /\ blind' \in BOOLEAN
           R == stops' \subseteq Call /\ observed' \subseteq Call /\ halts' \in 0..plan.stops
           P == UNCHANGED plan /\ (UNCHANGED faults \/ Fault)
<1>a. SUFFICES T /\ I /\ H /\ R /\ P
  <2>1. plan' \in Plans
    BY <1>a DEF TypeOK
  <2> QED
    BY <1>a, <2>1, FaultTyped DEF TypeOK, TasksOK, CallsOK, RowsOK
<1>u1. UNCHANGED tasks => TasksOK'
  BY <1>0 DEF TasksOK
<1>u2. UNCHANGED calls => CallsOK'
  BY <1>0 DEF CallsOK
<1>u3. UNCHANGED rows => RowsOK'
  BY <1>0 DEF RowsOK
<1>u4. UNCHANGED intents => I
  BY DEF TypeOK
<1>u5. UNCHANGED history => H
  BY DEF TypeOK, history
<1>u6. UNCHANGED readers => R
  BY DEF TypeOK, readers
<1>u7. (UNCHANGED history \/ UNCHANGED plan) => UNCHANGED plan
  BY DEF history
<1>up. \A f \in [Call -> Nat], d \in Call : [f EXCEPT ![d] = @ + 1] \in [Call -> Nat]
  OBVIOUS
<1>or. ordered \in [Call -> Nat] /\ driven \in [Call -> Nat] /\ blind \in BOOLEAN
  BY DEF TypeOK
<1>st. \A S : tasks' = Stopped(S) => TasksOK'
  BY <1>0, StoppedTyped DEF TasksOK
<1>ag. \A v \in Vehicle, L \in Listings : \A t : t \in AgentsOf(v, L) => t \in Task
  BY ListingsRan, RanTyped, <1>0 DEF AgentsOf
<1>1. ASSUME NEW c \in Call, NEW v \in Vehicle, Begin(c, v)
      PROVE  T /\ I /\ H /\ R /\ P
  <2>1. CallsOK'
    BY <1>0, <1>1, <1>ag, EnterTyped DEF Begin
  <2> QED
    BY <1>1, <2>1, <1>u1, <1>u3, <1>u4, <1>u5, <1>u6, <1>u7 DEF Begin
<1>2. ASSUME NEW c \in Call, NEW v \in Vehicle, BeginAgent(c, v)
      PROVE  T /\ I /\ H /\ R /\ P
  <2>1. CallsOK'
    BY <1>0, <1>2, EnterTyped DEF BeginAgent
  <2>2. TasksOK'
    BY <1>2, <1>st, <1>u1 DEF BeginAgent
  <2> QED
    BY <1>2, <2>1, <2>2, <1>u3, <1>u4, <1>u5, <1>u6, <1>u7 DEF BeginAgent
<1>3. ASSUME NEW c \in Call, Pick(c)
      PROVE  T /\ I /\ H /\ R /\ P
  <2>1. PICK L \in Listings \cup {{}} :
             /\ calls' = [calls EXCEPT ![c].step = "agent", ![c].bus = NextBus(BusesOf(L))]
             /\ blind' = (blind \/ ~(BusesOf(Live \cap Agents) \cup Picked \subseteq BusesOf(L)))
    BY <1>3 DEF Pick
  <2>2. NextBus(BusesOf(L)) \in Bus
    BY ListingsRan, FreeBus
  <2>3. [calls[c] EXCEPT !.step = "agent", !.bus = NextBus(BusesOf(L))] \in Calls
    BY <1>0, <1>3, <2>2, CallTyped, InProgress DEF Pick, Calls
  <2>4. CallsOK'
    <3>1. calls' = [calls EXCEPT ![c] = [calls[c] EXCEPT !.step = "agent", !.bus = NextBus(BusesOf(L))]]
      BY <1>0, <2>1 DEF CallsOK
    <3> QED
      BY <1>0, <2>3, <3>1 DEF CallsOK
  <2>5. H /\ UNCHANGED plan
    BY <1>3, <2>1 DEF Pick, TypeOK
  <2> QED
    BY <1>3, <2>4, <2>5, <1>u1, <1>u3, <1>u4, <1>u6 DEF Pick
<1>4. ASSUME NEW c \in Call, RunAgent(c)
      PROVE  T /\ I /\ H /\ R /\ P
  <2> DEFINE next == IF calls[c].kind = "start" THEN "simulator" ELSE "ended"
  <2>0. calls[c] # NoCall /\ calls[c] \in Calls
    BY <1>0, <1>4, CallTyped, InProgress DEF RunAgent
  <2>1. CASE Goto(c, next) /\ UNCHANGED tasks /\ Fault
    BY <1>0, <1>4, <2>0, <2>1, GotoTyped, <1>u1, <1>u3, <1>u4, <1>u5, <1>u6, <1>u7 DEF RunAgent
  <2>2. ASSUME NEW t \in Task, NewTask(t, "agent", calls[c].vehicle, calls[c].bus, None),
               calls' = [calls EXCEPT ![c].step = next, ![c].agent = t], UNCHANGED faults
        PROVE  T /\ I /\ H /\ R /\ P
    <3>1. [calls[c] EXCEPT !.step = next, !.agent = t] \in Calls
      BY <2>0 DEF Calls
    <3>2. calls' = [calls EXCEPT ![c] = [calls[c] EXCEPT !.step = next, !.agent = t]]
      BY <1>0, <2>2 DEF CallsOK
    <3>3. CallsOK'
      BY <1>0, <3>1, <3>2 DEF CallsOK
    <3>4. TasksOK'
      <4>1. calls[c].vehicle \in Vehicle /\ calls[c].bus \in Bus
        BY <2>0 DEF Calls
      <4> QED
        BY <1>0, <2>2, <4>1, NewTaskTyped
    <3> QED
      BY <1>4, <2>2, <3>3, <3>4, <1>u3, <1>u4, <1>u5, <1>u6, <1>u7 DEF RunAgent
  <2> QED
    BY <1>4, <2>1, <2>2 DEF RunAgent
<1>5. ASSUME NEW c \in Call, RunSimulator(c)
      PROVE  T /\ I /\ H /\ R /\ P
  <2>0. calls[c] # NoCall /\ calls[c] \in Calls
    BY <1>0, <1>5, CallTyped, InProgress DEF RunSimulator
  <2>1. CASE Ends(c) /\ UNCHANGED <<tasks, ordered, driven>> /\ Fault
    BY <1>0, <1>5, <2>0, <2>1, GotoTyped, <1>u1, <1>u3, <1>u4, <1>u6 DEF RunSimulator, Ends, TypeOK
  <2>2. ASSUME NEW t \in Task, NewTask(t, "simulator", calls[c].vehicle, calls[c].bus, c),
               calls' = [calls EXCEPT ![c].step = "put", ![c].task = t], UNCHANGED faults,
               ordered' = [ordered EXCEPT ![c] = @ + 1], driven' = [driven EXCEPT ![c] = @ + 1]
        PROVE  T /\ I /\ H /\ R /\ P
    <3>1. [calls[c] EXCEPT !.step = "put", !.task = t] \in Calls
      BY <2>0 DEF Calls
    <3>2. calls' = [calls EXCEPT ![c] = [calls[c] EXCEPT !.step = "put", !.task = t]]
      BY <1>0, <2>2 DEF CallsOK
    <3>3. CallsOK'
      BY <1>0, <3>1, <3>2 DEF CallsOK
    <3>4. TasksOK'
      <4>1. calls[c].vehicle \in Vehicle /\ calls[c].bus \in Bus
        BY <2>0 DEF Calls
      <4> QED
        BY <1>0, <2>2, <4>1, NewTaskTyped
    <3>5. H
      BY <1>5, <2>2, <1>up, <1>or DEF RunSimulator
    <3> QED
      BY <1>5, <2>2, <3>3, <3>4, <3>5, <1>u3, <1>u4, <1>u6 DEF RunSimulator
  <2> QED
    BY <1>5, <2>1, <2>2 DEF RunSimulator
<1>6. ASSUME NEW c \in Call, WriteIntent(c)
      PROVE  T /\ I /\ H /\ R /\ P
  <2>0. calls[c] # NoCall
    BY <1>6, InProgress DEF WriteIntent
  <2>1. CallsOK'
    BY <1>0, <1>6, <2>0, GotoTyped, <1>u2 DEF WriteIntent, Ends
  <2>2. I /\ H /\ P
    BY <1>6 DEF WriteIntent, TypeOK
  <2> QED
    BY <1>6, <2>1, <2>2, <1>u1, <1>u3, <1>u6 DEF WriteIntent
<1>7. ASSUME NEW c \in Call, PutRow(c)
      PROVE  T /\ I /\ H /\ R /\ P
  <2>0. calls[c] # NoCall /\ calls[c] \in Calls /\ calls[c].task \in Task
    <3>1. calls[c] # NoCall /\ calls[c] \in Calls
      BY <1>0, <1>7, CallTyped, InProgress DEF PutRow
    <3>2. calls[c].task # None
      BY <1>7 DEF PutRow, Holding, Step
    <3> QED
      BY <3>1, <3>2 DEF Calls
  <2>1. CallsOK'
    BY <1>0, <1>7, <2>0, GotoTyped, <1>u2 DEF PutRow, Ends
  <2>2. RowsOK'
    <3>1. [status |-> IF Handed(c) THEN "intent_pending" ELSE "running",
           task |-> calls[c].task, agent |-> calls[c].agent] \in Rows
      BY <2>0 DEF Calls, Rows
    <3> QED
      BY <1>0, <1>7, <3>1, <1>u3 DEF PutRow, RowsOK
  <2> QED
    BY <1>7, <2>1, <2>2, <1>u1, <1>u4, <1>u5, <1>u6, <1>u7 DEF PutRow
<1>hh. halts \in 0..plan.stops /\ plan.stops \in Nat /\ stops \subseteq Call /\ observed \subseteq Call
  BY ConstantTypes DEF TypeOK
<1>8. ASSUME NEW c \in Call, Stop(c)
      PROVE  T /\ I /\ H /\ R /\ P
  <2>1. TasksOK'
    BY <1>8, <1>st DEF Stop
  <2>2. R
    BY <1>8, <1>hh DEF Stop, Halt
  <2> QED
    BY <1>8, <2>1, <2>2, <1>u2, <1>u3, <1>u4, <1>u5, <1>u7 DEF Stop
<1>9. ASSUME NEW c \in Call, StopRow(c)
      PROVE  T /\ I /\ H /\ R /\ P
  <2>1. RowsOK'
    BY <1>0, <1>9, StatusRowTyped, <1>u3 DEF StopRow, NotYet, Finished
  <2> QED
    BY <1>9, <2>1, <1>hh, <1>u1, <1>u2, <1>u4, <1>u5, <1>u7 DEF StopRow
<1>10. ASSUME AgentStop
       PROVE  T /\ I /\ H /\ R /\ P
  <2>1. TasksOK'
    BY <1>10, <1>st DEF AgentStop
  <2>2. R
    BY <1>10, <1>hh DEF AgentStop, Halt
  <2> QED
    BY <1>10, <2>1, <2>2, <1>u2, <1>u3, <1>u4, <1>u5, <1>u7 DEF AgentStop
<1>11. ASSUME NEW c \in Call, Observe(c)
       PROVE  T /\ I /\ H /\ R /\ P
  BY <1>11, <1>hh, <1>u1, <1>u2, <1>u3, <1>u4, <1>u5, <1>u7 DEF Observe
<1>12. ASSUME NEW c \in Call, Reconcile(c)
       PROVE  T /\ I /\ H /\ R /\ P
  <2>1. RowsOK'
    BY <1>0, <1>12, StatusRowTyped, <1>u3 DEF Reconcile, CompletedCause, Finished
  <2> QED
    BY <1>12, <2>1, <1>hh, <1>u1, <1>u2, <1>u4, <1>u5, <1>u7 DEF Reconcile
<1>13. ASSUME NEW t \in Task, Boot(t)
       PROVE  T /\ I /\ H /\ R /\ P
  <2>1. TasksOK'
    BY <1>0, <1>13, StatusTyped DEF Boot, Statuses, Up
  <2> QED
    BY <1>13, <2>1, <1>u2, <1>u3, <1>u4, <1>u5, <1>u6, <1>u7 DEF Boot
<1>14. ASSUME NEW t \in Task, Exit(t) \/ Crash(t)
       PROVE  T /\ I /\ H /\ R /\ P
  <2>1. t \in Ran /\ Gone(t) /\ (UNCHANGED faults \/ Fault)
    BY <1>14 DEF Exit, Crash, Live, Started
  <2>2. TasksOK'
    BY <1>0, <2>1, GoneTyped
  <2> QED
    BY <2>1, <2>2, <1>u2, <1>u3, <1>u4, <1>u5, <1>u6, <1>u7 DEF Gone
<1>lt. ASSUME NEW t \in Task, NEW l \in {"own", "idle", "found", "taken", "driving", "drove"}, At(t, l)
       PROVE  /\ t \in Ran /\ tasks[t] \in Tasks /\ tasks[t].sim \in Call \cup {None}
              /\ tasks[t].vehicle \in Vehicle
              /\ l # "idle" => tasks[t].sim \in Call
  <2>1. t \in Ran /\ tasks[t].loop = l
    BY <1>lt DEF At, Runs
  <2>2. tasks[t] \in Tasks
    BY <1>0, <2>1, RanTyped
  <2> QED
    BY <2>1, <2>2 DEF Tasks, LoopsNamed
<1>15. ASSUME NEW t \in Task, Poll(t)
       PROVE  T /\ I /\ H /\ R /\ P
  <2>1. t \in Ran /\ tasks[t].vehicle \in Vehicle
    BY <1>15, <1>lt DEF Poll
  <2>2. PICK c \in Call : Loop(t, "found", c)
    BY <1>15, <2>1 DEF Poll, TypeOK
  <2>3. TasksOK'
    BY <1>0, <2>1, <2>2, LoopTyped
  <2> QED
    BY <1>15, <2>3, <1>u2, <1>u3, <1>u4, <1>u5, <1>u6, <1>u7 DEF Poll
<1>16. ASSUME NEW t \in Task, Consume(t)
       PROVE  T /\ I /\ H /\ R /\ P
  <2>1. t \in Ran /\ tasks[t].vehicle \in Vehicle /\ tasks[t].sim \in Call
    BY <1>16, <1>lt DEF Consume
  <2>2. TasksOK'
    BY <1>0, <1>16, <2>1, LoopTyped DEF Consume, Rest
  <2>3. I
    BY <1>16, <1>u4 DEF Consume, Remove, TypeOK
  <2> QED
    BY <1>16, <2>2, <2>3, <1>u2, <1>u3, <1>u5, <1>u6, <1>u7 DEF Consume
<1>17. ASSUME NEW t \in Task, Drive(t)
       PROVE  T /\ I /\ H /\ R /\ P
  <2>1. t \in Ran /\ tasks[t].sim \in Call
    BY <1>17, <1>lt DEF Drive
  <2>2. TasksOK'
    BY <1>0, <1>17, <2>1, LoopTyped DEF Drive
  <2>3. RowsOK'
    BY <1>0, <1>17, <2>1, StatusRowTyped, <1>u3 DEF Drive, Pending
  <2>4. H /\ P
    <3>1. driven' \in [Call -> Nat]
      BY <1>17, <2>1, <1>up, <1>or DEF Drive
    <3> QED
      BY <1>17, <3>1, <1>or DEF Drive
  <2> QED
    BY <1>17, <2>2, <2>3, <2>4, <1>u2, <1>u4, <1>u6 DEF Drive
<1>18. ASSUME NEW t \in Task, Drove(t)
       PROVE  T /\ I /\ H /\ R /\ P
  <2>1. t \in Ran /\ tasks[t].sim \in Call
    BY <1>18, <1>lt DEF Drove
  <2>2. TasksOK'
    BY <1>0, <1>18, <2>1, LoopTyped DEF Drove, Rest
  <2> QED
    BY <1>18, <2>2, <1>u2, <1>u3, <1>u4, <1>u5, <1>u6, <1>u7 DEF Drove
<1>19. ASSUME NEW t \in Task, MarkCompleted(t)
       PROVE  T /\ I /\ H /\ R /\ P
  <2>1. t \in Ran /\ tasks[t].sim \in Call
    BY <1>19, <1>lt DEF MarkCompleted
  <2>2. TasksOK'
    BY <1>0, <1>19, <2>1, LoopTyped DEF MarkCompleted, Rest
  <2>3. RowsOK'
    BY <1>0, <1>19, <2>1, StatusRowTyped, <1>u3 DEF MarkCompleted, Finished
  <2> QED
    BY <1>19, <2>2, <2>3, <1>u2, <1>u4, <1>u5, <1>u6, <1>u7 DEF MarkCompleted
<1>21. ASSUME NEW t \in Task, LoseLoop(t) \/ OwnTripsEnd(t)
       PROVE  T /\ I /\ H /\ R /\ P
  <2>1. t \in Ran /\ (Loop(t, "idle", None) \/ Loop(t, "lost", None))
    BY <1>21 DEF LoseLoop, OwnTripsEnd, At, Runs, Rest
  <2>2. TasksOK'
    BY <1>0, <2>1, LoopTyped
  <2> QED
    BY <1>21, <2>2, <1>u2, <1>u3, <1>u4, <1>u5, <1>u6, <1>u7 DEF LoseLoop, OwnTripsEnd
<1>20. ASSUME UNCHANGED vars
       PROVE  T /\ I /\ H /\ R /\ P
  BY <1>20, <1>u1, <1>u2, <1>u3, <1>u4, <1>u5, <1>u6, <1>u7 DEF vars
<1> QED
  BY <1>1, <1>2, <1>3, <1>4, <1>5, <1>6, <1>7, <1>8, <1>9, <1>10, <1>11, <1>12, <1>13,
     <1>14, <1>15, <1>16, <1>17, <1>18, <1>19, <1>20, <1>21
  DEF Next, CallStep, LoopStep

-----------------------------------------------------------------------------
(* What a step does to tasks, calls and rows *)

\* The next values.
RanNext  == {t \in Task : tasks'[t] # NoTask}
Same(t)  == /\ tasks'[t].kind = tasks[t].kind /\ tasks'[t].vehicle = tasks[t].vehicle
            /\ tasks'[t].bus = tasks[t].bus
            /\ tasks[t].status = "gone" => tasks'[t].status = "gone"
StaysUp(t) == tasks'[t].status = "gone" => tasks[t].status = "gone"

\* No loop takes an intent or starts to drive, and no task is added.
Calm(t) ==
    /\ Same(t)
    /\ \/ tasks'[t].loop = tasks[t].loop /\ tasks'[t].sim = tasks[t].sim /\ StaysUp(t)
       \/ tasks'[t].loop = "idle"
       \/ tasks'[t].loop = "lost" /\ tasks'[t].status # "gone"
       \/ tasks'[t].loop = "found" /\ tasks'[t].sim \in Call /\ tasks'[t].status # "gone"
       \/ /\ tasks[t].loop = "driving" /\ tasks'[t].loop = "drove"
          /\ tasks'[t].sim = tasks[t].sim /\ StaysUp(t)

AllCalm == RanNext = Ran /\ \A t \in Ran : Calm(t)

\* The steps that are not calm.
Takes(t)  == Consume(t) /\ Holds(t) /\ Remove(t) /\ Loop(t, "taken", tasks[t].sim)
NewAgent(c, t) == RunAgent(c) /\ NewTask(t, "agent", calls[c].vehicle, calls[c].bus, None)
NewSimulator(c, t) ==
    /\ RunSimulator(c) /\ NewTask(t, "simulator", calls[c].vehicle, calls[c].bus, c)
    /\ ordered' = [ordered EXCEPT ![c] = @ + 1] /\ driven' = [driven EXCEPT ![c] = @ + 1]

LEMMA CalmCases ==
    ASSUME TasksOK
    PROVE  /\ UNCHANGED tasks => AllCalm
           /\ \A S : tasks' = Stopped(S) => AllCalm
           /\ \A t \in Ran : Gone(t) \/ Rest(t) => AllCalm
           /\ \A t \in Ran : Loop(t, "lost", None) /\ tasks[t].status # "gone" => AllCalm
           /\ \A t \in Ran : tasks' = [tasks EXCEPT ![t].status = "running"] /\ tasks[t].status # "gone"
                    => AllCalm
           /\ \A t \in Ran, c \in Call : Loop(t, "found", c) /\ tasks[t].status # "gone" => AllCalm
           /\ \A t \in Ran : Loop(t, "drove", tasks[t].sim) /\ tasks[t].loop = "driving" => AllCalm
<1> USE RanTyped, Records DEF Calm, Same, StaysUp
<1>0. \A t \in Ran : t \in Task /\ tasks[t] \in Tasks
  OBVIOUS
<1>e. ASSUME NEW u \in Ran, NEW x \in Tasks, tasks' = [tasks EXCEPT ![u] = x],
             x.kind = tasks[u].kind, x.vehicle = tasks[u].vehicle, x.bus = tasks[u].bus,
             tasks[u].status = "gone" => x.status = "gone",
             \/ x.loop = tasks[u].loop /\ x.sim = tasks[u].sim
                   /\ (x.status = "gone" => tasks[u].status = "gone")
             \/ x.loop = "idle"
             \/ x.loop = "lost" /\ x.status # "gone"
             \/ x.loop = "found" /\ x.sim \in Call /\ x.status # "gone"
             \/ /\ tasks[u].loop = "driving" /\ x.loop = "drove" /\ x.sim = tasks[u].sim
                /\ (x.status = "gone" => tasks[u].status = "gone")
      PROVE  AllCalm
  <2>1. tasks'[u] = x /\ \A t \in Task : t # u => tasks'[t] = tasks[t]
    BY <1>0, <1>e DEF TasksOK
  <2>2. RanNext = Ran
    BY <1>0, <2>1 DEF RanNext, Ran
  <2>3. Calm(u)
    BY <1>e, <2>1
  <2>4. \A t \in Ran : t # u => Calm(t)
    BY <1>0, <2>1
  <2> QED
    BY <2>2, <2>3, <2>4 DEF AllCalm
<1>1. UNCHANGED tasks => AllCalm
  BY <1>0 DEF AllCalm, RanNext, Ran
<1>2. ASSUME NEW S, tasks' = Stopped(S) PROVE AllCalm
  <2>1. \A t \in Task : tasks'[t] = IF t \in Started(S \cap Ran)
                                  THEN [tasks[t] EXCEPT !.status = "stopping"] ELSE tasks[t]
    BY <1>2 DEF Stopped
  <2>2. \A t \in Started(S \cap Ran) : t \in Ran /\ tasks[t].status \in Up
    BY DEF Started
  <2>3. \A t \in Started(S \cap Ran) :
           /\ [tasks[t] EXCEPT !.status = "stopping"] # NoTask
           /\ [tasks[t] EXCEPT !.status = "stopping"].kind = tasks[t].kind
           /\ [tasks[t] EXCEPT !.status = "stopping"].vehicle = tasks[t].vehicle
           /\ [tasks[t] EXCEPT !.status = "stopping"].bus = tasks[t].bus
           /\ [tasks[t] EXCEPT !.status = "stopping"].loop = tasks[t].loop
           /\ [tasks[t] EXCEPT !.status = "stopping"].sim = tasks[t].sim
           /\ [tasks[t] EXCEPT !.status = "stopping"].status = "stopping"
    <3> TAKE t \in Started(S \cap Ran)
    <3>1. tasks[t] \in Tasks /\ [tasks[t] EXCEPT !.status = "stopping"] \in Tasks
      BY <1>0, <2>2 DEF Tasks, Statuses
    <3> QED
      BY <3>1 DEF Tasks
  <2>4. RanNext = Ran
    <3>1. ASSUME NEW t \in Task
          PROVE  tasks'[t] # NoTask <=> tasks[t] # NoTask
      <4>1. CASE t \in Started(S \cap Ran)
        <5>1. tasks[t] # NoTask
          BY <2>2, <4>1 DEF Ran
        <5>2. tasks'[t] = [tasks[t] EXCEPT !.status = "stopping"]
          BY <2>1, <4>1
        <5> QED
          BY <2>3, <4>1, <5>1, <5>2
      <4>2. CASE t \notin Started(S \cap Ran)
        BY <2>1, <4>2
      <4> QED
        BY <4>1, <4>2
    <3> QED
      BY <3>1 DEF RanNext, Ran
  <2>5. \A t \in Ran : Calm(t)
    BY <1>0, <2>1, <2>2, <2>3 DEF Up
  <2> QED
    BY <2>4, <2>5 DEF AllCalm
<1>3. ASSUME NEW t \in Ran, Gone(t) \/ Rest(t) PROVE AllCalm
  <2>1. CASE Gone(t)
    <3> DEFINE x == [tasks[t] EXCEPT !.status = "gone", !.loop = "idle", !.sim = None]
    <3>1. tasks' = [tasks EXCEPT ![t] = x]
      BY <1>0, <2>1 DEF Gone, TasksOK
    <3>2. x \in Tasks /\ x.kind = tasks[t].kind /\ x.vehicle = tasks[t].vehicle
          /\ x.bus = tasks[t].bus /\ x.status = "gone" /\ x.loop = "idle"
      BY <1>0 DEF Tasks, Statuses
    <3> HIDE DEF x
    <3> QED
      BY <1>e, <3>1, <3>2
  <2>2. CASE Rest(t)
    <3> DEFINE x == [tasks[t] EXCEPT !.loop = "idle", !.sim = None]
    <3>1. tasks' = [tasks EXCEPT ![t] = x]
      BY <1>0, <2>2 DEF Rest, Loop, TasksOK
    <3>2. x \in Tasks /\ x.kind = tasks[t].kind /\ x.vehicle = tasks[t].vehicle
          /\ x.bus = tasks[t].bus /\ x.status = tasks[t].status /\ x.loop = "idle"
      BY <1>0 DEF Tasks
    <3> HIDE DEF x
    <3> QED
      BY <1>e, <3>1, <3>2
  <2> QED
    BY <1>3, <2>1, <2>2
<1>4. ASSUME NEW t \in Ran, tasks' = [tasks EXCEPT ![t].status = "running"], tasks[t].status # "gone"
      PROVE  AllCalm
  <2> DEFINE x == [tasks[t] EXCEPT !.status = "running"]
  <2>1. tasks' = [tasks EXCEPT ![t] = x]
    BY <1>0, <1>4 DEF TasksOK
  <2>2. x \in Tasks /\ x.kind = tasks[t].kind /\ x.vehicle = tasks[t].vehicle
        /\ x.bus = tasks[t].bus /\ x.status = "running" /\ x.loop = tasks[t].loop
        /\ x.sim = tasks[t].sim
    BY <1>0 DEF Tasks, Statuses, Up
  <2> HIDE DEF x
  <2> QED
    BY <1>4, <1>e, <2>1, <2>2
<1>5. ASSUME NEW t \in Ran, NEW c \in Call, Loop(t, "found", c), tasks[t].status # "gone"
      PROVE  AllCalm
  <2> DEFINE x == [tasks[t] EXCEPT !.loop = "found", !.sim = c]
  <2>1. tasks' = [tasks EXCEPT ![t] = x]
    BY <1>0, <1>5 DEF Loop, TasksOK
  <2>2. x \in Tasks /\ x.kind = tasks[t].kind /\ x.vehicle = tasks[t].vehicle
        /\ x.bus = tasks[t].bus /\ x.status = tasks[t].status /\ x.loop = "found" /\ x.sim = c
    BY <1>0 DEF Tasks
  <2> HIDE DEF x
  <2> QED
    BY <1>5, <1>e, <2>1, <2>2
<1>6. ASSUME NEW t \in Ran, Loop(t, "drove", tasks[t].sim), tasks[t].loop = "driving" PROVE AllCalm
  <2> DEFINE x == [tasks[t] EXCEPT !.loop = "drove", !.sim = tasks[t].sim]
  <2>1. tasks' = [tasks EXCEPT ![t] = x]
    BY <1>0, <1>6 DEF Loop, TasksOK
  <2>2. x \in Tasks /\ x.kind = tasks[t].kind /\ x.vehicle = tasks[t].vehicle
        /\ x.bus = tasks[t].bus /\ x.status = tasks[t].status /\ x.loop = "drove"
        /\ x.sim = tasks[t].sim
    BY <1>0 DEF Tasks
  <2> HIDE DEF x
  <2> QED
    BY <1>6, <1>e, <2>1, <2>2
<1>7. ASSUME NEW t \in Ran, Loop(t, "lost", None), tasks[t].status # "gone"
      PROVE  AllCalm
  <2> DEFINE x == [tasks[t] EXCEPT !.loop = "lost", !.sim = None]
  <2>1. tasks' = [tasks EXCEPT ![t] = x]
    BY <1>0, <1>7 DEF Loop, TasksOK
  <2>2. x \in Tasks /\ x.kind = tasks[t].kind /\ x.vehicle = tasks[t].vehicle
        /\ x.bus = tasks[t].bus /\ x.status = tasks[t].status /\ x.loop = "lost"
    BY <1>0 DEF Tasks
  <2> HIDE DEF x
  <2> QED
    BY <1>7, <1>e, <2>1, <2>2
<1> QED
  BY <1>1, <1>2, <1>3, <1>4, <1>5, <1>6, <1>7

LEMMA TaskStep ==
    ASSUME Inv, Next \/ UNCHANGED vars
    PROVE  \/ AllCalm
           \/ \E t \in Task : Takes(t) \/ Drive(t)
           \/ \E c \in Call, t \in Task : NewAgent(c, t) \/ NewSimulator(c, t)
<1> USE DEF Inv
<1>0. TasksOK
  BY DEF TypeOK, TasksOK
<1>l. \A t \in Task : \A l : At(t, l) => t \in Ran /\ tasks[t].loop = l
  BY DEF At, Runs
<1>1. CASE \E c \in Call : RunAgent(c)
  BY <1>0, <1>1, CalmCases DEF RunAgent, NewAgent
<1>2. CASE \E c \in Call : RunSimulator(c)
  BY <1>0, <1>2, CalmCases DEF RunSimulator, NewSimulator
<1>3. CASE \E c \in Call : \/ \E v \in Vehicle : Begin(c, v) \/ BeginAgent(c, v)
                          \/ Pick(c) \/ WriteIntent(c) \/ PutRow(c)
                          \/ StopRow(c) \/ Observe(c) \/ Reconcile(c)
  BY <1>0, <1>3, CalmCases DEF Begin, BeginAgent, Pick, WriteIntent, PutRow, StopRow, Observe, Reconcile
<1>4. CASE AgentStop \/ \E c \in Call : Stop(c)
  BY <1>0, <1>4, CalmCases DEF AgentStop, Stop
<1>5. CASE \E t \in Task : Boot(t) \/ Exit(t) \/ Crash(t)
  BY <1>0, <1>5, CalmCases DEF Boot, Exit, Crash, Live, Started
<1>6. ASSUME NEW t \in Task, Poll(t) PROVE AllCalm
  <2>1. t \in Ran /\ tasks[t].vehicle \in Vehicle /\ tasks[t].status # "gone"
    BY <1>0, <1>6, <1>l, RanTyped DEF Poll, Tasks, At, Runs
  <2>2. \E c \in Call : Loop(t, "found", c)
    BY <1>6, <2>1 DEF Poll, TypeOK
  <2> QED
    BY <1>0, <2>1, <2>2, CalmCases
<1>7. ASSUME NEW t \in Task, Consume(t) PROVE AllCalm \/ Takes(t)
  BY <1>0, <1>7, <1>l, CalmCases DEF Consume, Takes
<1>8. ASSUME NEW t \in Task, Drove(t) \/ MarkCompleted(t) \/ OwnTripsEnd(t) PROVE AllCalm
  BY <1>0, <1>8, <1>l, CalmCases DEF Drove, MarkCompleted, OwnTripsEnd
<1>9. ASSUME NEW t \in Task, LoseLoop(t) PROVE AllCalm
  <2>1. t \in Ran /\ tasks[t].status # "gone"
    BY <1>9 DEF LoseLoop, Runs
  <2> QED
    BY <1>0, <1>9, <2>1, CalmCases DEF LoseLoop
<1>10. CASE UNCHANGED vars
  BY <1>0, <1>10, CalmCases DEF vars
<1> QED
  BY <1>1, <1>2, <1>3, <1>4, <1>5, <1>6, <1>7, <1>8, <1>9, <1>10 DEF Next, CallStep, LoopStep

\* What becomes of a call.  A call that exists keeps its vehicle; one that
\* begins knows at most an agent's task; a task is set with the put.
CallKept(d) ==
    /\ calls[d] # NoCall /\ calls'[d] # NoCall
    /\ calls'[d].vehicle = calls[d].vehicle /\ calls'[d].task = calls[d].task
    /\ calls[d].step \in {"put", "ended"} => calls'[d].step \in {"put", "ended"}
    /\ calls'[d].step = "put" => calls[d].step \in {"put", "intent"}
    /\ calls'[d].step # "intent"
CallBegun(d) ==
    /\ calls[d] = NoCall /\ calls'[d] # NoCall
    /\ \/ calls'[d].step = "pick" /\ calls'[d].task = None
       \/ calls'[d].step = "intent" /\ calls'[d].task \in Ran
CallRun(d) ==
    /\ calls[d].step = "simulator" /\ calls'[d] # NoCall /\ calls'[d].step = "put"
    /\ calls'[d].vehicle = calls[d].vehicle
    /\ calls'[d].task \in RanNext

CallMove(d) ==
    /\ calls'[d] = calls[d] \/ CallKept(d) \/ CallBegun(d) \/ CallRun(d)
    /\ calls'[d].step = "agent" => calls'[d] = calls[d] \/ Pick(d)

LEMMA CallsKept ==
    ASSUME CallsOK, UNCHANGED calls, NEW d \in Call
    PROVE  CallMove(d)
  BY DEF CallMove

LEMMA GotoMove ==
    ASSUME CallsOK, NEW c \in Call, NEW x \in Calls, calls[c] # NoCall,
           calls' = [calls EXCEPT ![c] = x],
           x.vehicle = calls[c].vehicle, x.task = calls[c].task,
           calls[c].step \in {"put", "ended"} => x.step \in {"put", "ended"},
           x.step = "put" => calls[c].step \in {"put", "intent"},
           x.step # "intent",
           x.step = "agent" => Pick(c),
           NEW d \in Call
    PROVE  CallMove(d)
<1>1. x # NoCall
  BY Records
<1>2. CASE d = c
  <2>1. calls'[d] = x
    BY <1>2 DEF CallsOK
  <2> QED
    BY <1>1, <1>2, <2>1 DEF CallMove, CallKept
<1>3. CASE d # c
  BY <1>3 DEF CallMove, CallsOK
<1> QED
  BY <1>2, <1>3

LEMMA EnterMove ==
    ASSUME CallsOK, NEW c \in Call, NEW v \in Vehicle, NEW k \in {"start", "agent"}, Step(c, "none"),
           NEW s \in {"pick", "intent"}, NEW t \in Ran \cup {None}, Enter(c, k, v, s, t),
           IF s = "pick" THEN t = None ELSE t \in Ran,
           NEW d \in Call
    PROVE  CallMove(d)
<1>1. calls[c] = NoCall
  BY DEF Step, CallsOK, Calls
<1>2. CASE d = c
  <2> DEFINE x == [kind |-> k, vehicle |-> v, step |-> s, agent |-> t, task |-> t, bus |-> 0]
  <2>1. calls'[d] = x
    BY <1>2 DEF CallsOK, Enter
  <2>2. x # NoCall
    <3>1. x.step # NoCall.step
      BY DEF NoCall
    <3> QED
      BY <3>1
  <2>3. x.step = s /\ x.task = t
    OBVIOUS
  <2> HIDE DEF x
  <2> QED
    BY <1>1, <1>2, <2>1, <2>2, <2>3 DEF CallMove, CallBegun
<1>3. CASE d # c
  BY <1>3 DEF CallMove, CallsOK, Enter
<1> QED
  BY <1>2, <1>3

LEMMA CallStepMove == ASSUME Inv, Next \/ UNCHANGED vars, NEW d \in Call PROVE CallMove(d)
<1> USE DEF Inv
<1>0. CallsOK /\ TasksOK
  BY DEF TypeOK, CallsOK, TasksOK
<1>a. ASSUME NEW c \in Call, NEW s, Step(c, s), s # "none"
      PROVE  calls[c] # NoCall /\ calls[c] \in Calls /\ calls[c].step = s
  BY <1>0, <1>a, CallTyped DEF Step, NoCall
<1>g. ASSUME NEW c \in Call, NEW s \in {"simulator", "put", "ended"}, Goto(c, s),
             calls[c] # NoCall, calls[c].step \in {"put", "ended"} => s \in {"put", "ended"},
             s = "put" => calls[c].step \in {"put", "intent"}
      PROVE  CallMove(d)
  <2> DEFINE x == [calls[c] EXCEPT !.step = s]
  <2>1. calls' = [calls EXCEPT ![c] = x]
    BY <1>0, <1>g DEF Goto, CallsOK
  <2>2. x \in Calls /\ x.vehicle = calls[c].vehicle /\ x.task = calls[c].task /\ x.step = s
    BY <1>0, <1>g, CallTyped DEF Calls
  <2> HIDE DEF x
  <2> QED
    BY <1>0, <1>g, <2>1, <2>2, GotoMove
<1>1. ASSUME NEW c \in Call, NEW v \in Vehicle, Begin(c, v) PROVE CallMove(d)
  <2>1. Step(c, "none")
    BY <1>1 DEF Begin, Called
  <2>2. \A L \in Listings : \A t : t \in AgentsOf(v, L) => t \in Ran
    BY ListingsRan DEF AgentsOf
  <2> QED
    BY <1>0, <1>1, <2>1, <2>2, EnterMove DEF Begin
<1>2. ASSUME NEW c \in Call, NEW v \in Vehicle, BeginAgent(c, v) PROVE CallMove(d)
  <2>1. Step(c, "none")
    BY <1>2 DEF BeginAgent, Called
  <2> QED
    BY <1>0, <1>2, <2>1, EnterMove DEF BeginAgent
<1>3. ASSUME NEW c \in Call, Pick(c) PROVE CallMove(d)
  <2>1. PICK L \in Listings \cup {{}} :
             calls' = [calls EXCEPT ![c].step = "agent", ![c].bus = NextBus(BusesOf(L))]
    BY <1>3 DEF Pick
  <2> DEFINE x == [calls[c] EXCEPT !.step = "agent", !.bus = NextBus(BusesOf(L))]
  <2>2. NextBus(BusesOf(L)) \in Bus
    BY ListingsRan, FreeBus
  <2>3. calls[c] # NoCall /\ calls[c] \in Calls /\ calls[c].step = "pick"
    BY <1>3, <1>a DEF Pick
  <2>4. calls' = [calls EXCEPT ![c] = x]
    BY <1>0, <2>1 DEF CallsOK
  <2>5. x \in Calls /\ x.vehicle = calls[c].vehicle /\ x.task = calls[c].task /\ x.step = "agent"
    BY <2>2, <2>3 DEF Calls
  <2> HIDE DEF x
  <2> QED
    BY <1>0, <1>3, <2>3, <2>4, <2>5, GotoMove
<1>4. ASSUME NEW c \in Call, RunAgent(c) PROVE CallMove(d)
  <2> DEFINE next == IF calls[c].kind = "start" THEN "simulator" ELSE "ended"
  <2>1. calls[c] # NoCall /\ calls[c] \in Calls /\ calls[c].step = "agent"
    BY <1>4, <1>a DEF RunAgent
  <2>2. CASE Goto(c, next)
    BY <1>g, <2>1, <2>2
  <2>3. ASSUME NEW t \in Task, calls' = [calls EXCEPT ![c].step = next, ![c].agent = t]
        PROVE  CallMove(d)
    <3> DEFINE x == [calls[c] EXCEPT !.step = next, !.agent = t]
    <3>1. calls' = [calls EXCEPT ![c] = x]
      BY <1>0, <2>3 DEF CallsOK
    <3>2. x \in Calls /\ x.vehicle = calls[c].vehicle /\ x.task = calls[c].task /\ x.step = next
      BY <2>1 DEF Calls
    <3>3. next \in {"simulator", "ended"}
      OBVIOUS
    <3> HIDE DEF x, next
    <3> QED
      BY <1>0, <2>1, <3>1, <3>2, <3>3, GotoMove
  <2> QED
    BY <1>4, <2>2, <2>3 DEF RunAgent
<1>5. ASSUME NEW c \in Call, RunSimulator(c) PROVE CallMove(d)
  <2>1. calls[c] # NoCall /\ calls[c] \in Calls /\ calls[c].step = "simulator"
    BY <1>5, <1>a DEF RunSimulator
  <2>2. CASE Ends(c)
    BY <1>g, <2>1, <2>2 DEF Ends
  <2>3. ASSUME NEW t \in Task, NewTask(t, "simulator", calls[c].vehicle, calls[c].bus, c),
               calls' = [calls EXCEPT ![c].step = "put", ![c].task = t]
        PROVE  CallMove(d)
    <3> DEFINE x == [calls[c] EXCEPT !.step = "put", !.task = t]
    <3>1. calls' = [calls EXCEPT ![c] = x]
      BY <1>0, <2>3 DEF CallsOK
    <3>2. x \in Calls /\ x.vehicle = calls[c].vehicle /\ x.task = t /\ x.step = "put"
      BY <2>1 DEF Calls
    <3>3. t \in RanNext
      <4>1. tasks'[t].kind = "simulator"
        BY <1>0, <2>3 DEF NewTask, TasksOK
      <4> QED
        BY <4>1 DEF RanNext, NoTask
    <3> HIDE DEF x
    <3>4. CASE d = c
      <4>1. calls'[d] = x /\ x # NoCall
        BY <1>0, <3>1, <3>2, <3>4, Records DEF CallsOK
      <4> QED
        BY <2>1, <3>2, <3>3, <3>4, <4>1 DEF CallMove, CallRun
    <3>5. CASE d # c
      BY <1>0, <3>1, <3>5 DEF CallMove, CallsOK
    <3> QED
      BY <3>4, <3>5
  <2> QED
    BY <1>5, <2>2, <2>3 DEF RunSimulator
<1>6. ASSUME NEW c \in Call, WriteIntent(c) PROVE CallMove(d)
  <2>1. calls[c] # NoCall /\ calls[c] \in Calls /\ calls[c].step = "intent"
    BY <1>6, <1>a DEF WriteIntent
  <2> QED
    BY <1>0, <1>6, <1>g, <2>1, CallsKept DEF WriteIntent, Ends
<1>7. ASSUME NEW c \in Call, PutRow(c) PROVE CallMove(d)
  <2>1. calls[c] # NoCall /\ calls[c] \in Calls /\ calls[c].step = "put"
    BY <1>7, <1>a DEF PutRow
  <2> QED
    BY <1>0, <1>7, <1>g, <2>1, CallsKept DEF PutRow, Ends
<1>8. CASE \/ \E c \in Call : Stop(c) \/ StopRow(c) \/ Observe(c) \/ Reconcile(c)
           \/ AgentStop
           \/ \E t \in Task : Boot(t) \/ Exit(t) \/ Crash(t) \/ LoseLoop(t) \/ LoopStep(t)
           \/ UNCHANGED vars
  <2>1. UNCHANGED calls
    BY <1>8 DEF Stop, StopRow, Observe, Reconcile, AgentStop, Boot, Exit, Crash, Gone, LoseLoop,
       LoopStep, OwnTripsEnd, Poll, Consume, Drive, Drove, MarkCompleted, vars
  <2> QED
    BY <1>0, <2>1, CallsKept
<1> QED
  BY <1>1, <1>2, <1>3, <1>4, <1>5, <1>6, <1>7, <1>8 DEF Next, CallStep

\* What becomes of a row: it stays, it gets another status for a reason, or its
\* call puts it.
RowKept(d) == Exists(d) /\ rows'[d] # NoRow /\ rows'[d].task = rows[d].task
RowPut(d)  == /\ PutRow(d) /\ rows'[d] # NoRow /\ rows'[d].task = calls[d].task
              /\ rows'[d].status # "completed"
Completes(d) ==
    \/ Reconcile(d) /\ UNCHANGED tasks
    \/ \E t \in Task : MarkCompleted(t) /\ tasks[t].sim = d /\ rows[d].status = "running"

RowMove(d) ==
    \/ rows'[d] = rows[d]
    \/ RowPut(d)
    \/ RowKept(d) /\ rows'[d].status = "stopped"
    \/ RowKept(d) /\ rows'[d].status = "running" /\ rows[d].status = "intent_pending"
    \/ RowKept(d) /\ rows'[d].status = "completed" /\ Completes(d)

LEMMA RowsSame == ASSUME UNCHANGED rows, NEW d \in Call PROVE RowMove(d)
  BY DEF RowMove

LEMMA StatusMove ==
    ASSUME RowsOK, NEW c \in Call, Exists(c), NEW s \in Finished \cup {"running"}, SetStatus(c, s)
    PROVE  /\ RowKept(c) /\ rows'[c].status = s
           /\ \A d \in Call : d # c => rows'[d] = rows[d]
<1>1. rows[c] \in Rows
  BY DEF Exists, RowsOK
<1> DEFINE x == [rows[c] EXCEPT !.status = s]
<1>2. x \in Rows /\ x.task = rows[c].task /\ x.status = s
  BY <1>1 DEF Rows
<1>3. rows' = [rows EXCEPT ![c] = x]
  BY DEF SetStatus, RowsOK
<1> HIDE DEF x
<1>4. rows'[c] = x /\ x # NoRow
  BY <1>2, <1>3, Records DEF RowsOK
<1> QED
  BY <1>2, <1>3, <1>4 DEF RowKept, RowsOK

LEMMA RowStepMove == ASSUME Inv, Next \/ UNCHANGED vars, NEW d \in Call PROVE RowMove(d)
<1> USE DEF Inv
<1>0. RowsOK /\ TasksOK /\ CallsOK
  BY DEF TypeOK, RowsOK, TasksOK, CallsOK
<1>1. ASSUME NEW c \in Call, PutRow(c) PROVE RowMove(d)
  <2>1. CASE UNCHANGED rows
    BY <2>1, RowsSame
  <2>2. CASE rows' = [rows EXCEPT ![c] = [status |-> IF Handed(c) THEN "intent_pending" ELSE "running",
                                          task |-> calls[c].task, agent |-> calls[c].agent]]
    <3> DEFINE x == [status |-> IF Handed(c) THEN "intent_pending" ELSE "running",
                     task |-> calls[c].task, agent |-> calls[c].agent]
    <3>1. x.task = calls[c].task /\ x.status \in {"intent_pending", "running"}
      OBVIOUS
    <3>2. x # NoRow
      BY <3>1 DEF NoRow
    <3>3. rows' = [rows EXCEPT ![c] = x]
      BY <2>2
    <3> HIDE DEF x
    <3> QED
      BY <1>0, <1>1, <3>1, <3>2, <3>3 DEF RowMove, RowPut, RowsOK
  <2> QED
    BY <1>1, <2>1, <2>2 DEF PutRow
<1>2. ASSUME NEW c \in Call, StopRow(c) PROVE RowMove(d)
  <2>1. Exists(c)
    BY <1>2 DEF StopRow, NotYet
  <2> QED
    BY <1>0, <1>2, <2>1, StatusMove, RowsSame DEF StopRow, Finished, RowMove
<1>3. ASSUME NEW c \in Call, Reconcile(c) PROVE RowMove(d)
  <2>1. Exists(c) /\ UNCHANGED tasks
    BY <1>3 DEF Reconcile, CompletedCause
  <2> QED
    BY <1>0, <1>3, <2>1, StatusMove, RowsSame DEF Reconcile, Finished, RowMove, Completes
<1>4. ASSUME NEW t \in Task, Drive(t) PROVE RowMove(d)
  <2>1. tasks[t].sim \in Call
    BY <1>4 DEF Drive, At, Runs, LoopsNamed
  <2> QED
    BY <1>0, <1>4, <2>1, StatusMove, RowsSame DEF Drive, Pending, RowMove
<1>5. ASSUME NEW t \in Task, MarkCompleted(t) PROVE RowMove(d)
  <2>1. tasks[t].sim \in Call
    BY <1>5 DEF MarkCompleted, At, Runs, LoopsNamed
  <2>2. CASE UNCHANGED rows
    BY <2>2, RowsSame
  <2>3. CASE Exists(tasks[t].sim) /\ rows[tasks[t].sim].status = "running"
             /\ SetStatus(tasks[t].sim, "completed")
    BY <1>0, <1>5, <2>1, <2>3, StatusMove DEF RowMove, Completes, Finished
  <2> QED
    BY <1>5, <2>2, <2>3 DEF MarkCompleted
<1>6. CASE \/ \E c \in Call : \/ \E v \in Vehicle : Begin(c, v) \/ BeginAgent(c, v)
                             \/ Pick(c) \/ RunAgent(c) \/ RunSimulator(c) \/ WriteIntent(c)
                             \/ Stop(c) \/ Observe(c)
           \/ AgentStop
           \/ \E t \in Task : \/ Boot(t) \/ Exit(t) \/ Crash(t) \/ LoseLoop(t)
                             \/ OwnTripsEnd(t) \/ Poll(t) \/ Consume(t) \/ Drove(t)
           \/ UNCHANGED vars
  <2>1. UNCHANGED rows
    BY <1>6 DEF Begin, BeginAgent, Pick, RunAgent, RunSimulator, WriteIntent, Stop, Observe, AgentStop,
       Boot, Exit, Crash, Gone, LoseLoop, OwnTripsEnd, Poll, Consume, Drove, vars
  <2> QED
    BY <2>1, RowsSame
<1> QED
  BY <1>1, <1>2, <1>3, <1>4, <1>5, <1>6 DEF Next, CallStep, LoopStep

LEMMA LoopMove ==
    ASSUME TasksOK, NEW t \in Ran,
           NEW l \in {"own", "idle", "found", "taken", "driving", "drove", "lost"},
           NEW c \in Call \cup {None}, Loop(t, l, c)
    PROVE  /\ RanNext = Ran /\ Same(t)
           /\ tasks'[t].loop = l /\ tasks'[t].sim = c /\ tasks'[t].status = tasks[t].status
           /\ \A u \in Task : u # t => tasks'[u] = tasks[u]
<1> DEFINE x == [tasks[t] EXCEPT !.loop = l, !.sim = c]
<1>0. t \in Task /\ tasks[t] \in Tasks
  BY RanTyped
<1>1. tasks' = [tasks EXCEPT ![t] = x]
  BY <1>0 DEF Loop, TasksOK
<1>2. x \in Tasks /\ x.kind = tasks[t].kind /\ x.vehicle = tasks[t].vehicle
      /\ x.bus = tasks[t].bus /\ x.status = tasks[t].status /\ x.loop = l /\ x.sim = c
  BY <1>0 DEF Tasks
<1> HIDE DEF x
<1>3. tasks'[t] = x /\ \A u \in Task : u # t => tasks'[u] = tasks[u]
  BY <1>0, <1>1 DEF TasksOK
<1>4. RanNext = Ran
  BY <1>0, <1>2, <1>3, Records DEF RanNext, Ran
<1> QED
  BY <1>2, <1>3, <1>4 DEF Same

LEMMA NewTaskMove ==
    ASSUME TasksOK, NEW t \in Task, NEW k \in {"agent", "simulator"}, NEW v, NEW b, NEW c,
           NewTask(t, k, v, b, c)
    PROVE  /\ t \notin Ran /\ RanNext = Ran \cup {t}
           /\ \A u \in Ran : tasks'[u] = tasks[u]
           /\ tasks'[t].kind = k /\ tasks'[t].vehicle = v /\ tasks'[t].bus = b /\ tasks'[t].sim = c
           /\ tasks'[t].status = "starting"
           /\ tasks'[t].loop = IF c = None THEN "idle" ELSE "own"
<1> DEFINE x == [kind |-> k, vehicle |-> v, bus |-> b, status |-> "starting",
                 loop |-> IF c = None THEN "idle" ELSE "own", sim |-> c]
<1>1. x.kind = k /\ x.vehicle = v /\ x.bus = b /\ x.sim = c /\ x.status = "starting"
      /\ x.loop = IF c = None THEN "idle" ELSE "own"
  OBVIOUS
<1>2. x # NoTask
  BY <1>1 DEF NoTask
<1>3. t \notin Ran /\ tasks' = [tasks EXCEPT ![t] = x]
  BY DEF NewTask
<1> HIDE DEF x
<1>4. tasks'[t] = x /\ \A u \in Task : u # t => tasks'[u] = tasks[u]
  BY <1>3 DEF TasksOK
<1>5. RanNext = Ran \cup {t}
  BY <1>2, <1>4 DEF RanNext, Ran
<1> QED
  BY <1>1, <1>3, <1>4, <1>5 DEF Ran

\* The five kinds of step, with what each does to the tasks.
TakesMove(t) ==
    /\ Takes(t) /\ t \in Ran /\ RanNext = Ran /\ Same(t)
    /\ tasks[t].loop = "found" /\ tasks[t].status # "gone" /\ tasks[t].sim \in Call
    /\ tasks'[t].loop = "taken" /\ tasks'[t].sim = tasks[t].sim /\ tasks'[t].status # "gone"
    /\ \A u \in Task : u # t => tasks'[u] = tasks[u]
DriveMove(t) ==
    /\ Drive(t) /\ t \in Ran /\ RanNext = Ran /\ Same(t)
    /\ tasks[t].loop = "taken" /\ tasks[t].status # "gone" /\ tasks[t].sim \in Call
    /\ tasks'[t].loop = "driving" /\ tasks'[t].sim = tasks[t].sim /\ tasks'[t].status # "gone"
    /\ \A u \in Task : u # t => tasks'[u] = tasks[u]
AgentMove(c, t) ==
    /\ NewAgent(c, t) /\ t \notin Ran /\ RanNext = Ran \cup {t}
    /\ \A u \in Ran : tasks'[u] = tasks[u]
    /\ tasks'[t].loop = "idle" /\ tasks'[t].status = "starting"
    /\ tasks'[t].kind = "agent" /\ tasks'[t].bus = calls[c].bus
SimulatorMove(c, t) ==
    /\ NewSimulator(c, t) /\ t \notin Ran /\ RanNext = Ran \cup {t}
    /\ \A u \in Ran : tasks'[u] = tasks[u]
    /\ tasks'[t].loop = "own" /\ tasks'[t].status = "starting"
    /\ tasks'[t].kind = "simulator" /\ tasks'[t].sim = c /\ tasks'[t].vehicle = calls[c].vehicle

LEMMA TaskMove ==
    ASSUME Inv, Next \/ UNCHANGED vars
    PROVE  \/ AllCalm
           \/ \E t \in Task : TakesMove(t) \/ DriveMove(t)
           \/ \E c \in Call, t \in Task : AgentMove(c, t) \/ SimulatorMove(c, t)
<1> USE DEF Inv
<1>0. TasksOK
  BY DEF TypeOK, TasksOK
<1>1. ASSUME NEW t \in Task, Takes(t) PROVE TakesMove(t)
  <2>1. At(t, "found") /\ Loop(t, "taken", tasks[t].sim)
    BY <1>1 DEF Takes, Consume
  <2>2. t \in Ran /\ tasks[t].loop = "found" /\ tasks[t].status # "gone"
    BY <2>1 DEF At, Runs
  <2>3. tasks[t].sim \in Call
    BY <2>2 DEF LoopsNamed
  <2> QED
    BY <1>0, <1>1, <2>1, <2>2, <2>3, LoopMove DEF TakesMove
<1>2. ASSUME NEW t \in Task, Drive(t) PROVE DriveMove(t)
  <2>1. At(t, "taken") /\ Loop(t, "driving", tasks[t].sim)
    BY <1>2 DEF Drive
  <2>2. t \in Ran /\ tasks[t].loop = "taken" /\ tasks[t].status # "gone"
    BY <2>1 DEF At, Runs
  <2>3. tasks[t].sim \in Call
    BY <2>2 DEF LoopsNamed
  <2> QED
    BY <1>0, <1>2, <2>1, <2>2, <2>3, LoopMove DEF DriveMove
<1>3. ASSUME NEW c \in Call, NEW t \in Task, NewAgent(c, t) PROVE AgentMove(c, t)
  BY <1>0, <1>3, NewTaskMove DEF NewAgent, AgentMove
<1>4. ASSUME NEW c \in Call, NEW t \in Task, NewSimulator(c, t) PROVE SimulatorMove(c, t)
  <2>1. c # None
    BY ConstantTypes
  <2> QED
    BY <1>0, <1>4, <2>1, NewTaskMove DEF NewSimulator, SimulatorMove
<1> QED
  BY <1>1, <1>2, <1>3, <1>4, TaskStep

LEMMA TasksKept ==
    ASSUME Inv, Next \/ UNCHANGED vars
    PROVE  Ran' = RanNext /\ Ran \subseteq RanNext /\ \A t \in Ran : Same(t)
<1>1. Ran' = RanNext
  BY DEF Ran, RanNext
<1>2. \A t \in Ran : t \in Task
  BY DEF Ran
<1>3. CASE AllCalm
  BY <1>1, <1>3 DEF AllCalm, Calm
<1>4. CASE \E t \in Task : TakesMove(t) \/ DriveMove(t)
  BY <1>1, <1>2, <1>4 DEF TakesMove, DriveMove, Same
<1>5. CASE \E c \in Call, t \in Task : AgentMove(c, t) \/ SimulatorMove(c, t)
  BY <1>1, <1>5 DEF AgentMove, SimulatorMove, Same
<1> QED
  BY <1>3, <1>4, <1>5, TaskMove

-----------------------------------------------------------------------------
(* The invariant, part by part *)

LEMMA NotYetStep == ASSUME Inv, Next \/ UNCHANGED vars PROVE NotYet'
<1> SUFFICES ASSUME NEW c \in Call
             PROVE  /\ c \in stops' => Exists(c)'
                    /\ calls'[c].step \notin {"put", "ended"} => ~Exists(c)'
                    /\ Exists(c)' => calls'[c] # NoCall /\ rows'[c].task = calls'[c].task
  BY DEF NotYet
<1> USE DEF Exists
<1>1. RowMove(c) /\ CallMove(c)
  BY RowStepMove, CallStepMove
<1>2. /\ c \in stops => Exists(c)
      /\ calls[c].step \notin {"put", "ended"} => ~Exists(c)
      /\ Exists(c) => calls[c] # NoCall /\ rows[c].task = calls[c].task
  BY DEF Inv, NotYet
<1>3. NoCall.step = "none"
  BY DEF NoCall
<1>4. Exists(c) => Exists(c)'
  BY <1>1 DEF RowMove, RowPut, RowKept
<1>5. stops' \subseteq stops \/ Stop(c) \/ \E d \in Call : d # c /\ Stop(d)
  BY DEF Next, CallStep, LoopStep, Begin, BeginAgent, Pick, RunAgent, RunSimulator, WriteIntent, PutRow,
     StopRow, Observe, Reconcile, AgentStop, Boot, Exit, Crash, Gone, LoseLoop, OwnTripsEnd, Poll,
     Consume, Drive, Drove, MarkCompleted, readers, vars
<1>6. c \in stops' => Exists(c)'
  BY <1>2, <1>4, <1>5 DEF Stop
<1>7. CASE PutRow(c)
  <2>1. calls[c].step = "put" /\ calls[c] # NoCall
    BY <1>7, InProgress DEF PutRow, Step
  <2>2. calls'[c].step \in {"put", "ended"} /\ calls'[c] # NoCall /\ calls'[c].task = calls[c].task
    BY <1>1, <2>1 DEF CallMove, CallKept, CallBegun, CallRun
  <2>3. Exists(c)' => rows'[c].task = calls[c].task
    BY <1>1, <1>2 DEF RowMove, RowPut, RowKept
  <2> QED
    BY <1>6, <2>2, <2>3
<1>8. CASE ~PutRow(c)
  <2>1. Exists(c)' => Exists(c) /\ rows'[c].task = rows[c].task
    BY <1>1, <1>8 DEF RowMove, RowPut, RowKept
  <2>2. Exists(c) => /\ calls'[c] # NoCall /\ calls'[c].task = calls[c].task
                     /\ calls'[c].step \in {"put", "ended"}
    BY <1>1, <1>2, <1>3 DEF CallMove, CallKept, CallBegun, CallRun
  <2> QED
    BY <1>2, <1>6, <2>1, <2>2
<1> QED
  BY <1>7, <1>8

LEMMA HoldingStep == ASSUME Inv, Next \/ UNCHANGED vars PROVE Holding'
<1> SUFFICES ASSUME NEW c \in Call
             PROVE  /\ calls'[c] # NoCall /\ calls'[c].task # None => calls'[c].task \in RanNext
                    /\ calls'[c].step \in {"intent", "put"} => calls'[c].task # None
  BY TasksKept DEF Holding, NoCall, None
<1>1. CallMove(c) /\ Ran \subseteq RanNext
  BY CallStepMove, TasksKept
<1>2. /\ calls[c] # NoCall /\ calls[c].task # None => calls[c].task \in Ran
      /\ calls[c].step \in {"intent", "put"} => calls[c].task # None
  BY DEF Inv, Holding
<1>3. RanNext \subseteq Task
  BY DEF RanNext
<1> QED
  BY <1>1, <1>2, <1>3, ConstantTypes DEF CallMove, CallKept, CallBegun, CallRun

LEMMA VehiclesKept ==
    ASSUME Inv, Next \/ UNCHANGED vars, NEW c \in Call, calls[c] # NoCall
    PROVE  calls'[c] # NoCall /\ calls'[c].vehicle = calls[c].vehicle
  BY CallStepMove DEF CallMove, CallKept, CallBegun, CallRun

\* What becomes of the intents.
IntentMove ==
    \/ UNCHANGED intents
    \/ \E t \in Ran : tasks[t].vehicle \in Vehicle /\ Remove(t)
    \/ \E c \in Call : WriteIntent(c) /\ calls[c] # NoCall /\ calls[c].vehicle \in Vehicle
                       /\ intents' = [intents EXCEPT ![calls[c].vehicle] = c]

LEMMA IntentStepMove == ASSUME Inv, Next \/ UNCHANGED vars PROVE IntentMove
<1> USE DEF Inv
<1>0. CallsOK /\ TasksOK
  BY DEF TypeOK, CallsOK, TasksOK
<1>1. ASSUME NEW c \in Call, WriteIntent(c) PROVE IntentMove
  <2>1. calls[c] # NoCall /\ calls[c].vehicle \in Vehicle
    BY <1>0, <1>1, InProgress, CallTyped DEF WriteIntent, Calls
  <2> QED
    BY <1>1, <2>1 DEF WriteIntent, IntentMove
<1>2. ASSUME NEW t \in Task, Consume(t) PROVE IntentMove
  <2>1. t \in Ran /\ tasks[t].vehicle \in Vehicle
    BY <1>0, <1>2, RanTyped DEF Consume, At, Runs, Tasks
  <2> QED
    BY <1>2, <2>1 DEF Consume, IntentMove
<1> QED
  BY <1>1, <1>2 DEF IntentMove, Next, CallStep, LoopStep, Begin, BeginAgent, Pick, RunAgent, RunSimulator,
     PutRow, Stop, StopRow, Observe, Reconcile, AgentStop, Boot, Exit, Crash, Gone, LoseLoop,
     OwnTripsEnd, Poll, Drive, Drove, MarkCompleted, vars

LEMMA SlotStep == ASSUME Inv, Next \/ UNCHANGED vars PROVE SlotOwned'
<1> SUFFICES ASSUME NEW v \in Vehicle, intents'[v] # None
             PROVE  calls'[intents'[v]] # NoCall /\ calls'[intents'[v]].vehicle = v
  BY DEF SlotOwned, NoCall, None
<1>0. intents \in [Vehicle -> Call \cup {None}]
  BY DEF Inv, TypeOK
<1>1. CASE intents'[v] = intents[v]
  <2>1. calls[intents[v]] # NoCall /\ calls[intents[v]].vehicle = v /\ intents[v] \in Call
    BY <1>0, <1>1 DEF Inv, SlotOwned
  <2> QED
    BY <1>1, <2>1, VehiclesKept
<1>2. ASSUME NEW c \in Call, calls[c] # NoCall, calls[c].vehicle = v, intents'[v] = c
      PROVE  calls'[intents'[v]] # NoCall /\ calls'[intents'[v]].vehicle = v
  BY <1>2, VehiclesKept
<1> QED
  BY <1>0, <1>1, <1>2, IntentStepMove DEF IntentMove, Remove

LEMMA LoopsStep == ASSUME Inv, Next \/ UNCHANGED vars PROVE LoopsNamed'
<1> SUFFICES ASSUME NEW t \in RanNext
             PROVE  /\ tasks'[t].loop \notin {"idle", "lost"} => tasks'[t].sim \in Call
                    /\ tasks'[t].status = "gone" => tasks'[t].loop = "idle"
  BY TasksKept DEF LoopsNamed
<1>0. \A u \in Ran : /\ tasks[u].loop \notin {"idle", "lost"} => tasks[u].sim \in Call
                     /\ tasks[u].status = "gone" => tasks[u].loop = "idle"
  BY DEF Inv, LoopsNamed
<1>1. t \in Task /\ \A u \in Ran : u \in Task
  BY DEF Ran, RanNext
<1>2. CASE AllCalm
  BY <1>0, <1>2 DEF AllCalm, Calm, StaysUp
<1>3. CASE \E u \in Task : TakesMove(u) \/ DriveMove(u)
  BY <1>0, <1>1, <1>3 DEF TakesMove, DriveMove
<1>4. CASE \E c \in Call, u \in Task : AgentMove(c, u) \/ SimulatorMove(c, u)
  BY <1>0, <1>1, <1>4 DEF AgentMove, SimulatorMove
<1> QED
  BY <1>2, <1>3, <1>4, TaskMove
\* How a step moves intents and counters together with the tasks.
Quiet ==
    /\ AllCalm /\ UNCHANGED <<ordered, driven>>
    /\ UNCHANGED intents \/ \E t \in Ran : tasks[t].vehicle \in Vehicle /\ Remove(t)
Writes(c) ==
    /\ AllCalm /\ UNCHANGED driven /\ ordered' = [ordered EXCEPT ![c] = @ + 1]
    /\ \E v \in Vehicle : intents' = [intents EXCEPT ![v] = c]

LEMMA StepKinds ==
    ASSUME Inv, Next \/ UNCHANGED vars
    PROVE  \/ Quiet
           \/ \E c \in Call : Writes(c)
           \/ \E t \in Task : TakesMove(t) \/ DriveMove(t)
           \/ \E c \in Call, t \in Task : AgentMove(c, t) \/ SimulatorMove(c, t)
<1>0. TasksOK
  BY DEF Inv, TypeOK, TasksOK
<1>1. ASSUME NEW c \in Call, WriteIntent(c) PROVE Quiet \/ Writes(c)
  <2>1. AllCalm
    BY <1>0, <1>1, CalmCases DEF WriteIntent
  <2>2. calls[c].vehicle \in Vehicle
    <3>1. calls[c] # NoCall /\ CallsOK
      BY <1>1, InProgress DEF WriteIntent, Inv, TypeOK, CallsOK
    <3> QED
      BY <3>1, CallTyped DEF Calls
  <2> QED
    BY <1>1, <2>1, <2>2 DEF WriteIntent, Quiet, Writes
<1>2. CASE UNCHANGED <<ordered, driven>> /\ IntentMove /\ \A c \in Call : ~WriteIntent(c)
  BY <1>2, TaskMove DEF Quiet, IntentMove
<1>3. CASE \E t \in Task : Drive(t)
  <2>1. PICK t \in Task : Drive(t)
    BY <1>3
  <2>2. tasks[t].loop = "taken" /\ t \in Ran /\ tasks[t] \in Tasks /\ tasks[t].sim \in Call
    BY <1>0, <2>1, RanTyped DEF Drive, At, Runs, Inv, LoopsNamed
  <2>3. tasks'[t].loop = "driving"
    BY <1>0, <2>1, <2>2, LoopMove DEF Drive
  <2>4. ~AllCalm
    BY <2>2, <2>3 DEF AllCalm, Calm
  <2> QED
    BY <2>4, TaskMove
<1>4. CASE \E c \in Call : RunSimulator(c)
  <2>1. PICK c \in Call : RunSimulator(c)
    BY <1>4
  <2>2. UNCHANGED intents
    BY <2>1 DEF RunSimulator
  <2>3. CASE \E t \in Task : NewSimulator(c, t)
    <3>1. PICK t \in Task : NewSimulator(c, t)
      BY <2>3
    <3>2. RanNext # Ran
      BY <1>0, <3>1, NewTaskMove DEF NewSimulator
    <3> QED
      BY <3>2, TaskMove DEF AllCalm
  <2>4. CASE UNCHANGED <<ordered, driven>>
    BY <2>2, <2>4, TaskMove DEF Quiet
  <2> QED
    BY <2>1, <2>3, <2>4 DEF RunSimulator, NewSimulator
<1>5. CASE ~ \E c \in Call : WriteIntent(c) \/ RunSimulator(c)
  <2>1. CASE ~ \E t \in Task : Drive(t)
    <3>1. UNCHANGED <<ordered, driven>>
      <4>1. CASE \E d \in Call : Pick(d)
        BY <4>1 DEF Pick
      <4>2. CASE UNCHANGED history
        BY <4>2 DEF history
      <4>3. CASE UNCHANGED vars
        BY <4>3 DEF vars, history
      <4>4. CASE \E d \in Call : \/ \E v \in Vehicle : Begin(d, v) \/ BeginAgent(d, v)
                                \/ RunAgent(d) \/ PutRow(d) \/ Stop(d) \/ StopRow(d)
                                \/ Observe(d) \/ Reconcile(d)
        BY <4>2, <4>4 DEF Begin, BeginAgent, RunAgent, PutRow, Stop, StopRow, Observe, Reconcile
      <4>5. CASE AgentStop \/ \E t \in Task : \/ Boot(t) \/ Exit(t) \/ Crash(t) \/ LoseLoop(t)
                                              \/ OwnTripsEnd(t) \/ Poll(t) \/ Consume(t)
                                              \/ Drove(t) \/ MarkCompleted(t)
        BY <4>2, <4>5 DEF AgentStop, Boot, Exit, Crash, Gone, LoseLoop, OwnTripsEnd, Poll, Consume,
           Drove, MarkCompleted
      <4> QED
        BY <1>5, <2>1, <4>1, <4>3, <4>4, <4>5 DEF Next, CallStep, LoopStep
    <3> QED
      BY <1>2, <1>5, <3>1, IntentStepMove
  <2> QED
    BY <1>3, <2>1
<1> QED
  BY <1>1, <1>4, <1>5

LEMMA CountedTasks ==
    ASSUME NEW S \in SUBSET Task, NEW T \in SUBSET Task, NEW t \in Task
    PROVE  /\ T \subseteq S => Cardinality(T) <= Cardinality(S)
           /\ T \subseteq S \cup {t} => Cardinality(T) <= Cardinality(S) + 1
           /\ T \subseteq S \ {t} /\ t \in S => Cardinality(T) + 1 <= Cardinality(S)
           /\ t \in S => Cardinality(S) >= 1
           /\ t \in S /\ (\E u \in S : u # t) => Cardinality(S) >= 2
<1>1. IsFiniteSet(S) /\ Cardinality(S) \in Nat /\ Cardinality(T) \in Nat
  BY TasksFinite
<1>2. \A A, B : IsFiniteSet(B) /\ A \subseteq B => Cardinality(A) <= Cardinality(B)
  BY FS_Subset
<1>3. IsFiniteSet(S \cup {t}) /\ Cardinality(S \cup {t}) <= Cardinality(S) + 1
  <2>1. /\ IsFiniteSet(S \cup {t})
        /\ Cardinality(S \cup {t}) = IF t \in S THEN Cardinality(S) ELSE Cardinality(S) + 1
    BY <1>1, FS_AddElement
  <2> DEFINE n == Cardinality(S)
             m == Cardinality(S \cup {t})
  <2>2. n \in Nat /\ m = IF t \in S THEN n ELSE n + 1
    BY <1>1, <2>1
  <2> HIDE DEF n, m
  <2>3. m <= n + 1
    BY <2>2
  <2> QED
    BY <2>1, <2>3 DEF n, m
<1>4. Cardinality(S \cup {t}) \in Nat
  BY <1>3, FS_CardinalityType
<1>5. IsFiniteSet(S \ {t}) /\ Cardinality(S \ {t}) \in Nat
      /\ (t \in S => Cardinality(S \ {t}) = Cardinality(S) - 1)
  BY <1>1, FS_RemoveElement, FS_CardinalityType
<1>6. t \in S => Cardinality(S) >= 1
  BY <1>1, <1>5
<1>7. t \in S /\ (\E u \in S : u # t) => Cardinality(S) >= 2
  <2>1. SUFFICES ASSUME t \in S, NEW u \in S, u # t PROVE Cardinality(S) >= 2
    OBVIOUS
  <2>2. Cardinality(S \ {t}) # 0
    BY <1>5, <2>1, FS_EmptySet
  <2> QED
    BY <1>1, <1>5, <2>1, <2>2
<1> QED
  BY <1>1, <1>2, <1>3, <1>4, <1>5, <1>6, <1>7

LEMMA WaitingFalls ==
    ASSUME intents \in [Vehicle -> Call \cup {None}],
           UNCHANGED intents \/ \E t \in Ran : tasks[t].vehicle \in Vehicle /\ Remove(t),
           NEW c \in Call
    PROVE  Waiting(c)' <= Waiting(c)
<1>1. (\E v \in Vehicle : intents'[v] = c) => \E v \in Vehicle : intents[v] = c
  BY ConstantTypes DEF Remove
<1> QED
  BY <1>1 DEF Waiting

LEMMA BookedStep == ASSUME Inv, Next \/ UNCHANGED vars PROVE Booked'
<1> SUFFICES ASSUME NEW c \in Call
             PROVE  /\ driven'[c] + Waiting(c)' + Cardinality(Taken(c)') <= ordered'[c]
                    /\ Cardinality(Drivers(c)') <= driven'[c]
  BY DEF Booked
<1> DEFINE TN == {t \in Task : t \in RanNext /\ tasks'[t].loop = "taken" /\ tasks'[t].sim = c}
           DN == {t \in Task : t \in RanNext /\ tasks'[t].loop \in {"own", "driving", "drove"}
                     /\ tasks'[t].sim = c}
           T  == Taken(c)
           D  == Drivers(c)
<1>a. Taken(c)' = TN /\ Drivers(c)' = DN
  BY TasksKept DEF Taken, Drivers
<1>b. /\ T \in SUBSET Task /\ D \in SUBSET Task /\ TN \in SUBSET Task /\ DN \in SUBSET Task
      /\ Cardinality(T) \in Nat /\ Cardinality(D) \in Nat
      /\ Cardinality(TN) \in Nat /\ Cardinality(DN) \in Nat
  BY TasksFinite DEF Taken, Drivers
<1>c. driven \in [Call -> Nat] /\ ordered \in [Call -> Nat] /\ intents \in [Vehicle -> Call \cup {None}]
  BY DEF Inv, TypeOK
<1>d. driven[c] + Waiting(c) + Cardinality(T) <= ordered[c] /\ Cardinality(D) <= driven[c]
  BY DEF Inv, Booked
<1>e. Waiting(c) \in {0, 1} /\ Waiting(c)' \in {0, 1}
  BY DEF Waiting
<1>f. driven[c] \in Nat /\ ordered[c] \in Nat
  BY <1>c
<1>r. \A t \in Ran : t \in Task
  BY DEF Ran
<1> USE DEF Taken, Drivers
<1>g. AllCalm => TN \subseteq T /\ DN \subseteq D
  BY <1>r DEF AllCalm, Calm
<1> HIDE DEF TN, DN, T, D, Taken, Drivers
<1>h. AllCalm => Cardinality(TN) <= Cardinality(T) /\ Cardinality(DN) <= Cardinality(D)
  BY <1>b, <1>g, FS_Subset, TasksFinite
<1>2. CASE Quiet
  <2>1. Waiting(c)' <= Waiting(c)
    BY <1>2, <1>c, WaitingFalls DEF Quiet
  <2>2. driven'[c] = driven[c] /\ ordered'[c] = ordered[c]
    BY <1>2 DEF Quiet
  <2> QED
    BY <1>2, <1>a, <1>b, <1>d, <1>e, <1>f, <1>h, <2>1, <2>2 DEF Quiet
<1>3. ASSUME NEW d \in Call, Writes(d)
      PROVE  /\ driven'[c] + Waiting(c)' + Cardinality(Taken(c)') <= ordered'[c]
             /\ Cardinality(Drivers(c)') <= driven'[c]
  <2>1. driven'[c] = driven[c] /\ ordered'[c] = IF c = d THEN ordered[c] + 1 ELSE ordered[c]
    BY <1>3, <1>c DEF Writes
  <2>2. c # d => Waiting(c)' <= Waiting(c)
    <3>1. c # d /\ (\E v \in Vehicle : intents'[v] = c) => \E v \in Vehicle : intents[v] = c
      BY <1>3, <1>c DEF Writes
    <3> QED
      BY <3>1 DEF Waiting
  <2> QED
    BY <1>3, <1>a, <1>b, <1>d, <1>e, <1>f, <1>h, <2>1, <2>2 DEF Writes
<1>4. ASSUME NEW t \in Task, TakesMove(t)
      PROVE  /\ driven'[c] + Waiting(c)' + Cardinality(Taken(c)') <= ordered'[c]
             /\ Cardinality(Drivers(c)') <= driven'[c]
  <2>0. t \in Ran /\ tasks[t] \in Tasks /\ tasks[t].vehicle \in Vehicle /\ tasks[t].sim \in Call
    BY <1>4, RanTyped DEF TakesMove, Inv, TypeOK, TasksOK, Tasks
  <2>1. driven'[c] = driven[c] /\ ordered'[c] = ordered[c]
    BY <1>4 DEF TakesMove, Takes, Consume, history
  <2>2. DN \subseteq D
    BY <1>4, <1>r DEF DN, D, Drivers, TakesMove
  <2>3. Cardinality(DN) <= Cardinality(D)
    BY <1>b, <2>2, <2>0, CountedTasks
  <2>4. Remove(t) /\ intents[tasks[t].vehicle] = tasks[t].sim
    BY <1>4 DEF TakesMove, Takes, Holds
  <2>5. Waiting(c)' <= Waiting(c)
    BY <1>c, <2>0, <2>4, WaitingFalls
  <2>6. CASE tasks[t].sim = c
    <3>1. Waiting(c) = 1
      BY <2>0, <2>4, <2>6 DEF Waiting
    <3>2. Waiting(c)' = 0
      <4>1. ASSUME NEW v \in Vehicle, intents'[v] = c PROVE FALSE
        <5>1. intents[v] = c /\ v # tasks[t].vehicle
          BY <1>c, <2>0, <2>4, <4>1, ConstantTypes DEF Remove
        <5>2. calls[c].vehicle = v /\ calls[c].vehicle = tasks[t].vehicle
          BY <2>0, <2>4, <2>6, <5>1, ConstantTypes DEF Inv, SlotOwned
        <5> QED
          BY <5>1, <5>2
      <4> QED
        BY <4>1 DEF Waiting
    <3>3. TN \subseteq T \cup {t}
      BY <1>4, <1>r DEF TN, T, Taken, TakesMove
    <3>4. Cardinality(TN) <= Cardinality(T) + 1
      BY <1>b, <2>0, <3>3, CountedTasks
    <3> QED
      BY <1>a, <1>b, <1>d, <1>f, <2>1, <2>3, <3>1, <3>2, <3>4
  <2>7. CASE tasks[t].sim # c
    <3>1. TN \subseteq T
      BY <1>4, <1>r, <2>7 DEF TN, T, Taken, TakesMove
    <3>2. Cardinality(TN) <= Cardinality(T)
      BY <1>b, <2>0, <3>1, CountedTasks
    <3> QED
      BY <1>a, <1>b, <1>d, <1>e, <1>f, <2>1, <2>3, <2>5, <3>2
  <2> QED
    BY <2>6, <2>7
<1>5. ASSUME NEW t \in Task, DriveMove(t)
      PROVE  /\ driven'[c] + Waiting(c)' + Cardinality(Taken(c)') <= ordered'[c]
             /\ Cardinality(Drivers(c)') <= driven'[c]
  <2>1. /\ driven' = [driven EXCEPT ![tasks[t].sim] = @ + 1] /\ UNCHANGED <<ordered, intents>>
    BY <1>5 DEF DriveMove, Drive
  <2>2. Waiting(c)' = Waiting(c) /\ ordered'[c] = ordered[c]
    BY <2>1 DEF Waiting
  <2>3. CASE tasks[t].sim = c
    <3>1. driven'[c] = driven[c] + 1
      BY <1>c, <2>1, <2>3
    <3>2. TN \subseteq T \ {t} /\ t \in T
      BY <1>5, <1>r, <2>3 DEF TN, T, Taken, DriveMove
    <3>3. DN \subseteq D \cup {t}
      BY <1>5, <1>r, <2>3 DEF DN, D, Drivers, DriveMove
    <3>4. Cardinality(TN) + 1 <= Cardinality(T) /\ Cardinality(DN) <= Cardinality(D) + 1
      BY <1>b, <3>2, <3>3, CountedTasks
    <3> QED
      BY <1>a, <1>b, <1>d, <1>e, <1>f, <2>2, <3>1, <3>4
  <2>4. CASE tasks[t].sim # c
    <3>1. driven'[c] = driven[c]
      BY <1>c, <2>1, <2>4
    <3>2. TN \subseteq T /\ DN \subseteq D
      BY <1>5, <1>r, <2>4 DEF TN, T, Taken, DN, D, Drivers, DriveMove
    <3>3. Cardinality(TN) <= Cardinality(T) /\ Cardinality(DN) <= Cardinality(D)
      BY <1>b, <3>2, CountedTasks
    <3> QED
      BY <1>a, <1>b, <1>d, <1>e, <1>f, <2>2, <3>1, <3>3
  <2> QED
    BY <2>3, <2>4
<1>6. ASSUME NEW d \in Call, NEW t \in Task, AgentMove(d, t)
      PROVE  /\ driven'[c] + Waiting(c)' + Cardinality(Taken(c)') <= ordered'[c]
             /\ Cardinality(Drivers(c)') <= driven'[c]
  <2>1. UNCHANGED <<ordered, driven, intents>>
    BY <1>6 DEF AgentMove, NewAgent, RunAgent, history
  <2>2. Waiting(c)' = Waiting(c) /\ ordered'[c] = ordered[c] /\ driven'[c] = driven[c]
    BY <2>1 DEF Waiting
  <2>3. TN \subseteq T /\ DN \subseteq D
    BY <1>6 DEF TN, T, Taken, DN, D, Drivers, AgentMove
  <2>4. Cardinality(TN) <= Cardinality(T) /\ Cardinality(DN) <= Cardinality(D)
    BY <1>b, <2>3, CountedTasks
  <2> QED
    BY <1>a, <1>b, <1>d, <1>e, <1>f, <2>2, <2>4
<1>7. ASSUME NEW d \in Call, NEW t \in Task, SimulatorMove(d, t)
      PROVE  /\ driven'[c] + Waiting(c)' + Cardinality(Taken(c)') <= ordered'[c]
             /\ Cardinality(Drivers(c)') <= driven'[c]
  <2>1. UNCHANGED intents /\ ordered' = [ordered EXCEPT ![d] = @ + 1]
        /\ driven' = [driven EXCEPT ![d] = @ + 1]
    BY <1>7 DEF SimulatorMove, NewSimulator, RunSimulator
  <2>2. Waiting(c)' = Waiting(c)
    BY <2>1 DEF Waiting
  <2>3. TN \subseteq T
    BY <1>7 DEF TN, T, Taken, SimulatorMove
  <2>4. DN \subseteq D \cup {t} /\ (d # c => DN \subseteq D)
    BY <1>7 DEF DN, D, Drivers, SimulatorMove
  <2>5. /\ Cardinality(TN) <= Cardinality(T) /\ Cardinality(DN) <= Cardinality(D) + 1
        /\ d # c => Cardinality(DN) <= Cardinality(D)
    BY <1>b, <2>3, <2>4, CountedTasks
  <2>6. /\ d = c => ordered'[c] = ordered[c] + 1 /\ driven'[c] = driven[c] + 1
        /\ d # c => ordered'[c] = ordered[c] /\ driven'[c] = driven[c]
    BY <1>c, <2>1
  <2> QED
    BY <1>a, <1>b, <1>d, <1>e, <1>f, <2>2, <2>5, <2>6
<1> QED
  BY <1>2, <1>3, <1>4, <1>5, <1>6, <1>7, StepKinds

LEMMA CountersRise ==
    ASSUME Inv, Next \/ UNCHANGED vars, NEW c \in Call
    PROVE  ordered[c] <= ordered'[c] /\ driven[c] <= driven'[c]
<1>0. driven \in [Call -> Nat] /\ ordered \in [Call -> Nat]
  BY DEF Inv, TypeOK
<1>1. /\ \E d \in Call : ordered' = [ordered EXCEPT ![d] = @ + 1] \/ UNCHANGED ordered
      /\ UNCHANGED driven \/ \E d \in Call : driven' = [driven EXCEPT ![d] = @ + 1]
  BY StepKinds DEF Quiet, Writes, TakesMove, Takes, Consume, DriveMove, Drive, AgentMove, NewAgent,
     RunAgent, SimulatorMove, NewSimulator, history
<1> QED
  BY <1>0, <1>1

LEMMA CauseStep == ASSUME Inv, Next \/ UNCHANGED vars PROVE CompletedCause'
<1> SUFFICES ASSUME NEW c \in Call
             PROVE  /\ c \in observed' => Exists(c)' /\ Over(c)'
                    /\ Exists(c)' /\ rows'[c].status = "completed" => driven'[c] > 0 \/ Over(c)'
  BY DEF CompletedCause
<1> USE DEF Exists
<1>0. driven \in [Call -> Nat] /\ RowsOK /\ CallsOK /\ TasksOK
  BY DEF Inv, TypeOK, RowsOK, CallsOK, TasksOK
<1>1. RowMove(c) /\ NotYet'
  BY RowStepMove, NotYetStep
<1>2. /\ c \in observed => Exists(c) /\ Over(c)
      /\ Exists(c) /\ rows[c].status = "completed" => driven[c] > 0 \/ Over(c)
  BY DEF Inv, CompletedCause
\* A row keeps its task, and a task that is over stays over.
<1>3. Exists(c) => Exists(c)' /\ rows'[c].task = rows[c].task
  BY <1>1 DEF RowMove, RowPut, RowKept, Inv, NotYet
<1>4. Exists(c) /\ Over(c) => Over(c)'
  <2>1. SUFFICES ASSUME Exists(c), Over(c) PROVE Over(c)'
    OBVIOUS
  <2>2. rows[c].task \in Task
    BY <1>0, <2>1 DEF RowsOK, Rows
  <2>3. rows[c].task \in Ran /\ tasks[rows[c].task].status = "gone"
    BY <2>1, <2>2 DEF Over, TaskOver, Ran
  <2>4. rows[c].task \in RanNext /\ tasks'[rows[c].task].status = "gone"
    BY <2>3, TasksKept DEF Same
  <2> QED
    BY <1>3, <2>1, <2>4 DEF Over, TaskOver, RanNext, NoTask
<1>5. c \in observed' => Exists(c)' /\ Over(c)'
  <2>1. CASE Observe(c)
    <3>1. rows[c].task \in Task /\ tasks[rows[c].task].status = "gone"
      BY <1>0, <2>1 DEF Observe, TaskOver, RowsOK, Rows
    <3>2. tasks[rows[c].task] # NoTask
      <4>1. rows[c].task = calls[c].task /\ calls[c] # NoCall
        BY <2>1 DEF Observe, Inv, NotYet
      <4>2. calls[c].task \in Ran
        BY <3>1, <4>1, ConstantTypes DEF Inv, Holding
      <4> QED
        BY <4>1, <4>2 DEF Ran
    <3> QED
      BY <1>3, <1>4, <2>1, <3>1, <3>2 DEF Observe, Over, TaskOver
  <2>2. c \in observed' => c \in observed \/ Observe(c)
    <3>1. ASSUME NEW d \in Call, Observe(d)
          PROVE  c \in observed' => c \in observed \/ Observe(c)
      <4>1. observed' = observed \cup {d}
        BY <3>1 DEF Observe
      <4> QED
        BY <3>1, <4>1
    <3>2. ASSUME NEW d \in Call, Reconcile(d)
          PROVE  observed' \subseteq observed
      BY <3>2 DEF Reconcile
    <3>3. CASE ~ \E d \in Call : Observe(d) \/ Reconcile(d)
      <4>1. UNCHANGED observed
        BY <3>3 DEF Next, CallStep, LoopStep, Begin, BeginAgent, Pick, RunAgent, RunSimulator, WriteIntent,
           PutRow, Stop, StopRow, AgentStop, Boot, Exit, Crash, Gone, LoseLoop, OwnTripsEnd, Poll,
           Consume, Drive, Drove, MarkCompleted, readers, vars
      <4> QED
        BY <4>1
    <3> QED
      BY <3>1, <3>2, <3>3
  <2> QED
    BY <1>2, <1>3, <1>4, <2>1, <2>2
<1>6. ASSUME Exists(c)', rows'[c].status = "completed" PROVE driven'[c] > 0 \/ Over(c)'
  <2>0. driven[c] \in Nat /\ driven'[c] >= driven[c] /\ driven'[c] \in Nat
    <3>1. driven' \in [Call -> Nat]
      BY TypeStep DEF TypeOK
    <3> QED
      BY <1>0, <3>1, CountersRise
  <2>1. CASE Exists(c) /\ rows[c].status = "completed"
    BY <1>2, <1>4, <2>0, <2>1
  <2>2. CASE Exists(c) /\ Completes(c)
    <3>1. CASE Reconcile(c)
      BY <1>2, <1>4, <3>1 DEF Reconcile
    <3>2. ASSUME NEW t \in Task, MarkCompleted(t), tasks[t].sim = c
          PROVE  driven[c] > 0
      <4>1. t \in Drivers(c) /\ Drivers(c) \in SUBSET Task
        BY <3>2 DEF MarkCompleted, At, Runs, Drivers
      <4>2. Cardinality(Drivers(c)) >= 1 /\ Cardinality(Drivers(c)) \in Nat
        BY <4>1, CountedTasks, TasksFinite
      <4>3. Cardinality(Drivers(c)) <= driven[c]
        BY DEF Inv, Booked
      <4> QED
        BY <2>0, <4>2, <4>3
    <3> QED
      BY <2>0, <2>2, <3>1, <3>2 DEF Completes
  <2> QED
    BY <1>1, <1>6, <2>1, <2>2 DEF RowMove, RowPut, RowKept
<1> QED
  BY <1>5, <1>6

LEMMA OverStep == ASSUME Inv, Next \/ UNCHANGED vars PROVE CompletedMeansOver'
<1> SUFFICES ASSUME NEW c \in Call, NEW t \in Task, Exists(c)', rows'[c].status = "completed",
                    ordered'[c] <= 1, Drives(t, c)'
             PROVE  t # rows'[c].task /\ tasks'[rows'[c].task].status = "gone"
  BY DEF CompletedMeansOver
<1> DEFINE r == rows[c].task
<1>0. /\ RowsOK /\ TasksOK /\ CallsOK
      /\ ordered[c] \in Nat /\ ordered'[c] \in Nat /\ driven[c] \in Nat
  <2>1. ordered' \in [Call -> Nat]
    BY TypeStep DEF TypeOK
  <2> QED
    BY <2>1 DEF Inv, TypeOK, RowsOK, TasksOK, CallsOK
<1>1. Exists(c) /\ rows'[c].task = r /\ (rows[c].status = "completed" \/ Completes(c))
  BY RowStepMove DEF RowMove, RowPut, RowKept, Exists
<1>2. r \in Task /\ calls[c].task = r /\ calls[c] # NoCall
  BY <1>0, <1>1 DEF RowsOK, Rows, Exists, Inv, NotYet
<1>3. r \in Ran /\ tasks[r] \in Tasks
  BY <1>2, ConstantTypes, RanTyped, <1>0 DEF Inv, Holding
<1>4. ordered[c] <= 1 /\ driven[c] <= ordered[c]
  <2>1. ordered[c] <= ordered'[c]
    BY CountersRise
  <2>2. Waiting(c) \in {0, 1} /\ Cardinality(Taken(c)) \in Nat
    BY TasksFinite DEF Waiting, Taken
  <2>3. driven[c] + Waiting(c) + Cardinality(Taken(c)) <= ordered[c]
    BY DEF Inv, Booked
  <2> QED
    BY <1>0, <2>1, <2>2, <2>3
\* A recorded task that is gone stays gone, and drives nothing.
<1>5. SUFFICES tasks[r].status = "gone"
  <2>1. r \in RanNext /\ tasks'[r].status = "gone"
    BY <1>3, <1>5, TasksKept DEF Same
  <2>2. tasks'[r].loop = "idle"
    BY <2>1, LoopsStep, TasksKept DEF LoopsNamed
  <2> QED
    BY <1>1, <2>1, <2>2 DEF Drives
<1>6. t \in RanNext /\ tasks'[t].sim = c /\ tasks'[t].loop \in {"own", "driving"}
  BY TasksKept DEF Drives
\* The row said completed before: only an intent taken earlier lets another loop start.
<1>7. CASE rows[c].status = "completed"
  <2>1. CASE Drives(t, c)
    BY <1>1, <1>4, <1>7, <2>1 DEF Inv, CompletedMeansOver
  <2>2. CASE ~Drives(t, c)
    <3>1. ~AllCalm
      BY <1>6, <2>2 DEF AllCalm, Calm, Drives
    <3>2. ASSUME NEW u \in Task, TakesMove(u) PROVE FALSE
      BY <1>6, <2>2, <3>2 DEF TakesMove, Drives, RanNext
    <3>3. ASSUME NEW u \in Task, DriveMove(u) PROVE tasks[r].status = "gone"
      <4>1. t = u /\ tasks[t].sim = c /\ tasks[t].loop = "taken" /\ t \in Ran
        BY <1>6, <2>2, <3>3 DEF DriveMove, Drives, RanNext
      <4>2. t \in Taken(c) /\ Taken(c) \in SUBSET Task
        BY <4>1 DEF Taken
      <4>3. Cardinality(Taken(c)) >= 1 /\ Cardinality(Taken(c)) \in Nat
        BY <4>2, CountedTasks, TasksFinite
      <4>4. Waiting(c) \in {0, 1} /\ driven[c] + Waiting(c) + Cardinality(Taken(c)) <= ordered[c]
        BY DEF Waiting, Inv, Booked
      <4>5. driven[c] = 0
        BY <1>0, <1>4, <4>3, <4>4
      <4> QED
        BY <1>1, <1>7, <4>5 DEF Inv, CompletedCause, Over, TaskOver
    <3>4. ASSUME NEW d \in Call, NEW u \in Task, AgentMove(d, u) PROVE FALSE
      BY <1>6, <2>2, <3>4 DEF AgentMove, Drives
    <3>5. ASSUME NEW d \in Call, NEW u \in Task, SimulatorMove(d, u) PROVE FALSE
      <4>1. d = c
        BY <1>6, <2>2, <3>5 DEF SimulatorMove, Drives
      <4>2. calls[c].step = "simulator"
        BY <3>5, <4>1 DEF SimulatorMove, NewSimulator, RunSimulator, Step
      <4> QED
        BY <1>1, <4>2 DEF Inv, NotYet
    <3> QED
      BY <3>1, <3>2, <3>3, <3>4, <3>5, TaskMove
  <2> QED
    BY <2>1, <2>2
\* The recorded task was seen gone.
<1>8. CASE Reconcile(c)
  BY <1>8 DEF Reconcile, Inv, CompletedCause, Over, TaskOver
\* One loop has driven the trips and another drives them: that is twice.
<1>9. ASSUME NEW u \in Task, MarkCompleted(u), tasks[u].sim = c PROVE FALSE
  <2>1. u \in Ran /\ tasks[u].loop = "drove" /\ Loop(u, "idle", None)
    BY <1>9 DEF MarkCompleted, At, Runs, Rest
  <2>2. tasks'[u].loop = "idle" /\ RanNext = Ran /\ \A w \in Task : w # u => tasks'[w] = tasks[w]
    BY <1>0, <2>1, LoopMove
  <2>3. t # u /\ t \in Ran /\ tasks[t].loop \in {"own", "driving"} /\ tasks[t].sim = c
    BY <1>6, <2>2
  <2>4. u \in Drivers(c) /\ t \in Drivers(c) /\ Drivers(c) \in SUBSET Task
    BY <1>9, <2>1, <2>3 DEF Drivers
  <2>5. Cardinality(Drivers(c)) >= 2 /\ Cardinality(Drivers(c)) \in Nat
    BY <2>3, <2>4, CountedTasks, TasksFinite
  <2>6. Cardinality(Drivers(c)) <= driven[c]
    BY DEF Inv, Booked
  <2> QED
    BY <1>0, <1>4, <2>5, <2>6
<1> QED
  BY <1>1, <1>7, <1>8, <1>9 DEF Completes

\* Agents and calls that hold a bus held it before, and the new one is free.
LEMMA BusesStep == ASSUME Inv, Next \/ UNCHANGED vars PROVE BusesHeld' /\ BusesDistinct'
<1> DEFINE A  == Live \cap Agents
           AN == {t \in RanNext : tasks'[t].status # "gone" /\ tasks'[t].kind = "agent"}
<1>a. (Live \cap Agents)' = AN
  BY TasksKept DEF Live, Agents
<1>b. blind => blind'
  <2>1. CASE \E d \in Call : Pick(d)
    BY <2>1 DEF Pick, Inv, TypeOK
  <2>2. CASE ~ \E d \in Call : Pick(d)
    <3>1. UNCHANGED blind
      <4>1. CASE \E d \in Call : \/ \E v \in Vehicle : Begin(d, v) \/ BeginAgent(d, v)
                                \/ RunAgent(d) \/ RunSimulator(d) \/ WriteIntent(d) \/ PutRow(d)
                                \/ Stop(d) \/ StopRow(d) \/ Observe(d) \/ Reconcile(d)
        BY <4>1 DEF Begin, BeginAgent, RunAgent, RunSimulator, WriteIntent, PutRow, Stop, StopRow,
           Observe, Reconcile, history
      <4>2. CASE AgentStop \/ \E t \in Task : \/ Boot(t) \/ Exit(t) \/ Crash(t) \/ LoseLoop(t)
                                              \/ OwnTripsEnd(t) \/ Poll(t) \/ Consume(t)
                                              \/ Drive(t) \/ Drove(t) \/ MarkCompleted(t)
        BY <4>2 DEF AgentStop, Boot, Exit, Crash, Gone, LoseLoop, OwnTripsEnd, Poll, Consume, Drive,
           Drove, MarkCompleted, history
      <4>3. CASE UNCHANGED vars
        BY <4>3 DEF vars, history
      <4> QED
        BY <2>2, <4>1, <4>2, <4>3 DEF Next, CallStep, LoopStep
    <3> QED
      BY <3>1
  <2> QED
    BY <2>1, <2>2
<1>c. SUFFICES ASSUME ~blind'
               PROVE  /\ \A t \in AN : \A c \in Call :
                            calls'[c].step = "agent" => tasks'[t].bus # calls'[c].bus
                      /\ \A c, d \in Call :
                            calls'[c].step = "agent" /\ calls'[d].step = "agent"
                               /\ calls'[c].bus = calls'[d].bus => c = d
                      /\ \A t, u \in AN : tasks'[t].bus = tasks'[u].bus => t = u
  BY <1>a DEF BusesHeld, BusesDistinct
<1>d. /\ \A t \in A : \A c \in Call : calls[c].step = "agent" => tasks[t].bus # calls[c].bus
      /\ \A c, d \in Call :
            calls[c].step = "agent" /\ calls[d].step = "agent" /\ calls[c].bus = calls[d].bus => c = d
      /\ \A t, u \in A : tasks[t].bus = tasks[u].bus => t = u
  BY <1>b, <1>c DEF Inv, BusesHeld, BusesDistinct
<1>e. \A t \in Ran : t \in AN => t \in A /\ tasks'[t].bus = tasks[t].bus
  BY TasksKept DEF Same, Live, Agents
<1>0. CallsOK /\ TasksOK
  BY DEF Inv, TypeOK, CallsOK, TasksOK
<1> HIDE DEF AN, A
<1>1. CASE \E c \in Call : Pick(c)
  <2>1. PICK c \in Call : Pick(c)
    BY <1>1
  <2>2. PICK L \in Listings \cup {{}} :
             /\ calls' = [calls EXCEPT ![c].step = "agent", ![c].bus = NextBus(BusesOf(L))]
             /\ blind' = (blind \/ ~(BusesOf(Live \cap Agents) \cup Picked \subseteq BusesOf(L)))
    BY <2>1 DEF Pick
  <2>3. BusesOf(A) \cup Picked \subseteq BusesOf(L)
    BY <1>c, <2>2 DEF A, Inv, TypeOK
  <2>4. NextBus(BusesOf(L)) \notin BusesOf(L)
    BY ListingsRan, FreeBus DEF Inv
  <2>5. calls[c] # NoCall /\ calls[c] \in Calls
    BY <1>0, <2>1, InProgress, CallTyped DEF Pick
  <2>6. /\ calls'[c].bus = NextBus(BusesOf(L))
        /\ \A d \in Call : d # c => calls'[d] = calls[d]
    <3>1. calls' = [calls EXCEPT ![c] = [calls[c] EXCEPT !.step = "agent", !.bus = NextBus(BusesOf(L))]]
      BY <1>0, <2>2 DEF CallsOK
    <3>2. [calls[c] EXCEPT !.step = "agent", !.bus = NextBus(BusesOf(L))].bus = NextBus(BusesOf(L))
      BY <2>5 DEF Calls
    <3> QED
      BY <1>0, <3>1, <3>2 DEF CallsOK
  <2>7. \A t \in AN : t \in A /\ tasks'[t].bus = tasks[t].bus
    <3>1. RanNext = Ran
      BY <2>1 DEF Pick, RanNext, Ran
    <3> QED
      BY <1>e, <3>1 DEF AN
  <2>8. \A t \in A : tasks[t].bus # NextBus(BusesOf(L))
    BY <2>3, <2>4 DEF BusesOf
  <2>9. \A d \in Call : calls[d].step = "agent" => calls[d].bus # NextBus(BusesOf(L))
    BY <2>3, <2>4 DEF Picked, Step
  <2> QED
    BY <1>d, <2>6, <2>7, <2>8, <2>9
<1>2. CASE ~ \E c \in Call : Pick(c)
  <2>1. \A c \in Call : calls'[c].step = "agent" => calls[c].step = "agent" /\ calls'[c].bus = calls[c].bus
    BY <1>2, CallStepMove DEF CallMove
  <2>2. CASE \A t \in AN : t \in Ran
    BY <1>d, <1>e, <2>1, <2>2
  <2>3. ASSUME NEW c \in Call, NEW t \in Task, AgentMove(c, t)
        PROVE  /\ \A u \in AN : \A d \in Call :
                     calls'[d].step = "agent" => tasks'[u].bus # calls'[d].bus
               /\ \A d, e \in Call :
                     calls'[d].step = "agent" /\ calls'[e].step = "agent"
                        /\ calls'[d].bus = calls'[e].bus => d = e
               /\ \A u, w \in AN : tasks'[u].bus = tasks'[w].bus => u = w
    <3>1. RanNext = Ran \cup {t} /\ t \notin Ran /\ tasks'[t].bus = calls[c].bus
          /\ calls[c].step = "agent"
      BY <2>3 DEF AgentMove, NewAgent, RunAgent, Step
    <3>2. calls'[c].step # "agent"
      <4>1. calls[c] # NoCall
        BY <3>1 DEF NoCall
      <4>2. \E x \in {"simulator", "ended"} :
               \/ \E a \in Task : calls' = [calls EXCEPT ![c].step = x, ![c].agent = a]
               \/ calls' = [calls EXCEPT ![c].step = x]
        BY <2>3 DEF AgentMove, NewAgent, RunAgent, Goto
      <4>3. calls[c] \in Calls
        BY <1>0, <4>1, CallTyped
      <4> QED
        BY <1>0, <4>2, <4>3 DEF CallsOK, Calls
    <3>3. \A u \in AN : u \in Ran \/ u = t
      BY <3>1 DEF AN
    <3> QED
      BY <1>d, <1>e, <2>1, <3>1, <3>2, <3>3
  <2>4. ASSUME NEW c \in Call, NEW t \in Task, SimulatorMove(c, t)
        PROVE  \A u \in AN : u \in Ran
    BY <2>4 DEF SimulatorMove, AN
  <2>5. AllCalm \/ (\E t \in Task : TakesMove(t) \/ DriveMove(t)) => \A u \in AN : u \in Ran
    BY DEF AllCalm, TakesMove, DriveMove, AN
  <2> QED
    BY <2>2, <2>3, <2>4, <2>5, TaskMove
<1> QED
  BY <1>1, <1>2

-----------------------------------------------------------------------------
(* The theorems *)

LEMMA InvInit == Init => Inv
<1> SUFFICES ASSUME Init PROVE Inv
  OBVIOUS
<1> USE DEF Init
<1>0. plan \in Plans /\ plan.stops \in Nat /\ plan.faults \in Nat
  BY ConstantTypes
<1>1. TypeOK
  <2>1. halts \in 0..plan.stops /\ faults \in 0..plan.faults
    BY <1>0
  <2>2. /\ tasks \in [Task -> Tasks \cup {NoTask}] /\ calls \in [Call -> Calls \cup {NoCall}]
        /\ rows \in [Call -> Rows \cup {NoRow}] /\ intents \in [Vehicle -> Call \cup {None}]
    OBVIOUS
  <2>3. /\ ordered \in [Call -> Nat] /\ driven \in [Call -> Nat] /\ blind \in BOOLEAN
        /\ stops \subseteq Call /\ observed \subseteq Call
    OBVIOUS
  <2> QED
    BY <1>0, <2>1, <2>2, <2>3 DEF TypeOK
<1>2. Ran = {}
  BY DEF Ran
<1>3. \A c \in Call : calls[c] = NoCall /\ rows[c] = NoRow /\ ~Exists(c)
  BY DEF Exists
<1>4. NotYet /\ Holding /\ CompletedCause /\ CompletedMeansOver
  BY <1>3 DEF NotYet, Holding, CompletedCause, CompletedMeansOver, NoCall
<1>5. SlotOwned /\ LoopsNamed /\ BusesHeld /\ BusesDistinct
  BY <1>2, <1>3 DEF SlotOwned, LoopsNamed, BusesHeld, BusesDistinct, Live, NoCall
<1>6. Booked
  <2> SUFFICES ASSUME NEW c \in Call
               PROVE  /\ driven[c] + Waiting(c) + Cardinality(Taken(c)) <= ordered[c]
                      /\ Cardinality(Drivers(c)) <= driven[c]
    BY DEF Booked
  <2>1. Taken(c) = {} /\ Drivers(c) = {}
    BY <1>2 DEF Taken, Drivers
  <2>2. Cardinality(Taken(c)) = 0 /\ Cardinality(Drivers(c)) = 0
    BY <2>1, FS_EmptySet
  <2>3. Waiting(c) = 0
    BY ConstantTypes DEF Waiting
  <2> QED
    BY <2>2, <2>3
<1> QED
  BY <1>1, <1>4, <1>5, <1>6 DEF Inv

\* The invariant is inductive: every step of the calls, the tasks and their
\* presence loops keeps it.
THEOREM Inductive == Spec => []Inv
<1>1. Inv /\ [Next]_vars => Inv'
  <2> SUFFICES ASSUME Inv, Next \/ UNCHANGED vars PROVE Inv'
    OBVIOUS
  <2> QED
    BY TypeStep, NotYetStep, HoldingStep, SlotStep, LoopsStep, BookedStep, CauseStep, OverStep, BusesStep
    DEF Inv
<1> QED
  BY InvInit, <1>1, PTL DEF Spec

\* The tables, the tasks, the calls in progress and the counters keep their types.
THEOREM TypeCorrect == Spec => []TypeOK
BY Inductive, PTL DEF Inv

\* No simulation's trips are driven more often than they were asked for.
THEOREM TripsAsOrdered == Spec => []DrivenAsOrdered
<1>1. Inv => DrivenAsOrdered
  <2> SUFFICES ASSUME Inv, NEW c \in Call PROVE driven[c] <= ordered[c]
    BY DEF DrivenAsOrdered
  <2>1. driven[c] \in Nat /\ ordered[c] \in Nat
    BY DEF Inv, TypeOK
  <2>2. Waiting(c) \in {0, 1} /\ Cardinality(Taken(c)) \in Nat
    BY TasksFinite DEF Waiting, Taken
  <2>3. driven[c] + Waiting(c) + Cardinality(Taken(c)) <= ordered[c]
    BY DEF Inv, Booked
  <2> QED
    BY <2>1, <2>2, <2>3
<1> QED
  BY Inductive, <1>1, PTL

\* A row says completed while a loop drives the trips only if the task it records is
\* gone and the loop is another's.
THEOREM CompletedTaskOver == Spec => []CompletedMeansOver
BY Inductive, PTL DEF Inv

\* Agents share a vcan bus only after a pick from an incomplete listing.
THEOREM BusesApart == Spec => []BusesDistinct
BY Inductive, PTL DEF Inv

\* No step takes a finished simulation back, save its own call's put.
THEOREM FinishedKept == Spec => FinishedStays
<1>1. ASSUME Inv, [Next]_vars
      PROVE  [\A c \in Call : (Exists(c) /\ rows[c].status \in Finished)
                 => rows'[c].status \in Finished \/ Step(c, "put")]_vars
  <2>1. SUFFICES ASSUME NEW c \in Call, Exists(c), rows[c].status \in Finished
                 PROVE  rows'[c].status \in Finished \/ Step(c, "put")
    OBVIOUS
  <2>2. RowMove(c)
    BY <1>1, RowStepMove
  <2> QED
    BY <2>1, <2>2 DEF RowMove, RowPut, PutRow, Finished
<1> QED
  BY Inductive, <1>1, PTL DEF Spec, FinishedStays

-----------------------------------------------------------------------------
(* Whose tasks a simulation uses. *)

\* A task, of agent or simulator, whose loop finds an intent, takes it or drives for a
\* simulation is a task of the very vehicle the simulation was called for, with stale
\* polls, intents that replace each other, and calls that find the agent of a vehicle
\* with a longer name.
TripsOnOwnVehicle ==
    \A t \in Ran : tasks[t].loop \notin {"idle", "lost"} =>
        calls[tasks[t].sim] # NoCall /\ calls[tasks[t].sim].vehicle = tasks[t].vehicle

\* The tasks a call knows, and with them the tasks its row records, are tasks of a
\* vehicle whose name begins with the name of the call's.
OwnTask(c, t) == t \in Ran /\ tasks[t].vehicle \in Alike[calls[c].vehicle]

CallsKnowOwn ==
    \A c \in Call : calls[c] # NoCall =>
        /\ calls[c].task # None => OwnTask(c, calls[c].task)
        /\ calls[c].agent # None => OwnTask(c, calls[c].agent)

RowsRecordCall ==
    \A c \in Call : Exists(c) => rows[c].task = calls[c].task /\ rows[c].agent = calls[c].agent

\* A simulation that was asked for is one that was called.
Asked == \A c \in Call : ordered[c] > 0 => calls[c] # NoCall

OwnInv == TripsOnOwnVehicle /\ CallsKnowOwn /\ RowsRecordCall /\ Asked

\* What a step makes of the tasks a call knows: it knows no others, or it begins
\* with the agent it has found, or it runs one.
Keeps(c)  == calls'[c] = calls[c] \/ (calls[c] # NoCall /\ calls'[c].agent = calls[c].agent
                                         /\ calls'[c].task = calls[c].task)
Finds(c)  == /\ calls[c] = NoCall /\ calls'[c].agent = calls'[c].task
             /\ calls'[c].task # None => /\ calls'[c].task \in Ran
                                         /\ tasks[calls'[c].task].vehicle \in Alike[calls'[c].vehicle]
RunsOne(c) ==
    /\ calls[c] # NoCall /\ calls[c].step \in {"agent", "simulator"}
    /\ \E t \in RanNext :
          /\ tasks'[t].vehicle \in Alike[calls[c].vehicle]
          /\ \/ calls'[c].agent = t /\ calls'[c].task = calls[c].task
             \/ calls'[c].agent = calls[c].agent /\ calls'[c].task = t

LEMMA KnownMove == ASSUME Inv, Next \/ UNCHANGED vars, NEW d \in Call
                   PROVE  Keeps(d) \/ Finds(d) \/ RunsOne(d)
<1>0. CallsOK /\ TasksOK
  BY DEF Inv, TypeOK, CallsOK, TasksOK
<1>a. ASSUME NEW c \in Call, NEW s, Step(c, s), s # "none"
      PROVE  calls[c] # NoCall /\ calls[c] \in Calls /\ calls[c].step = s
  BY <1>0, <1>a, CallTyped DEF Step, NoCall
<1>g. ASSUME NEW c \in Call, NEW s, Goto(c, s), calls[c] # NoCall
      PROVE  Keeps(d)
  <2> DEFINE x == [calls[c] EXCEPT !.step = s]
  <2>1. calls' = [calls EXCEPT ![c] = x]
    BY <1>0, <1>g DEF Goto, CallsOK
  <2>2. x.agent = calls[c].agent /\ x.task = calls[c].task
    BY <1>0, <1>g, CallTyped DEF Calls
  <2> HIDE DEF x
  <2> QED
    BY <1>0, <1>g, <2>1, <2>2 DEF Keeps, CallsOK
<1>e. ASSUME NEW c \in Call, NEW v \in Vehicle, NEW k, NEW s, NEW t, Step(c, "none"), Enter(c, k, v, s, t),
             t # None => t \in Ran /\ tasks[t].vehicle \in Alike[v]
      PROVE  Keeps(d) \/ Finds(d)
  <2>1. calls[c] = NoCall
    BY <1>0, <1>e DEF Step, CallsOK, Calls
  <2>2. /\ calls'[c].agent = t /\ calls'[c].task = t /\ calls'[c].vehicle = v
        /\ d # c => calls'[d] = calls[d]
    BY <1>0, <1>e DEF Enter, CallsOK
  <2> QED
    BY <1>e, <2>1, <2>2 DEF Keeps, Finds
<1>1. ASSUME NEW c \in Call, NEW v \in Vehicle, Begin(c, v) PROVE Keeps(d) \/ Finds(d)
  <2>1. Step(c, "none")
    BY <1>1 DEF Begin, Called
  <2>2. \A L \in Listings : \A t : t \in AgentsOf(v, L) => t \in Ran /\ tasks[t].vehicle \in Alike[v]
    BY ListingsRan DEF AgentsOf
  <2>3. \E s, t : Enter(c, "start", v, s, t) /\ (t # None => t \in Ran /\ tasks[t].vehicle \in Alike[v])
    BY <1>1, <2>2 DEF Begin
  <2> QED
    BY <1>e, <2>1, <2>3
<1>2. ASSUME NEW c \in Call, NEW v \in Vehicle, BeginAgent(c, v) PROVE Keeps(d) \/ Finds(d)
  BY <1>2, <1>e DEF BeginAgent, Called
<1>3. ASSUME NEW c \in Call, Pick(c) PROVE Keeps(d)
  <2>1. PICK b : calls' = [calls EXCEPT ![c].step = "agent", ![c].bus = b]
    BY <1>3 DEF Pick
  <2> DEFINE x == [calls[c] EXCEPT !.step = "agent", !.bus = b]
  <2>2. calls[c] # NoCall /\ calls[c] \in Calls
    BY <1>3, <1>a DEF Pick
  <2>3. calls' = [calls EXCEPT ![c] = x]
    BY <1>0, <2>1 DEF CallsOK
  <2>4. x.agent = calls[c].agent /\ x.task = calls[c].task
    BY <2>2 DEF Calls
  <2> HIDE DEF x
  <2> QED
    BY <1>0, <2>2, <2>3, <2>4 DEF Keeps, CallsOK
<1>4. ASSUME NEW c \in Call, RunAgent(c) PROVE Keeps(d) \/ RunsOne(d)
  <2> DEFINE next == IF calls[c].kind = "start" THEN "simulator" ELSE "ended"
  <2>1. calls[c] # NoCall /\ calls[c] \in Calls /\ calls[c].step = "agent"
    BY <1>4, <1>a DEF RunAgent
  <2>2. CASE Goto(c, next)
    BY <1>g, <2>1, <2>2
  <2>3. ASSUME NEW t \in Task, NewTask(t, "agent", calls[c].vehicle, calls[c].bus, None),
               calls' = [calls EXCEPT ![c].step = next, ![c].agent = t]
        PROVE  Keeps(d) \/ RunsOne(d)
    <3> DEFINE x == [calls[c] EXCEPT !.step = next, !.agent = t]
    <3>1. calls' = [calls EXCEPT ![c] = x]
      BY <1>0, <2>3 DEF CallsOK
    <3>2. x.task = calls[c].task /\ x.agent = t
      BY <2>1 DEF Calls
    <3>3. t \in RanNext /\ tasks'[t].vehicle \in Alike[calls[c].vehicle]
      <4>1. t \in RanNext /\ tasks'[t].vehicle = calls[c].vehicle
        BY <1>0, <2>3, ConstantTypes, NewTaskMove
      <4> QED
        BY <2>1, <4>1, SimulationsAssumption DEF Calls
    <3> HIDE DEF x
    <3>4. calls'[c] = x /\ (d # c => calls'[d] = calls[d])
      BY <1>0, <3>1 DEF CallsOK
    <3> QED
      BY <2>1, <3>2, <3>3, <3>4 DEF Keeps, RunsOne
  <2> QED
    BY <1>4, <2>2, <2>3 DEF RunAgent
<1>5. ASSUME NEW c \in Call, RunSimulator(c) PROVE Keeps(d) \/ RunsOne(d)
  <2>1. calls[c] # NoCall /\ calls[c] \in Calls /\ calls[c].step = "simulator"
    BY <1>5, <1>a DEF RunSimulator
  <2>2. CASE Ends(c)
    BY <1>g, <2>1, <2>2 DEF Ends
  <2>3. ASSUME NEW t \in Task, NewTask(t, "simulator", calls[c].vehicle, calls[c].bus, c),
               calls' = [calls EXCEPT ![c].step = "put", ![c].task = t]
        PROVE  Keeps(d) \/ RunsOne(d)
    <3> DEFINE x == [calls[c] EXCEPT !.step = "put", !.task = t]
    <3>1. calls' = [calls EXCEPT ![c] = x]
      BY <1>0, <2>3 DEF CallsOK
    <3>2. x.agent = calls[c].agent /\ x.task = t
      BY <2>1 DEF Calls
    <3>3. t \in RanNext /\ tasks'[t].vehicle \in Alike[calls[c].vehicle]
      <4>1. t \in RanNext /\ tasks'[t].vehicle = calls[c].vehicle
        BY <1>0, <2>3, ConstantTypes, NewTaskMove
      <4> QED
        BY <2>1, <4>1, SimulationsAssumption DEF Calls
    <3> HIDE DEF x
    <3>4. calls'[c] = x /\ (d # c => calls'[d] = calls[d])
      BY <1>0, <3>1 DEF CallsOK
    <3> QED
      BY <2>1, <3>2, <3>3, <3>4 DEF Keeps, RunsOne
  <2> QED
    BY <1>5, <2>2, <2>3 DEF RunSimulator
<1>6. ASSUME NEW c \in Call, WriteIntent(c) \/ PutRow(c) PROVE Keeps(d)
  <2>1. calls[c] # NoCall
    BY <1>6, <1>a DEF WriteIntent, PutRow
  <2>2. UNCHANGED calls \/ \E s : Goto(c, s)
    BY <1>6 DEF WriteIntent, PutRow, Ends
  <2> QED
    BY <1>g, <2>1, <2>2 DEF Keeps
<1>7. CASE \/ \E c \in Call : Stop(c) \/ StopRow(c) \/ Observe(c) \/ Reconcile(c)
           \/ AgentStop
           \/ \E t \in Task : Boot(t) \/ Exit(t) \/ Crash(t) \/ LoseLoop(t) \/ LoopStep(t)
           \/ UNCHANGED vars
  <2>1. UNCHANGED calls
    BY <1>7 DEF Stop, StopRow, Observe, Reconcile, AgentStop, Boot, Exit, Crash, Gone, LoseLoop,
       LoopStep, OwnTripsEnd, Poll, Consume, Drive, Drove, MarkCompleted, vars
  <2> QED
    BY <2>1 DEF Keeps
<1> QED
  BY <1>1, <1>2, <1>3, <1>4, <1>5, <1>6, <1>7 DEF Next, CallStep

\* Only a poll finds an intent.
LEMMA FoundByPoll ==
    ASSUME Inv, Next \/ UNCHANGED vars, AllCalm, ~ \E u \in Task : Poll(u), NEW t \in Ran,
           tasks'[t].loop = "found"
    PROVE  tasks'[t].loop = tasks[t].loop /\ tasks'[t].sim = tasks[t].sim
<1>0. TasksOK /\ t \in Task /\ tasks[t] \in Tasks
  BY RanTyped DEF Inv, TypeOK, TasksOK
<1>l. \A u \in Task : \A l : At(u, l) => u \in Ran /\ tasks[u].loop = l
  BY DEF At, Runs
<1>r. \A u \in Ran, l \in {"idle", "taken", "driving", "drove", "lost"}, c \in Call \cup {None} :
          Loop(u, l, c) => tasks'[t] = tasks[t]
  BY <1>0, LoopMove
<1>s. ASSUME NEW S, tasks' = Stopped(S) PROVE tasks'[t].loop = tasks[t].loop /\ tasks'[t].sim = tasks[t].sim
  BY <1>0, <1>s DEF Stopped, Tasks
<1>1. CASE UNCHANGED tasks
  BY <1>1
<1>2. CASE \E c \in Call : (\E v \in Vehicle : BeginAgent(c, v)) \/ Stop(c)
  BY <1>1, <1>2, <1>s DEF BeginAgent, Stop
<1>3. CASE AgentStop
  BY <1>3, <1>s DEF AgentStop
<1>4. CASE \E c \in Call : RunAgent(c) \/ RunSimulator(c)
  BY <1>0, <1>1, <1>4 DEF RunAgent, RunSimulator, NewTask, TasksOK, Ran
<1>5. ASSUME NEW u \in Task, Boot(u) PROVE tasks'[t].loop = tasks[t].loop /\ tasks'[t].sim = tasks[t].sim
  BY <1>0, <1>5 DEF Boot, TasksOK, Tasks
<1>6. ASSUME NEW u \in Task, Exit(u) \/ Crash(u) PROVE tasks'[t] = tasks[t]
  <2>1. Gone(u)
    BY <1>6 DEF Exit, Crash
  <2>2. t = u => tasks'[t].loop = "idle"
    BY <1>0, <2>1 DEF Gone, TasksOK, Tasks
  <2> QED
    BY <1>0, <2>1, <2>2 DEF Gone, TasksOK
<1>7. ASSUME NEW u \in Task, Consume(u) \/ Drive(u) \/ Drove(u) \/ MarkCompleted(u)
      PROVE  tasks'[t] = tasks[t]
  <2>1. u \in Ran /\ tasks[u].sim \in Call
    BY <1>7, <1>l DEF Consume, Drive, Drove, MarkCompleted, Inv, LoopsNamed
  <2> QED
    BY <1>7, <1>r, <2>1 DEF Consume, Drive, Drove, MarkCompleted, Rest
<1>8. ASSUME NEW u \in Task, LoseLoop(u) \/ OwnTripsEnd(u)
      PROVE  tasks'[t] = tasks[t]
  <2>1. u \in Ran /\ (Loop(u, "idle", None) \/ Loop(u, "lost", None))
    BY <1>8 DEF LoseLoop, OwnTripsEnd, At, Runs, Rest
  <2> QED
    BY <1>r, <2>1
<1> QED
  BY <1>1, <1>2, <1>3, <1>4, <1>5, <1>6, <1>7, <1>8 DEF Next, CallStep, LoopStep, Begin, Pick, WriteIntent,
     PutRow, StopRow, Observe, Reconcile, vars

\* The agent a row records is the one its call knew when it put the row.
LEMMA RecordedAgent ==
    ASSUME Inv, Next \/ UNCHANGED vars, NEW c \in Call, Exists(c)'
    PROVE  \/ Exists(c) /\ rows'[c].agent = rows[c].agent
           \/ PutRow(c) /\ rows'[c].agent = calls[c].agent
<1>0. RowsOK
  BY DEF Inv, TypeOK, RowsOK
<1>s. ASSUME NEW d \in Call, Exists(d), NEW s, SetStatus(d, s)
      PROVE  Exists(c) /\ rows'[c].agent = rows[c].agent
  <2>1. rows[d] \in Rows
    BY <1>0, <1>s DEF Exists, RowsOK
  <2>2. [rows[d] EXCEPT !.status = s].agent = rows[d].agent
    BY <2>1 DEF Rows
  <2>3. rows' = [rows EXCEPT ![d] = [rows[d] EXCEPT !.status = s]]
    BY <1>0, <1>s DEF SetStatus, RowsOK
  <2> QED
    BY <1>0, <1>s, <2>2, <2>3 DEF RowsOK, Exists
<1>1. CASE UNCHANGED rows
  BY <1>1 DEF Exists
<1>2. ASSUME NEW d \in Call, PutRow(d)
      PROVE  \/ Exists(c) /\ rows'[c].agent = rows[c].agent
             \/ PutRow(c) /\ rows'[c].agent = calls[c].agent
  BY <1>0, <1>1, <1>2 DEF PutRow, RowsOK, Exists
<1>3. ASSUME NEW d \in Call, StopRow(d) \/ Reconcile(d)
      PROVE  Exists(c) /\ rows'[c].agent = rows[c].agent
  <2>1. Exists(d)
    BY <1>3 DEF StopRow, Reconcile, Inv, NotYet, CompletedCause
  <2>2. UNCHANGED rows \/ \E s : SetStatus(d, s)
    BY <1>3 DEF StopRow, Reconcile
  <2>3. CASE UNCHANGED rows
    BY <2>3 DEF Exists
  <2> QED
    BY <1>s, <2>1, <2>2, <2>3
<1>4. ASSUME NEW t \in Task, Drive(t) \/ MarkCompleted(t)
      PROVE  Exists(c) /\ rows'[c].agent = rows[c].agent
  <2>1. tasks[t].sim \in Call
    BY <1>4 DEF Drive, MarkCompleted, At, Runs, Inv, LoopsNamed
  <2>2. UNCHANGED rows \/ (Exists(tasks[t].sim) /\ \E s : SetStatus(tasks[t].sim, s))
    BY <1>4 DEF Drive, MarkCompleted, Pending
  <2>3. CASE UNCHANGED rows
    BY <2>3 DEF Exists
  <2> QED
    BY <1>s, <2>1, <2>2, <2>3
<1> QED
  BY <1>1, <1>2, <1>3, <1>4 DEF Next, CallStep, LoopStep, Begin, BeginAgent, Pick, RunAgent, RunSimulator,
     WriteIntent, Stop, Observe, AgentStop, Boot, Exit, Crash, Gone, LoseLoop, OwnTripsEnd, Poll, Consume,
     Drove, vars

\* A simulation's trips are asked for by its own call.
LEMMA OrderedMove ==
    ASSUME Inv, Next \/ UNCHANGED vars, NEW c \in Call
    PROVE  ordered'[c] = ordered[c] \/ WriteIntent(c) \/ RunSimulator(c)
<1>0. ordered \in [Call -> Nat]
  BY DEF Inv, TypeOK
<1>1. CASE \E d \in Call : WriteIntent(d)
  BY <1>0, <1>1 DEF WriteIntent
<1>2. CASE \E d \in Call : RunSimulator(d)
  BY <1>0, <1>2 DEF RunSimulator
<1>3. CASE \E d \in Call : \/ \E v \in Vehicle : Begin(d, v) \/ BeginAgent(d, v)
                           \/ Pick(d) \/ RunAgent(d) \/ PutRow(d) \/ Stop(d) \/ StopRow(d)
                           \/ Observe(d) \/ Reconcile(d)
  BY <1>3 DEF Begin, BeginAgent, Pick, RunAgent, PutRow, Stop, StopRow, Observe, Reconcile, history
<1>4. CASE AgentStop \/ \E t \in Task : Boot(t) \/ Exit(t) \/ Crash(t) \/ LoseLoop(t) \/ LoopStep(t)
  BY <1>4 DEF AgentStop, Boot, Exit, Crash, Gone, LoseLoop, LoopStep, OwnTripsEnd, Poll, Consume, Drive,
     Drove, MarkCompleted, history
<1>5. CASE UNCHANGED vars
  BY <1>5 DEF vars, history
<1> QED
  BY <1>1, <1>2, <1>3, <1>4, <1>5 DEF Next, CallStep

LEMMA OwnStep == ASSUME Inv, OwnInv, Next \/ UNCHANGED vars PROVE OwnInv'
<1>0. Ran' = RanNext /\ Ran \subseteq RanNext /\ \A t \in Ran : Same(t)
  BY TasksKept
<1>v. \A c \in Call : calls[c] # NoCall => calls'[c] # NoCall /\ calls'[c].vehicle = calls[c].vehicle
  BY VehiclesKept
<1>t. \A t \in Ran : t \in RanNext /\ tasks'[t].vehicle = tasks[t].vehicle
  BY <1>0 DEF Same
<1>c. CallsOK /\ NoCall.step = "none"
  BY DEF Inv, TypeOK, CallsOK, NoCall
<1>1. TripsOnOwnVehicle'
  <2> SUFFICES ASSUME NEW t \in RanNext, tasks'[t].loop \notin {"idle", "lost"}
               PROVE  /\ calls'[tasks'[t].sim] # NoCall
                      /\ calls'[tasks'[t].sim].vehicle = tasks'[t].vehicle
    BY <1>0 DEF TripsOnOwnVehicle
  <2> DEFINE Served(c) == c \in Call /\ calls[c] # NoCall /\ calls[c].vehicle = tasks'[t].vehicle
  <2>a. \A c : Served(c) /\ tasks'[t].sim = c =>
              /\ calls'[tasks'[t].sim] # NoCall
              /\ calls'[tasks'[t].sim].vehicle = tasks'[t].vehicle
    BY <1>v
  <2>b. t \in Ran /\ tasks[t].loop \notin {"idle", "lost"} => Served(tasks[t].sim)
    BY <1>t DEF OwnInv, TripsOnOwnVehicle, Inv, LoopsNamed
  <2>1. CASE \E u \in Task : Poll(u)
    <3>1. PICK u \in Task : Poll(u)
      BY <2>1
    <3>2. u \in Ran /\ tasks[u].vehicle \in Vehicle /\ TasksOK
      BY <3>1, RanTyped DEF Poll, At, Runs, Inv, TypeOK, TasksOK, Tasks
    <3>3. PICK c \in Call : /\ Loop(u, "found", c) /\ calls[c] # NoCall
                            /\ calls[c].vehicle = tasks[u].vehicle
      <4>1. CASE intents[tasks[u].vehicle] # None /\ Loop(u, "found", intents[tasks[u].vehicle])
        BY <3>2, <4>1 DEF Inv, TypeOK, SlotOwned
      <4>2. CASE \E c \in Call : /\ ordered[c] > 0 /\ calls[c].vehicle = tasks[u].vehicle
                                 /\ Loop(u, "found", c)
        BY <4>2 DEF OwnInv, Asked
      <4> QED
        BY <3>1, <4>1, <4>2 DEF Poll
    <3>4. RanNext = Ran /\ tasks'[u].sim = c /\ \A w \in Task : w # u => tasks'[w] = tasks[w]
      BY <3>2, <3>3, LoopMove
    <3>5. CASE t = u
      BY <1>t, <2>a, <3>2, <3>3, <3>4, <3>5
    <3>6. CASE t # u
      BY <2>a, <2>b, <3>4, <3>6 DEF RanNext
    <3> QED
      BY <3>5, <3>6
  <2>2. CASE AllCalm /\ ~ \E u \in Task : Poll(u)
    <3>1. t \in Ran /\ Calm(t)
      BY <2>2 DEF AllCalm
    <3>2. tasks'[t].loop = "found" => tasks'[t].loop = tasks[t].loop /\ tasks'[t].sim = tasks[t].sim
      BY <2>2, <3>1, FoundByPoll
    <3> QED
      BY <2>a, <2>b, <3>1, <3>2 DEF Calm
  <2>3. CASE \E u \in Task : TakesMove(u) \/ DriveMove(u)
    <3>1. t \in Ran /\ t \in Task
      BY <2>3 DEF TakesMove, DriveMove, RanNext
    <3>2. tasks[t].loop \notin {"idle", "lost"} /\ tasks'[t].sim = tasks[t].sim
      BY <2>3, <3>1 DEF TakesMove, DriveMove
    <3> QED
      BY <2>a, <2>b, <3>1, <3>2
  <2>4. CASE \E c \in Call, u \in Task : AgentMove(c, u)
    BY <2>4, <2>a, <2>b DEF AgentMove
  <2>5. ASSUME NEW c \in Call, NEW u \in Task, SimulatorMove(c, u)
        PROVE  /\ calls'[tasks'[t].sim] # NoCall
               /\ calls'[tasks'[t].sim].vehicle = tasks'[t].vehicle
    <3>1. CASE t = u
      <4>1. calls[c] # NoCall
        BY <2>5, InProgress DEF SimulatorMove, NewSimulator, RunSimulator
      <4> QED
        BY <2>5, <2>a, <3>1, <4>1 DEF SimulatorMove
    <3>2. CASE t # u
      BY <2>5, <2>a, <2>b, <3>2 DEF SimulatorMove
    <3> QED
      BY <3>1, <3>2
  <2> QED
    BY <2>1, <2>2, <2>3, <2>4, <2>5, TaskMove
<1>2. CallsKnowOwn'
  <2> DEFINE OwnNext(c, t) == t \in RanNext /\ tasks'[t].vehicle \in Alike[calls'[c].vehicle]
  <2> SUFFICES ASSUME NEW c \in Call, calls'[c] # NoCall
               PROVE  /\ calls'[c].task # None => OwnNext(c, calls'[c].task)
                      /\ calls'[c].agent # None => OwnNext(c, calls'[c].agent)
    BY <1>0 DEF CallsKnowOwn, OwnTask, NoCall, None
  <2>1. calls[c] # NoCall =>
           /\ calls[c].task # None => OwnTask(c, calls[c].task)
           /\ calls[c].agent # None => OwnTask(c, calls[c].agent)
    BY DEF OwnInv, CallsKnowOwn
  <2>2. calls[c] # NoCall => \A t : OwnTask(c, t) => OwnNext(c, t)
    BY <1>t, <1>v DEF OwnTask
  <2>3. CASE Keeps(c)
    BY <2>1, <2>2, <2>3 DEF Keeps
  <2>4. CASE Finds(c)
    BY <1>t, <2>4 DEF Finds
  <2>5. CASE RunsOne(c)
    BY <1>v, <2>1, <2>2, <2>5 DEF RunsOne
  <2> QED
    BY <2>3, <2>4, <2>5, KnownMove
<1>3. RowsRecordCall'
  <2> SUFFICES ASSUME NEW c \in Call, Exists(c)'
               PROVE  rows'[c].task = calls'[c].task /\ rows'[c].agent = calls'[c].agent
    BY DEF RowsRecordCall
  <2>1. rows'[c].task = calls'[c].task
    BY NotYetStep DEF NotYet
  <2>2. CASE Exists(c) /\ rows'[c].agent = rows[c].agent
    <3>1. rows[c].agent = calls[c].agent /\ calls[c] # NoCall /\ calls[c].step \in {"put", "ended"}
      BY <2>2 DEF OwnInv, RowsRecordCall, Inv, NotYet
    <3>2. Keeps(c)
      BY <3>1, KnownMove DEF Finds, RunsOne
    <3> QED
      BY <2>1, <2>2, <3>1, <3>2 DEF Keeps
  <2>3. CASE PutRow(c) /\ rows'[c].agent = calls[c].agent
    <3>1. calls[c].step = "put" /\ calls[c] # NoCall
      BY <2>3, InProgress DEF PutRow, Step
    <3>2. Keeps(c)
      BY <3>1, KnownMove DEF Finds, RunsOne
    <3> QED
      BY <2>1, <2>3, <3>1, <3>2 DEF Keeps
  <2> QED
    BY <2>2, <2>3, RecordedAgent
<1>4. Asked'
  <2> SUFFICES ASSUME NEW c \in Call, ordered'[c] > 0 PROVE calls'[c] # NoCall
    BY DEF Asked, NoCall
  <2>0. ordered \in [Call -> Nat]
    BY DEF Inv, TypeOK
  <2>1. CASE ordered'[c] = ordered[c]
    BY <1>v, <2>1 DEF OwnInv, Asked
  <2>2. ASSUME NEW d \in Call, WriteIntent(d) \/ RunSimulator(d), d = c
        PROVE  calls'[c] # NoCall
    BY <1>v, <2>2, InProgress DEF WriteIntent, RunSimulator
  <2>3. ordered'[c] = ordered[c] \/ \E d \in Call : d = c /\ (WriteIntent(d) \/ RunSimulator(d))
    BY <2>0, OrderedMove
  <2> QED
    BY <2>1, <2>2, <2>3
<1> QED
  BY <1>1, <1>2, <1>3, <1>4 DEF OwnInv

LEMMA OwnInit == Init => OwnInv
<1> SUFFICES ASSUME Init PROVE OwnInv
  OBVIOUS
<1>1. Ran = {} /\ \A c \in Call : calls[c] = NoCall /\ rows[c] = NoRow /\ ordered[c] = 0
  BY DEF Init, Ran
<1> QED
  BY <1>1 DEF OwnInv, TripsOnOwnVehicle, CallsKnowOwn, RowsRecordCall, Asked, Exists

\* The strengthening, with the invariant of all of the control plane, is inductive.
THEOREM OwnInductive == Spec => []OwnInv
<1>1. Inv /\ OwnInv /\ [Next]_vars => OwnInv'
  BY OwnStep
<1> QED
  BY OwnInit, <1>1, Inductive, PTL DEF Spec

\* A trip is polled, taken and driven, by agents and simulators, only by a task of
\* the vehicle its simulation was called for.
THEOREM OwnVehicle == Spec => []TripsOnOwnVehicle
BY OwnInductive, PTL DEF OwnInv

\* A stop call reaches only tasks of vehicles whose names begin with the name of its
\* own, whatever the row has become and however many simulations share the agent.
StopsAlike ==
    [][\A c \in Call : Stop(c) =>
          \A t \in Task : tasks'[t] # tasks[t] => tasks[t].vehicle \in Alike[calls[c].vehicle]]_vars

\* No step of a stop call changes a task of a vehicle that is named otherwise.
THEOREM StopReachesAlike == Spec => StopsAlike
<1>1. ASSUME Inv, OwnInv, [Next]_vars
      PROVE  [\A c \in Call : Stop(c) =>
                 \A t \in Task : tasks'[t] # tasks[t] => tasks[t].vehicle \in Alike[calls[c].vehicle]]_vars
  <2> SUFFICES ASSUME NEW c \in Call, Stop(c), NEW t \in Task, tasks'[t] # tasks[t]
               PROVE  tasks[t].vehicle \in Alike[calls[c].vehicle]
    OBVIOUS
  <2>1. t \in Ran /\ t \in {rows[c].task, rows[c].agent}
    BY DEF Stop, Stopped, Started
  <2>2. calls[c] # NoCall /\ rows[c].task = calls[c].task /\ rows[c].agent = calls[c].agent
    BY <1>1 DEF Stop, OwnInv, RowsRecordCall, Inv, NotYet
  <2>3. t # None
    BY ConstantTypes
  <2> QED
    BY <1>1, <2>1, <2>2, <2>3 DEF OwnInv, CallsKnowOwn, OwnTask
<1> QED
  BY Inductive, OwnInductive, <1>1, PTL DEF Spec, StopsAlike

=============================================================================
