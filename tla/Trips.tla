-------------------------------- MODULE Trips --------------------------------
(***************************************************************************)
(* The trips of one vehicle: the sink of the Flink trip processor, which   *)
(* opens, extends and closes them from the vehicle's messages, one message *)
(* at a time, and the hourly sweeper, which closes what the sink forgot.   *)
(* Both write the trips table, the sink whole items from a copy it read.   *)
(* The sink's cache is lost at a restart, and reads may lag behind writes. *)
(***************************************************************************)
EXTENDS Naturals, FiniteSets

CONSTANTS
    MaxTrips,    \* bound: trip ids
    Horizon,     \* bound: clock
    LastFrame,   \* bound: messages arrive no later than this
    MaxFaults,   \* bound: failed calls
    MaxRestarts, \* bound: restarts of the sink
    Scenarios,   \* what is sent, whether reads may lag, trips on one Query page,
                 \* bound on messages
    Delays,      \* how late a message may arrive
    Fresh, Gap, Age, Stuck   \* 5 min, 10 min, 30 min and 2 h, in clock ticks

Trip == 1..MaxTrips
None == 0
Nil  == Horizon + 1     \* no such time attribute

ASSUME TripsAssumption ==
    /\ MaxTrips \in Nat \ {0} /\ Horizon \in Nat /\ MaxFaults \in Nat
    /\ MaxRestarts \in Nat
    /\ Scenarios \subseteq [path : {"signal", "canonical"}, lag : BOOLEAN, page : Nat, frames : Nat]
    /\ Delays \subseteq Nat
    /\ Fresh \in Nat /\ Gap \in Nat /\ Age \in Nat /\ Stuck \in Nat
    /\ LastFrame \in Nat /\ LastFrame + Stuck < Horizon

Times   == 0..Horizon
Row     == [status : {"ACTIVE", "COMPLETED"}, start : Times, updated : Times \cup {Nil},
            fix : Times \cup {Nil}, driver : BOOLEAN, swept : BOOLEAN]
NoTrip  == [status |-> "absent", start |-> 0, updated |-> Nil, fix |-> Nil,
            driver |-> FALSE, swept |-> FALSE]
Steps   == {"idle", "backfill", "route", "finish", "gap", "forget", "stale", "create", "expire"}
Work    == [step : Steps, trip : Trip \cup {None}, row : Row \cup {NoTrip}, fresh : Row \cup {NoTrip}]
Idle    == [step |-> "idle", trip |-> None, row |-> NoTrip, fresh |-> NoTrip]

VARIABLES
    path,       \* what the vehicle sends: "signal" or "canonical" messages
    lag,        \* may reads of the table lag behind?
    page,       \* how many trips of the vehicle one page of a Query holds
    now,        \* the clock, in ticks
    rows,       \* the trips table, by trip id
    replica,    \* what a lagging read of it returns
    recent,     \* trips that were ACTIVE since the last tick
    cache,      \* activeTrips: the sink's open trip of the vehicle, or None
    redis,      \* vehicle:<id>:activeTrip, or None
    seen,       \* canonicalTripDedup
    work,       \* the message being handled: its next write
    sweep,      \* trips the running sweep has still to close
    missed,     \* history: ignition-on looked for the ACTIVE trip and did not see it
    frames,     \* messages still to come
    faults, restarts

env   == <<lag, path, page>>
table == <<rows, recent>>
sink  == <<cache, redis, seen, work>>
vars  == <<env, now, table, replica, sink, sweep, missed, frames, faults, restarts>>

Init ==
    /\ \E sc \in Scenarios :
          path = sc.path /\ lag = sc.lag /\ page = sc.page /\ frames = sc.frames
    /\ now = 0
    /\ rows = [t \in Trip |-> NoTrip] /\ replica = rows
    /\ recent = {}
    /\ cache = None /\ redis = None /\ seen = {} /\ work = Idle
    /\ sweep = {}
    /\ missed = FALSE
    /\ faults = 0 /\ restarts = 0

Fault == faults < MaxFaults /\ faults' = faults + 1
Active(row) == row.status = "ACTIVE"
-----------------------------------------------------------------------------
(* What the sink reads: getExistingTrip and getActiveTripForVehicle. *)

Views == IF lag THEN {rows, replica} ELSE {rows}
Look(t) == IF t = None THEN {NoTrip} ELSE {v[t] : v \in Views}

ActiveIn(v) == {t \in Trip : Active(v[t])}
Open        == ActiveIn(rows)

\* The Query is not continued: its one page holds all trips of the vehicle or, of
\* a longer history, whichever trips come first and fit.
History(v) == {t \in Trip : v[t] # NoTrip}
Pages(v) ==
    IF Cardinality(History(v)) <= page THEN {History(v)}
    ELSE {P \in SUBSET History(v) : Cardinality(P) = page}

\* Of the ACTIVE trips on the page the one with the latest start, or none.
Nothing == [trip |-> None, row |-> NoTrip]
FoundIn(v, P) ==
    IF ActiveIn(v) \cap P = {} THEN {Nothing}
    ELSE {[trip |-> t, row |-> v[t]] :
             t \in {t \in ActiveIn(v) \cap P : \A u \in ActiveIn(v) \cap P : v[u].start <= v[t].start}}
Found == UNION {UNION {FoundIn(v, P) : P \in Pages(v)} : v \in Views}

Overlooks(f) == f.trip = None /\ Open # {}

-----------------------------------------------------------------------------
(* What a message makes the sink do: read, then leave its next write in work. *)

\* FleetWise telemetry is tagged with a trip that was ACTIVE a minute ago.
Messages ==
    [ts : {now - d : d \in {e \in Delays : e <= now}},
     moved : BOOLEAN, driver : BOOLEAN, trip : recent \cup {None}]

Do(step, t, row, fresh) == work' = [step |-> step, trip |-> t, row |-> row, fresh |-> fresh]
Drop == work' = Idle

Closed(row)      == [row EXCEPT !.status = "COMPLETED"]
Extended(row, m) == [row EXCEPT !.updated = m.ts, !.fix = IF m.moved THEN m.ts ELSE @]

\* Mutant: the check that the trip was found is missing.
RouteUnchecked(m, t, row, step) ==
    IF row.fix # Nil /\ m.ts > row.fix + Gap THEN Do("gap", t, Closed(row), NoTrip)
    ELSE Do(step, t, Extended(row, m), NoTrip)

\* updateTripRoute: close the trip on a gap, else put the copy back extended.
Route(m, t, row, step) ==
    IF row = NoTrip THEN Drop
    ELSE IF row.fix # Nil /\ m.ts > row.fix + Gap THEN Do("gap", t, Closed(row), NoTrip)
    ELSE Do(step, t, Extended(row, m), NoTrip)

Complete(t, row) == IF row = NoTrip THEN Drop ELSE Do("finish", t, Closed(row), NoTrip)

\* m.driver also stands for a driver found in the drivers table.
NewRow(m) ==
    [status |-> "ACTIVE", start |-> m.ts, updated |-> Nil, fix |-> IF m.moved THEN m.ts ELSE Nil,
     driver |-> m.driver, swept |-> FALSE]

IsStale(row) ==
    \/ now > row.start + Age
    \/ row.updated # Nil /\ now > row.updated + Fresh

TooLate(m) == now > m.ts + Fresh

\* A new random id, unless the message names a trip.
Unused == {t \in Trip : rows[t] = NoTrip /\ replica[t] = NoTrip}
NewIds(m) == IF m.trip # None THEN {m.trip} ELSE {t \in Unused : \A u \in Unused : t <= u}

\* Redis is taken to be reachable: nothing modelled depends on its copy.
Tag(t) == redis' = t

Create(m, t) ==
    /\ cache' = t /\ Tag(t)
    /\ Do("create", t, NoTrip, NewRow(m))

\* The trip is still alive: cache it, and give it the driver it lacks.
Adopt(m, f) ==
    /\ cache' = f.trip /\ UNCHANGED redis
    /\ Route(m, f.trip, f.row, IF m.driver /\ ~f.row.driver THEN "backfill" ELSE "route")

\* Close the stale trip and make a new one, unless the message is too late.
Replace(m, f) ==
    /\ cache' = None /\ UNCHANGED redis
    /\ Do("stale", f.trip, Closed(f.row), IF TooLate(m) THEN NoTrip ELSE NewRow(m))

\* Mutant: without a cached trip a new one is made at once.
OpenAtOnce(m, f) ==
    \/ TooLate(m) /\ Drop /\ cache' = None /\ UNCHANGED redis
    \/ ~TooLate(m) /\ \E t \in NewIds(m) : Create(m, t)

\* Ignition on without a cached trip: what the table's ACTIVE trip decides.
OpenOrAdopt(m, f) ==
    \/ f.trip # None /\ ~IsStale(f.row) /\ Adopt(m, f)
    \/ f.trip # None /\ IsStale(f.row) /\ Replace(m, f)
    \/ f.trip = None /\ TooLate(m) /\ Drop /\ cache' = None /\ UNCHANGED redis
    \/ f.trip = None /\ ~TooLate(m) /\ \E t \in NewIds(m) : Create(m, t)

Handles(p) ==
    /\ path = p /\ work = Idle
    /\ now <= LastFrame /\ frames > 0
    /\ frames' = frames - 1
    /\ UNCHANGED <<env, now, table, replica, sweep, restarts>>

IgnitionOn(m) ==
    /\ Handles("signal") /\ UNCHANGED seen
    /\ \/ /\ \E row \in Look(cache) \ {NoTrip} : Route(m, cache, row, "route")
          /\ UNCHANGED <<cache, redis, missed, faults>>
       \/ \E f \in Found \cup {Nothing} :
             /\ OpenOrAdopt(m, f) /\ missed' = (missed \/ Overlooks(f))
             /\ \/ NoTrip \in Look(cache) /\ f \in Found /\ UNCHANGED faults
                \/ cache # None /\ f \in Found /\ Fault        \* the cached trip cannot be read
                \/ NoTrip \in Look(cache) /\ f = Nothing /\ Fault   \* the index cannot be read

\* Ignition off: close the cached trip, else the table's, else the message's.
\* A trip that cannot be read stays open.
CloseTrip(t) ==
    \/ t = None /\ Drop /\ UNCHANGED <<redis, faults>>
    \/ t # None /\ Tag(None) /\ (\E row \in Look(t) : Complete(t, row)) /\ UNCHANGED faults
    \/ t # None /\ Tag(None) /\ Drop /\ Fault

Close(m) ==
    /\ cache' = None
    /\ \/ \E f \in Found :
             CloseTrip(IF cache # None THEN cache ELSE IF f.trip # None THEN f.trip ELSE m.trip)
       \/ /\ cache = None /\ m.trip # None /\ Fault      \* the index cannot be read
          /\ Tag(None) /\ \E row \in Look(m.trip) : Complete(m.trip, row)
    /\ UNCHANGED missed

IgnitionOff(m) == Handles("signal") /\ Close(m) /\ UNCHANGED seen

\* No ignition state: extend the table's ACTIVE trip, if there is one.
Other(m) ==
    /\ Handles("signal")
    /\ \E f \in Found : Route(m, f.trip, f.row, "route")
    /\ UNCHANGED <<seen, cache, redis, missed, faults>>

\* A canonical event with dedup key k, from which its trip's id is made.
FirstTime(k) == Handles("canonical") /\ k \notin seen /\ seen' = seen \cup {k}

Duplicate(k) == Handles("canonical") /\ k \in seen /\ UNCHANGED <<sink, missed, faults>>

\* cms.ignition_state_change on, or cms.trip_report open.
CanonicalOpen(m, k) ==
    /\ FirstTime(k)
    /\ \/ /\ \E row \in Look(cache) \ {NoTrip} : Route(m, cache, row, "route")
          /\ UNCHANGED <<cache, redis, faults>>
       \/ NoTrip \in Look(cache) /\ Create(m, k) /\ UNCHANGED faults
       \/ cache # None /\ Fault /\ Create(m, k)
    /\ UNCHANGED missed

\* cms.ignition_state_change off.
CanonicalOff(m, k) == FirstTime(k) /\ Close(m)

\* cms.trip_report close.
CanonicalClose(k) ==
    /\ FirstTime(k)
    /\ cache' = None /\ Tag(None)
    /\ \/ (\E row \in Look(k) : Complete(k, row)) /\ UNCHANGED faults
       \/ Drop /\ Fault
    /\ UNCHANGED missed

Receive(m) ==
    \/ IgnitionOn(m) \/ IgnitionOff(m) \/ Other(m)
    \/ m.trip = None /\ \E k \in Trip :
          Duplicate(k) \/ CanonicalOpen(m, k) \/ CanonicalOff(m, k) \/ CanonicalClose(k)

-----------------------------------------------------------------------------
(* The sink's writes.  One that fails leaves the table as it is. *)

Store(t, row) ==
    /\ rows' = [rows EXCEPT ![t] = row]
    /\ recent' = IF Active(row) THEN recent \cup {t} ELSE recent

Stored(t, row)   == Store(t, row) /\ UNCHANGED faults
Refused          == UNCHANGED table /\ Fault
Writes(step)     == work.step = step /\ UNCHANGED <<env, now, replica, seen, sweep, missed, frames, restarts>>
Then(step)       == work' = [work EXCEPT !.step = step]

\* The whole item goes back, as it was when it was read, plus the extension.
Put ==
    /\ Writes("route") /\ Drop
    /\ Stored(work.trip, work.row) \/ Refused
    /\ UNCHANGED <<cache, redis>>

Backfill ==
    /\ Writes("backfill") /\ Then("route")
    /\ Stored(work.trip, [rows[work.trip] EXCEPT !.driver = TRUE]) \/ Refused
    /\ UNCHANGED <<cache, redis>>

Finish ==
    /\ Writes("finish") /\ Drop
    /\ Stored(work.trip, work.row) \/ Refused
    /\ UNCHANGED <<cache, redis>>

\* A gap: the cache and Redis forget the trip once it is closed.
FinishOnGap ==
    /\ Writes("gap")
    /\ \/ Stored(work.trip, work.row) /\ cache' = None /\ Tag(None)
       \/ Refused /\ UNCHANGED <<cache, redis>>
    /\ Drop

\* The message that closed the stale trip now carries its id, and the new trip
\* gets that id.
FinishStale ==
    /\ Writes("stale")
    /\ Stored(work.trip, work.row) \/ Refused
    /\ \/ work.fresh = NoTrip /\ Drop /\ Tag(None) /\ UNCHANGED cache
       \/ /\ work.fresh # NoTrip /\ Then("create")
          /\ cache' = work.trip /\ Tag(work.trip)

\* Mutant: the put of a new trip has no condition.
PutNewAlways ==
    /\ Writes("create")
    /\ Stored(work.trip, work.fresh) \/ Refused
    /\ IF path = "signal" THEN Then("expire") ELSE Drop
    /\ UNCHANGED <<cache, redis>>

\* Conditional on attribute_not_exists(tripId); a refusal is only logged.
PutNew ==
    /\ Writes("create")
    /\ \/ rows[work.trip] = NoTrip /\ Stored(work.trip, work.fresh)
       \/ rows[work.trip] # NoTrip /\ UNCHANGED <<table, faults>>
       \/ Refused
    /\ IF path = "signal" THEN Then("expire") ELSE Drop
    /\ UNCHANGED <<cache, redis>>

\* The timeout at the end of the ignition-on branch.
Expire ==
    /\ Writes("expire")
    /\ \E row \in Look(work.trip) :
          IF row # NoTrip /\ now > row.start + Age
          THEN cache' = None /\ Tag(None) /\ Complete(work.trip, row)
          ELSE Drop /\ UNCHANGED <<cache, redis>>
    /\ UNCHANGED <<table, faults>>

SinkStep == Put \/ Backfill \/ Finish \/ FinishOnGap \/ FinishStale \/ PutNew \/ Expire

\* The job restarts behind the newest message, without cache or dedup map.
Restart ==
    /\ restarts < MaxRestarts /\ restarts' = restarts + 1
    /\ cache' = None /\ seen' = {} /\ work' = Idle
    /\ UNCHANGED <<env, now, table, replica, redis, sweep, missed, frames, faults>>

-----------------------------------------------------------------------------
(* The sweeper. *)

\* Mutant: a trip that was never extended has no last sign of life.
LastUpdate(row) == row.updated

LastSeen(row) == IF row.updated = Nil THEN row.start ELSE row.updated

IsStuck(row) == Active(row) /\ now > LastSeen(row) + Stuck

Sweep ==
    /\ sweep = {}
    /\ \E v \in Views : sweep' = {t \in Trip : IsStuck(v[t])}
    /\ UNCHANGED <<env, now, table, replica, sink, missed, frames, faults, restarts>>

\* One unconditional update per stuck trip; one that fails is left to the next
\* sweep.
CloseStuck(t) ==
    /\ t \in sweep
    /\ sweep' = sweep \ {t}
    /\ Stored(t, [Closed(rows[t]) EXCEPT !.swept = TRUE]) \/ Refused
    /\ UNCHANGED <<env, now, replica, sink, missed, frames, restarts>>

-----------------------------------------------------------------------------
(* Time, and the replica that catches up.  A tick is minutes: a message is     *)
(* handled, and a write replicated, within the tick it falls in.             *)

Tick ==
    /\ now < Horizon /\ work = Idle /\ (lag => replica = rows)
    /\ now' = now + 1
    /\ recent' = ActiveIn(rows)
    /\ UNCHANGED <<env, rows, replica, sink, sweep, missed, frames, faults, restarts>>

Replicate(t) ==
    /\ replica[t] # rows[t]
    /\ replica' = [replica EXCEPT ![t] = rows[t]]
    /\ UNCHANGED <<env, now, table, sink, sweep, missed, frames, faults, restarts>>

-----------------------------------------------------------------------------

Next ==
    \/ \E m \in Messages : Receive(m)
    \/ SinkStep \/ Restart
    \/ Sweep \/ \E t \in Trip : CloseStuck(t) \/ (lag /\ Replicate(t))
    \/ Tick

Spec == Init /\ [][Next]_vars

\* The sink finishes a message it has started, the sweeper is scheduled hourly
\* and works through what it found, replicas catch up and time passes.
Fairness ==
    /\ WF_vars(SinkStep) /\ WF_vars(Sweep) /\ WF_vars(Tick)
    /\ \A t \in Trip : WF_vars(CloseStuck(t)) /\ WF_vars(lag /\ Replicate(t))

FairSpec == Spec /\ Fairness

-----------------------------------------------------------------------------
(* Properties. *)

TypeOK ==
    /\ lag \in BOOLEAN /\ path \in {"signal", "canonical"} /\ page \in Nat
    /\ now \in Times
    /\ rows \in [Trip -> Row \cup {NoTrip}] /\ replica \in [Trip -> Row \cup {NoTrip}]
    /\ recent \subseteq Trip
    /\ cache \in Trip \cup {None} /\ redis \in Trip \cup {None}
    /\ seen \subseteq Trip
    /\ work \in Work
    /\ sweep \subseteq Trip
    /\ missed \in BOOLEAN
    /\ frames \in Nat /\ faults \in 0..MaxFaults /\ restarts \in 0..MaxRestarts

\* With reads that do not lag, signals leave a vehicle with two ACTIVE trips only
\* once a lookup has come back without the one there was, because it failed or
\* because the page ended before it; nothing else does, whatever writes fail,
\* restarts happen and sweeps interleave.
OneOpen ==
    (path = "signal" /\ ~lag /\ ~missed) => \A t, u \in Open : t = u

\* With reads that do not lag, a trip the sink has closed is never reopened: its
\* whole-item puts only undo what the sweeper did meanwhile.
OwnClosureStays ==
    [][~lag => \A t \in Trip :
          (rows[t].status = "COMPLETED" /\ ~rows[t].swept) => rows'[t].status = "COMPLETED"]_vars

\* Whatever was lost, reordered or reopened: when the vehicle falls silent, no
\* trip stays ACTIVE for good.
TripsEnd == <>[](Open = {})

=============================================================================
