# Connected mobility guidance: TLA+ models and proofs

TLA+ specifications of the concurrent core of this repository: the enrollment of
vehicles with an OEM ("OEM1"), the connector that streams the OEM's feed, the remote
vehicle commands, the trips and fault history that stream processing derives from
telemetry, and the control plane of simulations. TLC checks small instances of every
module; TLAPS proves the safety properties for every value of the constants. Paths below
are relative to the repository root (`src/` here).

## 1. The system

Most of the repository is AWS Lambdas over shared DynamoDB tables, vehicles and
simulators that talk MQTT, and Flink jobs that turn telemetry into trips, alerts
and trouble codes. There are no locks: components meet in table rows, and every
guarantee rests on the condition of a single write, on the order of the writes of
one invocation, or on a retry.

| Component (code) | State | Operations | Talks to | What is hard |
|---|---|---|---|---|
| Bulk enroll, bulk unenroll (`services/connectors/oem1/admin_bulk_enroll`, `admin_bulk_unenroll`) | none of its own | answer a replay, submit to OEM1, put the request row, write each vehicle and membership | OEM1 by HTTP; tables `enrollment-requests`, `vehicles`, `fleet-enrollment` | partial writes, lost OEM1 answers, two calls with one client request id over a lagging index |
| Enrollment poller (`admin_enrollment_poller`) | in-flight requests, found by scan | scan, `status/latest`, apply each result, remove memberships, close requests | OEM1, the same three tables | works on a stale scan and page; one page only; killed half way |
| Status reconciliation (`admin_status_sync`, `admin_refresh_vehicle_status`, `auto_register.py`, `admin_add_vehicle`) | none | refresh, sync, register, add | OEM1 and its stream, `vehicles` | three more writers of the same rows; a deleted row may be created again |
| Streaming connector (`connector.py`, `streaming_consumer.py`, `checkpoint_store.py`, `shard_discovery.py`, `kafka_producer.py`) | a thread per shard with its attempts; a checkpoint per shard, in memory and in DynamoDB | list shards, open a stream, read, send, acknowledge, checkpoint, retry, abandon | OEM1 stream, Kafka, DynamoDB | a crash between acknowledgement and checkpoint, two tasks during a deployment, a send given up that still arrives, a shard nobody reads |
| Commands API (`services/commands/commands_lambda.py`) | table `commands` | send diagnostic and actuator commands, history, routines, geofences | IoT Core, `commands` | publishes first and records later; caller-chosen ids; a put that is sent again meets its own row |
| Command response handler (`services/commands/command_response_handler.py`) | table `commands` | PROGRESS, diagnostic and actuator answers, response body, DTC rows | IoT rules, `commands`, `dtc-history` | answers out of order, duplicated, from two responders |
| Vehicle side (`services/simulation/realtime_telemetry_simulator.py`, FleetWise agent) | scan in progress, token bucket | execute a command, PROGRESS per ECU, final answer inline or in S3 | MQTT | re-execution of a redelivered request |
| Simulation control (`services/simulation/lambda/simulation_lambda.py`) | table `simulations`, the trip intent in the vehicle's row | start (new tasks, or an intent for the agent that runs), agent start, stop, agent stop, status, list | ECS, DynamoDB, the presence loop | a listing that is stale when used, five writers of one row, agents shared by simulations and found by a prefix of a name, a list that reads 50 rows |
| Presence loop (`realtime_telemetry_simulator.py`) | the simulation it drives | poll an intent, consume it, mark running, drive, mark completed | the vehicle's row, `simulations` | agent and simulator loops on one vehicle, lost answers, a loop that exits while its task runs |
| Flink DTC and maintenance (`MaintenanceProcessor.java`), Mark Cleared (`main_api/index.py`) | messages handled and faults alerted since the start of the job; table `dtc-history` | judge a report, bump or create its row, alert; clear | Kafka, `dtc-history`, alerts | replays in event time, a lagging index, clears between two steps, lost answers |
| Flink trips (`TripProcessor.java`), trip sweeper (`services/trip-sweeper`) | the open trip per vehicle, cached; table `trips` | open, adopt, extend, close on ignition, gap or age; sweep | Kafka, `trips`, Redis | late messages, whole-item puts of old copies, restarts that forget, an unconditional second writer, a lookup of one Query page |
| Flink safety, geofence, campaign sync; OEM and FleetWise ingestion | cooldowns, membership, campaigns | map and detect | Kafka | mostly stateless or per-key |
| Connected-services subscriptions (`services/connectors/subscriptions`) | offers, subscriptions | offer, subscribe, revoke, provision | several tables | multi-table updates without transactions |
| Fleet intelligence, data processing, main API, WebSocket fan-out, connectivity API, recall poller, campaign manager, user interfaces, deployment stacks | configuration, caches, connections | queries, CRUD, publishing | all tables | little shared protocol state |

What makes each of these correct, in one line each:

- *Enrollment*: nothing waits for a request the poller cannot find; a request is
  closed only when OEM1 has decided all of its vehicles, and then for good; a
  vehicle is deleted only for a hard unenroll OEM1 has carried out, and its row shows
  an outcome only on OEM1's word; recorded
  requests close, and removed vehicles leave their fleet.
- *Commands*: a row shows the best answer, whatever the order of answers; one
  caller owns a correlation id; a success reaches the row and stays; what was
  executed is on record.
- *Reconciliation*: never undo what the poller decided, never recreate a deleted row.
- *Streaming connector*: no checkpoint passes an event that is not in the topic; first
  appearances keep the feed's order; every event arrives unless its start mode passes
  it over.
- *DTC lifecycle*: one active row per fault and source; a report changes the history
  once, however often it is delivered, and none is dropped that the history does not
  show; what was cleared stays cleared against reports from before the clear.
- *Trips*: at most one open trip per vehicle unless a lookup missed it; a closed trip is not reopened; a trip
  keeps its start; no trip stays open for good.
- *Simulations*: trips are driven at most as often as they were ordered; a finished
  simulation stays finished; a running row that is listed ends when its task does; no
  bus belongs to two agents unless one was picked blind; a vehicle's trips run on its
  own tasks.
- *Subscriptions*: a revoked subscriber loses every derived record.

`PROJECT.json` lists every component and, under `hazards`, what can go wrong at
which line.

## 2. Modules

| Module | Models |
|---|---|
| `EnrollmentTables` | the three tables of the enrollment Lambdas, the fcs code policy, and every write expression as a function from stored item to stored item |
| `Enrollment` | bulk enroll, bulk unenroll, the poller and OEM1 as interleaved steps over those tables, with the properties |
| `RequestLedger` | the abstract specification: accept, record, decide, close |
| `EnrollmentClaims` | what documents say and the code does not do |
| `EnrollmentProofs` | TLAPS proofs about `Enrollment` |
| `EnrollmentOpen` | `Enrollment` among all other writers of its tables, with proofs |
| `Commands` | the commands API, the vehicle and the response handler, with the properties |
| `CommandOutcome` | the abstract specification: one owner, an outcome that only improves |
| `CommandClaims` | what documents say and the code does not do |
| `CommandsProofs` | TLAPS proofs about `Commands` |
| `Feed` | the streaming connector: tasks, shard threads, checkpoints, Kafka, with the properties |
| `FeedLog` | the abstract specification: an ordered, at-least-once log per shard |
| `FeedProofs` | TLAPS proofs about `Feed` |
| `Trips` | the trip processor's sink, the sweeper and the trips table of one vehicle, with the properties |
| `TripClaims` | what a comment says and the code does not do |
| `TripsProofs` | TLAPS proofs about `Trips` |
| `Dtc` | the maintenance processor, operators and the fault history of one vehicle, with the properties |
| `DtcProofs` | TLAPS proofs about `Dtc` |
| `Simulations` | simulation calls, ECS tasks, presence loops and their rows, with the properties |
| `SimulationsProofs` | TLAPS proofs about `Simulations` |
| `MCEnrollment`, `MCCommands`, `MCFeed`, `MCTrips`, `MCDtc`, `MCSimulations` | the instances TLC checks |

The modules meet in the system, not in TLA+: `Feed` and the vehicle side produce the
telemetry `Trips` and `Dtc` consume, over Kafka topics that both model as messages
which may be lost to a restart, late, repeated or reordered; `Commands` leaves out the
fault rows `Dtc` owns because its writes to them are rejected.

### Enrollment

*State.* `vehicles`, `members` and `requests` are the three tables. A missing item
is a blank record with `exists` FALSE (or `type` "none"), because DynamoDB's
UpdateItem creates a missing item from the attributes it sets: an update that the
code does not condition on existence therefore creates a row here too
(`UnenrollingVehicle`, `PolledVehicle`). `oem` is OEM1's knowledge, `calls` the
local variables of each API invocation, `poller` those of the poller.

*Calls.* One action per stretch of code between two externally visible effects:
`EnrollArrive`/`UnenrollArrive` stand for authorisation, validation and the dedup
query; `Submit` for the POST; `Record` for the request row; `EnrollVehicle`,
`EnrollMember` and `UnenrollVehicle` for each write of the loop. `SubmitLost` is
OEM1 accepting a POST whose answer times out, after which the code writes nothing.
`CallEnds` may end a call between any two of these: a pre-flight failure or error
answer before the submission, an exception, a timeout or a crash anywhere.
Enroll's dedup lookup is by a global secondary index that lags (`IndexKey`);
unenroll's also fails open, so it may miss an indexed key. The vehicles of a batch
are written in any order, which includes the code's.

*Poller.* `PollScan`, `PollFetch`, `PollOpen`, `PollApply`, `PollDropMember` and
`PollClose` follow `handler` and `_process_batch`: the scan is read once, the page
once, and both grow stale while calls and OEM1 go on. There is one poller at a time,
because the deployment reserves concurrency 1 (`deployment/stacks/connector_stack.py`).
A page holds at most `PageSize` results (1000 in the code) and no second page is
read, so `Pages` may leave out any results beyond it. `PollAbandon` ends a cycle at
any point, keeping what it wrote. `all_terminal` is taken, as in the code, over the
results that came back, and code 3 does not store `oem1_fcs_code`. The code asks for
the requests in flight in batches of 100, each with its page; the model asks for all of
them at once, so that its condition on a page (`WholePages`) speaks of all that is in
flight. The vehicle write of bulk enroll is one step (`EnrollVehicle`), though an item
that exists already costs the code a refused put and then an update: the refused put
leaves the row as it was, and the update reads nothing of it.

*OEM1* is external, modelled from how the Lambdas use it and from
`mock_rest_server.py`: request ids are fresh and increasing; the codes of a VIN move
forward; a terminal code, or 1003, is the last word.

*Scope.* The enrollment properties are about what the bulk APIs and the poller do to
the three tables among themselves. Other code writes them too, and is not in the
model: add-vehicle stores the request id OEM1 names, which may belong to a POST whose
answer was lost and so have no request row; auto-registration, add-vehicle and the
seed scripts put memberships without any request; the Main API deletes vehicles and
memberships for its operators; a status sync or refresh may create a row again that
the poller has just deleted. With those writers `EnrollmentTracked` and
`DeletionAuthorised` hold only for the rows the modelled Lambdas wrote. What the
requests promise does not depend on them: nobody else writes `enrollment-requests`.
`EnrollmentOpen` says so, with steps that change vehicle rows and memberships in any
way (`OthersWriteTables`) and requests that others make of OEM1 (`OthersAskOem`). It
keeps the values of a row to those the model tells apart.

*Time.* `AgeOut` makes a request of `Slow` older than the poller's 8-day window.
A request outside `Slow` is one that OEM1 and the poller deal with in time.

### Commands

*State.* `rows` is the `commands` table; `published` the MQTT requests that went
out; `scan` the ECUs the sidecar has visited; `inbox` every answer a vehicle has
published; `pending` answers whose handler has yet to store the response body.
`handled` is a history variable for the properties: answers whose row update was
evaluated. Nothing reads it but the properties and the fairness condition.

*API.* Validation and authorisation change no state and come first (`SovdArrive`,
`ActuatorArrive`). Both paths publish before they put, and the diagnostic path still
validates `sessionId` in between (`SovdBadSession`). The diagnostic put is conditional
on the row being absent, the actuator put is not. A put may land while its answer is
lost (`PutUnanswered`); boto3 then sends it again, and a diagnostic caller is told 409
for the sake of its own row, unless the Lambda is gone by then. So a row may have an
owner that was not accepted, while `AcceptedOwnsRow` says that nobody else is accepted
then. `CallDies` ends a call after any step. A publish that fails after the broker took
it is the publish followed by `CallDies`.

*Vehicle.* A published request may be executed any number of times. Two executions
at once of one command publish the same set of answers as one after the other, so
one `scan` per id is enough.

*Delivery.* Answers stay in `inbox` and any of them may be handled next, again, or
never: that is every reordering, duplication and loss. `HandleSovd` is the row
update with its condition; `StoreBody` is the second, unconditional write of
`_persist_response_payload`, a step of its own because another handler may run in
between, and `LoseBody` its failure or omission (oversized body). The writes to
`dtc-history` that end the handler have no effect: their key is (vehicleId, dtcCode),
the table `deployment/stacks/storage_stack.py` deploys is keyed by timestamp, so the
call is rejected and only logged.

### Feed

*State.* `phase`, `attempt` and `position` are a shard thread's program counter, the
tenacity attempt number and its place in the stream; `memory` and `stored` the two
copies of a checkpoint; `late` the sends whose outcome nobody waits for any more;
`delivered` the topic. `skipped` is a history variable: what a start at LATEST passed
over.

*Steps.* `Launch` reads the shard list once and starts a thread per shard, as
`_run_concurrent_shards` does. `Open` is `_consume_shard` up to the stream, with the
three start modes; in auto mode a checkpoint that cannot be read counts as none
(`Checkpoints`). `Read`, `Acked` and `SendTimesOut` are the loop over events: the send
waits 30 s for the broker, and only its acknowledgement saves the checkpoint, in
memory always and in DynamoDB if the put succeeds. The retry decorator wraps the
thread's whole life, so `attempt` never goes back (`Fails`, `Retry`). `Exit` is the end
of main, after which ECS starts a task again; `Deploy` lets two tasks overlap and
`Kill` loses one at any step. Resharding is seen by nobody until a task starts: the
hourly poll of `shard_discovery.py` has no caller.

### Trips

*State.* One vehicle, since the topic is keyed by vehicle and the sink handles one
message at a time. `rows` is the trips table, `replica` what a lagging read returns,
`cache`, `redis` and `seen` the sink's memory, `work` the message in hand with the copy
of the row it will put back. `page` is how many trips of the vehicle one page of a
Query holds. `missed` and the `swept` mark of a row are history.

*Steps.* A `Receive` is everything the sink reads for a message, ending in its next
write; each write is a step of its own (`SinkStep`), so that the sweeper, which closes
without a condition, may run in between. `Put` writes the whole item back as it was
read, `PutNew` only if the id is free. `Restart` forgets cache and dedup map and, as
the source starts at `latest()`, whatever was on its way. Canonical events take their
trip id from the event, so the dedup key stands for it.

*Lookup.* `getActiveTripForVehicle` means to read "all trips for this vehicle", but reads
one page of the Query (1 MB) and does not follow `LastEvaluatedKey`, while
`storage_stack.py:196` speaks of vehicles with 600 trips and more. `Pages` are the pages
it may see: the whole history, or any `page` trips of a longer one, since the index does
not sort a vehicle's trips. A trip that is ACTIVE beyond the page is not found, and
ignition-on opens a second one next to it; `missed` records this, and a lookup that
failed. The sweeper's scan does follow its pages.

*Time.* A tick is minutes. A message is handled, and a write replicated, within the
tick it falls in; the thresholds 5 and 30 minutes and 2 hours, and the configured gap,
are scaled to `Fresh`, `Age`, `Stuck` and `Gap` in the code's order. `m.driver` also
stands for a driver the drivers table knows. Redis is taken to be reachable: nothing
modelled depends on its copy.

### Dtc

*State.* `rows` is the `dtc-history` table of one vehicle, by its timestamp key;
`handled` and `muted` the processor's in-memory sets; `work` the report in hand.
`applied`, `unsure` and `work.fence` are history for the properties.

*Steps.* `Receive` caps the report's time at the clock plus tolerance. `Lookup` reads
the lagging index: it may show a row of the fault as it was at any time, or none.
`Update` is the conditional bump, which may be applied with its answer lost; `Classify`
the consistent read after a failed condition; `Judge` the consistent read of the
partition that decides between fence, update and new row; `Put` the search for a free
key; `Announce` the alert. Reports without a code ("lamp") skip the lookup, as
`writeDtcHistoryRow` does. `Clear` is Mark Cleared of the main API, a read and an
update that may land on a row cleared meanwhile. The processor handles a vehicle's
reports one at a time, as the topic is keyed by vehicle, so of the three attempts at
the consistent read at most two are ever made.

*Scope.* `DropsOnlyReflected` is about reports that are taken up. A threshold report of
a muted fault ends before that, by design; two messages that differ but have one 32-bit
hash, of which `flatMap` drops the second, do not occur in the model. An alert that is
lost between raise and announcement is allowed: `AlertsFollow` says only that none is
made without a raise.

### Simulations

*State.* `tasks` are the ECS tasks with the state of their presence loop; `calls`
the local variables of start and agent-start invocations; `rows` the simulations
table; `intents` the one slot in each vehicle's row. `ordered`, `driven` and `blind`
are history.

*Calls.* `Begin`, `Pick`, `RunAgent`, `RunSimulator`, `WriteIntent` and `PutRow` follow
`_start` from one external call to the next; `BeginAgent` and `RunAgent` are
`_agent_start`. `Listings` are the answers `list_tasks` and `describe_tasks` can give:
tasks that stop, and some that start, are missing. An agent is found by
`VEHICLE_NAME.startswith(vin)`, and the vin falls back to the vehicle id where the row
has none, so a name that is a prefix of another finds, hands over to and stops the
other's agent: `Alike[v]` are the vehicles whose names begin with that of `v`.
`Stop`/`StopRow` and `Observe`/`Reconcile` are the reads and the unconditional writes of
`_stop`, `_status` and `_list`. The list scans one page of `ListPage` rows (50 in the
code), in an order of DynamoDB's (`ScanOrder`), and no further (`Listed`).

*Loops.* A start in fwe mode passes `--skip-mqtt --commands-mqtt` to the simulator, so
both kinds of tasks run a presence loop. A simulator first drives the trips it was
started for (loop "own", counted in `driven` when it is run) and then idles, polls and
drives the vehicle's intents like an agent; it never ends by itself, but when it is
stopped (`Exit`), crashes or cannot connect (`Crash`). The agent's loop runs in a
container of its own that is not essential: after a crash it is restarted and has
forgotten what it did, after an exit with 0, which a failed MQTT connect leads to, it is
not, and the task runs on without a loop (`LoseLoop`, loop "lost"). `Poll`, `Consume`,
`Drive`, `Drove` and `MarkCompleted` are one round of the loop, with its conditional
removal of the intent and its conditional marks. Faults are calls that fail, answers
that are lost with the client sending the call again, stale reads and crashes.

*Scope.* Rows do not expire in the model (their time to live is 24 hours), and starts in
mqtt_direct mode are left out.

## 3. What TLC checks

| Run | Instance | Distinct states | Shows |
|---|---|---|---|
| `EnrollmentSafety` | two vehicles in one batch, two calls sharing a client request id, one OEM1 request that may age, one aborted cycle | 1,076,000 | `ClosedOnlyWhenSettled` |
| `EnrollmentRaces` | one vehicle, two OEM1 requests, enroll and unenroll with hard and soft removal, one aborted cycle | 810,000 | `TypeOK`, `EnrollmentTracked`, `PollerHoldsOpenRequests`, `VerdictsFromOem`, `DeletionAuthorised`, `LedgerImplemented` |
| `EnrollmentLiveness` | one vehicle, one call that may be used again, two requests, one of which may age | 142,000 | `RequestsClose`, `RemovalReachesFleet` |
| `DiagnosticCommands` | two callers with the same correlation id, two ECUs, a refusal, an inline success and a partial result in S3, puts that land unanswered | 173,000 | `TypeOK`, `BestAnswerWins`, `ProgressIsLatest`, `BodyNeverBetter`, `AcceptedOwnsRow`, `OutcomeImplemented`, `SuccessReachesRow` |
| `ActuatorCommands` | two actuator commands, each with simulator and agent answers that disagree | 1,345,000 | `SuccessKept` |
| `FeedDelivery` | two tasks that may overlap, one shard with three events, one of them discarded, another shard that may appear, two attempts per thread, two faults, all start modes | 292,000 | `TypeOK`, `CheckpointCovers`, `InFeedOrder`, `EventsArrive`, `LogImplemented` |
| `TripsClosed` | three trip ids, up to four messages, signals with current reads, with a history longer than a page and with lagging reads, and canonical events, one failed call, one restart, a clock of seven ticks | 1,075,000 | `TypeOK`, `OneOpen`, `OwnClosureStays`, `TripsEnd` |
| `DtcReplay` | two reports of the faults of one of four cases, one restart, one failed call where one source reports, a clock of three ticks | 1,244,000 | `TypeOK`, `OneActive`, `AppliedOnce`, `AlertsFollow`, `RowsKept`, `ClearHolds`, `DropsOnlyReflected` |
| `SimulationControl` | three calls on two vehicles, one of whose names begins with the other, in four scenarios, three tasks, a list of two rows, one stop, one fault | 160,000 | `TypeOK`, `DrivenAsOrdered`, `CompletedMeansOver`, `BusesDistinct`, `FinishedStays`, `RunningEnds`, `IntentServed` |

*Bounds: enrollment and commands.* Two vehicles are the least for which a batch can be
half written and a request partly decided; two requests the least for which one vehicle
is subject to an enroll and an unenroll at once; two calls the least that race. A call
returns to idle and is used again, so the number of calls is not bounded by `Calls` but
by `MaxRequests`. A client request id is given where one request is possible, so that a
replay meets the row at every stage; where two requests are possible there is none,
because an id the dedup lookup missed changes no later write, so two submissions under
one id behave as two without. `PageSize` 4 holds all results of these instances, as 1000
normally does, and no page is cut in these runs: smaller pages are the subject of the
proofs. The instances answer no 1003. `MaxAborts` bounds the cycles cut short: one is
enough for a cycle to follow on half-applied results. Two ECUs are the least for which
progress can go back. Symmetry (over calls and vehicles) is used in the two safety runs
of enrollment only. Calls, requests and commands all come to an end in a bounded
instance, so these runs do not check deadlock.

*Bounds: the other modules.* `Feed`: two tasks are what a deployment overlaps; an event
before and one behind a discarded one are the least for order and for a checkpoint
that passes something; two attempts let a thread fail, recover and give up; a second
shard without events is enough to keep a task alive that has abandoned the first.
`Trips`: two ids are the least for two open trips, and a third is a history the page
does not hold; three messages allow to open, lose and open again, and a fourth to have
closed a trip before; the clock lets a trip grow stale, age and get stuck after the last
message (`LastFrame + Stuck < Horizon`). `Dtc`: the cases are the pairs that meet, one
source twice, two codes of one poll that share a key, one code from two sources, and a
report without a code next to one with it; two reports can be replayed, late or stamped
ahead of the clock in every order. `Simulations`: the scenarios are an intent for an
agent next to a simulator and then an agent replaced, two intents for such a pair, an
agent replaced under an intent with a failure, and agents of two vehicles next to a
simulator; three tasks are what their calls can run, and a list of two rows leaves one
of three unread. All of these come to an end or
fall silent, so they do not check deadlock either.

*Fairness.* `Enrollment!FairSpec`: the poller takes its steps, since EventBridge
invokes it every minute (`connector_stack.py`) and a failed cycle is followed by
another; and OEM1 decides every vehicle in the end, or answers 1003. Nothing is
assumed of API callers, of time or of the index. `Commands!FairSpec`: every final
answer that was published is handled at least once, since IoT Core and asynchronous
Lambda invocation retry what failed and final answers raise on failure. PROGRESS
updates, whose failure is only logged, response bodies, callers and vehicles have no
fairness. `Feed!FairSpec`: ECS keeps one task up (`desired_count=1`), threads are
scheduled and back-off is finite; publications, failures and kills are the
environment's, and a bounded number of faults is what "once faults cease" means.
`Trips!FairSpec`: the sink finishes a message it has started, replicas catch up, time
passes, and the sweeper runs: its hourly schedule stands in its docstring only, so this
is an assumption on the deployment. `Simulations!FairSpec`: containers boot and, once
stopped, end, presence loops tick that are not lost, and the user interface lists
simulations every five seconds (`FleetSimulationPanel.tsx:156`). Only the rows on the
list's page are looked at that way: `RunningEnds` says nothing of a running row that is
beyond it, nor `IntentServed` of a vehicle whose only loop is lost. Nothing is assumed
of API calls, `_status` among them. `Dtc` has no
liveness property: an alert lost between raise and alert is not written again, by the
code's choice.

### Disagreements between documents and code

Each of these runs ends in a counterexample, with one property that states what the
repository says of itself.

| Run | The repository says | The code does |
|---|---|---|
| `ClaimReplay` | a re-submitted `clientRequestId` answers 200 with the cached summary (`docs/architecture/oem1-fleet-lifecycle.md:125`) | the poller has overwritten `status_summary` with text that `json.loads` refuses: the replay answers 500 |
| `ClaimStuckSent` | the row must not stay stuck at SENT (`services/simulation/realtime_telemetry_simulator.py:5733`) | the unconditional put after the publish overwrites an answer that was faster |
| `ClaimFreshTrip` | a stale trip is closed and a fresh one started (`TripProcessor.java:393`) | the fresh trip is given the stale trip's id, and the table refuses it |

Others were met while reading and need no run to see:

- A request open for over 8 days is to be marked FAILED on the next cycle
  (`docs/runbooks/oem1-fleet-lifecycle.md:36`); the scan leaves such requests out.
- Code 1003 is to be terminal FAILED (`docs/architecture/oem1-fleet-lifecycle.md:293`);
  the poller maps it to IN_PROGRESS, not terminal.
- The poller is to drive the vehicles of a request to terminal
  (`docs/architecture/oem1-fleet-lifecycle.md:150`); vehicles beyond the first page of
  results are dropped when their request closes on the others.
- A command's record is to be stored before the publish
  (`docs/SOVD_ON_MQTT_DESIGN_PATTERN.md:239`); the publish comes first, and the call may
  end with 400 or die before the put.
- After `MAX_RETRIES` the connector is to call `sys.exit(1)` (`connector.py:6`); it
  abandons the shard and lives on for the others. `EventsArrive` exempts such
  tasks, as it does a shard that no running task has listed: it shows that nothing else
  holds an event up.
- Shards are to be polled hourly (`shard_discovery.py:2`); nothing calls that poll.
- Telemetry is to be partitioned by vehicle (`kafka_producer.py:94`); the payload that
  is emitted has no `vehicle_id`, so every key is empty.
- An alert's dedup key is to be removed when its condition clears
  (`MaintenanceProcessor.java:867`); it is removed only when the set overflows.
- An OEM1 clear is to update the fault's rows (`clearDtcHistoryRows`); its filter uses
  the reserved word `indicator`, so the query is rejected and only logged.
- A trip report with state close is to finalize the trip (`TripProcessor.java:636`); it
  shares its dedup key with the open, so a close that follows its open is dropped.
- The lookup of a vehicle's ACTIVE trip is to query all its trips
  (`TripProcessor.java:731`); it reads one page of them.
- A simulation is to be marked completed only if its trips ran to completion cleanly
  (`realtime_telemetry_simulator.py:3617`); `run_trips` also returns normally after a
  publish error or a shutdown.
- Vcan interfaces are to be allocated 1:1 with agents (`vcan_teardown.py:32`); the index
  is picked from a listing and may be shared after a blind pick, and it has no upper
  bound although the pool ends at `vcan9`.

## 4. What is proved

The proofs hold for every number of vehicles, fleets, keys, requests, calls, ECUs
and commands, under the assumptions the modules name (`CodesAssumption`,
`EnvAssumption`, `CommandsAssumption`, ...), which TLC evaluates in every run. Each
theorem follows one pattern: `Init => IInv`, `IInv /\ [Next]_vars => IInv'`, and
`IInv` implies the property (the invariant is called `Inv` in some modules).

`EnrollmentProofs`, for `Enrollment!Spec`:

- `TypeCorrect`, `Tracked`, `PollerOpen`, `Deletion`.
- `OutcomesFromOem`: a row shows COMPLETED, UNENROLLED or FAILED only if OEM1 has said
  so of that vehicle in a recorded request. A code on a page the poller took long ago
  still stands when it is applied, because OEM1's terminal codes are final.
- `RowsFinal` and `ClosedDecided`, for pages of any size: no put or poll rewrites what a
  request was recorded with or reopens it, and a request never closes on an empty
  answer.
- `ClosedOnPage` and `ShownSettled`, for pages of any size too, where a page may be cut
  off: no request closes over a vehicle that the page shows and OEM1 has not decided,
  and a request whose own results are on every page fetched for it (`PagesAnswer`)
  closes only when OEM1 has decided all of its vehicles, whatever is cut off of the
  others. Vehicles are stranded by their own request's cut and by nothing else.
- `ClosedSettled` and `LedgerRefined` (every step is a step of `RequestLedger` or
  leaves it unchanged), as long as no poll has more results than a page holds
  (`WholePages`, a condition on each `PollFetch`; what was requested and closed before
  does not count). A condition is needed: with a cut page a request closes on part of
  its results, which 100 requests of 500 vehicles can bring about in the code.
- `ClosedIsOver`: nothing happens any more to a closed request. The ledger promises this
  (`LedgerKeepsPromises`, an induction over its few actions alone), and `LedgerRefined`
  carries it over to the Lambdas; so for `OutcomeNeverWorse` and `NoEventMissed` below.

`EnrollmentOpen`, for `OpenSpec`, where anybody may change vehicle rows and memberships
at any time: `OpenInductive`, `OpenPoller`, `OpenDeletion` (what a row says never
decides whether the poller deletes it), `OpenShownSettled` and, under `WholePages`,
`OpenClosedSettled`, `OpenLedgerRefined` and `OpenClosedIsOver`. They hold because only
`EnrollmentTracked` and `VerdictsFromOem` speak of vehicle rows: the rest of the
invariant, `CoreInv`, is inductive without them, and the others leave its variables
alone but for requests that OEM1 had not accepted yet.

`EnrollmentTracked` is not inductive. Its strengthening `IInv` says besides, in
`CoreInv`: `RequestInv`, a request row agrees with what OEM1 took, and only unenroll
requests are hard; `CallInv`, a call past its submission carries the accepted request of
its own vehicles, and touches vehicles only when that request is recorded;
`OwnRequests`, no two calls carry one request, which is why recording one does not
disturb another; `PollInv`, what the poller holds came from OEM1, belongs to open
requests, and its terminal codes still stand. The last part is the heart of `Deletion`:
a code 7 on an old page is still OEM1's word. `ClosedSettled` adds, request by request,
`Shown` and `Settled`: while a page is applied to a request, every vehicle OEM1 took for
it is on the page, and so it is decided once it is closed. The step proof first
establishes what each step may do to requests and to OEM1 (`Kept`, `Effects`), and then
one part of the invariant at a time.

`CommandsProofs`, for `Commands!Spec`:

- `TypeCorrect`, `BestAnswer`, `LatestProgress`, `BodyBound`, `OneOwner`.
- `SuccessStays`, an action property of actuator commands.
- `OutcomeRefined`: `Commands` implements `CommandOutcome`.
- `OutcomeNeverWorse`: what a row shows only improves, and a command that was issued or
  answered gets no other owner, proved of `CommandOutcome` (`RecordKeepsPromises`).
- `OutcomeSolicited`, of both kinds of commands: a status a row shows was answered on
  the topic of a request that a call with this id sent. `Origin` follows a status back
  from row to handled answer, to scan, to publication and to call.

`IInv` adds `AnswerInv` (handled answers were published, bodies to be stored belong
to handled diagnostic answers), `CallInv`, `OwnerInv` (an accepted caller owns the row,
so a second accepted one would have to own it too, and an owner has put it) and
`MissingRow` (a row that does not exist is blank, which is why the conditional put
cannot discard an answer). The key lemma is `MayWriteRank`: the three separate
conditions of the status update are the comparison of ranks, so a write is accepted
exactly in the direction in which the rank does not fall.

`FeedProofs`, for `Feed!Spec`: `CheckpointSafe`, `TopicOrdered`, `LogRefined` and
`TypeCorrect`, for any number of tasks, shards and events. The invariant says what both
copies of a checkpoint have in common with a thread's place in the stream: everything
behind `position`, and before an event under way or late, is in the topic or was
skipped (`PositionCovered`, `LateCovered`). That is why a send given up may arrive at
any later time without breaking the order: whoever sent it had everything before it
acknowledged. `FeedLog` itself has no gap when it replays from the beginning
(`LogHasNoGap`), so neither has the connector (`NoEventMissed`).

`TripsProofs`, for `Trips!Spec`: `OneTripOpen` and `OwnClosureKept`, any thresholds,
messages and interleavings. `OpenKnown` is the heart: with reads that do not lag, and
until a lookup fails or its page ends before the trip, the one open trip is the cached
one, the one about to be put, and the one about to be replaced, so a put can only ever
open the trip that is open already or the only one; `CopyCurrent` says that an active
copy in hand undoes no closure but the sweeper's. `StartsKept` needs neither assumption:
with lagging and failing reads, old copies that are put back and a sweeper in between, a
written trip stays and keeps its start: what the replica shows and the copy the sink
holds agree with the table on it (`StartsAgree`), and a new row is put only where there
is none.

`DtcProofs`, for `Dtc!Spec`: `OneActiveRow`, `ReplayIsIdempotent`, `AlertsJustified`,
`WrittenRowsKept` and `ClearedStaysCleared`, for all codes, times and numbers of
reports. `Reflects` carries the replay argument: a report that has changed the history
is reflected in it from then on, by an active row of its fault at least as new, by a
clear at or after it or, without a code, by the row it made; each of the three makes
every later delivery a skip. `NoSilentLoss` is the converse: unless a call fails or the
job restarts as the report is given up, or its put has failed, a report that has been
dealt with is shown by the history, so a skip is never a loss. Its invariant `Accounted`
says that the active row that turned an update away is as late as the report, and that
a report about to be announced is in the history; both survive the operators' clears
because written rows only grow.

`SimulationsProofs`, for `Simulations!Spec`: `TripsAsOrdered`, `CompletedTaskOver`,
`BusesApart`, `FinishedKept`, `OwnVehicle` and `StopReachesAlike`, for any calls, tasks,
vehicles and faults. `Booked` counts: what was driven, what waits in a slot and what a
loop has taken are together no more than what was ordered, and nobody drives what was
not counted as driven; the conditional removal of an intent moves one unit from "waits"
to "taken" and a lost answer can only lose it. `BusesHeld` extends the property to buses
picked but not yet run. `OwnInv` ties tasks, calls and rows together: the agent a call
found or ran and the simulator it ran are tasks of vehicles named alike, the row records
just these two, and what a presence loop has polled, even from a stale read, was called
for the loop's own vehicle. That is why a trip runs on its own vehicle (`OwnVehicle`),
though its intent may have been written for another's agent, and why the stop of one
simulation, which stops the agent it shares with others, stops nothing of a vehicle
whose name does not begin with that of its own (`StopReachesAlike`).

`RowsFinal`, `ClosedDecided`, `ClosedOnPage`, `ShownSettled`, `ClosedIsOver`,
`OutcomeNeverWorse`, `OutcomeSolicited`, `NoEventMissed`, `StartsKept`, `OwnVehicle`,
`StopReachesAlike` and the theorems of
`EnrollmentOpen` are proved only; no run lists them as a property of its own.

*Only model-checked:* the liveness properties `RequestsClose`, `RemovalReachesFleet`,
`SuccessReachesRow`, `EventsArrive`, `TripsEnd`, `RunningEnds` and `IntentServed` (the
prover has no reasoning about liveness under fairness), and the counterexamples.

## 5. What is left out of the modelled components

Authorisation, request validation, liteCheck, SKU catalogues and metadata
enrichment (they change no shared state; they decide whether a call arrives), the
8020 timeout event, metrics and logs, the time-to-live and display attributes of
rows. Of the commands API: history and catalogue queries, routines and geofences. Of
the simulator: telemetry, CAN output and the token bucket's arithmetic (its
refusal is a nondeterministic outcome). Two calls of bulk enroll that OEM1 answers
without any request id, both recorded under id 0, are not modelled.

Of the connector: event payloads, the token cache and the test limit
`OEM1_EVENT_LIMIT`. Of the trip processor: routes, distances, scores and the delayed
rescore, whose update names a key the table does not have. Of the maintenance
processor: the analysis that turns telemetry into reports, catalogues, OEM1's automatic
clears (rejected by DynamoDB today) and `_approve_dtc_action_followups`, which nothing
calls. Of simulation control: the mqtt_direct mode, UDS campaigns, container-instance
checks, catalog routes and overrides.

*Not modelled.* The components `PROJECT.json` lists as such fall in three groups:
protocols that are next in the plan (reconciliation, subscriptions, campaign check-in);
stateless mapping and data generation, which belong to unit tests; and interfaces,
read-only queries and infrastructure, which hold no protocol state.

## 6. Plan

In order, most important first; each new module gets its instances, its abstract
specification where one is worth stating, and then its proofs.

1. `EnrollmentSync`: status sync, single refresh, auto-registration and add-vehicle
   as further writers of `EnrollmentTables`, composed with `Enrollment`'s calls and
   poller. Properties: which rows a sync or a refresh can bring back after a hard
   delete, and that drift between a row and OEM1's last verdict is repaired. Runs: one vehicle, one request, one sync against a poll cycle. Theorem:
   the rows such writers can leave behind.
2. `Subscriptions`: offer, subscribe, revoke over several tables, with the
   availability listener. Theorem: a revoked subscriber loses every derived record.
3. `CampaignSync`: the check-in protocol of campaigns between the Flink processor and
   the vehicle agents.
4. Of the parts modelled here: the token bucket and routines of `Commands`, the
   fallback request id 0 of `Enrollment`, and the mqtt_direct mode of `Simulations`.

## 7. Running it

    tlc -workers 2 -config EnrollmentSafety.cfg MCEnrollment.tla
    tlc -workers 2 -config DiagnosticCommands.cfg MCCommands.tla
    tlc -workers 2 -config FeedDelivery.cfg MCFeed.tla
    tlc -workers 2 -config TripsClosed.cfg MCTrips.tla
    tlc -workers 2 -config DtcReplay.cfg MCDtc.tla
    tlc -workers 2 -config SimulationControl.cfg MCSimulations.tla
    tlapm EnrollmentProofs.tla

and likewise for `EnrollmentOpen` and the other `*Proofs` modules; `PROJECT.json` names
the module and the configuration of every run.
