-------------------------------- MODULE Feed --------------------------------
(***************************************************************************)
(* The OEM1 streaming connector: a container task that reads every shard   *)
(* of the vendor's feed in a thread of its own, sends each event to Kafka, *)
(* and checkpoints it once the broker has acknowledged it.  A task may be  *)
(* killed at any step, its successor may overlap with it, the broker and   *)
(* the feed may fail a call, and a send that timed out may still arrive.   *)
(***************************************************************************)
EXTENDS Naturals, FiniteSets

CONSTANTS
    Tasks,       \* container tasks; two may overlap during a deployment
    Shards,      \* shards the feed may come to have
    MaxEvents,   \* bound: events on any shard
    Length,      \* bound: shard -> events published on it
    Discarded,   \* events whose type the connector drops
    Modes,       \* values of OEM1_START_MODE
    MaxRetries,  \* attempts a shard's thread has in its whole life
    MaxFaults    \* bound: failures, kills and deployments in a behaviour

Events   == 1..MaxEvents
None     == 0
Kept     == Events \ Discarded
Finished == {"abandoned", "ended"}
Phases   == {"absent", "opening", "reading", "sending", "backoff"} \cup Finished

ASSUME FeedAssumption ==
    /\ MaxEvents \in Nat /\ Length \in [Shards -> 0..MaxEvents]
    /\ Modes \subseteq {"earliest", "latest", "auto"}
    /\ MaxRetries \in Nat \ {0}
    /\ MaxFaults \in Nat

VARIABLES
    mode,       \* OEM1_START_MODE of this deployment
    flow,       \* shards GetFlow returns
    published,  \* shard -> events in the feed so far
    running,    \* tasks whose process is up
    phase,      \* task -> shard -> where its thread is
    attempt,    \* task -> shard -> attempts made by the thread
    position,   \* task -> shard -> last event read from the stream
    memory,     \* task -> shard -> checkpoint in the process, or None
    stored,     \* shard -> checkpoint in DynamoDB, or None
    late,       \* shard -> events sent whose outcome nobody waits for
    delivered,  \* shard -> events in the Kafka topic
    skipped,    \* history: shard -> events a start at LATEST passed over
    faults

feed  == <<mode, flow, published>>
topic == <<late, delivered>>
vars  == <<feed, running, phase, attempt, position, memory, stored, topic, skipped, faults>>

PerThread(v) == [t \in Tasks |-> [s \in Shards |-> v]]

Init ==
    /\ mode \in Modes
    /\ flow \in SUBSET Shards \ {{}}
    /\ published = [s \in Shards |-> 0]
    /\ running = {}
    /\ phase = PerThread("absent")
    /\ attempt = PerThread(0)
    /\ position = PerThread(0)
    /\ memory = PerThread(None)
    /\ stored = [s \in Shards |-> None]
    /\ late = [s \in Shards |-> {}]
    /\ delivered = [s \in Shards |-> {}]
    /\ skipped = [s \in Shards |-> {}]
    /\ faults = 0

Fault == faults < MaxFaults /\ faults' = faults + 1

-----------------------------------------------------------------------------
(* The vendor's feed. *)

Publish(s) ==
    /\ s \in flow /\ published[s] < Length[s]
    /\ published' = [published EXCEPT ![s] = @ + 1]
    /\ UNCHANGED <<mode, flow, running, phase, attempt, position, memory, stored, topic, skipped, faults>>

\* The vendor adds a shard; nobody asks for the list again until a restart.
Reshard(s) ==
    /\ s \notin flow
    /\ flow' = flow \cup {s}
    /\ UNCHANGED <<mode, published, running, phase, attempt, position, memory, stored, topic, skipped, faults>>

-----------------------------------------------------------------------------
(* The task: one thread per shard found at startup. *)

Launch(t) ==
    /\ t \notin running
    /\ running' = running \cup {t}
    /\ phase' = [phase EXCEPT ![t] = [s \in Shards |-> IF s \in flow THEN "opening" ELSE "absent"]]
    /\ attempt' = [attempt EXCEPT ![t] = [s \in Shards |-> IF s \in flow THEN 1 ELSE 0]]
    /\ UNCHANGED <<feed, position, memory, stored, topic, skipped>>

\* ECS keeps one task up, and starts the new one first when it deploys.
Start(t)  == running = {} /\ Launch(t) /\ UNCHANGED faults
Deploy(t) == running # {} /\ Launch(t) /\ Fault

\* The process goes: its cache is lost, its sends may still arrive.
Leave(t) ==
    /\ running' = running \ {t}
    /\ phase' = [phase EXCEPT ![t] = [s \in Shards |-> "absent"]]
    /\ attempt' = [attempt EXCEPT ![t] = [s \in Shards |-> 0]]
    /\ position' = [position EXCEPT ![t] = [s \in Shards |-> 0]]
    /\ memory' = [memory EXCEPT ![t] = [s \in Shards |-> None]]
    /\ late' = [s \in Shards |->
                   IF phase[t][s] = "sending" THEN late[s] \cup {position[t][s]} ELSE late[s]]
    /\ UNCHANGED <<feed, stored, delivered, skipped>>

Kill(t) == t \in running /\ Leave(t) /\ Fault

\* Mutant: the main thread waits for threads that gave up.
ExitIfEnded(t) ==
    /\ t \in running
    /\ \A s \in Shards : phase[t][s] \in {"ended", "absent"}
    /\ Leave(t) /\ UNCHANGED faults

\* All threads have been joined: main returns and ECS starts a new task.
Exit(t) ==
    /\ t \in running
    /\ \A s \in Shards : phase[t][s] \in Finished \cup {"absent"}
    /\ Leave(t) /\ UNCHANGED faults

-----------------------------------------------------------------------------
(* A shard's thread. *)

At(t, s, p) == phase[t][s] = p
Goto(t, s, p) == phase' = [phase EXCEPT ![t][s] = p]

\* Mutant: the reference is taken for the next event to read.
StartPast(t, s, e) ==
    /\ position' = [position EXCEPT ![t][s] = IF e < MaxEvents THEN e + 1 ELSE e]
    /\ Goto(t, s, "reading")
    /\ UNCHANGED skipped

\* The stream starts behind event e, and nothing is passed over.
StartAfter(t, s, e) ==
    /\ position' = [position EXCEPT ![t][s] = e]
    /\ Goto(t, s, "reading")
    /\ UNCHANGED skipped

\* LATEST: the stream starts behind everything published so far.
StartAtEnd(t, s) ==
    /\ position' = [position EXCEPT ![t][s] = published[s]]
    /\ skipped' = [skipped EXCEPT ![s] = @ \cup (1..published[s] \ delivered[s])]
    /\ Goto(t, s, "reading")

\* CheckpointStore.load: the process's own copy first, None if the read fails.
Checkpoints(t, s) == IF memory[t][s] # None THEN {memory[t][s]} ELSE {stored[s], None}

Open(t, s) ==
    /\ At(t, s, "opening")
    /\ \/ mode = "earliest" /\ StartAfter(t, s, 0)
       \/ mode = "latest" /\ StartAtEnd(t, s)
       \/ mode = "auto" /\ \E c \in Checkpoints(t, s) :
             IF c = None THEN StartAtEnd(t, s) ELSE StartAfter(t, s, c)
    /\ UNCHANGED <<feed, running, attempt, memory, stored, topic, faults>>

\* Mutant: the checkpoint is saved when the event is read.
ReadAndSave(t, s) ==
    /\ At(t, s, "reading") /\ position[t][s] < published[s]
    /\ position' = [position EXCEPT ![t][s] = @ + 1]
    /\ Goto(t, s, IF position'[t][s] \in Kept THEN "sending" ELSE "reading")
    /\ stored' = [stored EXCEPT ![s] = IF position'[t][s] \in Kept THEN position'[t][s] ELSE @]
    /\ UNCHANGED <<feed, running, attempt, memory, topic, skipped, faults>>

\* The next event of the stream; one of a discarded type leaves no trace.
Read(t, s) ==
    /\ At(t, s, "reading") /\ position[t][s] < published[s]
    /\ position' = [position EXCEPT ![t][s] = @ + 1]
    /\ Goto(t, s, IF position'[t][s] \in Kept THEN "sending" ELSE "reading")
    /\ UNCHANGED <<feed, running, attempt, memory, stored, topic, skipped, faults>>

\* The broker's acknowledgement arrives within 30 s, and the checkpoint is
\* saved: in the process always, in DynamoDB if the put succeeds.
Acked(t, s) ==
    LET e == position[t][s] IN
    /\ At(t, s, "sending")
    /\ delivered' = [delivered EXCEPT ![s] = @ \cup {e}]
    /\ memory' = [memory EXCEPT ![t][s] = e]
    /\ stored' \in {[stored EXCEPT ![s] = e], stored}
    /\ Goto(t, s, "reading")
    /\ UNCHANGED <<feed, running, attempt, position, late, skipped, faults>>

\* Mutant: one attempt too many.
FailsOnceMore(t, s) ==
    /\ Fault
    /\ Goto(t, s, IF attempt[t][s] <= MaxRetries THEN "backoff" ELSE "abandoned")
    /\ UNCHANGED <<feed, running, attempt, position, memory, stored, delivered, skipped>>

\* The thread has a fixed number of attempts; the last failure abandons the
\* shard and leaves its siblings running.
Fails(t, s) ==
    /\ Fault
    /\ Goto(t, s, IF attempt[t][s] < MaxRetries THEN "backoff" ELSE "abandoned")
    /\ UNCHANGED <<feed, running, attempt, position, memory, stored, delivered, skipped>>

\* The token, the start reference or the stream fails, whatever the gRPC code.
StreamFails(t, s) ==
    /\ phase[t][s] \in {"opening", "reading"}
    /\ Fails(t, s) /\ UNCHANGED late

\* Mutant: the timeout is logged and the thread goes on with the next event.
SendTimesOutUnnoticed(t, s) ==
    /\ At(t, s, "sending") /\ Fault
    /\ late' = [late EXCEPT ![s] = @ \cup {position[t][s]}]
    /\ Goto(t, s, "reading")
    /\ UNCHANGED <<feed, running, attempt, position, memory, stored, delivered, skipped>>

\* No acknowledgement within 30 s: the producer may still be retrying the send.
SendTimesOut(t, s) ==
    /\ At(t, s, "sending")
    /\ late' = [late EXCEPT ![s] = @ \cup {position[t][s]}]
    /\ Fails(t, s)

\* The feed closes the stream in good order, and the thread is done.
StreamEnds(t, s) ==
    /\ At(t, s, "reading") /\ Fault
    /\ Goto(t, s, "ended")
    /\ UNCHANGED <<feed, running, attempt, position, memory, stored, topic, skipped>>

Retry(t, s) ==
    /\ At(t, s, "backoff")
    /\ attempt' = [attempt EXCEPT ![t][s] = @ + 1]
    /\ Goto(t, s, "opening")
    /\ UNCHANGED <<feed, running, position, memory, stored, topic, skipped, faults>>

-----------------------------------------------------------------------------
(* Kafka. *)

ArrivesLate(s, e) ==
    /\ e \in late[s]
    /\ late' = [late EXCEPT ![s] = @ \ {e}]
    /\ delivered' = [delivered EXCEPT ![s] = @ \cup {e}]
    /\ UNCHANGED <<feed, running, phase, attempt, position, memory, stored, skipped, faults>>

-----------------------------------------------------------------------------

Thread(t, s) == Open(t, s) \/ Read(t, s) \/ Acked(t, s) \/ Retry(t, s)

Next ==
    \/ \E s \in Shards : Publish(s) \/ Reshard(s) \/ \E e \in Kept : ArrivesLate(s, e)
    \/ \E t \in Tasks : Start(t) \/ Deploy(t) \/ Kill(t) \/ Exit(t)
    \/ \E t \in Tasks, s \in Shards :
          Thread(t, s) \/ StreamFails(t, s) \/ SendTimesOut(t, s) \/ StreamEnds(t, s)

Spec == Init /\ [][Next]_vars

\* ECS restarts a task that left, threads are scheduled, back-off is finite, and
\* a healthy broker answers; kills, failures and publications are the
\* environment's.
Fairness ==
    /\ \A t \in Tasks : WF_vars(Exit(t))
    /\ WF_vars(\E t \in Tasks : Start(t))
    /\ \A t \in Tasks, s \in Shards : WF_vars(Thread(t, s))

FairSpec == Spec /\ Fairness

-----------------------------------------------------------------------------
(* Properties. *)

TypeOK ==
    /\ mode \in Modes
    /\ flow \subseteq Shards
    /\ published \in [Shards -> 0..MaxEvents]
    /\ running \subseteq Tasks
    /\ phase \in [Tasks -> [Shards -> Phases]]
    /\ attempt \in [Tasks -> [Shards -> 0..MaxRetries]]
    /\ position \in [Tasks -> [Shards -> 0..MaxEvents]]
    /\ memory \in [Tasks -> [Shards -> Kept \cup {None}]]
    /\ stored \in [Shards -> Kept \cup {None}]
    /\ late \in [Shards -> SUBSET Kept]
    /\ delivered \in [Shards -> SUBSET Kept]
    /\ skipped \in [Shards -> SUBSET Events]
    /\ faults \in 0..MaxFaults

\* Everything of shard s up to event e has been dealt with.
Covered(s, e) == \A d \in Kept : d <= e => d \in delivered[s] \cup skipped[s]

\* Checkpoints are saved after the acknowledgement, so neither copy of one ever
\* passes an event that is not in the topic, however tasks overlap and fail: a
\* restart from it loses nothing.
CheckpointCovers ==
    \A s \in Shards :
        /\ Covered(s, stored[s])
        /\ \A t \in Tasks : Covered(s, memory[t][s])

\* The synchronous send keeps first appearances in feed order, also when a send
\* that timed out arrives while its retry, or another task, is under way.
InFeedOrder ==
    \A s \in Shards : \A e \in delivered[s] : Covered(s, e)

\* This task lives on for the sake of other shards, with no thread left for s.
Unattended(t, s) ==
    /\ phase[t][s] \in Finished \cup {"absent"}
    /\ \E r \in Shards : phase[t][r] \notin Finished \cup {"absent"}

\* Once faults cease, a published event reaches the topic or was passed over by
\* a start at LATEST, unless a task lives on that has given up its shard or
\* started before the shard existed.
EventsArrive ==
    \A s \in Shards : \A e \in Kept \cap (1..Length[s]) :
        (e <= published[s]) ~> \/ e \in delivered[s] \cup skipped[s]
                               \/ \E t \in Tasks : Unattended(t, s)

Log == INSTANCE FeedLog WITH replays <- (mode = "earliest")

\* The connector implements the ordered, at-least-once log.
LogImplemented == Log!Spec

=============================================================================
