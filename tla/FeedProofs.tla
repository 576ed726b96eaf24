------------------------------ MODULE FeedProofs ------------------------------
(***************************************************************************)
(* Proofs about Feed, for any number of tasks, shards, events, retries and *)
(* faults: the checkpoint never passes an undelivered event, the topic is  *)
(* in feed order, and the connector implements FeedLog.                    *)
(***************************************************************************)
EXTENDS Feed, TLAPS

-----------------------------------------------------------------------------
(* The inductive invariant. *)

\* What a thread has behind it is dealt with; the event it is sending is next.
PositionCovered ==
    \A t \in Tasks, s \in Shards :
        /\ At(t, s, "reading") => Covered(s, position[t][s])
        /\ At(t, s, "sending") => /\ position[t][s] \in Kept
                                  /\ Covered(s, position[t][s] - 1)

\* So is what precedes a send nobody waits for.
LateCovered == \A s \in Shards : \A e \in late[s] : Covered(s, e - 1)

\* Nothing refers to an event that is not in the feed.
WithinFeed ==
    \A s \in Shards :
        /\ stored[s] <= published[s]
        /\ \A e \in late[s] : e <= published[s]
        /\ \A t \in Tasks : position[t][s] <= published[s] /\ memory[t][s] <= published[s]

\* A thread that backs off has an attempt left.
RetriesLeft == \A t \in Tasks, s \in Shards : At(t, s, "backoff") => attempt[t][s] < MaxRetries

IInv ==
    /\ TypeOK /\ CheckpointCovers /\ InFeedOrder
    /\ PositionCovered /\ LateCovered /\ WithinFeed /\ RetriesLeft

-----------------------------------------------------------------------------
(* Steps in general *)

LEMMA ConstantTypes ==
    /\ Events \subseteq Nat /\ Kept \subseteq Nat /\ 0 \notin Kept
    /\ 0 \in 0..MaxEvents /\ Kept \subseteq Events /\ Events \subseteq 0..MaxEvents
    /\ MaxEvents \in Nat /\ MaxRetries \in Nat /\ MaxFaults \in Nat
  BY FeedAssumption DEF Events, Kept

\* The feed, the topic and what was passed over only ever grow.
LEMMA Grows ==
    ASSUME TypeOK, Next \/ UNCHANGED vars, NEW s \in Shards
    PROVE  /\ delivered[s] \subseteq delivered'[s]
           /\ skipped[s] \subseteq skipped'[s]
           /\ published[s] <= published'[s]
<1> USE DEF TypeOK
<1>0. published[s] \in Nat
  BY FeedAssumption
<1>1. CASE \E r \in Shards : Publish(r) \/ Reshard(r) \/ \E e \in Kept : ArrivesLate(r, e)
  <2> PICK r \in Shards : Publish(r) \/ Reshard(r) \/ \E e \in Kept : ArrivesLate(r, e)
    BY <1>1
  <2> QED
    BY <1>0 DEF Publish, Reshard, ArrivesLate, feed, topic
<1>2. CASE \E t \in Tasks : Start(t) \/ Deploy(t) \/ Kill(t) \/ Exit(t)
  BY <1>0, <1>2 DEF Start, Deploy, Kill, Exit, Launch, Leave, feed, topic
<1>3. CASE \E t \in Tasks, r \in Shards :
              Thread(t, r) \/ StreamFails(t, r) \/ SendTimesOut(t, r) \/ StreamEnds(t, r)
  <2> PICK t \in Tasks, r \in Shards :
              Thread(t, r) \/ StreamFails(t, r) \/ SendTimesOut(t, r) \/ StreamEnds(t, r)
    BY <1>3
  <2>1. CASE Open(t, r)
    <3>1. UNCHANGED <<published, delivered>>
      BY <2>1 DEF Open, feed, topic
    <3>2. UNCHANGED skipped \/ \E D : skipped' = [skipped EXCEPT ![r] = @ \cup D]
      BY <2>1 DEF Open, StartAfter, StartAtEnd
    <3>3. skipped \in [Shards -> SUBSET Events]
      OBVIOUS
    <3>4. skipped[s] \subseteq skipped'[s]
      BY <3>2, <3>3
    <3>5. published[s] <= published[s]
      BY <1>0
    <3> QED
      BY <3>1, <3>4, <3>5
  <2>2. CASE Read(t, r) \/ Acked(t, r) \/ Retry(t, r)
    BY <1>0, <2>2 DEF Read, Acked, Retry, feed, topic
  <2>3. CASE StreamFails(t, r) \/ SendTimesOut(t, r) \/ StreamEnds(t, r)
    BY <1>0, <2>3 DEF StreamFails, SendTimesOut, StreamEnds, Fails, feed, topic
  <2> QED
    BY <2>1, <2>2, <2>3 DEF Thread
<1>4. CASE UNCHANGED vars
  BY <1>0, <1>4 DEF vars, feed, topic
<1> QED
  BY <1>1, <1>2, <1>3, <1>4 DEF Next

\* Covered after the step, of an event named before it.
CoveredAfter(s, e) == \A d \in Kept : d <= e => d \in delivered'[s] \cup skipped'[s]

LEMMA CoveredStays ==
    ASSUME TypeOK, Next \/ UNCHANGED vars
    PROVE  \A s \in Shards : \A e : Covered(s, e) => CoveredAfter(s, e)
  BY Grows DEF Covered, CoveredAfter

\* One event more.
LEMMA CoveredNext ==
    ASSUME NEW s \in Shards, NEW e \in Nat
    PROVE  /\ Covered(s, 0)
           /\ Covered(s, e - 1) /\ e \in delivered[s] => Covered(s, e)
           /\ Covered(s, e) /\ e + 1 \notin Kept => Covered(s, e + 1)
           /\ Covered(s, e) => Covered(s, e - 1)
<1>1. \A d \in Kept : d \in Nat /\ d # 0
  BY ConstantTypes
<1> QED
  BY <1>1 DEF Covered

LEMMA InitIInv == Init => IInv
<1> SUFFICES ASSUME Init
             PROVE  IInv
  OBVIOUS
<1>1. TypeOK
  BY ConstantTypes, FeedAssumption DEF Init, TypeOK, PerThread, Phases, Finished, None
<1>2. \A s \in Shards : Covered(s, 0)
  BY CoveredNext
<1>3. \A s \in Shards : Covered(s, None) /\ late[s] = {} /\ delivered[s] = {}
  BY <1>2 DEF Init, None
<1>4. \A t \in Tasks, s \in Shards : memory[t][s] = None /\ At(t, s, "absent")
  BY DEF Init, PerThread, At
<1>5. CheckpointCovers /\ InFeedOrder /\ PositionCovered /\ LateCovered /\ RetriesLeft
  BY <1>3, <1>4 DEF At, Init, CheckpointCovers, InFeedOrder, PositionCovered, LateCovered, RetriesLeft
<1>6. WithinFeed
  BY DEF Init, PerThread, None, WithinFeed
<1> QED
  BY <1>1, <1>5, <1>6 DEF IInv

-----------------------------------------------------------------------------
(* The step, part by part: types first *)

LEMMA TypeStep ==
    ASSUME TypeOK, PositionCovered, RetriesLeft, Next \/ UNCHANGED vars
    PROVE  TypeOK'
<1> USE DEF TypeOK
<1> USE ConstantTypes, FeedAssumption
<1>1. CASE \E s \in Shards : Publish(s) \/ Reshard(s) \/ \E e \in Kept : ArrivesLate(s, e)
  <2> PICK s \in Shards : Publish(s) \/ Reshard(s) \/ \E e \in Kept : ArrivesLate(s, e)
    BY <1>1
  <2>1. CASE Publish(s)
    <3>1. published[s] + 1 \in 0..MaxEvents
      BY <2>1 DEF Publish
    <3> QED
      BY <2>1, <3>1 DEF Publish, topic
  <2>2. CASE Reshard(s)
    BY <2>2 DEF Reshard, topic
  <2>3. CASE \E e \in Kept : ArrivesLate(s, e)
    BY <2>3 DEF ArrivesLate, feed
  <2> QED
    BY <2>1, <2>2, <2>3
<1>2. CASE \E t \in Tasks : Start(t) \/ Deploy(t)
  <2> PICK t \in Tasks : Launch(t) /\ (UNCHANGED faults \/ Fault)
    BY <1>2 DEF Start, Deploy
  <2>1. phase' \in [Tasks -> [Shards -> Phases]] /\ attempt' \in [Tasks -> [Shards -> 0..MaxRetries]]
    BY DEF Launch, Phases, Finished
  <2> QED
    BY <2>1 DEF Launch, feed, topic, Fault
<1>3. CASE \E t \in Tasks : Kill(t) \/ Exit(t)
  <2> PICK t \in Tasks : Leave(t) /\ (UNCHANGED faults \/ Fault)
    BY <1>3 DEF Kill, Exit
  <2>1. phase' \in [Tasks -> [Shards -> Phases]] /\ attempt' \in [Tasks -> [Shards -> 0..MaxRetries]]
    BY DEF Leave, Phases, Finished
  <2>2. memory' \in [Tasks -> [Shards -> Kept \cup {None}]] /\ position' \in [Tasks -> [Shards -> 0..MaxEvents]]
    BY DEF Leave
  <2>3. late' \in [Shards -> SUBSET Kept]
    BY DEF Leave, PositionCovered, At
  <2>4. faults' \in 0..MaxFaults
    BY DEF Fault
  <2> QED
    BY <2>1, <2>2, <2>3, <2>4 DEF Leave, feed
<1>3a. ASSUME NEW t \in Tasks, NEW s \in Shards, Fails(t, s)
       PROVE  /\ phase' \in [Tasks -> [Shards -> Phases]] /\ faults' \in 0..MaxFaults
              /\ UNCHANGED <<feed, running, attempt, position, memory, stored, delivered, skipped>>
  BY <1>3a DEF Fails, Fault, Goto, Phases, Finished
<1>4. ASSUME NEW t \in Tasks, NEW s \in Shards,
             Thread(t, s) \/ StreamFails(t, s) \/ SendTimesOut(t, s) \/ StreamEnds(t, s)
      PROVE  TypeOK'
  <2>0. \A p \in Phases : Goto(t, s, p) => phase' \in [Tasks -> [Shards -> Phases]]
    BY DEF Goto
  <2>1. CASE Open(t, s)
    <3>0. /\ published[s] \in 0..MaxEvents /\ 0 \in 0..MaxEvents /\ None \in 0..MaxEvents
          /\ stored[s] \in 0..MaxEvents /\ memory[t][s] \in 0..MaxEvents
      <4>1. stored[s] \in Kept \cup {None} /\ memory[t][s] \in Kept \cup {None}
        OBVIOUS
      <4>2. \A e \in Kept \cup {None} : e \in 0..MaxEvents
        BY DEF None
      <4> QED
        BY <4>1, <4>2 DEF None
    <3>1. \E e \in {0, published[s], stored[s], memory[t][s], None} :
             position' = [position EXCEPT ![t][s] = e]
      BY <2>1 DEF Open, StartAfter, StartAtEnd, Checkpoints
    <3>2. Goto(t, s, "reading")
      BY <2>1 DEF Open, StartAfter, StartAtEnd
    <3>3. 1..published[s] \subseteq Events
      BY DEF Events
    <3>4. skipped' \in [Shards -> SUBSET Events]
      BY <2>1, <3>3 DEF Open, StartAfter, StartAtEnd
    <3> QED
      BY <2>0, <2>1, <3>0, <3>1, <3>2, <3>4 DEF Open, feed, topic, Phases
  <2>2. CASE Read(t, s)
    <3>1. position' \in [Tasks -> [Shards -> 0..MaxEvents]]
      BY <2>2 DEF Read
    <3> QED
      BY <2>0, <2>2, <3>1 DEF Read, feed, topic, Phases
  <2>3. CASE Acked(t, s)
    <3>1. position[t][s] \in Kept
      BY <2>3 DEF Acked, PositionCovered
    <3>2. /\ delivered' \in [Shards -> SUBSET Kept]
          /\ memory' \in [Tasks -> [Shards -> Kept \cup {None}]]
          /\ stored' \in [Shards -> Kept \cup {None}]
      BY <2>3, <3>1 DEF Acked
    <3> QED
      BY <2>0, <2>3, <3>2 DEF Acked, feed, Phases
  <2>4. CASE Retry(t, s)
    <3>1. attempt' \in [Tasks -> [Shards -> 0..MaxRetries]]
      BY <2>4 DEF Retry, RetriesLeft
    <3> QED
      BY <2>0, <2>4, <3>1 DEF Retry, feed, topic, Phases
  <2>5. CASE StreamFails(t, s)
    BY <1>3a, <2>5 DEF StreamFails, feed
  <2>6. CASE SendTimesOut(t, s)
    <3>1. late' \in [Shards -> SUBSET Kept]
      BY <2>6 DEF SendTimesOut, PositionCovered
    <3> QED
      BY <1>3a, <2>6, <3>1 DEF SendTimesOut, feed
  <2>7. CASE StreamEnds(t, s)
    BY <2>0, <2>7 DEF StreamEnds, feed, topic, Fault, Phases, Finished
  <2> QED
    BY <1>4, <2>1, <2>2, <2>3, <2>4, <2>5, <2>6, <2>7 DEF Thread
<1>5. CASE UNCHANGED vars
  BY <1>5 DEF vars, feed, topic
<1> QED
  BY <1>1, <1>2, <1>3, <1>4, <1>5 DEF Next

-----------------------------------------------------------------------------
(* What a step may change, and why *)

\* Of one thread.
ThreadMoves(t, s) ==
    \/ Open(t, s) \/ Read(t, s) \/ Acked(t, s) \/ Retry(t, s)
    \/ /\ position'[t][s] \in {position[t][s], 0}
       /\ \/ phase'[t][s] \in {"absent", "opening", "abandoned", "ended"}
          \/ phase'[t][s] = "backoff" /\ attempt'[t][s] < MaxRetries
       /\ memory'[t][s] \in {memory[t][s], None}
    \/ /\ position'[t][s] = position[t][s] /\ phase'[t][s] = phase[t][s]
       /\ attempt'[t][s] = attempt[t][s] /\ memory'[t][s] = memory[t][s]

\* Of one shard's topic and checkpoint.
ShardMoves(s) ==
    /\ \A e \in delivered'[s] : \/ e \in delivered[s] \cup late[s]
                                \/ \E t \in Tasks : Acked(t, s) /\ e = position[t][s]
    /\ \A e \in late'[s] : \/ e \in late[s]
                           \/ \E t \in Tasks : At(t, s, "sending") /\ e = position[t][s]
    /\ \/ stored'[s] = stored[s]
       \/ \E t \in Tasks : Acked(t, s) /\ stored'[s] = position[t][s]

LEMMA Moves ==
    ASSUME TypeOK, Next \/ UNCHANGED vars, NEW s \in Shards
    PROVE  ShardMoves(s) /\ \A t \in Tasks : ThreadMoves(t, s)
<1> USE DEF TypeOK
<1>1. CASE \E r \in Shards : Publish(r) \/ Reshard(r) \/ \E e \in Kept : ArrivesLate(r, e)
  <2> PICK r \in Shards : Publish(r) \/ Reshard(r) \/ \E e \in Kept : ArrivesLate(r, e)
    BY <1>1
  <2>1. UNCHANGED <<phase, attempt, position, memory, stored>>
    BY DEF Publish, Reshard, ArrivesLate
  <2>2. ShardMoves(s)
    BY <2>1 DEF Publish, Reshard, ArrivesLate, topic, ShardMoves
  <2> QED
    BY <2>1, <2>2 DEF ThreadMoves
<1>2. CASE \E u \in Tasks : Start(u) \/ Deploy(u)
  <2> PICK u \in Tasks : Launch(u)
    BY <1>2 DEF Start, Deploy
  <2>1. ShardMoves(s)
    BY DEF Launch, topic, ShardMoves
  <2>2. \A t \in Tasks : ThreadMoves(t, s)
    BY DEF Launch, ThreadMoves
  <2> QED
    BY <2>1, <2>2
<1>3. CASE \E u \in Tasks : Kill(u) \/ Exit(u)
  <2> PICK u \in Tasks : Leave(u)
    BY <1>3 DEF Kill, Exit
  <2>1. ShardMoves(s)
    BY DEF Leave, At, ShardMoves
  <2>2. \A t \in Tasks : ThreadMoves(t, s)
    BY DEF Leave, ThreadMoves
  <2> QED
    BY <2>1, <2>2
<1>4. ASSUME NEW u \in Tasks, NEW r \in Shards,
             Thread(u, r) \/ StreamFails(u, r) \/ SendTimesOut(u, r) \/ StreamEnds(u, r)
      PROVE  ShardMoves(s) /\ \A t \in Tasks : ThreadMoves(t, s)
  <2>1. ASSUME NEW t \in Tasks, t # u \/ s # r
        PROVE  position'[t][s] = position[t][s] /\ phase'[t][s] = phase[t][s]
               /\ attempt'[t][s] = attempt[t][s] /\ memory'[t][s] = memory[t][s]
    <3>1. CASE Open(u, r)
      BY <2>1, <3>1 DEF Open, StartAfter, StartAtEnd, Goto
    <3>2. CASE Read(u, r) \/ Acked(u, r) \/ Retry(u, r) \/ StreamEnds(u, r)
      BY <2>1, <3>2 DEF Read, Acked, Retry, StreamEnds, Goto
    <3>3. CASE StreamFails(u, r) \/ SendTimesOut(u, r)
      BY <2>1, <3>3 DEF StreamFails, SendTimesOut, Fails, Goto
    <3> QED
      BY <1>4, <3>1, <3>2, <3>3 DEF Thread
  <2>2. ASSUME StreamFails(u, r) \/ SendTimesOut(u, r) \/ StreamEnds(u, r)
        PROVE  ThreadMoves(u, r)
    <3>1. UNCHANGED <<attempt, position, memory>>
      BY <2>2 DEF StreamFails, SendTimesOut, StreamEnds, Fails
    <3>2. \/ phase'[u][r] = "backoff" /\ attempt[u][r] < MaxRetries
          \/ phase'[u][r] \in {"abandoned", "ended"}
      BY <2>2 DEF StreamFails, SendTimesOut, StreamEnds, Fails, Goto
    <3> QED
      BY <3>1, <3>2 DEF ThreadMoves
  <2>3. \A t \in Tasks : ThreadMoves(t, s)
    BY <1>4, <2>1, <2>2 DEF ThreadMoves, Thread
  <2>4. ShardMoves(s)
    <3>1. CASE Acked(u, r)
      BY <3>1 DEF Acked, ShardMoves
    <3>2. CASE SendTimesOut(u, r)
      BY <3>2 DEF SendTimesOut, Fails, ShardMoves
    <3>3. CASE Open(u, r) \/ Read(u, r) \/ Retry(u, r) \/ StreamFails(u, r) \/ StreamEnds(u, r)
      <4>1. UNCHANGED <<stored, late, delivered>>
        BY <3>3 DEF Open, Read, Retry, StreamFails, StreamEnds, Fails, topic
      <4> QED
        BY <4>1 DEF ShardMoves
    <3> QED
      BY <1>4, <3>1, <3>2, <3>3 DEF Thread
  <2> QED
    BY <2>3, <2>4
<1>5. CASE UNCHANGED vars
  BY <1>5 DEF vars, topic, ShardMoves, ThreadMoves
<1> QED
  BY <1>1, <1>2, <1>3, <1>4, <1>5 DEF Next

-----------------------------------------------------------------------------
(* The invariant is inductive. *)

LEMMA CoveredAfterNext ==
    ASSUME NEW s \in Shards, NEW e \in Kept, CoveredAfter(s, e - 1), e \in delivered'[s]
    PROVE  CoveredAfter(s, e)
<1>1. e \in Nat /\ \A d \in Kept : d \in Nat
  BY ConstantTypes
<1> QED
  BY <1>1 DEF CoveredAfter

\* An acknowledged event closes the gap behind it.
LEMMA AckCovers ==
    ASSUME IInv, Next \/ UNCHANGED vars, NEW t \in Tasks, NEW s \in Shards, Acked(t, s)
    PROVE  /\ CoveredAfter(s, position[t][s])
           /\ position[t][s] <= published'[s] /\ position[t][s] \in Kept
<1>1. position[t][s] \in Kept /\ Covered(s, position[t][s] - 1)
  BY DEF Acked, IInv, PositionCovered
<1>2. position[t][s] \in delivered'[s]
  BY DEF Acked, IInv, TypeOK
<1>3. CoveredAfter(s, position[t][s] - 1)
  BY <1>1, CoveredStays DEF IInv
<1>4. CoveredAfter(s, position[t][s])
  BY <1>1, <1>2, <1>3, CoveredAfterNext
<1>5. position[t][s] <= published'[s]
  BY DEF Acked, feed, IInv, WithinFeed
<1> QED
  BY <1>1, <1>4, <1>5

LEMMA CheckpointStep ==
    ASSUME IInv, Next \/ UNCHANGED vars
    PROVE  CheckpointCovers'
<1> SUFFICES ASSUME NEW s \in Shards
             PROVE  /\ CoveredAfter(s, stored'[s])
                    /\ \A t \in Tasks : CoveredAfter(s, memory'[t][s])
  BY DEF CheckpointCovers, Covered, CoveredAfter
<1>0. TypeOK /\ CheckpointCovers
  BY DEF IInv
<1>1. CoveredAfter(s, stored[s]) /\ \A t \in Tasks : CoveredAfter(s, memory[t][s])
  BY <1>0, CoveredStays DEF CheckpointCovers
<1>2. CoveredAfter(s, None)
  <2>1. \A d \in Kept : d \in Nat /\ d # 0
    BY ConstantTypes
  <2> QED
    BY <2>1 DEF CoveredAfter, None
<1>3. ShardMoves(s) /\ \A t \in Tasks : ThreadMoves(t, s)
  BY <1>0, Moves
<1>4. CoveredAfter(s, stored'[s])
  BY <1>1, <1>3, AckCovers DEF ShardMoves
<1>5. ASSUME NEW t \in Tasks
      PROVE  CoveredAfter(s, memory'[t][s])
  <2>1. CASE Acked(t, s)
    <3>1. memory'[t][s] = position[t][s]
      BY <1>0, <2>1 DEF Acked, TypeOK
    <3> QED
      BY <2>1, <3>1, AckCovers
  <2>2. CASE Open(t, s) \/ Read(t, s) \/ Retry(t, s)
    <3>1. memory'[t][s] = memory[t][s]
      BY <2>2 DEF Open, Read, Retry
    <3> QED
      BY <1>1, <3>1
  <2> QED
    BY <1>1, <1>2, <1>3, <2>1, <2>2 DEF ThreadMoves
<1> QED
  BY <1>4, <1>5

LEMMA OrderStep ==
    ASSUME IInv, Next \/ UNCHANGED vars
    PROVE  InFeedOrder' /\ LateCovered'
<1> SUFFICES ASSUME NEW s \in Shards
             PROVE  /\ \A e \in delivered'[s] : CoveredAfter(s, e)
                    /\ \A e \in late'[s] : CoveredAfter(s, e - 1)
  BY DEF InFeedOrder, LateCovered, Covered, CoveredAfter
<1>0. TypeOK
  BY DEF IInv
<1>1. ShardMoves(s) /\ \A t \in Tasks : ThreadMoves(t, s)
  BY <1>0, Moves
<1>2. ASSUME NEW e \in delivered'[s]
      PROVE  CoveredAfter(s, e)
  <2>1. CASE e \in delivered[s]
    BY <1>0, <2>1, CoveredStays DEF IInv, InFeedOrder
  <2>2. CASE e \in late[s]
    <3>1. e \in Kept /\ CoveredAfter(s, e - 1)
      BY <1>0, <2>2, CoveredStays DEF IInv, LateCovered, TypeOK
    <3> QED
      BY <3>1, CoveredAfterNext
  <2> QED
    BY <1>1, <2>1, <2>2, AckCovers DEF ShardMoves
<1>3. ASSUME NEW e \in late'[s]
      PROVE  CoveredAfter(s, e - 1)
  BY <1>0, <1>1, CoveredStays DEF ShardMoves, IInv, LateCovered, PositionCovered
<1> QED
  BY <1>2, <1>3


LEMMA PositionStep ==
    ASSUME IInv, Next \/ UNCHANGED vars
    PROVE  PositionCovered'
<1> SUFFICES ASSUME NEW t \in Tasks, NEW s \in Shards
             PROVE  /\ phase'[t][s] = "reading" => CoveredAfter(s, position'[t][s])
                    /\ phase'[t][s] = "sending" => /\ position'[t][s] \in Kept
                                                   /\ CoveredAfter(s, position'[t][s] - 1)
  BY DEF PositionCovered, Covered, CoveredAfter, At
<1> USE DEF At
<1>0. TypeOK /\ ThreadMoves(t, s) /\ position[t][s] \in Nat /\ published[s] \in Nat
  BY Moves, FeedAssumption DEF IInv, TypeOK
<1>1. CASE Open(t, s)
  <2>1. phase'[t][s] = "reading"
    BY <1>0, <1>1 DEF Open, StartAfter, StartAtEnd, Goto, TypeOK
  <2>2. CASE StartAtEnd(t, s)
    <3>1. position'[t][s] = published[s]
      BY <1>0, <2>2 DEF StartAtEnd, TypeOK
    <3>2. \A d \in Kept : d <= published[s] => d \in delivered[s] \cup skipped'[s]
      BY <1>0, <2>2, ConstantTypes DEF StartAtEnd, TypeOK, Events
    <3>3. delivered'[s] = delivered[s]
      BY <1>1 DEF Open, topic
    <3> QED
      BY <2>1, <3>1, <3>2, <3>3 DEF CoveredAfter
  <2>3. ASSUME NEW e \in {0, stored[s], memory[t][s]}, StartAfter(t, s, e)
        PROVE  CoveredAfter(s, position'[t][s])
    <3>1. position'[t][s] = e
      BY <1>0, <2>3 DEF StartAfter, TypeOK
    <3>2. Covered(s, 0) /\ Covered(s, stored[s]) /\ Covered(s, memory[t][s])
      BY CoveredNext DEF IInv, CheckpointCovers
    <3> QED
      BY <1>0, <3>1, <3>2, CoveredStays
  <2>4. \/ StartAtEnd(t, s)
        \/ \E e \in {0, stored[s], memory[t][s]} : StartAfter(t, s, e)
    BY <1>1 DEF Open, Checkpoints
  <2> QED
    BY <2>1, <2>2, <2>3, <2>4
<1>2. CASE Read(t, s)
  <2>1. position'[t][s] = position[t][s] + 1
    BY <1>0, <1>2 DEF Read, TypeOK
  <2>2. phase'[t][s] = IF position[t][s] + 1 \in Kept THEN "sending" ELSE "reading"
    BY <1>0, <1>2, <2>1 DEF Read, Goto, TypeOK
  <2>3. Covered(s, position[t][s])
    BY <1>2 DEF Read, IInv, PositionCovered
  <2>4. CoveredAfter(s, position[t][s])
    BY <1>0, <2>3, CoveredStays
  <2>5. position[t][s] + 1 \notin Kept => CoveredAfter(s, position[t][s] + 1)
    <3>1. Covered(s, position[t][s]) /\ position[t][s] + 1 \notin Kept => Covered(s, position[t][s] + 1)
      BY <1>0, CoveredNext
    <3> QED
      BY <1>0, <2>3, <3>1, CoveredStays
  <2>6. position'[t][s] - 1 = position[t][s]
    BY <1>0, <2>1
  <2>7. CASE position[t][s] + 1 \in Kept
    BY <2>1, <2>2, <2>4, <2>6, <2>7
  <2>8. CASE position[t][s] + 1 \notin Kept
    BY <2>1, <2>2, <2>5, <2>8
  <2> QED
    BY <2>7, <2>8
<1>3. CASE Acked(t, s)
  <2>1. position'[t][s] = position[t][s] /\ phase'[t][s] = "reading"
    BY <1>0, <1>3 DEF Acked, Goto, TypeOK
  <2> QED
    BY <1>3, <2>1, AckCovers
<1>4. CASE Retry(t, s)
  BY <1>0, <1>4 DEF Retry, Goto, TypeOK
<1>5. CASE position'[t][s] = position[t][s] /\ phase'[t][s] = phase[t][s]
  BY <1>0, <1>5, CoveredStays DEF IInv, PositionCovered
<1> QED
  BY <1>0, <1>1, <1>2, <1>3, <1>4, <1>5 DEF ThreadMoves

LEMMA RetriesStep ==
    ASSUME IInv, Next \/ UNCHANGED vars
    PROVE  RetriesLeft'
<1> SUFFICES ASSUME NEW t \in Tasks, NEW s \in Shards, phase'[t][s] = "backoff"
             PROVE  attempt'[t][s] < MaxRetries
  BY DEF RetriesLeft, At
<1>1. TypeOK /\ ThreadMoves(t, s)
  BY Moves DEF IInv
<1>2. ~Open(t, s) /\ ~Read(t, s) /\ ~Acked(t, s) /\ ~Retry(t, s)
  BY <1>1 DEF Open, StartAfter, StartAtEnd, Read, Acked, Retry, Goto, TypeOK
<1> QED
  BY <1>1, <1>2 DEF ThreadMoves, IInv, RetriesLeft, At

LEMMA WithinStep ==
    ASSUME IInv, Next \/ UNCHANGED vars
    PROVE  WithinFeed'
<1> SUFFICES ASSUME NEW s \in Shards
             PROVE  /\ stored'[s] <= published'[s]
                    /\ \A e \in late'[s] : e <= published'[s]
                    /\ \A t \in Tasks : /\ position'[t][s] <= published'[s]
                                        /\ memory'[t][s] <= published'[s]
  BY DEF WithinFeed
<1>0. TypeOK /\ WithinFeed
  BY DEF IInv
<1>1. ShardMoves(s) /\ \A t \in Tasks : ThreadMoves(t, s)
  BY <1>0, Moves
<1>2. published[s] <= published'[s] /\ published[s] \in Nat /\ published'[s] \in Nat
  <2>1. TypeOK'
    BY TypeStep DEF IInv
  <2> QED
    BY <1>0, <2>1, Grows, FeedAssumption DEF TypeOK
<1>3. \A e \in Nat : e <= published[s] => e <= published'[s]
  BY <1>2
<1>3a. \A e \in Kept \cup {None} : e \in Nat
  BY ConstantTypes DEF None
<1>4. stored'[s] <= published'[s]
  <2>1. stored[s] \in Kept \cup {None} /\ stored[s] <= published[s]
    BY <1>0 DEF TypeOK, WithinFeed
  <2> QED
    BY <1>1, <1>3, <1>3a, <2>1, AckCovers DEF ShardMoves
<1>5. ASSUME NEW e \in late'[s]
      PROVE  e <= published'[s]
  <2>1. CASE e \in late[s]
    BY <1>0, <1>3, <2>1, ConstantTypes DEF TypeOK, WithinFeed
  <2>2. \A t \in Tasks : position[t][s] \in Nat /\ position[t][s] <= published[s]
    BY <1>0, FeedAssumption DEF TypeOK, WithinFeed
  <2> QED
    BY <1>1, <1>3, <2>1, <2>2 DEF ShardMoves
<1>6. ASSUME NEW t \in Tasks
      PROVE  position'[t][s] <= published'[s] /\ memory'[t][s] <= published'[s]
  <2>1. /\ position[t][s] \in Nat /\ position[t][s] <= published[s]
        /\ memory[t][s] \in Nat /\ memory[t][s] <= published[s]
        /\ stored[s] \in Nat /\ stored[s] <= published[s]
    <3>1. memory[t][s] \in Kept \cup {None} /\ stored[s] \in Kept \cup {None}
      BY <1>0 DEF TypeOK
    <3>2. position[t][s] \in Nat
      BY <1>0, FeedAssumption DEF TypeOK
    <3> QED
      BY <1>0, <1>3a, <3>1, <3>2 DEF WithinFeed
  <2>2. CASE Open(t, s)
    <3>1. memory'[t][s] = memory[t][s]
      BY <2>2 DEF Open
    <3>2. position'[t][s] \in {0, published[s], stored[s], memory[t][s]}
      BY <1>0, <2>2 DEF Open, StartAfter, StartAtEnd, Checkpoints, TypeOK
    <3> QED
      BY <1>2, <1>3, <2>1, <3>1, <3>2
  <2>3. CASE Read(t, s)
    <3>1. memory'[t][s] = memory[t][s] /\ position'[t][s] = position[t][s] + 1
          /\ position[t][s] < published[s]
      BY <1>0, <2>3 DEF Read, TypeOK
    <3> QED
      BY <1>2, <1>3, <2>1, <3>1
  <2>4. CASE Acked(t, s)
    <3>1. memory'[t][s] = position[t][s] /\ position'[t][s] = position[t][s]
      BY <1>0, <2>4 DEF Acked, TypeOK
    <3> QED
      BY <1>3, <2>1, <3>1
  <2>5. CASE Retry(t, s)
    <3>1. memory'[t][s] = memory[t][s] /\ position'[t][s] = position[t][s]
      BY <2>5 DEF Retry
    <3> QED
      BY <1>3, <2>1, <3>1
  <2>6. 0 <= published'[s] /\ None <= published'[s]
    BY <1>2 DEF None
  <2> QED
    BY <1>1, <1>3, <2>1, <2>2, <2>3, <2>4, <2>5, <2>6 DEF ThreadMoves
<1> QED
  BY <1>4, <1>5, <1>6

LEMMA StepIInv == IInv /\ [Next]_vars => IInv'
<1> SUFFICES ASSUME IInv, Next \/ UNCHANGED vars
             PROVE  IInv'
  OBVIOUS
<1>1. TypeOK'
  BY TypeStep DEF IInv
<1> QED
  BY <1>1, CheckpointStep, OrderStep, PositionStep, RetriesStep, WithinStep DEF IInv

\* The inductive invariant of the connector holds in every reachable state.
THEOREM Inductive == Spec => []IInv
  BY InitIInv, StepIInv, PTL DEF Spec

\* Every table, cursor and counter keeps its type.
THEOREM TypeCorrect == Spec => []TypeOK
<1>1. IInv => TypeOK
  BY DEF IInv
<1> QED
  BY <1>1, Inductive, PTL

\* No checkpoint, in a process or in DynamoDB, ever passes an event that is
\* neither in the topic nor passed over, for any number of overlapping tasks.
THEOREM CheckpointSafe == Spec => []CheckpointCovers
<1>1. IInv => CheckpointCovers
  BY DEF IInv
<1> QED
  BY <1>1, Inductive, PTL

\* First appearances in the topic are in feed order.
THEOREM TopicOrdered == Spec => []InFeedOrder
<1>1. IInv => InFeedOrder
  BY DEF IInv
<1> QED
  BY <1>1, Inductive, PTL

-----------------------------------------------------------------------------
(* The simulation of FeedLog *)

LEMMA LogInit == Init => Log!Init
  BY FeedAssumption DEF Init, Log!Init

\* An event about to enter the topic may do so in the log.
LEMMA LogAppend ==
    ASSUME TypeOK, NEW s \in Shards, NEW e \in Kept, e <= published[s], Covered(s, e - 1),
           delivered' = [delivered EXCEPT ![s] = @ \cup {e}],
           UNCHANGED <<mode, published, skipped>>
    PROVE  Log!Append(s, e)
<1>1. \A d \in Kept : d \in Nat /\ (d < e => d <= e - 1)
  <2>1. e \in Nat /\ \A d \in Kept : d \in Nat
    BY ConstantTypes
  <2> QED
    BY <2>1
<1> QED
  BY <1>1 DEF Log!Append, Covered, Kept

LEMMA LogStep ==
    ASSUME IInv, Next \/ UNCHANGED vars
    PROVE  Log!Next \/ UNCHANGED Log!log
<1> USE DEF Log!log
<1>0. TypeOK
  BY DEF IInv
<1>1. CASE \E s \in Shards : Publish(s)
  BY <1>1 DEF Publish, topic, Log!Next, Log!Publish
<1>2. CASE \E s \in Shards : Reshard(s)
  BY <1>2 DEF Reshard, topic
<1>3. ASSUME NEW s \in Shards, NEW e \in Kept, ArrivesLate(s, e)
      PROVE  Log!Next
  <2>1. Covered(s, e - 1) /\ e <= published[s]
    BY <1>3 DEF ArrivesLate, IInv, LateCovered, WithinFeed
  <2>2. Log!Append(s, e)
    BY <1>0, <1>3, <2>1, LogAppend DEF ArrivesLate, feed
  <2> QED
    BY <2>2 DEF Log!Next, Kept
<1>4. CASE \E t \in Tasks : Start(t) \/ Deploy(t) \/ Kill(t) \/ Exit(t)
  BY <1>4 DEF Start, Deploy, Kill, Exit, Launch, Leave, feed, topic
<1>5. ASSUME NEW t \in Tasks, NEW s \in Shards,
             Thread(t, s) \/ StreamFails(t, s) \/ SendTimesOut(t, s) \/ StreamEnds(t, s)
      PROVE  Log!Next \/ UNCHANGED Log!log
  <2>1. CASE Open(t, s)
    <3>1. UNCHANGED <<mode, published, delivered>>
      BY <2>1 DEF Open, feed, topic
    <3>2. CASE StartAtEnd(t, s) /\ mode # "earliest"
      <4>1. published[s] \in 0..MaxEvents
        BY <1>0, FeedAssumption DEF TypeOK
      <4> DEFINE D == 1..published[s] \ delivered[s]
      <4>2. D \in SUBSET Events /\ \A e \in D : e <= published[s]
        BY <4>1, ConstantTypes DEF Events
      <4>3. skipped' = [skipped EXCEPT ![s] = @ \cup D]
        BY <3>2 DEF StartAtEnd
      <4>4. Log!Skip(s, D)
        BY <3>1, <3>2, <4>2, <4>3 DEF Log!Skip
      <4> QED
        BY <4>2, <4>4 DEF Log!Next
    <3>3. CASE UNCHANGED skipped
      BY <3>1, <3>3
    <3>4. (StartAtEnd(t, s) /\ mode # "earliest") \/ UNCHANGED skipped
      BY <2>1 DEF Open, StartAfter
    <3> QED
      BY <3>2, <3>3, <3>4
  <2>2. CASE Acked(t, s)
    <3> DEFINE e == position[t][s]
    <3>1. e \in Kept /\ Covered(s, e - 1) /\ e <= published[s]
      BY <2>2 DEF Acked, IInv, PositionCovered, WithinFeed
    <3>2. delivered' = [delivered EXCEPT ![s] = @ \cup {e}] /\ UNCHANGED <<mode, published, skipped>>
      BY <2>2 DEF Acked, feed
    <3>3. Log!Append(s, e)
      BY <1>0, <3>1, <3>2, LogAppend
    <3> QED
      BY <3>1, <3>3 DEF Log!Next, Kept
  <2>3. CASE Read(t, s) \/ Retry(t, s) \/ StreamFails(t, s) \/ SendTimesOut(t, s) \/ StreamEnds(t, s)
    BY <2>3 DEF Read, Retry, StreamFails, SendTimesOut, StreamEnds, Fails, feed, topic
  <2> QED
    BY <1>5, <2>1, <2>2, <2>3 DEF Thread
<1>6. CASE UNCHANGED vars
  BY <1>6 DEF vars, feed, topic
<1> QED
  BY <1>1, <1>2, <1>3, <1>4, <1>5, <1>6 DEF Next

\* The connector implements the ordered at-least-once log, whatever fails.
THEOREM LogRefined == Spec => LogImplemented
<1>1. IInv /\ [Next]_vars => [Log!Next]_(Log!log)
  BY LogStep
<1> QED
  BY <1>1, LogInit, Inductive, PTL DEF Spec, LogImplemented, Log!Spec

-----------------------------------------------------------------------------
(* What the log promises, the connector keeps. *)

\* The log's inductive invariant.
LogInv ==
    /\ published \in [Shards -> Nat]
    /\ delivered \in [Shards -> SUBSET Kept]
    /\ skipped \in [Shards -> SUBSET Events]
    /\ mode = "earliest" => \A s \in Shards : skipped[s] = {}
    /\ \A s \in Shards : \A e \in delivered[s] :
          e <= published[s] /\ \A d \in Kept : d < e => d \in delivered[s] \cup skipped[s]

LEMMA LogInvInit == Log!Init => LogInv
  BY ConstantTypes DEF Log!Init, LogInv

LEMMA LogInvStep == LogInv /\ [Log!Next]_(Log!log) => LogInv'
<1> SUFFICES ASSUME LogInv, [Log!Next]_(Log!log) PROVE LogInv'
  OBVIOUS
<1> USE DEF LogInv
<1>1. \A e \in Kept : e \in Nat
  BY ConstantTypes
<1>2. ASSUME NEW s \in Shards, Log!Publish(s) PROVE LogInv'
  BY <1>1, <1>2 DEF Log!Publish
<1>3. ASSUME NEW s \in Shards, NEW e \in Kept, Log!Append(s, e) PROVE LogInv'
  <2>1. /\ delivered' = [delivered EXCEPT ![s] = @ \cup {e}]
        /\ e <= published[s] /\ \A d \in Kept : d < e => d \in delivered[s] \cup skipped[s]
        /\ (mode = "earliest")' = (mode = "earliest") /\ UNCHANGED <<published, skipped>>
    BY <1>3 DEF Log!Append, Kept
  <2> QED
    BY <2>1
<1>4. ASSUME NEW s \in Shards, NEW D \in SUBSET Events, Log!Skip(s, D) PROVE LogInv'
  <2>1. /\ skipped' = [skipped EXCEPT ![s] = @ \cup D] /\ mode # "earliest"
        /\ (mode = "earliest")' = (mode = "earliest") /\ UNCHANGED <<published, delivered>>
    BY <1>4 DEF Log!Skip
  <2> QED
    BY <2>1
<1>5. CASE UNCHANGED Log!log
  BY <1>5 DEF Log!log
<1> QED
  BY <1>2, <1>3, <1>4, <1>5 DEF Log!Next, Kept

\* A log that replays from the beginning has no gap, and only what was published.
THEOREM LogHasNoGap == Log!Spec => [](Log!NoGap /\ Log!OnlyPublished)
<1>1. LogInv => Log!NoGap /\ Log!OnlyPublished
  BY DEF LogInv, Log!NoGap, Log!OnlyPublished, Kept
<1> QED
  BY <1>1, LogInvInit, LogInvStep, PTL DEF Log!Spec

\* Nothing is taken out of the log.
THEOREM LogKept == Log!Spec => Log!TopicKept
<1>1. LogInv /\ [Log!Next]_(Log!log) => [\A s \in Shards : delivered[s] \subseteq delivered'[s]]_(Log!log)
  BY DEF LogInv, Log!Next, Log!Publish, Log!Append, Log!Skip
<1> QED
  BY <1>1, LogInvInit, LogInvStep, PTL DEF Log!Spec, Log!TopicKept

\* With OEM1_START_MODE earliest, no kill, overlap, time-out or late arrival ever
\* leaves a gap in the topic, and nothing but feed events gets there.
THEOREM NoEventMissed == Spec => [](Log!NoGap /\ Log!OnlyPublished)
  BY LogRefined, LogHasNoGap DEF LogImplemented

\* What is in the topic stays there for every task that comes.
THEOREM TopicOnlyGrows == Spec => Log!TopicKept
  BY LogRefined, LogKept DEF LogImplemented

=============================================================================
