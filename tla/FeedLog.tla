------------------------------- MODULE FeedLog -------------------------------
(***************************************************************************)
(* What the OEM1 connector owes the telemetry topic: of every shard, each  *)
(* event that is not passed over reaches the topic, first appearances come *)
(* in feed order, and events are passed over only by a connector that may  *)
(* start at the end of the feed.                                           *)
(***************************************************************************)
EXTENDS Naturals

CONSTANTS Shards, Events, Discarded

VARIABLES
    replays,    \* the connector always starts at the beginning of the feed
    published,  \* shard -> number of events in the feed
    delivered,  \* shard -> events in the topic
    skipped     \* shard -> events passed over

log == <<replays, published, delivered, skipped>>

Init ==
    /\ replays \in BOOLEAN
    /\ published = [s \in Shards |-> 0]
    /\ delivered = [s \in Shards |-> {}]
    /\ skipped = [s \in Shards |-> {}]

Publish(s) ==
    /\ published' = [published EXCEPT ![s] = @ + 1]
    /\ UNCHANGED <<replays, delivered, skipped>>

\* An event enters the topic for the first time after all that precede it.
Append(s, e) ==
    /\ e <= published[s]
    /\ \A d \in Events \ Discarded : d < e => d \in delivered[s] \cup skipped[s]
    /\ delivered' = [delivered EXCEPT ![s] = @ \cup {e}]
    /\ UNCHANGED <<replays, published, skipped>>

Skip(s, D) ==
    /\ ~replays
    /\ \A e \in D : e <= published[s]
    /\ skipped' = [skipped EXCEPT ![s] = @ \cup D]
    /\ UNCHANGED <<replays, published, delivered>>

Next ==
    \E s \in Shards :
        \/ Publish(s)
        \/ \E e \in Events \ Discarded : Append(s, e)
        \/ \E D \in SUBSET Events : Skip(s, D)

Spec == Init /\ [][Next]_log

-----------------------------------------------------------------------------

\* A connector that always starts at the beginning leaves no gap: the topic holds
\* the events of a shard from its first one on.
NoGap ==
    replays => \A s \in Shards : \A e \in delivered[s], d \in Events \ Discarded :
                  d < e => d \in delivered[s]

\* The topic holds only what the feed has, and what is in it stays.
OnlyPublished == \A s \in Shards : \A e \in delivered[s] : e <= published[s]
TopicKept     == [][\A s \in Shards : delivered[s] \subseteq delivered'[s]]_log

=============================================================================
