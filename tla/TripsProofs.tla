---------------------------- MODULE TripsProofs ----------------------------
(***************************************************************************)
(* Proofs about Trips: types, at most one ACTIVE trip, and that the sink   *)
(* does not reopen what it closed.                                         *)
(***************************************************************************)
EXTENDS Trips, TLAPS

Extends == work.step \in {"backfill", "route"}

\* What the pending write carries.
WorkOK ==
    /\ work.step # "idle" => work.trip \in Trip
    /\ Extends => work.row \in Row
    /\ work.step \in {"finish", "gap", "stale"} => work.row \in Row /\ work.row.status = "COMPLETED"
    /\ work.step = "create" => work.fresh \in Row

\* A copy that is still ACTIVE is not about to undo a closure of the sink's own.
CopyCurrent ==
    (~lag /\ Extends /\ Active(work.row)) =>
        (rows[work.trip].status = "COMPLETED" => rows[work.trip].swept)

\* The one open trip is the cached one, the one about to be put, and the one
\* about to be replaced.
OpenKnown ==
    (path = "signal" /\ ~lag /\ ~missed) =>
        /\ \A t, u \in Open : t = u
        /\ cache # None => Open \subseteq {cache}
        /\ work.step = "create" => cache = work.trip
        /\ work.step = "stale" => Open \subseteq {work.trip}
        /\ (Extends /\ Active(work.row)) =>
              /\ Open \subseteq {work.trip}
              /\ cache # None => cache = work.trip

\* No row is ever removed, so what was read of a trip, or found stuck, exists.
Existing ==
    /\ \A t \in Trip : replica[t] \in Row => rows[t] \in Row
    /\ work.step = "backfill" => rows[work.trip] \in Row
    /\ \A t \in sweep : rows[t] \in Row

Inv == TypeOK /\ WorkOK /\ CopyCurrent /\ OpenKnown /\ Existing

-----------------------------------------------------------------------------
(* What the operators return. *)

USE TripsAssumption

LEMMA RowShape ==
    /\ NoTrip \notin Row
    /\ \A row \in Row : Closed(row) \in Row /\ Closed(row).status = "COMPLETED"
    /\ \A row \in Row : [row EXCEPT !.driver = TRUE] \in Row
    /\ \A row \in Row : [Closed(row) EXCEPT !.swept = TRUE] \in Row
BY DEF Row, NoTrip, Closed

LEMMA MessageShape ==
    ASSUME TypeOK, NEW m \in Messages
    PROVE  /\ m.ts \in Times /\ m.moved \in BOOLEAN /\ m.driver \in BOOLEAN
           /\ m.trip \in Trip \cup {None}
           /\ NewRow(m) \in Row /\ Active(NewRow(m))
           /\ \A row \in Row : Extended(row, m) \in Row /\ Extended(row, m).status = row.status
<1>1. \A d \in {e \in Delays : e <= now} : now - d \in Times
  BY DEF TypeOK, Times
<1>2. m.ts \in Times /\ m.moved \in BOOLEAN /\ m.driver \in BOOLEAN /\ m.trip \in Trip \cup {None}
  BY <1>1 DEF Messages, TypeOK
<1> QED
  BY <1>2 DEF NewRow, Extended, Row, Active

LEMMA ActiveRow ==
    ASSUME NEW row \in Row \cup {NoTrip}
    PROVE  Active(row) => row \in Row /\ row # NoTrip /\ row.status # "COMPLETED"
BY DEF Active, NoTrip, Row

\* A lookup returns nothing, or one ACTIVE trip of what it read.
LEMMA FoundShape ==
    ASSUME TypeOK, NEW f \in Found
    PROVE  /\ \/ f = Nothing
              \/ f.trip \in Trip /\ f.row \in Row /\ Active(f.row)
           /\ ~lag => f = Nothing \/ (f.trip \in Open /\ f.row = rows[f.trip])
           /\ Existing => f = Nothing \/ rows[f.trip] \in Row
<1>1. PICK v \in Views : \E P \in Pages(v) : f \in FoundIn(v, P)
  BY DEF Found
<1>p. PICK P \in Pages(v) : f \in FoundIn(v, P)
  BY <1>1
<1>2. v \in [Trip -> Row \cup {NoTrip}] /\ (~lag => v = rows)
  BY <1>1 DEF Views, TypeOK
<1>3. Existing => \A t \in Trip : v[t] \in Row => rows[t] \in Row
  BY <1>1 DEF Views, Existing
<1>4. CASE ActiveIn(v) \cap P = {}
  BY <1>p, <1>4 DEF FoundIn
<1>5. CASE ActiveIn(v) \cap P # {}
  <2>1. PICK t \in ActiveIn(v) \cap P : f = [trip |-> t, row |-> v[t]]
    BY <1>p, <1>5 DEF FoundIn
  <2>2. t \in Trip /\ Active(v[t])
    BY <2>1 DEF ActiveIn
  <2>3. f.trip = t /\ f.row = v[t] /\ v[t] \in Row
    BY <1>2, <2>1, <2>2, ActiveRow
  <2> QED
    BY <1>2, <1>3, <2>2, <2>3 DEF Open, ActiveIn
<1> QED
  BY <1>4, <1>5

LEMMA LookShape ==
    ASSUME TypeOK, NEW t \in Trip \cup {None}, NEW row \in Look(t)
    PROVE  /\ row \in Row \cup {NoTrip}
           /\ row # NoTrip => t \in Trip /\ row \in Row
           /\ (~lag /\ t # None) => row = rows[t]
<1>1. None \notin Trip
  BY DEF None, Trip
<1>2. CASE t = None
  BY <1>2 DEF Look
<1>3. CASE t # None
  <2>1. PICK v \in Views : row = v[t]
    BY <1>3 DEF Look
  <2>2. v \in [Trip -> Row \cup {NoTrip}] /\ (~lag => v = rows)
    BY <2>1 DEF Views, TypeOK
  <2> QED
    BY <1>3, <2>1, <2>2
<1> QED
  BY <1>2, <1>3

\* What is left to do after a decision, when it is about trip t.
LEMMA RouteShape ==
    ASSUME TypeOK, NEW m \in Messages, NEW t \in Trip, NEW row \in Row,
           NEW step \in {"backfill", "route"}, Route(m, t, row, step)
    PROVE  /\ work' \in Work /\ WorkOK'
           /\ work'.trip = t
           /\ \/ work'.step = "gap"
              \/ work'.step = step /\ work'.row.status = row.status
<1>1. row # NoTrip
  BY RowShape
<1>2. CASE row.fix # Nil /\ m.ts > row.fix + Gap
  BY <1>1, <1>2, RowShape DEF Route, Do, Work, Steps, WorkOK, Extends
<1>3. CASE ~(row.fix # Nil /\ m.ts > row.fix + Gap)
  BY <1>1, <1>3, RowShape, MessageShape DEF Route, Do, Work, Steps, WorkOK, Extends
<1> QED
  BY <1>2, <1>3

LEMMA DropShape ==
    ASSUME Drop
    PROVE  work' \in Work /\ WorkOK' /\ work'.step = "idle"
BY RowShape DEF Drop, Idle, Work, Steps, WorkOK, Extends

LEMMA CompleteShape ==
    ASSUME NEW t \in Trip, NEW row \in Row \cup {NoTrip}, Complete(t, row)
    PROVE  work' \in Work /\ WorkOK' /\ work'.step \in {"idle", "finish"}
<1>1. CASE row = NoTrip
  BY <1>1, DropShape DEF Complete
<1>2. CASE row # NoTrip
  BY <1>2, RowShape DEF Complete, Do, Work, Steps, WorkOK, Extends
<1> QED
  BY <1>1, <1>2

LEMMA CreateShape ==
    ASSUME TypeOK, NEW m \in Messages, NEW t \in Trip, Create(m, t)
    PROVE  /\ work' \in Work /\ WorkOK' /\ work'.step = "create" /\ work'.trip = t
           /\ cache' = t /\ redis' = t
BY MessageShape DEF Create, Do, Work, Steps, WorkOK, Extends, Tag

-----------------------------------------------------------------------------
(* Handling a message changes no table. *)

LEMMA HandlesType ==
    ASSUME TypeOK, Existing, NEW p, Handles(p), work' \in Work, cache' \in Trip \cup {None},
           redis' \in Trip \cup {None}, seen' \subseteq Trip, missed' \in BOOLEAN,
           faults' \in 0..MaxFaults
    PROVE  /\ TypeOK' /\ rows' = rows /\ lag' = lag /\ path' = path /\ Open' = Open
           /\ work'.step # "backfill" \/ rows[work'.trip] \in Row => Existing'
BY DEF TypeOK, Handles, env, table, Open, ActiveIn, Existing

LEMMA FaultType == ASSUME TypeOK, UNCHANGED faults \/ Fault PROVE faults' \in 0..MaxFaults
BY DEF TypeOK, Fault

LEMMA OpenOrAdoptInv ==
    ASSUME Inv, NEW m \in Messages, NEW f \in Found \cup {Nothing}, OpenOrAdopt(m, f),
           Handles("signal"), UNCHANGED seen, faults' \in 0..MaxFaults,
           missed' = (missed \/ Overlooks(f))
    PROVE  Inv'
<1> USE DEF Inv
<1>0. None \notin Trip
  BY DEF None, Trip
<1>m. m.trip \in Trip \cup {None} /\ NewRow(m) \in Row
  BY MessageShape
<1>f. /\ \/ f = Nothing
         \/ f.trip \in Trip /\ f.row \in Row /\ Active(f.row)
      /\ ~lag => f = Nothing \/ (f.trip \in Open /\ f.row = rows[f.trip])
      /\ f = Nothing \/ rows[f.trip] \in Row
  BY FoundShape
<1>n. f = Nothing <=> f.trip = None
  BY <1>f, <1>0 DEF Nothing
<1>s. missed' \in BOOLEAN /\ (~missed' => ~missed /\ (f = Nothing => Open = {}))
  BY <1>n DEF Overlooks, TypeOK
<1>1. CASE f.trip # None /\ ~IsStale(f.row) /\ Adopt(m, f)
  <2>1. f.trip \in Trip /\ f.row \in Row /\ Active(f.row)
    BY <1>f, <1>n, <1>1
  <2>2. /\ work' \in Work /\ WorkOK' /\ work'.trip = f.trip
        /\ work'.step \in {"gap", "backfill", "route"}
        /\ work'.step # "gap" => work'.row.status = f.row.status
    BY <1>1, <2>1, RouteShape DEF Adopt
  <2>3. TypeOK' /\ rows' = rows /\ lag' = lag /\ path' = path /\ Open' = Open /\ Existing'
    BY <1>1, <1>f, <1>n, <2>1, <2>2, <1>s, HandlesType DEF Adopt, TypeOK
  <2>4. Active(f.row) /\ f.row.status # "COMPLETED"
    BY <2>1 DEF Active
  <2>5. CopyCurrent'
    <3>1. CASE f \in Found
      <4>1. ~lag => f.row = rows[f.trip]
        BY <1>0, <2>1, <3>1, FoundShape DEF Nothing
      <4> QED
        BY <2>2, <2>3, <2>4, <4>1 DEF CopyCurrent
    <3>2. CASE f = Nothing
      BY <1>n, <1>1, <3>2
    <3> QED
      BY <3>1, <3>2
  <2>6. OpenKnown'
    BY <1>0, <1>1, <1>f, <1>n, <1>s, <2>1, <2>2, <2>3 DEF OpenKnown, Adopt, Extends
  <2> QED
    BY <2>2, <2>3, <2>5, <2>6
<1>2. CASE f.trip # None /\ IsStale(f.row) /\ Replace(m, f)
  <2>1. f.trip \in Trip /\ f.row \in Row /\ Active(f.row)
    BY <1>f, <1>n, <1>2
  <2>2. work' \in Work /\ WorkOK' /\ work'.trip = f.trip /\ work'.step = "stale"
    BY <1>2, <1>m, <2>1, RowShape DEF Replace, Do, Work, WorkOK, Extends, Steps
  <2>3. TypeOK' /\ rows' = rows /\ lag' = lag /\ path' = path /\ Open' = Open /\ Existing'
    BY <1>2, <2>1, <2>2, <1>s, HandlesType DEF Replace, TypeOK
  <2>4. CopyCurrent'
    BY <2>2 DEF CopyCurrent, Extends
  <2>5. OpenKnown'
    BY <1>0, <1>2, <1>f, <1>n, <1>s, <2>1, <2>2, <2>3 DEF OpenKnown, Replace, Extends
  <2> QED
    BY <2>2, <2>3, <2>4, <2>5
<1>3. CASE f.trip = None /\ TooLate(m) /\ Drop /\ cache' = None /\ UNCHANGED redis
  <2>1. work' \in Work /\ WorkOK' /\ work'.step = "idle"
    BY <1>3, DropShape
  <2>2. TypeOK' /\ rows' = rows /\ lag' = lag /\ path' = path /\ Open' = Open /\ Existing'
    BY <1>3, <2>1, <1>s, HandlesType DEF TypeOK
  <2> QED
    BY <1>3, <1>f, <1>n, <1>s, <2>1, <2>2 DEF CopyCurrent, OpenKnown, Extends
<1>4. CASE f.trip = None /\ ~TooLate(m) /\ \E t \in NewIds(m) : Create(m, t)
  <2>1. PICK t \in NewIds(m) : Create(m, t)
    BY <1>4
  <2>2. t \in Trip
    BY <1>m DEF NewIds, Unused
  <2>3. /\ work' \in Work /\ WorkOK' /\ work'.step = "create" /\ work'.trip = t
        /\ cache' = t /\ redis' = t
    BY <2>1, <2>2, CreateShape
  <2>4. TypeOK' /\ rows' = rows /\ lag' = lag /\ path' = path /\ Open' = Open /\ Existing'
    BY <2>2, <2>3, <1>s, HandlesType DEF TypeOK
  <2>5. CopyCurrent'
    BY <2>3 DEF CopyCurrent, Extends
  <2>6. (~lag /\ ~missed') => Open = {}
    BY <1>4, <1>n, <1>s
  <2>7. OpenKnown'
    BY <2>3, <2>4, <2>6 DEF OpenKnown, Extends
  <2> QED
    BY <2>3, <2>4, <2>5, <2>7
<1>5. \/ f.trip # None /\ ~IsStale(f.row) /\ Adopt(m, f)
      \/ f.trip # None /\ IsStale(f.row) /\ Replace(m, f)
      \/ f.trip = None /\ TooLate(m) /\ Drop /\ cache' = None /\ UNCHANGED redis
      \/ f.trip = None /\ ~TooLate(m) /\ \E t \in NewIds(m) : Create(m, t)
  BY DEF OpenOrAdopt
<1> QED
  BY <1>1, <1>2, <1>3, <1>4, <1>5

\* Extending the trip that is cached.
LEMMA ExtendCachedInv ==
    ASSUME Inv, NEW m \in Messages, NEW p, Handles(p), NEW row \in Look(cache) \ {NoTrip},
           Route(m, cache, row, "route"), UNCHANGED <<cache, redis, missed, faults>>,
           seen' \subseteq Trip, work.step = "idle"
    PROVE  Inv'
<1> USE DEF Inv
<1>0. None \notin Trip
  BY DEF None, Trip
<1>1. row \in Row /\ cache \in Trip /\ (~lag => row = rows[cache])
  BY <1>0, LookShape DEF TypeOK
<1>2. /\ work' \in Work /\ WorkOK' /\ work'.trip = cache
      /\ work'.step \in {"gap", "route"}
      /\ work'.step # "gap" => work'.row.status = row.status
  BY <1>1, RouteShape
<1>3. TypeOK' /\ rows' = rows /\ lag' = lag /\ path' = path /\ Open' = Open /\ Existing'
  BY <1>2, HandlesType DEF TypeOK
<1>4. CopyCurrent'
  BY <1>1, <1>2, <1>3 DEF CopyCurrent, Extends, Active
<1>5. OpenKnown'
  BY <1>0, <1>1, <1>2, <1>3 DEF OpenKnown, Extends
<1> QED
  BY <1>2, <1>3, <1>4, <1>5

\* Any decision that opens nothing and ends in a closure, if in anything.
LEMMA CloseInv ==
    ASSUME Inv, NEW p, Handles(p), work' \in Work, WorkOK', work'.step \in {"idle", "finish"},
           cache' = None, redis' \in {None, redis}, UNCHANGED missed, seen' \subseteq Trip,
           faults' \in 0..MaxFaults
    PROVE  Inv'
<1> USE DEF Inv
<1>1. TypeOK' /\ rows' = rows /\ lag' = lag /\ path' = path /\ Open' = Open /\ Existing'
  BY HandlesType DEF TypeOK
<1> QED
  BY <1>1 DEF CopyCurrent, OpenKnown, Extends

LEMMA CloseStepInv ==
    ASSUME Inv, NEW m \in Messages, NEW p, Handles(p), Close(m), seen' \subseteq Trip
    PROVE  Inv'
<1>0. None \notin Trip /\ TypeOK /\ Existing
  BY DEF None, Trip, Inv
<1>1. PICK t \in Trip \cup {None} :
          \/ CloseTrip(t)
          \/ t # None /\ Fault /\ Tag(None) /\ \E row \in Look(t) : Complete(t, row)
  <2>1. m.trip \in Trip \cup {None} /\ cache \in Trip \cup {None}
    BY <1>0, MessageShape DEF TypeOK
  <2>2. ASSUME NEW f \in Found PROVE f.trip \in Trip \cup {None}
    BY <1>0, <2>2, FoundShape DEF Nothing
  <2> QED
    BY <2>1, <2>2 DEF Close
<1>3. faults' \in 0..MaxFaults
  BY <1>0, <1>1, FaultType DEF CloseTrip
<1>4. redis' \in {None, redis}
  BY <1>1 DEF CloseTrip, Tag
<1>5. work' \in Work /\ WorkOK' /\ work'.step \in {"idle", "finish"}
  <2>1. CASE Drop
    BY <2>1, DropShape
  <2>2. CASE t # None /\ \E row \in Look(t) : Complete(t, row)
    <3>1. PICK row \in Look(t) : Complete(t, row)
      BY <2>2
    <3>2. row \in Row \cup {NoTrip} /\ t \in Trip
      BY <1>0, <2>2, LookShape
    <3> QED
      BY <3>1, <3>2, CompleteShape
  <2> QED
    BY <1>1, <2>1, <2>2 DEF CloseTrip
<1> QED
  BY <1>3, <1>4, <1>5, CloseInv DEF Close

LEMMA ReceiveInv ==
    ASSUME Inv, NEW m \in Messages, Receive(m)
    PROVE  Inv'
<1>0. None \notin Trip /\ TypeOK /\ Existing
  BY DEF None, Trip, Inv
<1>1. CASE IgnitionOn(m)
  <2> USE <1>1 DEF IgnitionOn
  <2>0. work.step = "idle" /\ seen' \subseteq Trip
    BY <1>0 DEF Handles, Idle, TypeOK
  <2>1. ASSUME NEW row \in Look(cache) \ {NoTrip}, Route(m, cache, row, "route"),
               UNCHANGED <<cache, redis, missed, faults>>
        PROVE  Inv'
    BY <2>0, <2>1, ExtendCachedInv
  <2>2. ASSUME NEW f \in Found \cup {Nothing}, OpenOrAdopt(m, f),
               missed' = (missed \/ Overlooks(f)), UNCHANGED faults \/ Fault
        PROVE  Inv'
    BY <1>0, <2>2, FaultType, OpenOrAdoptInv
  <2> QED
    BY <2>1, <2>2
<1>2. CASE IgnitionOff(m)
  BY <1>0, <1>2, CloseStepInv DEF IgnitionOff, TypeOK
<1>3. CASE Other(m)
  <2>1. PICK f \in Found : Route(m, f.trip, f.row, "route")
    BY <1>3 DEF Other
  <2>0. Handles("signal") /\ UNCHANGED <<seen, cache, redis, missed, faults>>
    BY <1>3 DEF Other
  <2>2. CASE f = Nothing
    <3>1. work' \in Work /\ WorkOK' /\ work'.step = "idle"
      BY <2>1, <2>2, DropShape DEF Route, Nothing
    <3>2. TypeOK' /\ rows' = rows /\ lag' = lag /\ path' = path /\ Open' = Open /\ Existing'
      BY <1>0, <2>0, <3>1, HandlesType DEF TypeOK
    <3> QED
      BY <2>0, <3>1, <3>2 DEF Inv, CopyCurrent, OpenKnown, Extends
  <2>3. CASE f # Nothing
    <3>0. /\ f.trip \in Trip /\ f.row \in Row
          /\ ~lag => f.trip \in Open /\ f.row = rows[f.trip]
      BY <1>0, <2>3, FoundShape
    <3>1. /\ work' \in Work /\ WorkOK' /\ work'.trip = f.trip
          /\ work'.step \in {"gap", "route"}
          /\ work'.step # "gap" => work'.row.status = f.row.status
      BY <1>0, <2>1, <3>0, RouteShape
    <3>2. TypeOK' /\ rows' = rows /\ lag' = lag /\ path' = path /\ Open' = Open /\ Existing'
      BY <1>0, <2>0, <3>1, HandlesType DEF TypeOK
    <3>3. CopyCurrent'
      BY <3>0, <3>1, <3>2 DEF CopyCurrent, Extends, Active
    <3>4. OpenKnown'
      BY <2>0, <3>0, <3>1, <3>2 DEF OpenKnown, Extends, Inv
    <3> QED
      BY <3>1, <3>2, <3>3, <3>4 DEF Inv
  <2> QED
    BY <2>2, <2>3
<1>4. ASSUME NEW k \in Trip,
             Duplicate(k) \/ CanonicalOpen(m, k) \/ CanonicalOff(m, k) \/ CanonicalClose(k)
      PROVE  Inv'
  <2>0. work.step = "idle" /\ path = "canonical" /\ Handles("canonical")
    BY <1>4 DEF Duplicate, CanonicalOpen, CanonicalOff, CanonicalClose, FirstTime, Handles, Idle
  <2>1. CASE Duplicate(k)
    <3>1. TypeOK' /\ rows' = rows /\ lag' = lag /\ path' = path /\ Open' = Open /\ Existing'
      BY <1>0, <2>0, <2>1, HandlesType DEF Duplicate, sink, TypeOK
    <3> QED
      BY <2>1, <3>1 DEF Duplicate, sink, Inv, WorkOK, CopyCurrent, OpenKnown, Extends
  <2>2. CASE CanonicalOpen(m, k)
    <3>0. seen' \subseteq Trip
      BY <1>0, <2>2 DEF CanonicalOpen, FirstTime, TypeOK
    <3>1. ASSUME NEW row \in Look(cache) \ {NoTrip}, Route(m, cache, row, "route"),
                 UNCHANGED <<cache, redis, missed, faults>>
          PROVE  Inv'
      BY <2>0, <3>0, <3>1, ExtendCachedInv
    <3>2. CASE Create(m, k) /\ UNCHANGED missed /\ (UNCHANGED faults \/ Fault)
      <4>1. /\ work' \in Work /\ WorkOK' /\ work'.step = "create"
            /\ cache' = k /\ redis' = k
        BY <1>0, <3>2, CreateShape
      <4>2. TypeOK' /\ rows' = rows /\ lag' = lag /\ path' = path /\ Existing'
        BY <1>0, <2>0, <3>0, <3>2, <4>1, FaultType, HandlesType DEF TypeOK
      <4> QED
        BY <2>0, <4>1, <4>2 DEF Inv, CopyCurrent, OpenKnown, Extends
    <3> QED
      BY <2>2, <3>1, <3>2 DEF CanonicalOpen
  <2>3. CASE CanonicalOff(m, k)
    BY <1>0, <2>0, <2>3, CloseStepInv DEF CanonicalOff, FirstTime, TypeOK
  <2>4. CASE CanonicalClose(k)
    <3>1. work' \in Work /\ WorkOK' /\ work'.step \in {"idle", "finish"}
      <4>1. CASE Drop
        BY <4>1, DropShape
      <4>2. ASSUME NEW row \in Look(k), Complete(k, row) PROVE work' \in Work /\ WorkOK' /\ work'.step \in {"idle", "finish"}
        <5>1. row \in Row \cup {NoTrip}
          BY <1>0, LookShape
        <5> QED
          BY <4>2, <5>1, CompleteShape
      <4> QED
        BY <2>4, <4>1, <4>2 DEF CanonicalClose
    <3>2. faults' \in 0..MaxFaults /\ seen' \subseteq Trip
      BY <1>0, <2>4, FaultType DEF CanonicalClose, FirstTime, TypeOK
    <3> QED
      BY <2>0, <2>4, <3>1, <3>2, CloseInv DEF CanonicalClose, Tag
  <2> QED
    BY <1>4, <2>1, <2>2, <2>3, <2>4
<1> QED
  BY <1>1, <1>2, <1>3, <1>4 DEF Receive

-----------------------------------------------------------------------------
(* Writes. *)

\* What the sink closed by itself stays closed.
StaysClosed ==
    ~lag => \A t \in Trip :
        (rows[t].status = "COMPLETED" /\ ~rows[t].swept) => rows'[t].status = "COMPLETED"

LEMMA WriteShape ==
    ASSUME TypeOK, NEW t \in Trip, NEW row \in Row, Stored(t, row) \/ Refused
    PROVE  /\ rows' \in [Trip -> Row \cup {NoTrip}] /\ recent' \subseteq Trip
           /\ faults' \in 0..MaxFaults
           /\ \A u \in Trip : rows[u] \in Row => rows'[u] \in Row
           /\ \/ rows' = rows /\ Open' = Open
              \/ /\ rows' = [rows EXCEPT ![t] = row]
                 /\ rows'[t] = row /\ \A u \in Trip \ {t} : rows'[u] = rows[u]
                 /\ Open' = IF Active(row) THEN Open \cup {t} ELSE Open \ {t}
<1>1. CASE Stored(t, row)
  BY <1>1 DEF TypeOK, Stored, Store, Open, ActiveIn
<1>2. CASE Refused
  BY <1>2 DEF TypeOK, Refused, table, Fault, Open, ActiveIn
<1> QED
  BY <1>1, <1>2

LEMMA WritesType ==
    ASSUME TypeOK, Existing, NEW s, Writes(s), rows' \in [Trip -> Row \cup {NoTrip}],
           recent' \subseteq Trip, faults' \in 0..MaxFaults, work' \in Work,
           cache' \in Trip \cup {None}, redis' \in Trip \cup {None}, work'.step # "backfill",
           \A u \in Trip : rows[u] \in Row => rows'[u] \in Row
    PROVE  TypeOK' /\ lag' = lag /\ path' = path /\ missed' = missed /\ Existing'
BY DEF TypeOK, Writes, env, Existing

\* A write that closes trip t, and leaves the cache alone or clears it.
LEMMA CloseWrite ==
    ASSUME Inv, NEW s, Writes(s), NEW t \in Trip, NEW row \in Row, row.status = "COMPLETED",
           Stored(t, row) \/ Refused, Drop, cache' \in {cache, None}, redis' \in {redis, None}
    PROVE  Inv' /\ StaysClosed
<1> USE DEF Inv
<1>1. work' \in Work /\ WorkOK' /\ work'.step = "idle"
  BY DropShape
<1>2. /\ \/ rows' = rows /\ Open' = Open
         \/ rows' = [rows EXCEPT ![t] = row] /\ Open' = Open \ {t}
      /\ TypeOK' /\ lag' = lag /\ path' = path /\ missed' = missed /\ Existing'
  <2>1. ~Active(row)
    BY DEF Active
  <2> QED
    BY <1>1, <2>1, WriteShape, WritesType DEF TypeOK
<1>3. StaysClosed
  BY <1>2 DEF StaysClosed, TypeOK
<1>4. CopyCurrent' /\ OpenKnown'
  BY <1>1, <1>2 DEF CopyCurrent, OpenKnown, Extends
<1> QED
  BY <1>1, <1>2, <1>3, <1>4

LEMMA PutInv == ASSUME Inv, Put PROVE Inv' /\ StaysClosed
<1> USE DEF Inv
<1>0. /\ Writes("route") /\ Drop /\ UNCHANGED <<cache, redis>> /\ (Stored(work.trip, work.row) \/ Refused)
      /\ Extends /\ work.trip \in Trip /\ work.row \in Row
  BY DEF Put, Writes, WorkOK, Extends
<1>1. work' \in Work /\ WorkOK' /\ work'.step = "idle"
  BY <1>0, DropShape
<1>2. /\ \/ rows' = rows /\ Open' = Open
         \/ /\ rows' = [rows EXCEPT ![work.trip] = work.row]
            /\ Open' = IF Active(work.row) THEN Open \cup {work.trip} ELSE Open \ {work.trip}
      /\ TypeOK' /\ lag' = lag /\ path' = path /\ missed' = missed /\ Existing'
  BY <1>0, <1>1, WriteShape, WritesType DEF TypeOK
<1>3. StaysClosed
  <2>1. work.row.status \in {"ACTIVE", "COMPLETED"}
    BY <1>0 DEF Row
  <2> QED
    BY <1>0, <1>2, <2>1 DEF StaysClosed, CopyCurrent, TypeOK, Active
<1>4. CopyCurrent'
  BY <1>1 DEF CopyCurrent, Extends
<1>5. OpenKnown'
  BY <1>0, <1>1, <1>2 DEF OpenKnown, Extends
<1> QED
  BY <1>1, <1>2, <1>3, <1>4, <1>5

LEMMA BackfillInv == ASSUME Inv, Backfill PROVE Inv' /\ StaysClosed
<1> USE DEF Inv
<1> DEFINE row == [rows[work.trip] EXCEPT !.driver = TRUE]
<1>0. /\ Writes("backfill") /\ Then("route") /\ UNCHANGED <<cache, redis>>
      /\ (Stored(work.trip, row) \/ Refused)
      /\ Extends /\ work.trip \in Trip /\ work.row \in Row /\ work \in Work
  BY DEF Backfill, Writes, WorkOK, Extends, TypeOK
<1>1. /\ work' \in Work /\ work'.step = "route" /\ work'.trip = work.trip /\ work'.row = work.row
      /\ WorkOK'
  BY <1>0 DEF Then, Work, Steps, WorkOK, Extends
<1>2. /\ TypeOK' /\ lag' = lag /\ path' = path /\ missed' = missed /\ Existing'
      /\ Open' = Open
      /\ \A t \in Trip : rows'[t].status = rows[t].status /\ rows'[t].swept = rows[t].swept
  <2>1. CASE Refused
    <3>1. rows' = rows /\ recent' = recent /\ faults' \in 0..MaxFaults
      BY <2>1 DEF Refused, table, Fault, TypeOK
    <3> QED
      BY <1>0, <1>1, <3>1, WritesType DEF TypeOK, Open, ActiveIn
  <2>2. CASE Stored(work.trip, row)
    <3>0. rows[work.trip] \in Row
      BY <1>0 DEF Existing, Writes
    <3>1. /\ row \in Row /\ row.status = rows[work.trip].status
          /\ row.swept = rows[work.trip].swept
      BY <3>0 DEF Row
    <3>2. rows' = [rows EXCEPT ![work.trip] = row]
      BY <2>2 DEF Stored, Store
    <3>3. recent' \subseteq Trip /\ faults' \in 0..MaxFaults
      BY <1>0, <2>2 DEF Stored, Store, TypeOK
    <3> HIDE DEF row
    <3>4. /\ Open' = Open
          /\ \A t \in Trip : rows'[t].status = rows[t].status /\ rows'[t].swept = rows[t].swept
          /\ rows' \in [Trip -> Row \cup {NoTrip}]
          /\ \A u \in Trip : rows[u] \in Row => rows'[u] \in Row
      BY <1>0, <3>0, <3>1, <3>2 DEF TypeOK, Open, ActiveIn, Active
    <3> QED
      BY <1>0, <1>1, <3>3, <3>4, WritesType DEF TypeOK
  <2> QED
    BY <1>0, <2>1, <2>2
<1>3. StaysClosed
  BY <1>2 DEF StaysClosed
<1>4. CopyCurrent'
  BY <1>0, <1>1, <1>2 DEF CopyCurrent
<1>5. OpenKnown'
  BY <1>0, <1>1, <1>2 DEF OpenKnown, Extends
<1> QED
  BY <1>1, <1>2, <1>3, <1>4, <1>5

LEMMA FinishInv == ASSUME Inv, Finish PROVE Inv' /\ StaysClosed
<1>1. /\ Writes("finish") /\ Drop /\ UNCHANGED <<cache, redis>> /\ (Stored(work.trip, work.row) \/ Refused)
      /\ work.trip \in Trip /\ work.row \in Row /\ work.row.status = "COMPLETED"
  BY DEF Finish, Writes, WorkOK, Inv
<1> QED
  BY <1>1, CloseWrite

LEMMA FinishOnGapInv == ASSUME Inv, FinishOnGap PROVE Inv' /\ StaysClosed
<1>1. /\ Writes("gap") /\ Drop /\ (Stored(work.trip, work.row) \/ Refused)
      /\ cache' \in {cache, None} /\ redis' \in {redis, None}
      /\ work.trip \in Trip /\ work.row \in Row /\ work.row.status = "COMPLETED"
  BY DEF FinishOnGap, Writes, WorkOK, Inv, Tag
<1> QED
  BY <1>1, CloseWrite

LEMMA FinishStaleInv == ASSUME Inv, FinishStale PROVE Inv' /\ StaysClosed
<1> USE DEF Inv
<1>0. /\ Writes("stale") /\ (Stored(work.trip, work.row) \/ Refused)
      /\ work.trip \in Trip /\ work.row \in Row /\ work.row.status = "COMPLETED" /\ work \in Work
      /\ ~Active(work.row)
  BY DEF FinishStale, Writes, WorkOK, TypeOK, Active
<1>1. \/ Drop /\ redis' = None /\ cache' = cache
      \/ /\ work.fresh # NoTrip /\ Then("create")
         /\ cache' = work.trip /\ redis' = work.trip
  BY DEF FinishStale, Tag
<1>2. /\ work' \in Work /\ WorkOK' /\ ~Extends' /\ work'.step # "stale"
      /\ work'.step = "create" => work'.trip = cache' /\ cache' = work.trip
      /\ cache' \in {cache, work.trip} /\ redis' \in {None, work.trip}
  <2>1. CASE Drop /\ redis' = None /\ cache' = cache
    BY <2>1, DropShape DEF Extends
  <2>2. CASE work.fresh # NoTrip /\ Then("create") /\ cache' = work.trip /\ redis' = work.trip
    BY <1>0, <2>2 DEF Then, Work, Steps, WorkOK, Extends
  <2> QED
    BY <1>1, <2>1, <2>2
<1>3. /\ \/ rows' = rows /\ Open' = Open
         \/ rows' = [rows EXCEPT ![work.trip] = work.row] /\ Open' = Open \ {work.trip}
      /\ TypeOK' /\ lag' = lag /\ path' = path /\ missed' = missed /\ Existing'
  BY <1>0, <1>2, WriteShape, WritesType DEF TypeOK, Extends
<1>4. StaysClosed
  BY <1>0, <1>3 DEF StaysClosed, TypeOK
<1>5. CopyCurrent'
  BY <1>2 DEF CopyCurrent
<1>6. OpenKnown'
  BY <1>0, <1>2, <1>3 DEF OpenKnown, Writes
<1> QED
  BY <1>2, <1>3, <1>4, <1>5, <1>6

LEMMA PutNewInv == ASSUME Inv, PutNew PROVE Inv' /\ StaysClosed
<1> USE DEF Inv
<1>0. /\ Writes("create") /\ UNCHANGED <<cache, redis>>
      /\ work.trip \in Trip /\ work.fresh \in Row /\ work \in Work
      /\ work.step = "create"
  BY DEF PutNew, Writes, WorkOK, TypeOK
<1>1. /\ work' \in Work /\ WorkOK' /\ work'.step \in {"idle", "expire"}
  <2>1. CASE path = "signal"
    BY <1>0, <2>1 DEF PutNew, Then, Work, Steps, WorkOK, Extends
  <2>2. CASE path # "signal"
    BY <2>2, DropShape DEF PutNew
  <2> QED
    BY <2>1, <2>2
<1>2. /\ rows' \in [Trip -> Row \cup {NoTrip}] /\ recent' \subseteq Trip /\ faults' \in 0..MaxFaults
      /\ \/ rows' = rows /\ Open' = Open
         \/ /\ rows[work.trip] = NoTrip /\ rows' = [rows EXCEPT ![work.trip] = work.fresh]
            /\ Open' \subseteq Open \cup {work.trip}
      /\ \A u \in Trip : rows[u] \in Row => rows'[u] \in Row
  <2>1. CASE rows[work.trip] = NoTrip /\ Stored(work.trip, work.fresh)
    BY <1>0, <2>1, WriteShape
  <2>2. CASE UNCHANGED <<table, faults>>
    BY <2>2 DEF table, TypeOK, Open, ActiveIn
  <2>3. CASE Refused
    BY <2>3 DEF Refused, table, Fault, TypeOK, Open, ActiveIn
  <2> QED
    BY <2>1, <2>2, <2>3 DEF PutNew
<1>3. TypeOK' /\ lag' = lag /\ path' = path /\ missed' = missed /\ Existing'
  BY <1>0, <1>1, <1>2, WritesType DEF TypeOK
<1>4. StaysClosed
  BY <1>0, <1>2 DEF StaysClosed, TypeOK, NoTrip
<1>5. CopyCurrent'
  BY <1>1 DEF CopyCurrent, Extends
<1>6. OpenKnown'
  <2> SUFFICES ASSUME path = "signal", ~lag, ~missed
               PROVE  /\ \A t, u \in Open' : t = u
                      /\ cache' # None => Open' \subseteq {cache'}
    BY <1>1, <1>3 DEF OpenKnown, Extends
  <2>1. cache = work.trip /\ cache # None /\ Open \subseteq {cache}
    BY <1>0 DEF OpenKnown, Trip, None
  <2> QED
    BY <1>0, <1>2, <2>1
<1> QED
  BY <1>1, <1>3, <1>4, <1>5, <1>6

LEMMA ExpireInv == ASSUME Inv, Expire PROVE Inv' /\ StaysClosed
<1> USE DEF Inv
<1>0. /\ Writes("expire") /\ rows' = rows /\ recent' = recent /\ faults' = faults
      /\ work.trip \in Trip /\ TypeOK
  BY DEF Expire, Writes, WorkOK, table
<1>1. PICK row \in Look(work.trip) :
          IF row # NoTrip /\ now > row.start + Age
          THEN cache' = None /\ Tag(None) /\ Complete(work.trip, row)
          ELSE Drop /\ UNCHANGED <<cache, redis>>
  BY DEF Expire
<1>2. row \in Row \cup {NoTrip}
  BY <1>0, LookShape
<1>3. /\ work' \in Work /\ WorkOK' /\ work'.step \in {"idle", "finish"}
      /\ cache' \in {cache, None} /\ redis' \in {redis, None}
  BY <1>0, <1>1, <1>2, CompleteShape, DropShape DEF Tag
<1>4. TypeOK' /\ lag' = lag /\ path' = path /\ missed' = missed /\ Existing' /\ Open' = Open
  BY <1>0, <1>3, WritesType DEF TypeOK, Open, ActiveIn
<1> QED
  BY <1>0, <1>3, <1>4 DEF CopyCurrent, OpenKnown, Extends, StaysClosed

-----------------------------------------------------------------------------
(* Every step. *)

LEMMA SinkInv == ASSUME Inv, SinkStep PROVE Inv' /\ StaysClosed
BY PutInv, BackfillInv, FinishInv, FinishOnGapInv, FinishStaleInv, PutNewInv, ExpireInv DEF SinkStep

LEMMA UnchangedInv ==
    ASSUME Inv, UNCHANGED <<env, rows, sink, missed>>, TypeOK', Existing'
    PROVE  Inv' /\ StaysClosed
BY DEF Inv, env, sink, WorkOK, CopyCurrent, OpenKnown, Extends, StaysClosed, Open, ActiveIn

LEMMA CloseStuckInv == ASSUME Inv, NEW t \in Trip, CloseStuck(t) PROVE Inv' /\ StaysClosed
<1> USE DEF Inv
<1> DEFINE row == [Closed(rows[t]) EXCEPT !.swept = TRUE]
<1>1. row \in Row /\ row.status = "COMPLETED" /\ row.swept
  <2>1. rows[t] \in Row
    BY DEF CloseStuck, Existing
  <2> QED
    BY <2>1 DEF Row, Closed
<1>2. Stored(t, row) \/ Refused
  BY DEF CloseStuck
<1>3. ~Active(row)
  BY <1>1 DEF Active
<1>4. /\ rows' \in [Trip -> Row \cup {NoTrip}] /\ recent' \subseteq Trip
      /\ faults' \in 0..MaxFaults
      /\ \A u \in Trip : rows[u] \in Row => rows'[u] \in Row
      /\ \/ rows' = rows /\ Open' = Open
         \/ rows' = [rows EXCEPT ![t] = row] /\ Open' = Open \ {t}
  <2> HIDE DEF row
  <2> QED
    BY <1>1, <1>2, <1>3, WriteShape
<1>5. UNCHANGED <<env, replica, sink, missed>> /\ sweep' \subseteq sweep
  BY DEF CloseStuck
<1>6. TypeOK' /\ Existing'
  <2> HIDE DEF row
  <2>1. UNCHANGED <<now, frames, restarts, cache, redis, seen, work, path, lag, page>>
    BY DEF CloseStuck, env, sink
  <2>2. TypeOK'
    BY <1>4, <1>5, <2>1 DEF TypeOK
  <2>3. Existing'
    BY <1>4, <1>5, <2>1 DEF Existing, TypeOK, WorkOK
  <2> QED
    BY <2>2, <2>3
<1>7. StaysClosed
  <2> HIDE DEF row
  <2> QED
    BY <1>1, <1>4 DEF StaysClosed, TypeOK
<1>8. CopyCurrent'
  <2> HIDE DEF row
  <2> QED
    BY <1>1, <1>4, <1>5 DEF CopyCurrent, Extends, TypeOK, WorkOK, env, sink
<1>9. WorkOK' /\ OpenKnown'
  BY <1>4, <1>5 DEF WorkOK, OpenKnown, Extends, env, sink
<1> QED
  BY <1>6, <1>7, <1>8, <1>9

LEMMA Initial == Init => Inv
<1> SUFFICES ASSUME Init PROVE Inv
  OBVIOUS
<1>1. work = Idle /\ work.step = "idle" /\ work \in Work
  BY DEF Init, Idle, Work, Steps
<1>2. \A t \in Trip : rows[t] = NoTrip /\ replica[t] = NoTrip /\ ~Active(rows[t])
  BY DEF Init, Active, NoTrip
<1>3. TypeOK
  <2>1. PICK sc \in Scenarios :
          path = sc.path /\ lag = sc.lag /\ page = sc.page /\ frames = sc.frames
    BY DEF Init
  <2>2. lag \in BOOLEAN /\ path \in {"signal", "canonical"} /\ page \in Nat /\ frames \in Nat
    BY <2>1
  <2>3. rows \in [Trip -> Row \cup {NoTrip}] /\ replica \in [Trip -> Row \cup {NoTrip}]
    BY DEF Init
  <2>4. now \in Times /\ faults \in 0..MaxFaults /\ restarts \in 0..MaxRestarts
    <3>1. now = 0 /\ faults = 0 /\ restarts = 0
      BY DEF Init
    <3> QED
      BY <3>1, TripsAssumption DEF Times
  <2>6. missed \in BOOLEAN
    BY DEF Init
  <2>5. /\ recent \subseteq Trip /\ seen \subseteq Trip /\ sweep \subseteq Trip
        /\ cache \in Trip \cup {None} /\ redis \in Trip \cup {None}
    BY DEF Init
  <2> QED
    BY <1>1, <2>2, <2>3, <2>4, <2>5, <2>6 DEF TypeOK
<1>4. WorkOK /\ CopyCurrent
  BY <1>1 DEF WorkOK, CopyCurrent, Extends
<1>5. OpenKnown
  BY <1>1, <1>2 DEF OpenKnown, Open, ActiveIn, Extends
<1>6. Existing
  BY <1>1, <1>2, RowShape DEF Existing, Init
<1> QED
  BY <1>3, <1>4, <1>5, <1>6 DEF Inv

\* Every step preserves the invariant and keeps the sink's own closures.
LEMMA Preserved == Inv /\ [Next]_vars => Inv' /\ StaysClosed
<1> SUFFICES ASSUME Inv, [Next]_vars PROVE Inv' /\ StaysClosed
  OBVIOUS
<1>1. ASSUME NEW m \in Messages, Receive(m) PROVE Inv' /\ StaysClosed
  <2>1. rows' = rows
    BY <1>1 DEF Receive, IgnitionOn, IgnitionOff, Other, Duplicate, CanonicalOpen, CanonicalOff,
                CanonicalClose, FirstTime, Handles, table
  <2> QED
    BY <1>1, <2>1, ReceiveInv DEF StaysClosed
<1>2. CASE SinkStep
  BY <1>2, SinkInv
<1>3. CASE Restart
  <2>1. TypeOK' /\ Existing'
    BY <1>3, RowShape DEF Restart, Inv, TypeOK, Existing, env, table, Idle, Work, Steps
  <2> QED
    BY <1>3, <2>1 DEF Restart, Inv, WorkOK, CopyCurrent, OpenKnown, Extends, Idle, env, table,
                      StaysClosed, Open, ActiveIn
<1>4. CASE Sweep
  <2>1. TypeOK'
    BY <1>4 DEF Sweep, Inv, TypeOK, env, table, sink
  <2>2. Existing'
    <3>1. PICK v \in Views : sweep' = {t \in Trip : IsStuck(v[t])}
      BY <1>4 DEF Sweep
    <3>2. \A t \in Trip : v[t] \in Row => rows[t] \in Row
      BY <3>1 DEF Views, Inv, Existing
    <3>3. \A t \in Trip : v[t] \in Row \cup {NoTrip}
      BY <3>1 DEF Views, Inv, TypeOK
    <3>4. \A t \in sweep' : rows[t] \in Row
      BY <3>1, <3>2, <3>3, ActiveRow DEF IsStuck
    <3> QED
      BY <1>4, <3>4 DEF Sweep, Inv, Existing, table, sink
  <2> QED
    BY <1>4, <2>1, <2>2, UnchangedInv DEF Sweep, table
<1>5. ASSUME NEW t \in Trip, CloseStuck(t) PROVE Inv' /\ StaysClosed
  BY <1>5, CloseStuckInv
<1>6. ASSUME NEW t \in Trip, Replicate(t) PROVE Inv' /\ StaysClosed
  <2>1. TypeOK' /\ Existing'
    BY <1>6 DEF Replicate, Inv, TypeOK, Existing, env, table, sink
  <2> QED
    BY <1>6, <2>1, UnchangedInv DEF Replicate, table
<1>7. CASE Tick
  <2>1. TypeOK' /\ Existing'
    BY <1>7 DEF Tick, Inv, TypeOK, Existing, env, sink, Times, ActiveIn
  <2> QED
    BY <1>7, <2>1, UnchangedInv DEF Tick
<1>8. CASE UNCHANGED vars
  <2>1. TypeOK' /\ Existing'
    BY <1>8 DEF vars, Inv, TypeOK, Existing, env, table, sink
  <2> QED
    BY <1>8, <2>1, UnchangedInv DEF vars, table
<1> QED
  BY <1>1, <1>2, <1>3, <1>4, <1>5, <1>6, <1>7, <1>8 DEF Next

-----------------------------------------------------------------------------

\* The inductive invariant holds in every reachable state.
THEOREM Inductive == Spec => []Inv
BY Initial, Preserved, PTL DEF Spec

\* The trips, the sink and the sweeper keep their types.
THEOREM TypeCorrect == Spec => []TypeOK
<1>1. Inv => TypeOK
  BY DEF Inv
<1> QED
  BY <1>1, Inductive, PTL

\* With reads that do not lag, no two trips of the vehicle are ACTIVE unless a lookup
\* of the ACTIVE trip failed, or its one page ended before it.
THEOREM OneTripOpen == Spec => []OneOpen
<1>1. Inv => OneOpen
  BY DEF Inv, OpenKnown, OneOpen
<1> QED
  BY <1>1, Inductive, PTL

\* With reads that do not lag, the sink never reopens a trip it has closed.
THEOREM OwnClosureKept == Spec => OwnClosureStays
<1>1. Inv /\ [Next]_vars => [~lag => \A t \in Trip :
          (rows[t].status = "COMPLETED" /\ ~rows[t].swept) => rows'[t].status = "COMPLETED"]_vars
  BY Preserved DEF StaysClosed
<1> QED
  BY <1>1, Inductive, PTL DEF Spec, OwnClosureStays

-----------------------------------------------------------------------------
(* When a trip began.  Reads may lag and fail here, and both paths are      *)
(* covered: the sink puts whole items back that it read some time ago.      *)

Copies == {"route", "backfill", "finish", "gap", "stale"}

\* The item is a state, old or new, of the trip that the table holds.
SameStart(t, row) == rows[t] # NoTrip /\ rows[t].start = row.start

CopyStart(w) == w.step \in Copies => SameStart(w.trip, w.row)

\* What the replica shows, and what the sink is about to put back, began when the
\* table says it did.
StartsAgree ==
    /\ \A t \in Trip : replica[t] # NoTrip => SameStart(t, replica[t])
    /\ CopyStart(work)

\* No message, put, closure or sweep removes a trip or changes when it began.
StartKept ==
    [][\A t \in Trip : rows[t] # NoTrip => rows'[t] # NoTrip /\ rows'[t].start = rows[t].start]_vars

Kept == \A t \in Trip : rows[t] # NoTrip => rows'[t] # NoTrip /\ rows'[t].start = rows[t].start

\* What a step derives from an item it read began when that item did.
LEMMA DerivedStart ==
    ASSUME NEW row \in Row
    PROVE  /\ Closed(row).start = row.start
           /\ \A m : Extended(row, m).start = row.start
           /\ [row EXCEPT !.driver = TRUE].start = row.start
           /\ [Closed(row) EXCEPT !.swept = TRUE].start = row.start
BY DEF Closed, Extended, Row

LEMMA RouteStart ==
    ASSUME NEW m, NEW t, NEW row \in Row, SameStart(t, row), NEW step, Route(m, t, row, step)
    PROVE  CopyStart(work')
BY DerivedStart DEF Route, Drop, Idle, Do, CopyStart, SameStart, Copies

LEMMA CompleteStart ==
    ASSUME NEW t, NEW row \in Row, SameStart(t, row), Complete(t, row)
    PROVE  CopyStart(work')
BY DerivedStart DEF Complete, Drop, Idle, Do, CopyStart, SameStart, Copies

LEMMA DropStart == ASSUME Drop PROVE CopyStart(work')
BY DEF Drop, Idle, CopyStart, Copies

LEMMA LookStart ==
    ASSUME TypeOK, StartsAgree, NEW t \in Trip \cup {None}, NEW row \in Look(t), row # NoTrip
    PROVE  row \in Row /\ SameStart(t, row)
<1>1. t \in Trip /\ row \in Row
  BY LookShape
<1>2. PICK v \in Views : row = v[t]
  BY <1>1 DEF Look, None, Trip
<1> QED
  BY <1>1, <1>2 DEF Views, StartsAgree, SameStart

LEMMA FoundStart ==
    ASSUME TypeOK, StartsAgree, NEW f \in Found, f # Nothing
    PROVE  f.trip \in Trip /\ f.row \in Row /\ SameStart(f.trip, f.row)
<1>1. f.trip \in Trip /\ f.row \in Row
  BY FoundShape
<1>2. PICK v \in Views : \E P \in Pages(v) : f \in FoundIn(v, P)
  BY DEF Found
<1>3. f.row = v[f.trip]
  BY <1>2 DEF FoundIn
<1> QED
  BY <1>1, <1>2, <1>3, RowShape DEF Views, StartsAgree, SameStart

LEMMA OpenOrAdoptStart ==
    ASSUME TypeOK, StartsAgree, NEW m \in Messages, NEW f \in Found \cup {Nothing},
           OpenOrAdopt(m, f)
    PROVE  CopyStart(work')
<1>1. ASSUME f.trip # None PROVE f.row \in Row /\ SameStart(f.trip, f.row)
  BY <1>1, FoundStart DEF Nothing
<1>2. CASE f.trip # None /\ Adopt(m, f)
  BY <1>1, <1>2, RouteStart DEF Adopt
<1>3. CASE f.trip # None /\ Replace(m, f)
  BY <1>1, <1>3, DerivedStart DEF Replace, Do, CopyStart, SameStart
<1>4. CASE Drop
  BY <1>4, DropStart
<1>5. ASSUME NEW t, Create(m, t) PROVE CopyStart(work')
  BY <1>5 DEF Create, Do, CopyStart, Copies
<1> QED
  BY <1>2, <1>3, <1>4, <1>5 DEF OpenOrAdopt

LEMMA CloseStart ==
    ASSUME TypeOK, StartsAgree, NEW m \in Messages, Close(m)
    PROVE  CopyStart(work')
<1>1. ASSUME NEW t \in Trip \cup {None}, NEW row \in Look(t), Complete(t, row)
      PROVE  CopyStart(work')
  <2>1. CASE row = NoTrip
    BY <1>1, <2>1, DropStart DEF Complete
  <2>2. CASE row # NoTrip
    BY <1>1, <2>2, LookStart, CompleteStart
  <2> QED
    BY <2>1, <2>2
<1>2. m.trip \in Trip \cup {None} /\ cache \in Trip \cup {None}
  BY MessageShape DEF TypeOK
<1>3. ASSUME NEW t \in Trip \cup {None}, CloseTrip(t) PROVE CopyStart(work')
  BY <1>1, <1>3, DropStart DEF CloseTrip
<1>4. ASSUME NEW f \in Found PROVE f.trip \in Trip \cup {None}
  BY <1>4, FoundShape DEF Nothing
<1> QED
  BY <1>1, <1>2, <1>3, <1>4 DEF Close

LEMMA ReceiveStart ==
    ASSUME TypeOK, StartsAgree, NEW m \in Messages, Receive(m)
    PROVE  CopyStart(work')
<1>0. cache \in Trip \cup {None}
  BY DEF TypeOK
<1>1. ASSUME NEW row \in Look(cache) \ {NoTrip}, Route(m, cache, row, "route")
      PROVE  CopyStart(work')
  BY <1>0, <1>1, LookStart, RouteStart
<1>2. ASSUME NEW f \in Found, Route(m, f.trip, f.row, "route") PROVE CopyStart(work')
  <2>1. CASE f = Nothing
    BY <1>2, <2>1, DropStart DEF Nothing, Route
  <2>2. CASE f # Nothing
    BY <1>2, <2>2, FoundStart, RouteStart
  <2> QED
    BY <2>1, <2>2
<1>3. ASSUME NEW k, Create(m, k) PROVE CopyStart(work')
  BY <1>3 DEF Create, Do, CopyStart, Copies
<1>4. ASSUME NEW k \in Trip, NEW row \in Look(k), Complete(k, row) PROVE CopyStart(work')
  <2>1. CASE row = NoTrip
    BY <1>4, <2>1, DropStart DEF Complete
  <2>2. CASE row # NoTrip
    BY <1>4, <2>2, LookStart, CompleteStart
  <2> QED
    BY <2>1, <2>2
<1>5. CASE IgnitionOn(m)
  BY <1>1, <1>5, OpenOrAdoptStart DEF IgnitionOn
<1>6. CASE IgnitionOff(m) \/ Other(m)
  BY <1>2, <1>6, CloseStart DEF IgnitionOff, Other
<1>7. ASSUME NEW k \in Trip, Duplicate(k) PROVE CopyStart(work')
  BY <1>7 DEF Duplicate, sink, StartsAgree
<1>8. ASSUME NEW k \in Trip, CanonicalOpen(m, k) \/ CanonicalOff(m, k) \/ CanonicalClose(k)
      PROVE  CopyStart(work')
  BY <1>1, <1>3, <1>4, <1>8, CloseStart, DropStart DEF CanonicalOpen, CanonicalOff, CanonicalClose
<1> QED
  BY <1>5, <1>6, <1>7, <1>8 DEF Receive

\* A step that keeps the table's starts keeps the replica's and the copy's.
LEMMA StartsFollow ==
    ASSUME TypeOK, WorkOK, StartsAgree, Kept, replica' = replica, CopyStart(work'),
           work'.step \in Copies => work'.trip \in Trip
    PROVE  StartsAgree'
<1>1. \A t \in Trip : replica'[t] # NoTrip => rows'[t] # NoTrip /\ rows'[t].start = replica'[t].start
  BY DEF Kept, StartsAgree, SameStart
<1>2. work'.step \in Copies => rows'[work'.trip] # NoTrip
                               /\ rows'[work'.trip].start = work'.row.start
  BY DEF Kept, CopyStart, SameStart
<1> QED
  BY <1>1, <1>2 DEF StartsAgree, CopyStart, SameStart

LEMMA StoredStart ==
    ASSUME TypeOK, NEW t \in Trip, NEW row \in Row, rows[t] # NoTrip => rows[t].start = row.start,
           Stored(t, row) \/ Refused
    PROVE  Kept
BY RowShape DEF Stored, Store, Refused, table, Kept, TypeOK

LEMMA SinkStart ==
    ASSUME Inv, StartsAgree, SinkStep
    PROVE  Kept /\ replica' = replica /\ CopyStart(work')
<1> USE DEF Inv
<1>0. work.step \in Copies => work.trip \in Trip /\ SameStart(work.trip, work.row)
  BY DEF StartsAgree, CopyStart, WorkOK, Copies
<1>1. CASE Put \/ Finish \/ FinishOnGap
  <2>1. /\ work.step \in Copies /\ work.row \in Row /\ Drop /\ replica' = replica
        /\ Stored(work.trip, work.row) \/ Refused
    BY <1>1 DEF Put, Finish, FinishOnGap, Writes, WorkOK, Extends, Copies
  <2> QED
    BY <1>0, <2>1, StoredStart, DropStart DEF SameStart
<1>2. CASE FinishStale
  <2>1. /\ work.step \in Copies /\ work.row \in Row /\ replica' = replica
        /\ Stored(work.trip, work.row) \/ Refused
    BY <1>2 DEF FinishStale, Writes, WorkOK, Copies
  <2>2. Kept
    BY <1>0, <2>1, StoredStart DEF SameStart
  <2>3. Drop \/ Then("create")
    BY <1>2 DEF FinishStale
  <2>4. CopyStart(work')
    BY <2>3, DropStart DEF Then, TypeOK, Work, CopyStart, Copies
  <2> QED
    BY <2>1, <2>2, <2>4
<1>3. CASE Backfill
  <2>1. /\ work.step = "backfill" /\ rows[work.trip] \in Row /\ replica' = replica
        /\ Stored(work.trip, [rows[work.trip] EXCEPT !.driver = TRUE]) \/ Refused
        /\ Then("route")
    BY <1>3 DEF Backfill, Writes, Existing
  <2>2. /\ [rows[work.trip] EXCEPT !.driver = TRUE] \in Row
        /\ [rows[work.trip] EXCEPT !.driver = TRUE].start = rows[work.trip].start
    BY <2>1, RowShape, DerivedStart
  <2>3. Kept
    <3> DEFINE row == [rows[work.trip] EXCEPT !.driver = TRUE]
    <3>1. row \in Row /\ row.start = rows[work.trip].start /\ (Stored(work.trip, row) \/ Refused)
      BY <2>1, <2>2
    <3>2. work.trip \in Trip
      BY <1>0, <2>1 DEF Copies
    <3> HIDE DEF row
    <3> QED
      BY <3>1, <3>2, StoredStart
  <2>4. work'.trip = work.trip /\ work'.row = work.row
    BY <2>1 DEF Then, TypeOK, Work
  <2> QED
    BY <1>0, <2>1, <2>3, <2>4 DEF CopyStart, Copies
<1>4. CASE PutNew
  <2>1. /\ work.trip \in Trip /\ work.fresh \in Row /\ replica' = replica
        /\ Drop \/ Then("expire")
    BY <1>4 DEF PutNew, Writes, WorkOK
  <2>2. Kept
    <3>1. CASE rows[work.trip] = NoTrip /\ Stored(work.trip, work.fresh)
      BY <2>1, <3>1, StoredStart
    <3>2. CASE UNCHANGED table
      BY <3>2 DEF table, Kept
    <3> QED
      BY <1>4, <3>1, <3>2 DEF PutNew, Refused
  <2>3. CopyStart(work')
    BY <2>1, DropStart DEF Then, TypeOK, Work, CopyStart, Copies
  <2> QED
    BY <2>1, <2>2, <2>3
<1>5. CASE Expire
  <2>1. Kept /\ replica' = replica /\ work.trip \in Trip
    BY <1>5 DEF Expire, Writes, table, Kept, WorkOK
  <2>2. PICK row \in Look(work.trip) :
           Drop \/ (row # NoTrip /\ Complete(work.trip, row))
    BY <1>5 DEF Expire
  <2>3. CopyStart(work')
    BY <2>1, <2>2, DropStart, LookStart, CompleteStart
  <2> QED
    BY <2>1, <2>3
<1> QED
  BY <1>1, <1>2, <1>3, <1>4, <1>5 DEF SinkStep

LEMMA StartStep == Inv /\ StartsAgree /\ [Next]_vars => StartsAgree' /\ Kept
<1> SUFFICES ASSUME Inv, StartsAgree, [Next]_vars PROVE StartsAgree' /\ Kept
  OBVIOUS
<1>0. WorkOK' /\ (work'.step \in Copies => work'.trip \in Trip)
  BY Preserved DEF Inv, WorkOK, Copies
<1>1. ASSUME Kept, replica' = replica, CopyStart(work') PROVE StartsAgree' /\ Kept
  BY <1>0, <1>1, StartsFollow DEF Inv
<1>2. ASSUME NEW m \in Messages, Receive(m) PROVE StartsAgree' /\ Kept
  <2>1. rows' = rows /\ replica' = replica
    BY <1>2 DEF Receive, IgnitionOn, IgnitionOff, Other, Duplicate, CanonicalOpen, CanonicalOff,
                CanonicalClose, FirstTime, Handles, table
  <2> QED
    BY <1>1, <1>2, <2>1, ReceiveStart DEF Kept, Inv
<1>3. CASE SinkStep
  BY <1>1, <1>3, SinkStart
<1>4. CASE Restart
  BY <1>1, <1>4, DropStart DEF Restart, Drop, table, Kept
<1>5. ASSUME UNCHANGED <<rows, replica, work>> PROVE StartsAgree' /\ Kept
  BY <1>5 DEF StartsAgree, CopyStart, SameStart, Kept
<1>6. ASSUME NEW t \in Trip, CloseStuck(t) PROVE StartsAgree' /\ Kept
  <2> DEFINE row == [Closed(rows[t]) EXCEPT !.swept = TRUE]
  <2>1. rows[t] \in Row /\ (Stored(t, row) \/ Refused) /\ UNCHANGED <<replica, work>>
    BY <1>6 DEF CloseStuck, Inv, Existing, sink
  <2>2. row \in Row /\ row.start = rows[t].start
    BY <2>1, RowShape, DerivedStart
  <2> HIDE DEF row
  <2>3. Kept
    BY <2>1, <2>2, StoredStart DEF Inv
  <2> QED
    BY <1>1, <2>1, <2>3 DEF StartsAgree
<1>7. ASSUME NEW t \in Trip, Replicate(t) PROVE StartsAgree' /\ Kept
  <2>1. /\ UNCHANGED <<rows, work>>
        /\ \A u \in Trip : replica'[u] = IF u = t THEN rows[t] ELSE replica[u]
    BY <1>7 DEF Replicate, table, sink, Inv, TypeOK
  <2> QED
    BY <2>1 DEF StartsAgree, CopyStart, SameStart, Kept
<1> QED
  BY <1>2, <1>3, <1>4, <1>5, <1>6, <1>7 DEF Next, Sweep, Tick, vars, table, sink

\* Whole-item puts of old copies, lagging reads, restarts and sweeps may undo
\* what was written to a trip, but never the trip itself nor when it began.
THEOREM StartsKept == Spec => StartKept
<1>1. Init => StartsAgree
  BY DEF Init, Idle, StartsAgree, CopyStart, Copies
<1>2. Inv /\ StartsAgree /\ [Next]_vars => StartsAgree'
  BY StartStep
<1>3. Inv /\ StartsAgree /\ [Next]_vars =>
        [\A t \in Trip : rows[t] # NoTrip =>
            rows'[t] # NoTrip /\ rows'[t].start = rows[t].start]_vars
  BY StartStep DEF Kept
<1> QED
  BY <1>1, <1>2, <1>3, Inductive, PTL DEF Spec, StartKept

=============================================================================
