----------------------------- MODULE DtcProofs -----------------------------
(***************************************************************************)
(* Proofs about Dtc: types, one ACTIVE row per fault, one effect and one   *)
(* alert per report, and what a clear and a written row are worth.         *)
(***************************************************************************)
EXTENDS Dtc, TLAPS

\* The reports stamped by a clock that was not ahead.
Honest == sent \ ahead

\* Nothing is stamped or cleared in the future, and only what was sent counts.
Clock ==
    /\ \A r \in Honest : r.ts <= now
    /\ \A k \in Keys : rows[k].cleared <= now
    /\ \A r \in Report \ sent : applied[r] = 0 /\ alerts[r] = 0

\* What is in hand at each step.
Holding ==
    work # Idle =>
        /\ work.report \in sent
        /\ work.report \notin ahead => work.ts = work.report.ts
        /\ work.report.fault.kind = "lamp" => work.base = work.ts
        /\ work.step \in {"lookup", "update", "classify"} => work.report.fault.kind # "lamp"
        /\ work.step \in {"update", "classify"} =>
              work.key \in Keys /\ rows[work.key].fault = work.report.fault
        /\ work.step = "put" => work.key \in work.base..(work.base + Probes - 1)

\* The clears seen as the handling began, or later ones, are still in the table.
FenceKept ==
    work # Idle =>
        \A t \in work.fence :
            \/ t = Never
            \/ \E k \in Stored : Alike(rows[k].fault, work.report.fault) /\ rows[k].cleared >= t

\* What the judgement before a put has established.
PutReady ==
    work.step = "put" =>
        /\ \A t \in work.fence : t < work.ts
        /\ work.report.fault.kind # "lamp" =>
              /\ OpenRows(work.report.fault) = {}
              /\ \A r \in Honest :
                    (r.fault = work.report.fault /\ applied[r] # 0) => r.ts < work.ts
        /\ work.report.fault.kind = "lamp" =>
              \A j \in work.base..(work.key - 1) : j \in Stored /\ ~Repeated(j)

\* A report about to be announced has one change more than it has alerts.
Announcing ==
    work.step = "announce" =>
        work.report \in unsure \cup ahead \/ alerts[work.report] < applied[work.report]

\* Where the table shows that a report was applied: the ACTIVE row of its fault,
\* or else a clear, is as late as it is; one without a code has a row of its own.
Covered(r) ==
    /\ \A k \in OpenRows(r.fault) : rows[k].last >= r.ts
    /\ OpenRows(r.fault) = {} =>
          \E k \in Stored : rows[k].fault = r.fault /\ rows[k].cleared >= r.ts
OwnRow(r) ==
    \E k \in r.ts..(r.ts + Probes - 1) :
        /\ k \in Keys /\ rows[k].fault = r.fault /\ rows[k].first = r.ts
        /\ \A j \in r.ts..k : j \in Stored
Reflected(r) == IF r.fault.kind = "lamp" THEN OwnRow(r) ELSE Covered(r)
Reflects     == \A r \in Honest : applied[r] # 0 => applied[r] = 1 /\ Reflected(r)

Inv == /\ TypeOK /\ Clock /\ Holding /\ FenceKept /\ PutReady /\ Announcing
       /\ Reflects /\ OneActive /\ AlertsFollow

-----------------------------------------------------------------------------
(* What the operators return. *)

USE DtcAssumption

LEMMA RowShape ==
    /\ NoRow \notin Row
    /\ \A row \in Row : /\ row.fault \in Faults /\ row.first \in Seen /\ row.last \in Seen
                        /\ row.cleared \in 0..Horizon
                        /\ \A t \in Seen : [row EXCEPT !.last = t] \in Row
                        /\ \A t \in 0..Horizon : [row EXCEPT !.cleared = t] \in Row
    /\ \A t \in Seen : t \in Nat /\ t >= 1
    /\ NoRow.cleared = 0 /\ NoRow.fault \notin Faults
<1>1. NoRow.fault \notin Faults
  BY DEF NoRow, Faults, Kinds
<1>2. \A row \in Row : row.fault \in Faults
  BY DEF Row
<1>3. NoRow \notin Row /\ NoRow.cleared = 0
  BY <1>1, <1>2 DEF NoRow, Never
<1>4. \A t \in Seen : t \in Nat /\ t >= 1
  BY DEF Seen
<1>5. \A row \in Row : /\ row.first \in Seen /\ row.last \in Seen /\ row.cleared \in 0..Horizon
                       /\ \A t \in Seen : [row EXCEPT !.last = t] \in Row
                       /\ \A t \in 0..Horizon : [row EXCEPT !.cleared = t] \in Row
  BY DEF Row
<1> QED
  BY <1>1, <1>2, <1>3, <1>4, <1>5

LEMMA StoredShape ==
    ASSUME TypeOK, NEW k \in Keys
    PROVE  /\ rows[k] \in Row \cup {NoRow} /\ rows[k].cleared \in 0..Horizon
           /\ k \in Stored <=> rows[k] \in Row
           /\ k \in Stored <=> rows[k].fault \in Faults
BY RowShape DEF TypeOK, Stored

LEMMA ReportShape ==
    ASSUME NEW r \in Report
    PROVE  r.fault \in Faults /\ r.ts \in Times /\ r.ts \in Nat
BY DEF Report, Times

LEMMA WorkShape ==
    ASSUME TypeOK
    PROVE  /\ work = Idle <=> work.step \notin Steps
           /\ work # Idle =>
                 /\ work \in Work
                 /\ work.report \in Report /\ work.ts \in Seen /\ work.base \in Seen
                 /\ work.fence \subseteq 0..Horizon /\ work.key \in Keys \cup {0}
                 /\ work.report.fault \in Faults
<1>1. Idle.step \notin Steps
  BY DEF Idle, Steps
<1>2. \A w \in Work : w.step \in Steps
  BY DEF Work
<1>3. work # Idle => work \in Work
  BY DEF TypeOK
<1> QED
  BY <1>1, <1>2, <1>3, ReportShape DEF Work

LEMMA StepShape ==
    ASSUME TypeOK, work \in Work, NEW s \in Steps, NEW k \in Keys
    PROVE  /\ [work EXCEPT !.step = s] \in Work
           /\ [work EXCEPT !.key = k] \in Work
           /\ [work EXCEPT !.step = s, !.key = k] \in Work
           /\ \A w \in {[work EXCEPT !.step = s], [work EXCEPT !.step = s, !.key = k]} :
                 /\ w.step = s /\ w.report = work.report /\ w.ts = work.ts
                 /\ w.base = work.base /\ w.fence = work.fence
           /\ [work EXCEPT !.step = s].key = work.key
           /\ [work EXCEPT !.step = s, !.key = k].key = k
BY DEF Work

LEMMA CappedShape ==
    ASSUME TypeOK, Clock, NEW r \in sent
    PROVE  /\ Capped(r) \in Seen
           /\ r \notin ahead => Capped(r) = r.ts
<1>1. r \in Report /\ r.ts \in Nat /\ r.ts >= 1 /\ now \in 1..Horizon
  BY ReportShape DEF TypeOK, Times
<1>2. r \notin ahead => r.ts <= now
  BY DEF Clock, Honest
<1> QED
  BY <1>1, <1>2 DEF Capped, Seen

LEMMA ClearsShape ==
    ASSUME TypeOK, NEW f \in Faults
    PROVE  /\ Clears(f) \subseteq 0..Horizon
           /\ Clock => \A t \in Clears(f) : t <= now
BY StoredShape DEF Clears, Stored, Clock

LEMMA FencedShape ==
    ASSUME TypeOK, Clock, work # Idle, ~Fenced(work.report)
    PROVE  \A t \in Clears(work.report.fault) : t < work.ts
<1>1. work.report.fault \in Faults /\ work.ts \in Nat /\ now \in Nat
  BY WorkShape, RowShape DEF TypeOK
<1>2. ASSUME NEW t \in Clears(work.report.fault)
      PROVE  t \in Nat /\ t <= now
  BY <1>1, <1>2, ClearsShape
<1> QED
  BY <1>1, <1>2 DEF Fenced

LEMMA OpenShape ==
    ASSUME NEW f
    PROVE  /\ OpenRows(f) \subseteq Keys
           /\ \A k \in OpenRows(f) : rows[k].fault = f /\ f.kind # "lamp" /\ Active(rows[k])
           /\ \A k \in Keys : (f.kind # "lamp" /\ Active(rows[k]) /\ rows[k].fault = f) => k \in OpenRows(f)
           /\ Latest(f) \subseteq OpenRows(f)
BY DEF OpenRows, Latest

-----------------------------------------------------------------------------
(* The table only grows, and what changes nothing in it. *)

\* What a step may do to a stored row.
Grows ==
    \A k \in Stored :
        /\ k \in Stored'
        /\ rows'[k].fault = rows[k].fault /\ rows'[k].first = rows[k].first
        /\ rows'[k].last >= rows[k].last /\ rows'[k].cleared >= rows[k].cleared
        /\ ~Active(rows[k]) => rows'[k].last = rows[k].last /\ ~Active(rows'[k])

LEMMA GrowsIdle ==
    ASSUME TypeOK, UNCHANGED rows
    PROVE  Grows
BY StoredShape, RowShape DEF Grows, Stored

\* The invariant's parts that speak of the table alone.
Tables == Clock /\ Reflects /\ OneActive

LEMMA TablesIdle ==
    ASSUME Tables, UNCHANGED <<rows, applied, sent, ahead, alerts, now>>
    PROVE  Tables'
BY DEF Tables, Clock, Reflects, Reflected, Covered, OwnRow, OneActive, Honest, OpenRows, Stored,
       Active

LEMMA FenceGrows ==
    ASSUME TypeOK, TypeOK', FenceKept, Grows, work # Idle, work' # Idle,
           work'.fence = work.fence, work'.report = work.report
    PROVE  FenceKept'
<1>1. ASSUME NEW t \in work.fence, NEW k \in Stored, rows[k].cleared >= t,
             Alike(rows[k].fault, work.report.fault)
      PROVE  k \in Stored' /\ rows'[k].cleared >= t /\ Alike(rows'[k].fault, work.report.fault)
  <2>1. k \in Stored' /\ rows'[k].fault = rows[k].fault /\ rows'[k].cleared >= rows[k].cleared
    BY DEF Grows
  <2>2. rows[k].cleared \in Nat /\ rows'[k].cleared \in Nat /\ t \in Nat
    <3>1. rows[k].cleared \in 0..Horizon /\ t \in 0..Horizon
      BY WorkShape, StoredShape DEF Stored
    <3>2. rows' \in [Keys -> Row \cup {NoRow}] /\ k \in Keys
      BY DEF TypeOK, Stored
    <3>3. rows'[k].cleared \in 0..Horizon
      BY <3>2, RowShape
    <3> QED
      BY <3>1, <3>3
  <2> QED
    BY <1>1, <2>1, <2>2
<1> QED
  BY <1>1 DEF FenceKept

-----------------------------------------------------------------------------
(* Steps that leave the table alone. *)

Leaves == UNCHANGED <<faults, left, now, sent, ahead, rows, history, alerts>>

LEMMA LeavesInv ==
    ASSUME Inv, Leaves, handled' \subseteq sent, muted' \subseteq Faults, failures' \in Nat,
           restarts' \in Nat, work' \in Work \cup {Idle}
    PROVE  TypeOK' /\ Tables' /\ AlertsFollow' /\ Grows /\ Stored' = Stored /\ Honest' = Honest
<1>1. TypeOK' /\ Stored' = Stored /\ Honest' = Honest
  BY DEF Inv, TypeOK, Leaves, history, Stored, Honest
<1>2. Tables'
  BY TablesIdle DEF Inv, Tables, Leaves, history
<1>3. AlertsFollow'
  BY DEF Inv, AlertsFollow, Leaves, history
<1> QED
  BY <1>1, <1>2, <1>3, GrowsIdle DEF Inv, Leaves

LEMMA SkipInv ==
    ASSUME Inv, Leaves, handled' \subseteq sent, muted' \subseteq Faults, failures' \in Nat,
           restarts' \in Nat, Skip
    PROVE  Inv'
<1>1. TypeOK' /\ Tables' /\ AlertsFollow'
  BY LeavesInv DEF Skip
<1>2. work' = Idle /\ Idle.step \notin Steps
  BY DEF Skip, Idle, Steps
<1>3. Holding' /\ FenceKept' /\ PutReady' /\ Announcing'
  BY <1>2 DEF Holding, FenceKept, PutReady, Announcing, Steps
<1> QED
  BY <1>1, <1>3 DEF Inv, Tables

\* The handling goes on with the same report.
LEMMA MoveInv ==
    ASSUME Inv, Leaves, work # Idle, UNCHANGED <<handled, muted, restarts>>, failures' \in Nat,
           work' \in Work, work'.report = work.report, work'.fence = work.fence,
           Holding', PutReady', Announcing'
    PROVE  Inv'
<1>1. TypeOK' /\ Tables' /\ AlertsFollow' /\ Grows
  BY LeavesInv DEF Inv, TypeOK
<1>2. work' # Idle
  BY WorkShape, <1>1 DEF Work, Idle, Steps
<1>3. FenceKept'
  BY <1>1, <1>2, FenceGrows DEF Inv
<1> QED
  BY <1>1, <1>3 DEF Inv, Tables

LEMMA FailsType == ASSUME TypeOK, UNCHANGED failures \/ Fails PROVE failures' \in Nat
BY DEF TypeOK, Fails

LEMMA SendInv == ASSUME Inv, NEW r \in Report, Send(r) PROVE Inv'
<1> USE DEF Inv
<1>1. TypeOK'
  BY DEF Send, TypeOK, memory, history
<1>2. Honest' \subseteq Honest \cup {r} /\ (r \in Honest' => r.ts <= now) /\ r \notin sent
  BY ReportShape DEF Send, Honest, TypeOK
<1>3. Clock'
  BY <1>2 DEF Clock, Send, history
<1>4. applied[r] = 0 /\ alerts[r] = 0
  BY <1>2 DEF Clock
<1>5. Reflects'
  BY <1>2, <1>4 DEF Reflects, Reflected, Covered, OwnRow, OpenRows, Stored, Send, history
<1>6. OneActive'
  BY DEF OneActive, Send
<1>7. AlertsFollow'
  BY <1>4 DEF AlertsFollow, Send, history
<1>8. Holding' /\ FenceKept' /\ PutReady' /\ Announcing'
  BY DEF Send, Holding, FenceKept, PutReady, Announcing, Idle
<1> QED
  BY <1>1, <1>3, <1>5, <1>6, <1>7, <1>8

LEMMA TickInv == ASSUME Inv, Tick PROVE Inv'
<1> USE DEF Inv
<1>1. TypeOK'
  BY DEF Tick, TypeOK, memory, history
<1>2. Clock'
  <2>1. \A r \in Honest : r.ts \in Nat
    BY ReportShape DEF Honest, TypeOK
  <2>2. \A k \in Keys : rows[k].cleared \in Nat
    BY StoredShape
  <2> QED
    BY <2>1, <2>2 DEF Tick, TypeOK, Clock, Honest, history
<1>3. Reflects' /\ OneActive'
  BY DEF Reflects, Reflected, Covered, OwnRow, OpenRows, Stored, Tick, history, Honest, OneActive
<1>4. AlertsFollow'
  BY DEF AlertsFollow, Tick, history
<1>5. Holding' /\ FenceKept' /\ PutReady' /\ Announcing'
  BY DEF Tick, Holding, FenceKept, PutReady, Announcing, Idle
<1> QED
  BY <1>1, <1>2, <1>3, <1>4, <1>5

LEMMA RestartInv == ASSUME Inv, Restart PROVE Inv'
BY SkipInv DEF Restart, Leaves, Skip, Inv, TypeOK, history

LEMMA ReceiveInv == ASSUME Inv, NEW r \in Report, Receive(r) PROVE Inv'
<1>1. /\ r \in sent /\ handled' \subseteq sent /\ muted' \subseteq Faults
      /\ Leaves /\ failures' \in Nat /\ restarts' \in Nat
  BY DEF Receive, Inv, TypeOK, Leaves, history
<1>2. CASE Skip
  BY <1>1, <1>2, SkipInv
<1>3. CASE Take(r)
  <2>1. /\ r.fault \in Faults /\ Capped(r) \in Seen /\ (r \notin ahead => Capped(r) = r.ts)
        /\ Clears(r.fault) \subseteq 0..Horizon
    BY <1>1, ReportShape, CappedShape, ClearsShape DEF Inv
  <2>2. now \in Seen
    BY DEF Inv, TypeOK, Seen
  <2>3. /\ work' \in Work /\ work' # Idle
        /\ work'.report = r /\ work'.ts = Capped(r) /\ work'.fence = Clears(r.fault)
        /\ work'.step = IF r.fault.kind = "lamp" THEN "judge" ELSE "lookup"
        /\ r.fault.kind = "lamp" => work'.base = work'.ts
    BY <1>3, <2>1, <2>2 DEF Take, Work, Steps, Idle
  <2>4. TypeOK' /\ Tables' /\ AlertsFollow' /\ Stored' = Stored
    BY <1>1, <2>3, LeavesInv
  <2>5. UNCHANGED <<rows, ahead, sent>>
    BY <1>1 DEF Leaves
  <2>6. Holding' /\ PutReady' /\ Announcing'
    BY <1>1, <2>1, <2>3, <2>5 DEF Holding, PutReady, Announcing
  <2>7. FenceKept'
    <3>1. ASSUME NEW t \in Clears(r.fault)
          PROVE  \E k \in Stored : Alike(rows[k].fault, r.fault) /\ rows[k].cleared >= t
      BY StoredShape, <3>1 DEF Clears, Stored, Inv
    <3> QED
      BY <2>3, <2>4, <2>5, <3>1 DEF FenceKept
  <2> QED
    BY <2>4, <2>6, <2>7 DEF Inv, Tables
<1> QED
  BY <1>2, <1>3 DEF Receive

LEMMA LookupInv == ASSUME Inv, Lookup PROVE Inv'
<1>1. /\ work.step = "lookup" /\ work # Idle /\ work \in Work
      /\ Leaves /\ UNCHANGED <<handled, muted, restarts>>
      /\ failures' \in Nat /\ restarts' \in Nat
      /\ handled' \subseteq sent /\ muted' \subseteq Faults
      /\ UNCHANGED <<rows, ahead, sent>>
  BY WorkShape, FailsType DEF Lookup, Works, Leave, Leaves, history, Inv, TypeOK, Steps
<1>2. /\ work.report \in sent /\ work.report.fault.kind # "lamp"
      /\ (work.report \notin ahead => work.ts = work.report.ts)
  BY <1>1 DEF Inv, Holding
<1>3. CASE Skip
  BY <1>1, <1>3, SkipInv
<1>4. CASE Then("judge")
  <2>1. /\ work' \in Work /\ work'.step = "judge" /\ work'.report = work.report
        /\ work'.ts = work.ts /\ work'.base = work.base /\ work'.fence = work.fence
    BY <1>1, <1>4 DEF Then, Work, Steps
  <2>2. Holding' /\ PutReady' /\ Announcing'
    BY <1>1, <1>2, <2>1 DEF Holding, PutReady, Announcing
  <2> QED
    BY <1>1, <2>1, <2>2, MoveInv
<1>5. ASSUME NEW k \in Stored, rows[k].fault = work.report.fault,
             work' = [work EXCEPT !.step = "update", !.key = k]
      PROVE  Inv'
  <2>1. /\ work' \in Work /\ work'.step = "update" /\ work'.report = work.report /\ work'.key = k
        /\ work'.ts = work.ts /\ work'.base = work.base /\ work'.fence = work.fence
    BY <1>1, <1>5 DEF Work, Steps, Stored
  <2>2. Holding' /\ PutReady' /\ Announcing'
    BY <1>1, <1>2, <1>5, <2>1 DEF Holding, PutReady, Announcing, Stored
  <2> QED
    BY <1>1, <2>1, <2>2, MoveInv
<1> QED
  BY <1>3, <1>4, <1>5 DEF Lookup

LEMMA ClassifyInv == ASSUME Inv, Classify PROVE Inv'
<1>1. /\ work.step = "classify" /\ work # Idle /\ work \in Work
      /\ Leaves /\ UNCHANGED <<handled, muted, restarts>>
      /\ failures' \in Nat /\ restarts' \in Nat
      /\ handled' \subseteq sent /\ muted' \subseteq Faults
      /\ UNCHANGED <<rows, ahead, sent>>
  BY WorkShape, FailsType DEF Classify, Works, Leave, Leaves, history, Inv, TypeOK, Steps
<1>2. /\ work.report \in sent /\ work.report.fault.kind # "lamp"
      /\ (work.report \notin ahead => work.ts = work.report.ts)
  BY <1>1 DEF Inv, Holding
<1>3. CASE Skip
  BY <1>1, <1>3, SkipInv
<1>4. CASE Then("judge")
  <2>1. /\ work' \in Work /\ work'.step = "judge" /\ work'.report = work.report
        /\ work'.ts = work.ts /\ work'.base = work.base /\ work'.fence = work.fence
    BY <1>1, <1>4 DEF Then, Work, Steps
  <2>2. Holding' /\ PutReady' /\ Announcing'
    BY <1>1, <1>2, <2>1 DEF Holding, PutReady, Announcing
  <2> QED
    BY <1>1, <2>1, <2>2, MoveInv
<1> QED
  BY <1>3, <1>4 DEF Classify

LEMMA AnnounceInv == ASSUME Inv, Announce PROVE Inv'
<1> USE DEF Inv
<1>1. /\ work.step = "announce" /\ work # Idle /\ work.report \in Report
      /\ work.report.fault \in Faults
  BY WorkShape DEF Announce, Works, Steps
<1>2. /\ UNCHANGED <<faults, left, now, sent, ahead, rows, applied, unsure, handled, restarts>>
      /\ failures' \in Nat /\ work' = Idle
  BY FailsType DEF Announce, Works, Leave, history, Skip
<1>3. muted' \subseteq Faults
  BY <1>1 DEF Announce, TypeOK
<1>4. alerts' \in [Report -> Nat] /\ \A r \in Report : r # work.report => alerts'[r] = alerts[r]
  BY <1>1 DEF Announce, TypeOK
<1>5. alerts' = alerts \/ alerts'[work.report] = alerts[work.report] + 1
  BY <1>1 DEF Announce, TypeOK
<1>6. TypeOK'
  BY <1>2, <1>3, <1>4 DEF TypeOK
<1>7. Clock'
  BY <1>1, <1>2, <1>4 DEF Clock, Honest, Holding
<1>8. Reflects' /\ OneActive'
  BY <1>2 DEF Reflects, Reflected, Covered, OwnRow, OpenRows, Stored, Honest, OneActive, Active
<1>9. AlertsFollow'
  <2>1. work.report \in unsure \cup ahead \/ alerts[work.report] < applied[work.report]
    BY <1>1 DEF Announcing
  <2>2. alerts[work.report] \in Nat /\ applied[work.report] \in Nat /\ sent \subseteq Report
    BY <1>1 DEF TypeOK
  <2> QED
    BY <1>2, <1>4, <1>5, <2>1, <2>2 DEF AlertsFollow
<1>10. Holding' /\ FenceKept' /\ PutReady' /\ Announcing'
  BY <1>2 DEF Holding, FenceKept, PutReady, Announcing, Idle
<1> QED
  BY <1>6, <1>7, <1>8, <1>9, <1>10

LEMMA JudgeInv == ASSUME Inv, Judge PROVE Inv'
<1> USE DEF Inv
<1>1. /\ work.step = "judge" /\ work # Idle /\ work \in Work
      /\ Leaves /\ UNCHANGED <<handled, muted, restarts>>
      /\ failures' \in Nat /\ restarts' \in Nat
      /\ handled' \subseteq sent /\ muted' \subseteq Faults
      /\ UNCHANGED <<rows, ahead, sent, applied>> /\ UNCHANGED now
  BY WorkShape, FailsType DEF Judge, Works, Leave, Leaves, history, TypeOK, Steps
<1>2. /\ work.report \in sent
      /\ (work.report \notin ahead => work.ts = work.report.ts)
      /\ (work.report.fault.kind = "lamp" => work.base = work.ts)
  BY <1>1 DEF Holding
<1>3. CASE Skip
  BY <1>1, <1>3, SkipInv
<1>4. ASSUME NEW k \in Latest(work.report.fault), work' = [work EXCEPT !.step = "update", !.key = k]
      PROVE  Inv'
  <2>1. k \in Keys /\ rows[k].fault = work.report.fault /\ work.report.fault.kind # "lamp"
    BY OpenShape
  <2>2. /\ work' \in Work /\ work'.step = "update" /\ work'.report = work.report /\ work'.key = k
        /\ work'.ts = work.ts /\ work'.base = work.base /\ work'.fence = work.fence
    BY <1>1, <1>4, <2>1 DEF Work, Steps
  <2>3. Holding' /\ PutReady' /\ Announcing'
    BY <1>1, <1>2, <2>1, <2>2 DEF Holding, PutReady, Announcing
  <2> QED
    BY <1>1, <2>2, <2>3, MoveInv
<1>5. CASE /\ ~Fenced(work.report) /\ OpenRows(work.report.fault) = {}
           /\ work' = [work EXCEPT !.step = "put", !.key = work.base]
  <2>1. work.base \in Seen /\ work.base \in Keys /\ work.base \in work.base..(work.base + Probes - 1)
    BY <1>1 DEF Work, Seen, Keys
  <2>2. /\ work' \in Work /\ work'.step = "put" /\ work'.report = work.report /\ work'.key = work.base
        /\ work'.ts = work.ts /\ work'.base = work.base /\ work'.fence = work.fence
    BY <1>1, <1>5, <2>1 DEF Work, Steps
  <2>3. Holding' /\ Announcing'
    BY <1>1, <1>2, <2>1, <2>2 DEF Holding, Announcing
  <2>4. \A t \in Clears(work.report.fault) : t < work.ts /\ t \in 0..Horizon
    BY <1>1, <1>5, FencedShape, ClearsShape, WorkShape
  <2>5. work.ts \in Nat /\ work.ts >= 1 /\ work.fence \subseteq 0..Horizon
    BY <1>1, RowShape, WorkShape
  <2>6. \A k \in Stored : Alike(rows[k].fault, work.report.fault)
                            => rows[k].cleared \in Clears(work.report.fault)
    BY DEF Clears
  <2>7. \A t \in work.fence : t < work.ts
    <3>1. SUFFICES ASSUME NEW t \in work.fence PROVE t < work.ts
      OBVIOUS
    <3>2. CASE t = Never
      BY <2>5, <3>2 DEF Never
    <3>3. CASE \E k \in Stored : Alike(rows[k].fault, work.report.fault) /\ rows[k].cleared >= t
      <4>1. PICK k \in Stored : Alike(rows[k].fault, work.report.fault) /\ rows[k].cleared >= t
        BY <3>3
      <4>2. rows[k].cleared < work.ts /\ rows[k].cleared \in 0..Horizon /\ t \in 0..Horizon
        BY <2>4, <2>5, <2>6, <3>1, <4>1
      <4> QED
        BY <2>5, <4>1, <4>2
    <3> QED
      BY <1>1, <3>1, <3>2, <3>3 DEF FenceKept
  <2>8. ASSUME work.report.fault.kind # "lamp", NEW r \in Honest,
               r.fault = work.report.fault, applied[r] # 0
        PROVE  r.ts < work.ts
    <3>1. Covered(r)
      BY <2>8 DEF Reflects, Reflected
    <3>2. PICK k \in Stored : rows[k].fault = r.fault /\ rows[k].cleared >= r.ts
      BY <1>5, <2>8, <3>1 DEF Covered
    <3>3. Alike(rows[k].fault, work.report.fault)
      BY <2>8, <3>2 DEF Alike
    <3>4. rows[k].cleared < work.ts /\ rows[k].cleared \in 0..Horizon
      BY <2>4, <2>6, <3>2, <3>3
    <3>5. r.ts \in Nat
      BY ReportShape DEF Honest, TypeOK
    <3> QED
      BY <2>5, <3>2, <3>4, <3>5
  <2>9. work.base..(work.base - 1) = {}
    BY <2>1 DEF Seen
  <2>10. OpenRows(work.report.fault)' = {} /\ Honest' = Honest
    BY <1>1, <1>5, <2>2 DEF OpenRows, Honest
  <2>11. PutReady'
    BY <1>1, <2>2, <2>7, <2>8, <2>9, <2>10 DEF PutReady
  <2> QED
    BY <1>1, <2>2, <2>3, <2>11, MoveInv
<1> QED
  BY <1>3, <1>4, <1>5 DEF Judge

-----------------------------------------------------------------------------
(* Steps that change the table. *)

\* Every other report keeps what shows that it was applied.
LEMMA OwnRowGrows ==
    ASSUME TypeOK, Grows, NEW r \in Report, OwnRow(r)
    PROVE  OwnRow(r)'
<1>1. PICK k \in r.ts..(r.ts + Probes - 1) :
          /\ k \in Keys /\ rows[k].fault = r.fault /\ rows[k].first = r.ts
          /\ \A j \in r.ts..k : j \in Stored
  BY DEF OwnRow
<1>2. k \in Stored
  BY <1>1, ReportShape
<1> QED
  BY <1>1, <1>2 DEF OwnRow, Grows

LEMMA ClearInv == ASSUME Inv, NEW k \in Keys, Clear(k) PROVE Inv'
<1> USE DEF Inv
<1>1. /\ UNCHANGED <<faults, left, now, sent, ahead, handled, muted, work, applied, unsure>>
      /\ UNCHANGED <<alerts, failures, restarts>>
      /\ k \in Stored /\ rows[k] \in Row /\ now \in 1..Horizon
      /\ rows' = [rows EXCEPT ![k].cleared = now]
  BY StoredShape DEF Clear, memory, history, TypeOK
<1>2. /\ rows'[k] = [rows[k] EXCEPT !.cleared = now]
      /\ \A j \in Keys : j # k => rows'[j] = rows[j]
  BY <1>1 DEF TypeOK
<1>3. /\ rows'[k] \in Row /\ rows'[k].cleared = now /\ rows'[k].fault = rows[k].fault
      /\ rows'[k].first = rows[k].first /\ rows'[k].last = rows[k].last
  BY <1>1, <1>2, RowShape DEF Row
<1>4. TypeOK'
  BY <1>1, <1>3 DEF TypeOK
<1>5. \A j \in Keys : rows[j].cleared \in Nat /\ rows[j].last \in Nat
  BY StoredShape, RowShape DEF TypeOK, NoRow
<1>6. /\ Clock'
      /\ \A j \in Keys : /\ rows'[j].fault = rows[j].fault /\ rows'[j].first = rows[j].first
                         /\ rows'[j].last = rows[j].last /\ rows'[j].cleared >= rows[j].cleared
                         /\ (rows'[j] = NoRow <=> rows[j] = NoRow)
  BY <1>1, <1>2, <1>3, <1>5, RowShape DEF Clock, Honest
<1>7. \A j \in Keys : Active(rows'[j]) => Active(rows[j]) /\ j # k
  BY <1>1, <1>2, <1>3 DEF Active, Never
<1>8. Stored' = Stored /\ Grows
  BY <1>5, <1>6, <1>7 DEF Stored, Grows
<1>9. \A f : /\ OpenRows(f)' \subseteq OpenRows(f)
             /\ OpenRows(f) \subseteq OpenRows(f)' \cup {k}
  BY <1>2, <1>6, <1>7 DEF OpenRows, Active
<1>10. Reflects'
  <2>1. SUFFICES ASSUME NEW r \in Honest, applied[r] # 0 PROVE applied[r] = 1 /\ Reflected(r)'
    BY <1>1 DEF Reflects, Honest
  <2>2. r \in Report /\ applied[r] = 1 /\ Reflected(r) /\ r.ts \in Nat /\ r.ts <= now
    BY <2>1, ReportShape DEF Reflects, Honest, TypeOK, Clock
  <2>3. CASE r.fault.kind = "lamp"
    BY <1>8, <2>2, <2>3, OwnRowGrows DEF Reflected
  <2>4. CASE r.fault.kind # "lamp"
    <3>1. \A j \in OpenRows(r.fault)' : rows'[j].last >= r.ts
      BY <1>6, <1>9, <2>2, <2>4, OpenShape DEF Reflected, Covered
    <3>2. ASSUME OpenRows(r.fault)' = {}
          PROVE  \E j \in Stored : rows'[j].fault = r.fault /\ rows'[j].cleared >= r.ts
      <4>1. CASE k \in OpenRows(r.fault)
        BY <1>1, <1>3, <2>2, <4>1, OpenShape
      <4>2. CASE k \notin OpenRows(r.fault)
        <5>1. PICK j \in Stored : rows[j].fault = r.fault /\ rows[j].cleared >= r.ts
          BY <1>9, <2>2, <2>4, <3>2, <4>2 DEF Reflected, Covered
        <5>2. j \in Keys /\ rows[j].cleared \in Nat /\ rows'[j].cleared \in Nat
          BY <1>1, <1>2, <1>3, <1>5 DEF Stored
        <5> QED
          BY <1>6, <2>2, <5>1, <5>2
      <4> QED
        BY <4>1, <4>2
    <3> QED
      BY <1>8, <2>2, <2>4, <3>1, <3>2 DEF Reflected, Covered
  <2> QED
    BY <2>2, <2>3, <2>4
<1>11. OneActive'
  BY <1>6, <1>7 DEF OneActive
<1>12. AlertsFollow'
  BY <1>1 DEF AlertsFollow
<1>13. Holding'
  BY <1>1, <1>6 DEF Holding
<1>14. FenceKept'
  <2>1. CASE work = Idle
    BY <1>1, <2>1 DEF FenceKept
  <2>2. CASE work # Idle
    BY <1>1, <1>4, <1>8, <2>2, FenceGrows
  <2> QED
    BY <2>1, <2>2
<1>15. PutReady'
  <2>1. \A j \in Stored : Repeated(j)' <=> Repeated(j)
    BY <1>1, <1>6 DEF Repeated, Stored
  <2>2. OpenRows(work.report.fault) = {} => OpenRows(work.report.fault)' = {}
    BY <1>1, <1>6, <1>7 DEF OpenRows
  <2>3. Honest' = Honest /\ work' = work /\ applied' = applied /\ Stored' = Stored
    BY <1>1, <1>8 DEF Honest
  <2>4. CASE work.step = "put" /\ work.report.fault.kind = "lamp"
    BY <2>1, <2>3, <2>4 DEF PutReady
  <2>5. CASE work.step = "put" /\ work.report.fault.kind # "lamp"
    BY <2>2, <2>3, <2>5 DEF PutReady
  <2> QED
    BY <2>3, <2>4, <2>5 DEF PutReady
<1>16. Announcing'
  BY <1>1 DEF Announcing
<1> QED
  BY <1>4, <1>6, <1>10, <1>11, <1>12, <1>13, <1>14, <1>15, <1>16

\* The report in hand changes the row of key k, once.
LEMMA AppliedShape ==
    ASSUME TypeOK, work # Idle, NEW k \in Keys, NEW row \in Row, Apply(k, row)
    PROVE  /\ rows' \in [Keys -> Row \cup {NoRow}] /\ rows'[k] = row
           /\ \A j \in Keys : j # k => rows'[j] = rows[j]
           /\ applied' \in [Report -> Nat]
           /\ applied'[work.report] = applied[work.report] + 1
           /\ \A r \in Report : r # work.report => applied'[r] = applied[r]
BY WorkShape DEF Apply, TypeOK

LEMMA UpdateInv == ASSUME Inv, Update PROVE Inv'
<1> USE DEF Inv
<1>1. /\ work.step = "update" /\ work # Idle /\ work \in Work
      /\ UNCHANGED <<faults, left, now, sent, ahead, handled, muted, restarts, alerts, unsure>>
      /\ failures' \in Nat /\ restarts' \in Nat
      /\ handled' \subseteq sent /\ muted' \subseteq Faults
  BY WorkShape, FailsType DEF Update, Works, TypeOK, Steps
<1>2. /\ work.report \in sent /\ work.report.fault.kind # "lamp" /\ work.report \in Report
      /\ (work.report \notin ahead => work.ts = work.report.ts)
      /\ work.key \in Keys /\ rows[work.key].fault = work.report.fault
      /\ work.ts \in Seen /\ work.ts \in Nat
  BY <1>1, WorkShape, RowShape DEF Holding
<1>3. CASE UNCHANGED <<rows, applied>> /\ Skip
  BY <1>1, <1>3, SkipInv DEF Leaves, history
<1>4. CASE UNCHANGED <<rows, applied>> /\ Then("classify")
  <2>1. /\ work' \in Work /\ work'.step = "classify" /\ work'.report = work.report
        /\ work'.ts = work.ts /\ work'.base = work.base /\ work'.fence = work.fence
        /\ work'.key = work.key
    BY <1>1, <1>4 DEF Then, Work, Steps
  <2>2. Holding' /\ PutReady' /\ Announcing'
    BY <1>1, <1>2, <1>4, <2>1 DEF Holding, PutReady, Announcing
  <2> QED
    BY <1>1, <1>4, <2>1, <2>2, MoveInv DEF Leaves, history
<1>5. CASE /\ Newer(work.key) /\ Apply(work.key, [rows[work.key] EXCEPT !.last = work.ts])
           /\ Then("announce") \/ Then("classify")
  <2> DEFINE k   == work.key
             row == [rows[k] EXCEPT !.last = work.ts]
  <2>1. k \in Keys /\ Active(rows[k]) /\ rows[k].last < work.ts /\ rows[k] \in Row
    BY <1>2, <1>5 DEF Newer, Active, TypeOK
  <2>2. /\ row \in Row /\ row.last = work.ts /\ row.fault = rows[k].fault
        /\ row.first = rows[k].first /\ row.cleared = rows[k].cleared
    BY <1>2, <2>1, RowShape DEF Row
  <2>3. /\ rows' \in [Keys -> Row \cup {NoRow}] /\ rows'[k] = row
        /\ \A j \in Keys : j # k => rows'[j] = rows[j]
        /\ applied' \in [Report -> Nat]
        /\ applied'[work.report] = applied[work.report] + 1
        /\ \A r \in Report : r # work.report => applied'[r] = applied[r]
    BY <1>1, <1>5, <2>1, <2>2, AppliedShape
  <2> HIDE DEF k, row
  <2>4. \E s \in {"announce", "classify"} :
          /\ work' \in Work /\ work'.step = s /\ work'.report = work.report
          /\ work'.ts = work.ts /\ work'.base = work.base /\ work'.fence = work.fence
          /\ work'.key = work.key
    BY <1>1, <1>5 DEF Then, Work, Steps
  <2>5. TypeOK'
    BY <1>1, <2>3, <2>4 DEF TypeOK
  <2>6. /\ \A j \in Keys : /\ rows'[j].fault = rows[j].fault /\ rows'[j].first = rows[j].first
                           /\ rows'[j].cleared = rows[j].cleared
                           /\ rows'[j].last >= rows[j].last
                           /\ (rows'[j] = NoRow <=> rows[j] = NoRow)
        /\ k \in Keys
    <3>1. \A j \in Keys : rows[j].last \in Nat
      BY StoredShape, RowShape DEF NoRow
    <3> QED
      BY <1>2, <2>1, <2>2, <2>3, <3>1, RowShape
  <2>7. \A j \in Keys : Active(rows'[j]) <=> Active(rows[j])
    BY <2>6 DEF Active
  <2>8. Stored' = Stored
    BY <2>6 DEF Stored
  <2>9. \A j \in Keys : rows[j].cleared \in Nat
    BY StoredShape
  <2>10. Grows
    <3>1. \A j \in Keys : ~Active(rows[j]) => rows'[j].last = rows[j].last
      BY <2>1, <2>3
    <3> QED
      BY <2>6, <2>7, <2>8, <2>9, <3>1 DEF Grows, Stored
  <2>11. \A f : OpenRows(f)' = OpenRows(f)
    BY <2>6, <2>7 DEF OpenRows
  <2>12. OpenRows(work.report.fault) = {k}
    BY <1>2, <2>1, OpenShape DEF OneActive, k
  <2>13. Clock'
    BY <1>1, <1>2, <2>3, <2>6 DEF Clock, Honest
  <2>14. work.report \in Honest => applied[work.report] = 0
    <3>1. SUFFICES ASSUME work.report \in Honest, applied[work.report] # 0 PROVE FALSE
      OBVIOUS
    <3>2. Covered(work.report)
      BY <1>2, <3>1 DEF Reflects, Reflected
    <3>3. rows[k].last >= work.ts
      BY <1>2, <2>12, <3>1, <3>2 DEF Covered, Honest
    <3> QED
      BY <1>2, <2>1, <3>3, RowShape
  <2>15. Reflects'
    <3>1. SUFFICES ASSUME NEW r \in Honest, applied'[r] # 0 PROVE applied'[r] = 1 /\ Reflected(r)'
      BY <1>1 DEF Reflects, Honest
    <3>2. r \in Report /\ r.ts \in Nat /\ r.fault \in Faults
      BY ReportShape DEF Honest, TypeOK
    <3>3. CASE r = work.report
      <4>1. applied'[r] = 1 /\ r.ts = work.ts
        BY <1>2, <2>3, <2>14, <3>3 DEF Honest
      <4>2. OpenRows(r.fault)' = {k} /\ rows'[k].last >= r.ts
        BY <1>2, <2>2, <2>3, <2>11, <2>12, <3>2, <3>3, <4>1
      <4> QED
        BY <1>2, <3>3, <4>1, <4>2 DEF Reflected, Covered
    <3>4. CASE r # work.report
      <4>1. applied'[r] = 1 /\ Reflected(r)
        BY <2>3, <3>1, <3>2, <3>4 DEF Reflects
      <4>2. CASE r.fault.kind = "lamp"
        BY <2>10, <3>2, <4>1, <4>2, OwnRowGrows DEF Reflected
      <4>3. CASE r.fault.kind # "lamp"
        <5>1. \A j \in Keys : rows[j].last \in Nat /\ rows'[j].last \in Nat
          BY <1>2, <2>2, <2>3, StoredShape, RowShape DEF NoRow
        <5>2. \A j \in OpenRows(r.fault)' : rows'[j].last >= r.ts
          BY <2>6, <2>11, <3>2, <4>1, <4>3, <5>1, OpenShape DEF Reflected, Covered
        <5> QED
          BY <2>6, <2>8, <2>11, <4>1, <4>3, <5>2 DEF Reflected, Covered, Stored
      <4> QED
        BY <4>1, <4>2, <4>3
    <3> QED
      BY <3>3, <3>4
  <2>16. OneActive'
    BY <2>6, <2>7 DEF OneActive
  <2>17. AlertsFollow'
    <3>1. applied[work.report] \in Nat /\ \A r \in sent : alerts[r] \in Nat /\ r \in Report
      BY <1>2 DEF TypeOK
    <3> QED
      BY <1>1, <1>2, <2>3, <3>1 DEF AlertsFollow
  <2>18. Announcing'
    <3>1. applied[work.report] \in Nat /\ alerts[work.report] \in Nat
      BY <1>2 DEF TypeOK
    <3> QED
      BY <1>1, <1>2, <2>3, <2>4, <3>1 DEF Announcing, AlertsFollow
  <2>19. Holding' /\ PutReady'
    BY <1>1, <1>2, <2>4, <2>6 DEF Holding, PutReady, k
  <2>20. FenceKept'
    <3>1. work' # Idle
      BY <2>4, <2>5, WorkShape DEF Idle, Work, Steps
    <3> QED
      BY <1>1, <2>4, <2>5, <2>10, <3>1, FenceGrows
  <2> QED
    BY <2>5, <2>13, <2>15, <2>16, <2>17, <2>18, <2>19, <2>20
<1> QED
  BY <1>3, <1>4, <1>5 DEF Update

LEMMA PutInv == ASSUME Inv, Put PROVE Inv'
<1> USE DEF Inv
<1>1. /\ work.step = "put" /\ work # Idle /\ work \in Work
      /\ UNCHANGED <<faults, left, now, sent, ahead, handled, muted, restarts, alerts>>
      /\ failures' \in Nat /\ restarts' \in Nat
      /\ handled' \subseteq sent /\ muted' \subseteq Faults
  BY WorkShape, FailsType DEF Put, Works, TypeOK, Steps, Leave
<1>2. /\ work.report \in sent /\ work.report \in Report
      /\ (work.report \notin ahead => work.ts = work.report.ts)
      /\ (work.report.fault.kind = "lamp" => work.base = work.ts)
      /\ work.key \in work.base..(work.base + Probes - 1)
      /\ work.ts \in Seen /\ work.ts \in Nat /\ work.ts >= 1 /\ work.base \in Seen
      /\ work.report.fault \in Faults
  BY <1>1, WorkShape, RowShape DEF Holding
<1>3. work.key \in Keys /\ work.base \in Nat /\ work.key \in Nat
  BY <1>2 DEF Seen, Keys
<1>4. /\ OpenRows(work.report.fault) = {}
      /\ (work.report.fault.kind = "lamp"
            => \A j \in work.base..(work.key - 1) : j \in Stored /\ ~Repeated(j))
      /\ \A r \in Honest : (r.fault = work.report.fault /\ r.fault.kind # "lamp" /\ applied[r] # 0)
                              => r.ts < work.ts
  BY <1>1, OpenShape DEF PutReady
<1>5. CASE Skip /\ Leave
  BY <1>1, <1>5, SkipInv DEF Leaves, Leave, history
<1>6. CASE /\ ~Free(work.key) /\ ~Repeated(work.key) /\ UNCHANGED <<rows, applied, unsure>>
           /\ work.key + 1 < work.base + Probes /\ work' = [work EXCEPT !.key = @ + 1]
  <2>1. work.key + 1 \in Keys /\ work.key + 1 \in work.base..(work.base + Probes - 1)
    BY <1>2, <1>3, <1>6 DEF Seen, Keys
  <2>2. /\ work' \in Work /\ work'.step = "put" /\ work'.report = work.report
        /\ work'.ts = work.ts /\ work'.base = work.base /\ work'.fence = work.fence
        /\ work'.key = work.key + 1
    BY <1>1, <1>6, <2>1 DEF Work
  <2>3. Holding' /\ Announcing'
    BY <1>1, <1>2, <1>6, <2>1, <2>2 DEF Holding, Announcing
  <2>4. work.key \in Stored
    BY <1>3, <1>6 DEF Free, Stored
  <2>5. \A j \in work.base..((work.key + 1) - 1) : j \in work.base..(work.key - 1) \/ j = work.key
    BY <1>3
  <2>6. Honest' = Honest /\ Stored' = Stored /\ \A f : OpenRows(f)' = OpenRows(f)
    BY <1>1, <1>6 DEF Honest, Stored, OpenRows
  <2>7. OpenRows(work.report.fault)' = {}
    BY <1>4, <1>6, <2>2 DEF OpenRows
  <2>8. \A j \in Keys : Repeated(j)' <=> Repeated(j)
    BY <1>6, <2>2 DEF Repeated
  <2>9. ASSUME work.report.fault.kind = "lamp" PROVE PutReady'
    <3>1. \A j \in work.base..((work.key + 1) - 1) : j \in Stored' /\ ~Repeated(j)'
      <4>1. SUFFICES ASSUME NEW j \in work.base..((work.key + 1) - 1)
                     PROVE  j \in Stored /\ ~Repeated(j) /\ j \in Keys
        BY <2>6, <2>8
      <4>2. CASE j = work.key
        BY <1>3, <1>6, <2>4, <4>2
      <4>3. CASE j \in work.base..(work.key - 1)
        BY <1>4, <2>9, <4>3 DEF Stored
      <4> QED
        BY <2>5, <4>1, <4>2, <4>3
    <3>2. \A t \in work'.fence : t < work'.ts
      BY <1>1, <2>2 DEF PutReady
    <3> QED
      BY <2>2, <2>9, <3>1, <3>2 DEF PutReady
  <2>10. ASSUME work.report.fault.kind # "lamp" PROVE PutReady'
    BY <1>1, <1>6, <2>2, <2>6, <2>7, <2>10 DEF PutReady
  <2> QED
    BY <1>1, <1>6, <2>2, <2>3, <2>9, <2>10, MoveInv DEF Leaves, history
<1>7. CASE /\ UNCHANGED <<rows, applied>> /\ Then("announce")
           /\ unsure' = unsure \cup {work.report}
  <2>1. /\ work' \in Work /\ work'.step = "announce" /\ work'.report = work.report
        /\ work'.ts = work.ts /\ work'.base = work.base /\ work'.fence = work.fence
    BY <1>1, <1>7 DEF Then, Work, Steps
  <2>2. TypeOK' /\ Stored' = Stored
    BY <1>1, <1>2, <1>7, <2>1 DEF TypeOK, Stored
  <2>3. Tables'
    BY <1>1, <1>7, TablesIdle DEF Tables
  <2>4. AlertsFollow' /\ Announcing'
    BY <1>1, <1>7, <2>1 DEF AlertsFollow, Announcing
  <2>5. Holding' /\ PutReady'
    BY <1>1, <1>2, <2>1 DEF Holding, PutReady
  <2>6. FenceKept'
    <3>1. work' # Idle
      BY <2>1, <2>2, WorkShape DEF Idle, Work, Steps
    <3> QED
      BY <1>1, <1>7, <2>1, <2>2, <3>1, FenceGrows, GrowsIdle
  <2> QED
    BY <2>2, <2>3, <2>4, <2>5, <2>6 DEF Tables
<1>8. CASE /\ Free(work.key) /\ Apply(work.key, NewRow) /\ Then("announce")
           /\ unsure' = unsure \/ unsure' = unsure \cup {work.report}
  <2> DEFINE k == work.key
  <2>1. k \in Keys /\ rows[k] = NoRow
    BY <1>3, <1>8 DEF Free
  <2>2. /\ NewRow \in Row /\ NewRow.last = work.ts /\ NewRow.fault = work.report.fault
        /\ NewRow.first = work.ts /\ NewRow.cleared = 0
    BY <1>2 DEF NewRow, Row, Never
  <2>3. /\ rows' \in [Keys -> Row \cup {NoRow}] /\ rows'[k] = NewRow
        /\ \A j \in Keys : j # k => rows'[j] = rows[j]
        /\ applied' \in [Report -> Nat]
        /\ applied'[work.report] = applied[work.report] + 1
        /\ \A r \in Report : r # work.report => applied'[r] = applied[r]
    BY <1>1, <1>8, <2>1, <2>2, AppliedShape
  <2>4. /\ work' \in Work /\ work'.step = "announce" /\ work'.report = work.report
        /\ work'.ts = work.ts /\ work'.base = work.base /\ work'.fence = work.fence
    BY <1>1, <1>8 DEF Then, Work, Steps
  <2>5. TypeOK'
    BY <1>1, <1>2, <1>8, <2>3, <2>4 DEF TypeOK
  <2>n. NewRow # NoRow
    BY <2>2, RowShape
  <2> HIDE DEF k
  <2>6. Stored' = Stored \cup {k} /\ k \notin Stored
    BY <2>1, <2>3, <2>n DEF Stored
  <2>7. Grows
    <3>1. \A j \in Stored : j \in Keys /\ j # k
      BY <2>6 DEF Stored
    <3>2. \A j \in Keys : rows[j].last \in Nat /\ rows[j].cleared \in Nat
      BY StoredShape, RowShape DEF NoRow
    <3> QED
      BY <2>3, <2>6, <3>1, <3>2 DEF Grows
  <2>8. \A j \in Keys : Active(rows'[j]) => j = k \/ Active(rows[j])
    BY <2>3
  <2>9. /\ OpenRows(work.report.fault)' \subseteq {k}
        /\ work.report.fault.kind # "lamp" => OpenRows(work.report.fault)' = {k}
    <3>1. \A j \in Keys : j # k => ~(Active(rows'[j]) /\ rows'[j].fault = work.report.fault
                                        /\ work.report.fault.kind # "lamp")
      BY <1>4, <2>3, OpenShape
    <3>2. rows'[k].fault = work.report.fault /\ Active(rows'[k])
      BY <2>2, <2>3, <2>n DEF Active, Never
    <3> QED
      BY <2>1, <2>4, <3>1, <3>2 DEF OpenRows
  <2>10. \A f : f # work.report.fault => OpenRows(f)' = OpenRows(f)
    <3>1. \A f, j : (f # work.report.fault /\ j \in Keys) =>
              ((Active(rows'[j]) /\ rows'[j].fault = f) <=> (Active(rows[j]) /\ rows[j].fault = f))
      BY <2>1, <2>2, <2>3 DEF Active
    <3> QED
      BY <3>1 DEF OpenRows
  <2>11. Clock'
    BY <1>1, <1>2, <2>2, <2>3 DEF Clock, Honest, TypeOK
  <2>12. work.report \in Honest => applied[work.report] = 0
    <3>1. SUFFICES ASSUME work.report \in Honest, applied[work.report] # 0 PROVE FALSE
      OBVIOUS
    <3>2. work.report.ts = work.ts /\ Reflected(work.report)
      BY <1>2, <3>1 DEF Reflects, Honest
    <3>3. CASE work.report.fault.kind # "lamp"
      BY <1>2, <1>4, <3>1, <3>2, <3>3
    <3>4. CASE work.report.fault.kind = "lamp"
      <4>1. PICK i \in work.ts..(work.ts + Probes - 1) :
                /\ i \in Keys /\ rows[i].fault = work.report.fault /\ rows[i].first = work.ts
                /\ \A j \in work.ts..i : j \in Stored
        BY <3>2, <3>4 DEF Reflected, OwnRow
      <4>2. i \in Nat /\ work.base = work.ts
        BY <1>2, <3>4, <4>1
      <4>3. CASE i < work.key
        <5>1. i \in work.base..(work.key - 1)
          BY <1>3, <4>1, <4>2, <4>3
        <5> QED
          BY <1>4, <3>4, <4>1, <5>1 DEF Repeated
      <4>4. CASE work.key <= i
        <5>1. work.key \in work.ts..i
          BY <1>2, <1>3, <4>2, <4>4
        <5> QED
          BY <2>6, <4>1, <5>1 DEF k
      <4> QED
        BY <1>3, <4>2, <4>3, <4>4
    <3> QED
      BY <3>3, <3>4
  <2>13. Reflects'
    <3>1. SUFFICES ASSUME NEW r \in Honest, applied'[r] # 0 PROVE applied'[r] = 1 /\ Reflected(r)'
      BY <1>1 DEF Reflects, Honest
    <3>2. r \in Report /\ r.ts \in Nat /\ r.fault \in Faults
      BY ReportShape DEF Honest, TypeOK
    <3>3. CASE r = work.report
      <4>1. applied'[r] = 1 /\ r.ts = work.ts
        BY <1>2, <2>3, <2>12, <3>1, <3>3 DEF Honest
      <4>2. CASE r.fault.kind # "lamp"
        <5>1. OpenRows(r.fault)' = {k} /\ rows'[k].last >= r.ts
          BY <1>2, <2>2, <2>3, <2>4, <2>9, <3>3, <4>1, <4>2
        <5> QED
          BY <4>1, <4>2, <5>1 DEF Reflected, Covered
      <4>3. CASE r.fault.kind = "lamp"
        <5>1. work.key \in r.ts..(r.ts + Probes - 1)
          BY <1>2, <3>3, <4>1, <4>3
        <5>2. \A j \in r.ts..work.key : j \in Stored'
          <6>1. SUFFICES ASSUME NEW j \in r.ts..work.key PROVE j \in Stored \cup {k}
            BY <2>6
          <6>2. j = work.key \/ j \in work.base..(work.key - 1)
            BY <1>2, <1>3, <3>3, <4>1, <4>3
          <6> QED
            BY <1>4, <3>3, <4>3, <6>2 DEF k
        <5>3. rows'[work.key].fault = r.fault /\ rows'[work.key].first = r.ts
          BY <2>2, <2>3, <3>3, <4>1 DEF k
        <5> QED
          BY <1>3, <4>1, <4>3, <5>1, <5>2, <5>3 DEF Reflected, OwnRow
      <4> QED
        BY <4>1, <4>2, <4>3
    <3>4. CASE r # work.report
      <4>1. applied'[r] = applied[r] /\ applied[r] # 0 /\ applied[r] = 1 /\ Reflected(r)
        BY <2>3, <3>1, <3>2, <3>4 DEF Reflects
      <4>2. CASE r.fault.kind = "lamp"
        BY <2>7, <3>2, <4>1, <4>2, OwnRowGrows DEF Reflected
      <4>3. CASE r.fault.kind # "lamp" /\ r.fault = work.report.fault
        <5>1. r.ts < work.ts
          BY <1>4, <4>1, <4>3
        <5>2. OpenRows(r.fault)' = {k} /\ rows'[k].last >= r.ts
          BY <1>2, <2>2, <2>3, <2>4, <2>9, <3>2, <4>3, <5>1
        <5> QED
          BY <4>1, <4>3, <5>2 DEF Reflected, Covered
      <4>4. CASE r.fault.kind # "lamp" /\ r.fault # work.report.fault
        <5>1. OpenRows(r.fault)' = OpenRows(r.fault)
          BY <2>10, <4>4
        <5>2. \A j \in Stored \cup OpenRows(r.fault) : j \in Keys /\ (rows[j] # NoRow => rows'[j] = rows[j])
          BY <2>1, <2>3, OpenShape DEF Stored
        <5>3. \A j \in OpenRows(r.fault) : rows'[j] = rows[j]
          BY <5>2, OpenShape DEF Active
        <5>4. \A j \in Stored : rows'[j] = rows[j] /\ j \in Stored'
          BY <2>6, <5>2 DEF Stored
        <5> QED
          BY <4>1, <4>4, <5>1, <5>3, <5>4 DEF Reflected, Covered
      <4> QED
        BY <4>1, <4>2, <4>3, <4>4
    <3> QED
      BY <3>3, <3>4
  <2>14. OneActive'
    <3>1. SUFFICES ASSUME NEW i \in Keys, NEW j \in Keys, Active(rows'[i]), Active(rows'[j]),
                          rows'[i].fault = rows'[j].fault, rows'[i].fault.kind # "lamp"
                   PROVE  i = j
      BY DEF OneActive
    <3>2. CASE i # k /\ j # k
      BY <2>3, <3>1, <3>2 DEF OneActive
    <3>3. ASSUME NEW a \in Keys, a # k, Active(rows'[a]), rows'[a].fault.kind # "lamp",
                 rows'[a].fault = work.report.fault
          PROVE  FALSE
      BY <1>4, <2>3, <3>3, OpenShape
    <3>4. rows'[k].fault = work.report.fault
      BY <2>2, <2>3
    <3> QED
      BY <3>1, <3>2, <3>3, <3>4
  <2>15. AlertsFollow'
    <3>1. applied[work.report] \in Nat /\ \A r \in sent : alerts[r] \in Nat /\ r \in Report
      BY <1>2 DEF TypeOK
    <3> QED
      BY <1>1, <1>2, <1>8, <2>3, <3>1 DEF AlertsFollow
  <2>16. Announcing'
    <3>1. applied[work.report] \in Nat /\ alerts[work.report] \in Nat
      BY <1>2 DEF TypeOK
    <3> QED
      BY <1>1, <1>2, <1>8, <2>3, <2>4, <3>1 DEF Announcing, AlertsFollow
  <2>17. Holding' /\ PutReady'
    BY <1>1, <1>2, <2>4 DEF Holding, PutReady
  <2>18. FenceKept'
    <3>1. work' # Idle
      BY <2>4, <2>5, WorkShape DEF Idle, Work, Steps
    <3> QED
      BY <1>1, <2>4, <2>5, <2>7, <3>1, FenceGrows
  <2> QED
    BY <2>5, <2>11, <2>13, <2>14, <2>15, <2>16, <2>17, <2>18
<1> QED
  BY <1>5, <1>6, <1>7, <1>8 DEF Put

LEMMA InitInv == Init => Inv
<1> SUFFICES ASSUME Init PROVE Inv
  OBVIOUS
<1>1. /\ now = 1 /\ sent = {} /\ ahead = {} /\ handled = {} /\ muted = {} /\ unsure = {}
      /\ rows = [k \in Keys |-> NoRow] /\ work = Idle
      /\ applied = [r \in Report |-> 0] /\ alerts = [r \in Report |-> 0]
  BY DEF Init
<1>2. faults \subseteq Faults /\ left \in Nat /\ failures \in Nat /\ restarts \in Nat
  BY DEF Init
<1>3. TypeOK
  BY <1>1, <1>2 DEF TypeOK
<1>4. \A k \in Keys : rows[k].cleared = 0 /\ ~Active(rows[k])
  BY <1>1 DEF NoRow, Active, Never
<1>5. Clock /\ Reflects /\ OneActive /\ AlertsFollow
  BY <1>1, <1>4 DEF Clock, Reflects, OneActive, AlertsFollow, Honest
<1>6. Holding /\ FenceKept /\ PutReady /\ Announcing
  BY <1>1 DEF Holding, FenceKept, PutReady, Announcing, Idle
<1> QED
  BY <1>3, <1>5, <1>6 DEF Inv

LEMMA StutterInv == ASSUME Inv, UNCHANGED vars PROVE Inv'
BY DEF Inv, vars, memory, history, TypeOK, Clock, Holding, FenceKept, PutReady, Announcing,
       Reflects, Reflected, Covered, OwnRow, OneActive, AlertsFollow, Honest, OpenRows, Stored,
       Repeated, Active

-----------------------------------------------------------------------------
(* The invariant, and what follows from it. *)

LEMMA StepInv == Inv /\ [Next]_vars => Inv'
<1> SUFFICES ASSUME Inv, [Next]_vars PROVE Inv'
  OBVIOUS
<1>1. CASE \E r \in Report : Send(r) \/ Receive(r)
  BY <1>1, SendInv, ReceiveInv
<1>2. CASE Process
  BY <1>2, LookupInv, UpdateInv, ClassifyInv, JudgeInv, PutInv, AnnounceInv DEF Process
<1>3. CASE Restart
  BY <1>3, RestartInv
<1>4. CASE \E k \in Keys : Clear(k)
  BY <1>4, ClearInv
<1>5. CASE Tick
  BY <1>5, TickInv
<1>6. CASE UNCHANGED vars
  BY <1>6, StutterInv
<1> QED
  BY <1>1, <1>2, <1>3, <1>4, <1>5, <1>6 DEF Next

\* A step changes the table by a clear, an update or a put.
LEMMA RowsChange ==
    ASSUME Next
    PROVE  rows' = rows \/ (\E j \in Keys : Clear(j)) \/ Update \/ Put
BY DEF Next, Process, Send, Receive, Tick, Restart, Lookup, Classify, Judge, Announce, Leave

LEMMA StepGrows ==
    ASSUME Inv, [Next]_vars
    PROVE  Grows
<1>1. SUFFICES ASSUME NEW k \in Stored
               PROVE  /\ k \in Stored'
                      /\ rows'[k].fault = rows[k].fault /\ rows'[k].first = rows[k].first
                      /\ rows'[k].last >= rows[k].last /\ rows'[k].cleared >= rows[k].cleared
                      /\ ~Active(rows[k]) => rows'[k].last = rows[k].last /\ ~Active(rows'[k])
  BY DEF Grows
<1>2. /\ k \in Keys /\ rows[k] \in Row /\ rows[k].last \in Nat /\ rows[k].cleared \in 0..Horizon
      /\ rows \in [Keys -> Row \cup {NoRow}] /\ now \in 1..Horizon /\ rows[k].cleared <= now
  BY StoredShape, RowShape DEF Inv, TypeOK, Clock, Stored
<1>3. CASE rows'[k] = rows[k]
  BY <1>2, <1>3 DEF Stored
<1>4. CASE \E j \in Keys : Clear(j)
  <2>1. rows'[k] = rows[k] \/ rows'[k] = [rows[k] EXCEPT !.cleared = now]
    BY <1>2, <1>4 DEF Clear
  <2>2. [rows[k] EXCEPT !.cleared = now] \in Row
    BY <1>2, RowShape
  <2>3. CASE rows'[k] = [rows[k] EXCEPT !.cleared = now]
    <3>1. /\ rows'[k].cleared = now /\ rows'[k].last = rows[k].last /\ rows'[k] \in Row
          /\ rows'[k].fault = rows[k].fault /\ rows'[k].first = rows[k].first
      BY <1>2, <2>2, <2>3 DEF Row
    <3> QED
      BY <1>2, <3>1, RowShape DEF Stored, Active, Never
  <2> QED
    BY <1>3, <2>1, <2>3
<1>5. CASE Update
  <2>1. /\ work # Idle /\ work.key \in Keys /\ work.ts \in Nat /\ work.ts \in Seen
    BY <1>5, WorkShape, RowShape DEF Update, Works, Steps, Inv, Holding
  <2>2. CASE /\ Newer(work.key) /\ k = work.key
             /\ rows' = [rows EXCEPT ![work.key] = [rows[work.key] EXCEPT !.last = work.ts]]
    <3>1. /\ rows'[k] = [rows[k] EXCEPT !.last = work.ts] /\ Active(rows[k])
          /\ rows[k].last < work.ts
      BY <1>2, <2>2 DEF Newer
    <3>2. rows'[k] \in Row
      BY <1>2, <2>1, <3>1, RowShape
    <3> QED
      BY <1>2, <2>1, <3>1, <3>2, RowShape DEF Row, Stored
  <2>3. CASE /\ k # work.key
             /\ rows' = [rows EXCEPT ![work.key] = [rows[work.key] EXCEPT !.last = work.ts]]
    BY <1>2, <1>3, <2>1, <2>3
  <2> QED
    BY <1>3, <1>5, <2>2, <2>3 DEF Update, Apply
<1>6. CASE Put
  <2>1. \/ rows' = rows
        \/ Free(work.key) /\ rows' = [rows EXCEPT ![work.key] = NewRow]
    BY <1>6 DEF Put, Apply, Leave, history
  <2>2. rows'[k] = rows[k]
    BY <1>2, <2>1 DEF Free, Stored
  <2> QED
    BY <1>3, <2>2
<1> QED
  BY <1>3, <1>4, <1>5, <1>6, RowsChange DEF vars

\* A row is added by a put alone, and it is the report's own.
LEMMA PutAdds ==
    ASSUME Inv, Next, NEW k \in Keys, rows[k] = NoRow, rows'[k] # NoRow
    PROVE  Put /\ work.step = "put" /\ rows'[k] = NewRow
<1>1. rows \in [Keys -> Row \cup {NoRow}]
  BY DEF Inv, TypeOK
<1>2. CASE \E j \in Keys : Clear(j)
  <2>1. PICK j \in Keys : Clear(j)
    BY <1>2
  <2> QED
    BY <1>1, <2>1 DEF Clear, Stored
<1>3. CASE Update
  <2>1. \/ rows' = rows
        \/ /\ Newer(work.key)
           /\ rows' = [rows EXCEPT ![work.key] = [rows[work.key] EXCEPT !.last = work.ts]]
    BY <1>3 DEF Update, Apply
  <2> QED
    BY <1>1, <2>1 DEF Newer, Active
<1>4. CASE Put
  <2>1. \/ rows' = rows
        \/ Free(work.key) /\ rows' = [rows EXCEPT ![work.key] = NewRow]
    BY <1>4 DEF Put, Apply, Leave, history
  <2> QED
    BY <1>1, <1>4, <2>1 DEF Put, Works
<1> QED
  BY <1>2, <1>3, <1>4, RowsChange

\* The inductive invariant of the fault history holds in every reachable state.
THEOREM Inductive == Spec => []Inv
BY InitInv, StepInv, PTL DEF Spec

\* Every variable keeps its type, whatever is replayed, cleared or lost.
THEOREM TypeCorrect == Spec => []TypeOK
<1>1. Inv => TypeOK
  BY DEF Inv
<1> QED
  BY <1>1, Inductive, PTL

\* putNewRow never gives a fault a second ACTIVE row, however far the index lags.
THEOREM OneActiveRow == Spec => []OneActive
<1>1. Inv => OneActive
  BY DEF Inv
<1> QED
  BY <1>1, Inductive, PTL

\* A report changes the history once, however often it is delivered.
THEOREM ReplayIsIdempotent == Spec => []AppliedOnce
<1>1. Inv => AppliedOnce
  <2>1. SUFFICES ASSUME Inv, NEW r \in Honest PROVE applied[r] <= 1
    BY DEF AppliedOnce, Honest
  <2>2. applied[r] \in Nat
    BY <2>1 DEF Inv, TypeOK, Honest
  <2> QED
    BY <2>1, <2>2 DEF Inv, Reflects
<1> QED
  BY <1>1, Inductive, PTL

\* No report is announced more often than it changed the history.
THEOREM AlertsJustified == Spec => []AlertsFollow
<1>1. Inv => AlertsFollow
  BY DEF Inv
<1> QED
  BY <1>1, Inductive, PTL

\* A stored row keeps its fault and first report, its times never go back, and a
\* cleared row is never touched by a report.
THEOREM WrittenRowsKept == Spec => RowsKept
<1>1. Inv /\ [Next]_vars =>
        [\A k \in Keys : rows[k] # NoRow =>
          /\ rows'[k].fault = rows[k].fault /\ rows'[k].first = rows[k].first
          /\ rows'[k].last >= rows[k].last /\ rows'[k].cleared >= rows[k].cleared
          /\ ~Active(rows[k]) => rows'[k].last = rows[k].last]_vars
  BY StepGrows DEF Grows, Stored
<1> QED
  BY <1>1, Inductive, PTL DEF Spec, RowsKept

\* A fault that was cleared at a report's time or later is not raised again by it.
THEOREM ClearedStaysCleared == Spec => ClearHolds
<1>1. Inv /\ [Next]_vars =>
        [\A k \in Keys : (rows[k] = NoRow /\ rows'[k] # NoRow) =>
            \A t \in work.fence : t < rows'[k].first]_vars
  BY PutAdds DEF NewRow, Inv, PutReady
<1> QED
  BY <1>1, Inductive, PTL DEF Spec, ClearHolds

-----------------------------------------------------------------------------
(* What a report that is dropped leaves behind. *)

\* The ACTIVE row that turned an update away is as late as the report, and a
\* report about to be announced is in the history, unless its put failed.
Accounted ==
    /\ \A k \in Stored : rows[k].last >= rows[k].first
    /\ (work.step = "classify" /\ Active(rows[work.key])) => rows[work.key].last >= work.ts
    /\ work.step = "announce" => work.report \in unsure \/ Shown(work.report, work.ts)

LEMMA ShownGrows ==
    ASSUME TypeOK, TypeOK', Grows, NEW r \in Report, NEW t \in Seen, Shown(r, t)
    PROVE  Shown(r, t)'
<1>1. PICK k \in Stored :
          \/ /\ rows[k].fault = r.fault
             /\ IF r.fault.kind = "lamp" THEN rows[k].first = t ELSE rows[k].last >= t
          \/ Alike(rows[k].fault, r.fault) /\ rows[k].cleared >= t
  BY DEF Shown
<1>2. /\ k \in Stored' /\ rows'[k].fault = rows[k].fault /\ rows'[k].first = rows[k].first
      /\ rows'[k].last >= rows[k].last /\ rows'[k].cleared >= rows[k].cleared
  BY DEF Grows
<1>3. /\ rows[k].last \in Nat /\ rows[k].cleared \in Nat /\ t \in Nat
      /\ rows'[k].last \in Nat /\ rows'[k].cleared \in Nat
  <2>1. k \in Keys /\ rows[k] \in Row /\ rows' \in [Keys -> Row \cup {NoRow}]
    BY StoredShape DEF Stored, TypeOK
  <2>2. rows'[k] \in Row
    BY <1>2, <2>1 DEF Stored
  <2> QED
    BY <2>1, <2>2, RowShape
<1>4. IF r.fault.kind = "lamp" THEN rows[k].first = t => rows'[k].first = t
                               ELSE rows[k].last >= t => rows'[k].last >= t
  BY <1>2, <1>3
<1>5. rows[k].cleared >= t => rows'[k].cleared >= t
  BY <1>2, <1>3
<1> QED
  BY <1>1, <1>2, <1>4, <1>5 DEF Shown

LEMMA AccountedStep ==
    ASSUME Inv, Inv', Accounted, [Next]_vars
    PROVE  Accounted'
<1>1. Grows
  BY StepGrows
<1>2. \A k \in Keys : rows[k] \in Row \cup {NoRow} /\ rows'[k] \in Row \cup {NoRow}
  BY DEF Inv, TypeOK
<1>3. \A k \in Stored' : rows'[k].last >= rows'[k].first
  <2>1. SUFFICES ASSUME NEW k \in Stored' PROVE rows'[k].last >= rows'[k].first
    OBVIOUS
  <2>2. k \in Keys /\ rows'[k] \in Row
    BY <1>2 DEF Stored
  <2>3. CASE k \in Stored
    <3>1. /\ rows[k].last >= rows[k].first /\ rows'[k].last >= rows[k].last
          /\ rows'[k].first = rows[k].first /\ rows[k] \in Row
      BY <1>1, <1>2, <2>2, <2>3 DEF Accounted, Grows, Stored
    <3> QED
      BY <2>2, <3>1, RowShape
  <2>4. CASE k \notin Stored
    <3>1. rows[k] = NoRow /\ rows'[k] # NoRow /\ Next
      BY <2>2, <2>4 DEF Stored, vars
    <3>2. work.step = "put" /\ rows'[k] = NewRow
      BY <2>2, <3>1, PutAdds
    <3>3. work.ts \in Nat
      BY <3>2, WorkShape, RowShape DEF Inv, Steps
    <3> QED
      BY <3>2, <3>3 DEF NewRow
  <2> QED
    BY <2>3, <2>4
<1>4. CASE work' = work
  <2>1. (work.step = "classify" /\ Active(rows'[work.key])) => rows'[work.key].last >= work.ts
    <3>1. SUFFICES ASSUME work.step = "classify", Active(rows'[work.key])
                   PROVE  rows'[work.key].last >= work.ts
      OBVIOUS
    <3>2. work # Idle /\ work.key \in Keys /\ work.ts \in Nat /\ rows[work.key].fault \in Faults
      BY <3>1, WorkShape, RowShape DEF Inv, Holding, Steps
    <3>3. work.key \in Stored
      BY <3>2, StoredShape DEF Inv
    <3>4. Active(rows[work.key]) /\ rows'[work.key].last >= rows[work.key].last
      BY <1>1, <3>1, <3>3 DEF Grows
    <3>5. rows[work.key].last \in Nat /\ rows'[work.key].last \in Nat
      BY <1>2, <3>1, <3>2, <3>4, RowShape DEF Active
    <3> QED
      BY <3>1, <3>2, <3>4, <3>5 DEF Accounted
  <2>2. work.step = "announce" => work.report \in unsure' \/ Shown(work.report, work.ts)'
    <3>1. SUFFICES ASSUME work.step = "announce"
                   PROVE  work.report \in unsure' \/ Shown(work.report, work.ts)'
      OBVIOUS
    <3>2. work # Idle /\ work.report \in Report /\ work.ts \in Seen
      BY <3>1, WorkShape DEF Inv, Steps
    <3>3. unsure \subseteq unsure'
      BY DEF Next, vars, Process, Send, Receive, Tick, Restart, Clear, Lookup, Update, Classify, Judge,
             Put, Announce, Leave, history
    <3>4. work'.report = work.report /\ work'.ts = work.ts
      BY <1>4
    <3>5. CASE Shown(work.report, work.ts)
      <4>1. ASSUME NEW r \in Report, NEW t \in Seen, Shown(r, t)
            PROVE  Shown(r, t)'
        BY <1>1, <4>1, ShownGrows DEF Inv
      <4>2. ASSUME NEW r, NEW t, r = work.report, t = work.ts
            PROVE  Shown(r, t)' => Shown(work.report, work.ts)'
        BY <3>4, <4>2 DEF Shown
      <4> QED
        BY <3>2, <3>5, <4>1, <4>2
    <3> QED
      BY <3>1, <3>3, <3>5 DEF Accounted
  <2> QED
    BY <1>3, <1>4, <2>1, <2>2 DEF Accounted, Shown
<1>5. CASE Update
  <2>1. /\ work # Idle /\ work \in Work /\ work.step = "update" /\ work.key \in Keys
        /\ work.ts \in Nat /\ work.ts \in Seen /\ rows[work.key].fault = work.report.fault
        /\ work.report.fault.kind # "lamp" /\ work.report.fault \in Faults
    BY <1>5, WorkShape, RowShape DEF Update, Works, Steps, Inv, Holding
  <2>2. work.key \in Stored /\ rows[work.key] \in Row
    BY <2>1, StoredShape DEF Inv
  <2>3. CASE /\ Newer(work.key) /\ Apply(work.key, [rows[work.key] EXCEPT !.last = work.ts])
             /\ Then("announce") \/ Then("classify")
    <3>1. /\ rows'[work.key] = [rows[work.key] EXCEPT !.last = work.ts]
      BY <2>1, <2>3 DEF Apply, Inv, TypeOK
    <3>2. /\ rows'[work.key].last = work.ts /\ rows'[work.key].fault = work.report.fault
      BY <2>1, <2>2, <3>1 DEF Row
    <3>3. /\ work'.key = work.key /\ work'.ts = work.ts /\ work'.report = work.report
      BY <2>1, <2>3 DEF Then, Work
    <3>4. work.key \in Stored'
      BY <1>1, <2>2 DEF Grows
    <3>5. Shown(work.report, work.ts)'
      BY <2>1, <3>2, <3>3, <3>4 DEF Shown
    <3> QED
      BY <1>3, <2>1, <3>2, <3>3, <3>5 DEF Accounted, Shown
  <2>4. CASE ~Newer(work.key) /\ Then("classify") /\ UNCHANGED rows
    <3>1. work'.key = work.key /\ work'.ts = work.ts /\ work'.step = "classify"
      BY <2>1, <2>4, StepShape DEF Then, Inv, Steps
    <3>2. rows[work.key].last \in Nat
      BY <2>2, RowShape
    <3> QED
      BY <1>3, <2>1, <2>4, <3>1, <3>2 DEF Accounted, Newer
  <2>5. CASE Skip
    BY <1>3, <2>5 DEF Skip, Idle, Accounted
  <2> QED
    BY <1>5, <2>3, <2>4, <2>5 DEF Update
<1>6. CASE Put
  <2>1. /\ work # Idle /\ work \in Work /\ work.step = "put" /\ work.ts \in Nat
        /\ work.key \in work.base..(work.base + Probes - 1) /\ work.base \in Nat
        /\ work.report \in Report
    BY <1>6, WorkShape, RowShape DEF Put, Works, Steps, Inv, Holding
  <2>2. CASE Free(work.key) /\ Apply(work.key, NewRow) /\ Then("announce")
    <3>1. work.key \in Keys
      BY <2>1, WorkShape, RowShape DEF Inv, Keys
    <3>2. rows'[work.key] = NewRow
      BY <2>2, <3>1 DEF Apply, Inv, TypeOK
    <3>3. /\ rows'[work.key].fault = work.report.fault /\ rows'[work.key].first = work.ts
          /\ rows'[work.key].last = work.ts
      BY <3>2 DEF NewRow
    <3>4. work.key \in Stored'
      <4>1. work.report.fault \in Faults
        BY <2>1, ReportShape
      <4> QED
        BY <3>1, <3>3, <4>1, RowShape DEF Stored
    <3>5. work'.ts = work.ts /\ work'.report = work.report /\ work'.step = "announce"
      BY <2>1, <2>2 DEF Then, Work
    <3>6. Shown(work.report, work.ts)'
      BY <2>1, <3>3, <3>4, <3>5 DEF Shown
    <3> QED
      BY <1>3, <3>5, <3>6 DEF Accounted, Shown
  <2>3. CASE Then("announce") /\ unsure' = unsure \cup {work.report}
    <3>1. work'.report = work.report /\ work'.step = "announce"
      BY <2>1, <2>3 DEF Then, Work
    <3> QED
      BY <1>3, <2>3, <3>1 DEF Accounted
  <2>4. CASE work' = [work EXCEPT !.key = @ + 1]
    <3>1. work'.step = "put"
      BY <2>1, <2>4 DEF Work
    <3> QED
      BY <1>3, <3>1 DEF Accounted
  <2>5. CASE Skip
    BY <1>3, <2>5 DEF Skip, Idle, Accounted
  <2> QED
    BY <1>6, <2>2, <2>3, <2>4, <2>5 DEF Put
<1>7. CASE \E r \in Report : Receive(r)
  <2>1. work'.step \notin {"classify", "announce"}
    BY <1>7 DEF Receive, Skip, Take, Idle
  <2> QED
    BY <1>3, <2>1 DEF Accounted
<1>8. CASE Lookup \/ Classify \/ Judge \/ Announce \/ Restart
  <2>1. CASE work' = Idle
    BY <1>3, <2>1 DEF Idle, Accounted
  <2>2. CASE work' # Idle
    <3>1. work \in Work
      BY <1>8, <2>2, WorkShape DEF Lookup, Classify, Judge, Announce, Restart, Works, Skip, Steps, Inv
    <3>2. work'.step \in {"judge", "update", "put"}
      BY <1>8, <2>2, <3>1 DEF Lookup, Classify, Judge, Announce, Restart, Skip, Then, Work
    <3> QED
      BY <1>3, <3>2 DEF Accounted
  <2> QED
    BY <2>1, <2>2
<1>9. \/ work' = work \/ Update \/ Put \/ (\E r \in Report : Receive(r))
      \/ Lookup \/ Classify \/ Judge \/ Announce \/ Restart
  BY DEF Next, vars, Process, Send, Tick, Clear
<1> QED
  BY <1>4, <1>5, <1>6, <1>7, <1>8, <1>9

\* In every reachable state a report about to be announced is in the history,
\* unless its put failed.
THEOREM AccountedInductive == Spec => []Accounted
<1>1. Init => Accounted
  BY DEF Init, Accounted, Stored, Idle
<1> QED
  BY <1>1, Inductive, AccountedStep, PTL DEF Spec

\* A report whose handling ends without a failed call is in the history: the
\* replay, the newer row or the clear that stopped it is what shows it.
THEOREM NoSilentLoss == Spec => DropsOnlyReflected
<1>1. Inv /\ Accounted /\ [Next]_vars =>
        [(work # Idle /\ work' = Idle /\ failures' = failures /\ restarts' = restarts
            /\ work.report \notin unsure) => Shown(work.report, work.ts)]_vars
  <2>1. SUFFICES ASSUME Inv, Accounted, Next, work # Idle, work' = Idle, failures' = failures,
                        restarts' = restarts, work.report \notin unsure
                 PROVE  Shown(work.report, work.ts)
    OBVIOUS
  <2>2. /\ work \in Work /\ work.ts \in Nat /\ work.report.fault \in Faults
        /\ work.report \in Report /\ failures \in Nat /\ restarts \in Nat
    BY <2>1, WorkShape, RowShape DEF Inv, TypeOK
  <2>3. ~Fails
    BY <2>1, <2>2 DEF Fails
  <2>4. /\ \A s : ~Then(s)
        /\ \A k, s : work' # [work EXCEPT !.step = s, !.key = k]
        /\ \A k : work' # [work EXCEPT !.key = k]
    BY <2>1, <2>2 DEF Then, Work, Idle
  <2>5. CASE Classify
    <3>1. Active(rows[work.key]) /\ work.step = "classify"
      BY <2>3, <2>4, <2>5 DEF Classify, Works
    <3>2. /\ work.key \in Keys /\ rows[work.key].fault = work.report.fault
          /\ work.report.fault.kind # "lamp" /\ work.key \in Stored
      BY <2>1, <2>2, <3>1, StoredShape DEF Inv, Holding
    <3> QED
      BY <2>1, <3>1, <3>2 DEF Accounted, Shown
  <2>6. CASE Judge
    <3>1. Fenced(work.report)
      BY <2>3, <2>4, <2>6 DEF Judge
    <3>2. PICK k \in Stored : Alike(rows[k].fault, work.report.fault) /\ rows[k].cleared >= work.ts
      BY <3>1 DEF Fenced, Clears
    <3> QED
      BY <3>2 DEF Shown
  <2>7. CASE Put
    <3>1. ~Free(work.key) /\ Repeated(work.key) /\ work.step = "put"
      BY <2>3, <2>4, <2>7 DEF Put, Works
    <3>2. work.key \in Keys
      BY <2>1, <2>2, <3>1, WorkShape, RowShape DEF Inv, Holding, Keys
    <3>3. work.key \in Stored
      BY <3>1, <3>2 DEF Free, Stored
    <3>4. rows[work.key].last >= work.ts
      BY <2>1, <3>1, <3>3 DEF Accounted, Repeated
    <3> QED
      BY <3>1, <3>3, <3>4 DEF Shown, Repeated
  <2>8. CASE Announce
    BY <2>1, <2>8 DEF Announce, Works, Accounted
  <2>9. Classify \/ Judge \/ Put \/ Announce
    <3>1. ~Lookup
      BY <2>3, <2>4 DEF Lookup
    <3>2. ~Update
      BY <2>3, <2>4 DEF Update
    <3>3. ~Restart
      BY <2>1, <2>2 DEF Restart
    <3> QED
      BY <2>1, <3>1, <3>2, <3>3 DEF Next, Process, Send, Receive, Tick, Clear
  <2> QED
    BY <2>5, <2>6, <2>7, <2>8, <2>9
<1> QED
  BY <1>1, Inductive, AccountedInductive, PTL DEF Spec, DropsOnlyReflected

=============================================================================
