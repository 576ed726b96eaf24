--------------------------------- MODULE Dtc ---------------------------------
(***************************************************************************)
(* The fault history of one vehicle: the Flink maintenance processor judges *)
(* each fault report it reads and raises the fault in the dtc-history       *)
(* table, by bumping the fault's ACTIVE row or writing a new one, then      *)
(* writes its alert; operators clear rows meanwhile.  A restart forgets     *)
(* what was handled, and reports are delivered again, late, in any order.   *)
(***************************************************************************)
EXTENDS Naturals

CONSTANTS
    Codes,        \* trouble codes, or the indicators of reports without one
    Cases,        \* which faults report; bounds on reports, failures and restarts
    Horizon,      \* bound: clock
    Ahead,        \* how far a vehicle's clock runs ahead, if it does
    Tolerance,    \* CLOCK_SKEW_TOLERANCE_MS
    Probes        \* MAX_KEY_PROBES

Kinds  == {"uds", "oem1", "threshold", "lamp"}
Faults == [kind : Kinds, code : Codes]
Never  == 0
Times  == 1..(Horizon + Ahead)
Seen   == 1..(Horizon + Tolerance)           \* report times once capped
Keys   == 1..(Horizon + Tolerance + Probes)

ASSUME DtcAssumption ==
    /\ Cases \subseteq [faults : SUBSET Faults, reports : Nat, failures : Nat, restarts : Nat]
    /\ Horizon \in Nat \ {0}
    /\ Ahead \in Nat /\ Tolerance \in Nat /\ Probes \in Nat \ {0}

Report == [fault : Faults, ts : Times]
Row    == [fault : Faults, first : Seen, last : Seen, cleared : 0..Horizon]
NoRow  == [fault |-> [kind |-> "none", code |-> "none"], first |-> 0, last |-> 0, cleared |-> Never]

\* What is being handled: the report, its capped time and row key, the ACTIVE
\* row to update or the key to put and, for the properties, when its fault had
\* been cleared as its handling began.
Steps == {"lookup", "update", "classify", "judge", "put", "announce"}
Work  == [step : Steps, report : Report, ts : Seen, key : Keys \cup {0}, base : Seen,
          fence : SUBSET (0..Horizon)]
Idle  == [step |-> "idle"]

VARIABLES
    faults,     \* the faults that report
    left,       \* reports, failed calls and restarts still to come
    failures,
    restarts,
    now,        \* processing time, and the operators' clock
    sent,       \* every report sent so far
    ahead,      \* those stamped later than the clock
    rows,       \* dtc-history, by its timestamp key
    handled,    \* processedMessages
    muted,      \* tripAlerts: threshold faults alerted in this run of the job
    work,       \* the report in hand, or Idle
    applied,    \* history: how often each report changed a row
    alerts,     \* how often each report was announced
    unsure      \* history: reports whose new row could not be written

memory  == <<handled, muted>>
history == <<applied, unsure>>
vars    == <<faults, left, now, sent, ahead, rows, memory, work, history, alerts,
             failures, restarts>>

Init ==
    /\ \E c \in Cases : faults = c.faults /\ left = c.reports
                      /\ failures = c.failures /\ restarts = c.restarts
    /\ now = 1
    /\ sent = {} /\ ahead = {}
    /\ rows = [k \in Keys |-> NoRow]
    /\ handled = {} /\ muted = {} /\ work = Idle
    /\ applied = [r \in Report |-> 0] /\ alerts = applied /\ unsure = {}

Active(row) == row # NoRow /\ row.cleared = Never

\* An eventually consistent read shows a row as it was at any time since it was
\* written, or not at all.
Stored == {k \in Keys : rows[k] # NoRow}

\* When the rows of a fault's code, from any source, were cleared.
\* Reports without a code are told apart by their indicator.
Alike(f, g)  == f.code = g.code /\ (f.kind = "lamp" <=> g.kind = "lamp")
Clears(f)    == {rows[k].cleared : k \in {j \in Stored : Alike(rows[j].fault, f)}}

-----------------------------------------------------------------------------
(* The vehicle, the operator, and the clock: a report is handled in one tick. *)

Send(r) ==
    /\ work = Idle /\ left > 0 /\ r \notin sent
    /\ r.fault \in faults /\ r.ts \in {now, now + Ahead}
    /\ left' = left - 1
    /\ sent' = sent \cup {r}
    /\ ahead' = IF r.ts > now THEN ahead \cup {r} ELSE ahead
    /\ UNCHANGED <<faults, now, rows, memory, work, history, alerts, failures, restarts>>

\* Mark Cleared: a row that the operator's lagging read shows, and shows as not
\* cleared, which may by now be cleared, is given the time of the clear.
Clear(k) ==
    /\ k \in Stored
    /\ rows' = [rows EXCEPT ![k].cleared = now]
    /\ UNCHANGED <<faults, left, now, sent, ahead, memory, work, history, alerts, failures, restarts>>

Tick ==
    /\ now < Horizon /\ work = Idle /\ now' = now + 1
    /\ UNCHANGED <<faults, left, sent, ahead, rows, memory, work, history, alerts,
                   failures, restarts>>

-----------------------------------------------------------------------------
(* The processor. *)

\* Mutant: the report's time is taken as it is.
Uncapped(r) == r.ts

\* capFutureReportTime.
Capped(r) == IF r.ts > now + Tolerance THEN now + Tolerance ELSE r.ts

Skip == work' = Idle
Take(r) ==
    work' = [step   |-> IF r.fault.kind = "lamp" THEN "judge" ELSE "lookup",
             report |-> r, ts |-> Capped(r), key |-> 0,
             base   |-> IF r.fault.kind = "threshold" THEN now ELSE Capped(r),
             fence  |-> Clears(r.fault)]

\* A report not handled since the restart, be it new, late or sent again.  The
\* threshold path keys its row by processing time and alerts a fault once, until
\* other vehicles' alerts have filled tripAlerts and it is emptied.
Receive(r) ==
    /\ work = Idle /\ r \in sent \ handled
    /\ handled' = handled \cup {r}
    /\ \/ r.fault \in muted /\ Skip /\ UNCHANGED muted
       \/ r.fault \notin muted /\ Take(r) /\ UNCHANGED muted
       \/ r.fault \in muted /\ muted' = {} /\ Take(r)
    /\ UNCHANGED <<faults, left, now, sent, ahead, rows, history, alerts, failures, restarts>>

Works(step) ==
    /\ work.step = step
    /\ UNCHANGED <<faults, left, now, sent, ahead, handled, restarts>>
Then(step)  == work' = [work EXCEPT !.step = step]
Fails       == failures > 0 /\ failures' = failures - 1
Leave       == UNCHANGED <<rows, history>>
Apply(k, row) ==
    /\ rows' = [rows EXCEPT ![k] = row]
    /\ applied' = [applied EXCEPT ![work.report] = @ + 1]

\* findLatestActiveRow: what the lagging index shows.  A failed read skips.
Lookup ==
    /\ Works("lookup") /\ Leave /\ UNCHANGED <<muted, alerts>>
    /\ \/ /\ \E k \in {j \in Stored : rows[j].fault = work.report.fault} :
                work' = [work EXCEPT !.step = "update", !.key = k]
          /\ UNCHANGED failures
       \/ Then("judge") /\ UNCHANGED failures
       \/ Skip /\ Fails

\* Mutant: an equal report counts as newer.
NewerOrEqual(k) == Active(rows[k]) /\ rows[k].last <= work.ts

\* updateIfNewer: only an ACTIVE row, and only by a newer report.  The client
\* retries a call whose answer is lost, and the retry fails the condition: what
\* has changed the row is then skipped.
Newer(k) == Active(rows[k]) /\ rows[k].last < work.ts

Update ==
    /\ Works("update") /\ UNCHANGED <<muted, alerts, unsure>>
    /\ \/ /\ Newer(work.key)
          /\ Apply(work.key, [rows[work.key] EXCEPT !.last = work.ts])
          /\ \/ Then("announce") /\ UNCHANGED failures
             \/ Then("classify") /\ Fails
       \/ ~Newer(work.key) /\ Then("classify") /\ UNCHANGED <<rows, applied, failures>>
       \/ Skip /\ Fails /\ UNCHANGED <<rows, applied>>

\* Mutant: a row that is ACTIVE still counts as updated.
ClassifyUpdated ==
    /\ Works("classify") /\ Leave /\ UNCHANGED <<muted, alerts>>
    /\ \/ Active(rows[work.key]) /\ Then("announce") /\ UNCHANGED failures
       \/ ~Active(rows[work.key]) /\ Then("judge") /\ UNCHANGED failures
       \/ Skip /\ Fails

\* A consistent read tells why: an ACTIVE row reflects the report already.
Classify ==
    /\ Works("classify") /\ Leave /\ UNCHANGED <<muted, alerts>>
    /\ \/ Active(rows[work.key]) /\ Skip /\ UNCHANGED failures
       \/ ~Active(rows[work.key]) /\ Then("judge") /\ UNCHANGED failures
       \/ Skip /\ Fails

\* Mutants: a clear at the report's own time does not fence it; any clear does;
\* only the index is asked for an ACTIVE row.
FencedLater(r) == \E t \in Clears(r.fault) : t > work.ts /\ t <= now + Tolerance
FencedByAny(r) == \E t \in Clears(r.fault) : t # Never
IndexOnly(f)   == {}

\* The consistent read of the fault's rows: a clear at or after the report
\* fences it, an ACTIVE row the index did not show is updated.  (The code gives up after
\* three such reads; with one handler per vehicle the second finds no such row.)
Fenced(r)   == \E t \in Clears(r.fault) : t >= work.ts /\ t <= now + Tolerance
OpenRows(f) == IF f.kind = "lamp" THEN {} ELSE {k \in Keys : Active(rows[k]) /\ rows[k].fault = f}
Latest(f)   == {k \in OpenRows(f) : \A j \in OpenRows(f) : rows[j].last <= rows[k].last}

Judge ==
    /\ Works("judge") /\ Leave /\ UNCHANGED <<muted, alerts>>
    /\ \/ Skip /\ Fails
       \/ Fenced(work.report) /\ Skip /\ UNCHANGED failures
       \/ /\ ~Fenced(work.report) /\ UNCHANGED failures
          /\ \/ \E k \in Latest(work.report.fault) :
                   work' = [work EXCEPT !.step = "update", !.key = k]
             \/ /\ OpenRows(work.report.fault) = {}
                /\ work' = [work EXCEPT !.step = "put", !.key = work.base]

\* Mutant: a key whose row is cleared is free.
FreeOrCleared(k) == ~Active(rows[k])

Free(k)     == rows[k] = NoRow
Repeated(k) == rows[k].fault = work.report.fault /\ rows[k].first = work.ts
NewRow      == [fault |-> work.report.fault, first |-> work.ts, last |-> work.ts, cleared |-> Never]

\* putNewRow: the first free key.  A key that holds this report already ends the
\* search; a put that fails, or finds no key, is announced all the same.
Put ==
    /\ Works("put") /\ UNCHANGED <<muted, alerts>>
    /\ \/ /\ Free(work.key) /\ Apply(work.key, NewRow) /\ Then("announce")
          /\ UNCHANGED <<unsure, failures>>
       \/ /\ Then("announce") /\ Fails
          /\ unsure' = unsure \cup {work.report}
          /\ (Free(work.key) /\ Apply(work.key, NewRow)) \/ UNCHANGED <<rows, applied>>
       \/ ~Free(work.key) /\ Repeated(work.key) /\ Skip /\ Leave /\ UNCHANGED failures
       \/ ~Free(work.key) /\ Skip /\ Leave /\ Fails
       \/ /\ ~Free(work.key) /\ ~Repeated(work.key) /\ UNCHANGED <<rows, applied, failures>>
          /\ \/ /\ work.key + 1 < work.base + Probes
                /\ work' = [work EXCEPT !.key = @ + 1] /\ UNCHANGED unsure
             \/ /\ work.key + 1 = work.base + Probes
                /\ Then("announce") /\ unsure' = unsure \cup {work.report}

\* The alert row and the pending action of a raise that was not skipped.
Announce ==
    /\ Works("announce") /\ Leave /\ Skip
    /\ muted' = IF work.report.fault.kind = "threshold" THEN muted \cup {work.report.fault} ELSE muted
    /\ \/ alerts' = [alerts EXCEPT ![work.report] = @ + 1] /\ UNCHANGED failures
       \/ UNCHANGED alerts /\ Fails

Process == Lookup \/ Update \/ Classify \/ Judge \/ Put \/ Announce

\* What was read since the last commit is delivered again.
Restart ==
    /\ restarts > 0 /\ restarts' = restarts - 1
    /\ handled' = {} /\ muted' = {} /\ work' = Idle
    /\ UNCHANGED <<faults, left, now, sent, ahead, rows, history, alerts, failures>>

-----------------------------------------------------------------------------

Next ==
    \/ \E r \in Report : Send(r) \/ Receive(r)
    \/ Process \/ Restart
    \/ \E k \in Keys : Clear(k)
    \/ Tick

Spec == Init /\ [][Next]_vars

-----------------------------------------------------------------------------
(* Properties. *)

TypeOK ==
    /\ faults \subseteq Faults /\ left \in Nat
    /\ now \in 1..Horizon
    /\ sent \subseteq Report /\ ahead \subseteq sent
    /\ rows \in [Keys -> Row \cup {NoRow}]
    /\ handled \subseteq sent /\ muted \subseteq Faults
    /\ work \in Work \cup {Idle}
    /\ applied \in [Report -> Nat] /\ alerts \in [Report -> Nat] /\ unsure \subseteq Report
    /\ failures \in Nat /\ restarts \in Nat

\* A fault has at most one ACTIVE row per source, although the index that finds
\* it lags: reports without a code, which have a row each, apart.
OneActive ==
    \A j, k \in Keys :
        (Active(rows[j]) /\ Active(rows[k]) /\ rows[j].fault = rows[k].fault
            /\ rows[j].fault.kind # "lamp") => j = k

\* However often a report is delivered, and whatever was cleared, failed or
\* restarted in between, it changes the history once.  (One stamped ahead of
\* the clock is not recognised: it gets a later time each time it is capped.)
AppliedOnce == \A r \in sent \ ahead : applied[r] <= 1

\* Only a report that changed the history is announced, and once, unless its
\* new row could not be written.
AlertsFollow == \A r \in sent \ (ahead \cup unsure) : alerts[r] <= applied[r]

\* A written row stays what it is: no other report takes its place, its times
\* never go back, and once it is cleared no report touches it.
RowsKept ==
    [][\A k \in Keys : rows[k] # NoRow =>
          /\ rows'[k].fault = rows[k].fault /\ rows'[k].first = rows[k].first
          /\ rows'[k].last >= rows[k].last /\ rows'[k].cleared >= rows[k].cleared
          /\ ~Active(rows[k]) => rows'[k].last = rows[k].last]_vars

\* A report raises no new row once its fault has been cleared, from whatever
\* source, at its time or later.  (A clear while it is handled may come too late.)
ClearHolds ==
    [][\A k \in Keys : (rows[k] = NoRow /\ rows'[k] # NoRow) =>
          \A t \in work.fence : t < rows'[k].first]_vars

\* What the history shows of a report r taken to be of time t: a row of its fault
\* as late as it is (one without a code, its own row), or a clear as late as it is.
Shown(r, t) ==
    \E k \in Stored :
        \/ /\ rows[k].fault = r.fault
           /\ IF r.fault.kind = "lamp" THEN rows[k].first = t ELSE rows[k].last >= t
        \/ Alike(rows[k].fault, r.fault) /\ rows[k].cleared >= t

\* No report is lost for want of a failure: the handling of a report that raises
\* nothing, because of a replay, a newer row or a clear, ends with the history
\* showing it, and so does one that raises it.
DropsOnlyReflected ==
    [][(work # Idle /\ work' = Idle /\ failures' = failures /\ restarts' = restarts
           /\ work.report \notin unsure) => Shown(work.report, work.ts)]_vars

=============================================================================
