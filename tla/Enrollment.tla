----------------------------- MODULE Enrollment -----------------------------
(***************************************************************************)
(* OEM1 fleet enrollment: the bulk enroll and bulk unenroll API Lambdas,   *)
(* the enrollment poller, and the OEM1 service they talk to.  Each Lambda  *)
(* invocation is a sequence of separate table writes and HTTP calls that   *)
(* other invocations interleave with and that a timeout, a crash or an     *)
(* exception may cut short after any of them.  Other writers of the same   *)
(* tables are outside the module: the status sync and refresh, add-vehicle,*)
(* the connector's auto-registration and the Main API's vehicle pages.     *)
(***************************************************************************)
EXTENDS EnrollmentTables

CONSTANTS
    Calls,       \* concurrent API invocations (enroll or unenroll)
    Batches,     \* VIN lists the UI may send, as sets
    HardDeletes, \* hard_delete flags the UI may send, a subset of BOOLEAN
    Slow,        \* request ids that may stay open for more than 8 days
    PageSize,    \* status/latest returns at most this many results
    MaxAborts    \* bound: poll cycles that may be cut short

ASSUME EnvAssumption ==
    /\ Batches \subseteq (SUBSET Vins) \ {{}}
    /\ HardDeletes \subseteq BOOLEAN
    /\ Slow \subseteq Rids
    /\ PageSize \in Nat
    /\ MaxAborts \in Nat

VARIABLES
    vehicles,  \* vehicles table: VIN -> item
    members,   \* fleet-enrollment table: the <<fleet, VIN>> rows it holds
    requests,  \* enrollment-requests table: request id -> item
    oem,       \* OEM1: request id -> kind and fcs code per VIN
    calls,     \* state of each API invocation
    poller,    \* state of the single poller invocation
    aborts     \* poll cycles cut short so far

tables == <<vehicles, members, requests>>
vars   == <<vehicles, members, requests, oem, calls, poller, aborts>>

NoVin == "no-vin"
ASSUME NoVinAssumption == NoVin \notin Vins

Idle ==
    [step |-> "idle", op |-> "none", fleet |-> "none", sku |-> "unset",
     vins |-> {}, hard |-> FALSE, key |-> NoKey, rid |-> NoRid,
     todo |-> {}, vin |-> NoVin, reply |-> "none"]

PollerIdle ==
    [step |-> "idle", batch |-> {}, page |-> {}, cur |-> NoRid,
     todo |-> {}, removing |-> NoVin]

Result == [rid : Rids, vin : Vins, code : Codes]

OemState == [kind : {"none", "ENROLL", "UN_ENROLL"},
             code : [Vins -> Codes \cup {NoCode}]]

CallState ==
    [step  : {"idle", "submit", "record", "vehicle", "member"},
     op    : {"none", "ENROLL", "UN_ENROLL"},
     fleet : Fleets \cup {"none"},
     sku   : Skus \cup {"unset"},
     vins  : SUBSET Vins,
     hard  : BOOLEAN,
     key   : Keys \cup {NoKey},
     rid   : Rids \cup {NoRid},
     todo  : SUBSET Vins,            \* VINs not yet written
     vin   : Vins \cup {NoVin},      \* VIN whose membership is next
     reply : {"none", "replayed", "500"}]

PollerState ==
    [step     : {"idle", "fetch", "apply"},
     batch    : SUBSET Rids,          \* requests of this cycle still open
     page     : SUBSET Result,        \* what status/latest returned for them
     cur      : Rids \cup {NoRid},    \* the request being processed
     todo     : SUBSET Result,        \* its results not yet applied
     removing : Vins \cup {NoVin}]    \* vehicle removed, membership not yet

TypeOK ==
    /\ vehicles \in [Vins -> Vehicle]
    /\ members \subseteq Fleets \X Vins
    /\ requests \in [Rids -> Request]
    /\ oem \in [Rids -> OemState]
    /\ calls \in [Calls -> CallState]
    /\ poller \in PollerState
    /\ aborts \in 0..MaxAborts

Init ==
    /\ vehicles = [v \in Vins |-> NoVehicle]
    /\ members = {}
    /\ requests = [r \in Rids |-> NoRequest]
    /\ oem = [r \in Rids |-> [kind |-> "none", code |-> [v \in Vins |-> NoCode]]]
    /\ calls = [c \in Calls |-> Idle]
    /\ poller = PollerIdle
    /\ aborts = 0

-----------------------------------------------------------------------------
(* The OEM1 service.  A request's codes only move forward, and a terminal  *)
(* code, or the fleet-limit code 1003, is OEM1's last word on the VIN.     *)

Accepted(r) == oem[r].kind # "none"

OemCodes(kind) == IF kind = "ENROLL" THEN EnrollCodes ELSE UnenrollCodes

OemFinal(c) == FcsTerminal(c) \/ c = 1003

OemProgress(r, v) ==
    /\ oem[r].code[v] # NoCode
    /\ ~OemFinal(oem[r].code[v])
    /\ \E c \in OemCodes(oem[r].kind) :
          /\ c > oem[r].code[v]
          /\ oem' = [oem EXCEPT ![r].code[v] = c]
    /\ UNCHANGED <<tables, calls, poller, aborts>>

\* OEM1 takes the request and gives it the next request id.
OemAccepts(r, kind, vins) ==
    /\ ~Accepted(r)
    /\ \A q \in Rids : q < r => Accepted(q)
    /\ oem' = [oem EXCEPT ![r] =
                 [kind |-> kind,
                  code |-> [v \in Vins |-> IF v \in vins THEN 0 ELSE NoCode]]]

-----------------------------------------------------------------------------
(* API invocations *)

Recorded(r) == requests[r].type # "none"

\* Query of the ClientRequestIdIndex, which lags behind the table.
KeyHits(key) == {r \in Rids : Recorded(r) /\ requests[r].indexed
                                          /\ requests[r].key = key}

Begin(c, op, fleet, sku, vins, hard, key) ==
    calls' = [calls EXCEPT ![c] =
                [Idle EXCEPT !.step = "submit", !.op = op, !.fleet = fleet,
                             !.sku = sku, !.vins = vins, !.hard = hard, !.key = key]]

\* A bulk enroll passes auth, dedup, validation and the fleet check.
EnrollArrive(c) ==
    /\ calls[c].step = "idle"
    /\ \E fleet \in Fleets, sku \in Skus, vins \in Batches,
          key \in Keys \cup {NoKey} :
          /\ key = NoKey \/ KeyHits(key) = {}
          /\ Begin(c, "ENROLL", fleet, sku, vins, FALSE, key)
    /\ UNCHANGED <<tables, oem, poller, aborts>>

\* A bulk enroll finds its clientRequestId: it answers from the stored row,
\* parsing status_summary as the JSON that enroll itself wrote there.
EnrollReplay(c) ==
    /\ calls[c].step = "idle"
    /\ \E key \in Keys : \E r \in KeyHits(key) :
          calls' = [calls EXCEPT ![c] =
                      [Idle EXCEPT !.reply = IF requests[r].polled THEN "500"
                                                                   ELSE "replayed"]]
    /\ UNCHANGED <<tables, oem, poller, aborts>>

\* A bulk unenroll that is not a replay: every VIN must have an oem1 row with
\* the SKU.  Its dedup query fails open, so a key that is indexed may be missed.
UnenrollArrive(c) ==
    /\ calls[c].step = "idle"
    /\ \E fleet \in Fleets, sku \in Skus, vins \in Batches,
          hard \in HardDeletes, key \in Keys \cup {NoKey} :
          /\ \A v \in vins : /\ vehicles[v].exists
                             /\ vehicles[v].oem1
                             /\ vehicles[v].sku = sku
          /\ Begin(c, "UN_ENROLL", fleet, sku, vins, hard, key)
    /\ UNCHANGED <<tables, oem, poller, aborts>>

UnenrollReplay(c) ==
    /\ calls[c].step = "idle"
    /\ \E key \in Keys : KeyHits(key) # {}
    /\ calls' = [calls EXCEPT ![c] = [Idle EXCEPT !.reply = "replayed"]]
    /\ UNCHANGED <<tables, oem, poller, aborts>>

\* Mistake: the vehicles are written first and the request is not recorded.
SubmitUnrecorded(c) ==
    /\ calls[c].step = "submit"
    /\ \E r \in Rids :
          /\ OemAccepts(r, calls[c].op, calls[c].vins)
          /\ calls' = [calls EXCEPT ![c].step = "vehicle", ![c].rid = r,
                                    ![c].todo = calls[c].vins]
    /\ UNCHANGED <<tables, poller, aborts>>

\* POST enroll/unenroll answered with a request id.
Submit(c) ==
    /\ calls[c].step = "submit"
    /\ \E r \in Rids : /\ OemAccepts(r, calls[c].op, calls[c].vins)
                       /\ calls' = [calls EXCEPT ![c].step = "record", ![c].rid = r]
    /\ UNCHANGED <<tables, poller, aborts>>

\* OEM1 accepted the POST but the answer timed out: 504, and no row is written.
SubmitLost(c) ==
    /\ calls[c].step = "submit"
    /\ \E r \in Rids : OemAccepts(r, calls[c].op, calls[c].vins)
    /\ calls' = [calls EXCEPT ![c] = Idle]
    /\ UNCHANGED <<tables, poller, aborts>>

\* The enrollment-requests row is put before any vehicle row is touched.  Enroll
\* puts it only if absent, unenroll unconditionally; OEM1's ids are fresh.
Record(c) ==
    /\ calls[c].step = "record"
    /\ LET k == calls[c] IN
       /\ requests' = [requests EXCEPT ![k.rid] =
            IF k.op = "ENROLL" /\ @.type # "none" THEN @
            ELSE NewRequest(k.op, k.fleet, k.vins, k.hard, k.key)]
       /\ calls' = [calls EXCEPT ![c].step = "vehicle", ![c].todo = k.vins]
    /\ UNCHANGED <<vehicles, members, oem, poller, aborts>>

EnrollVehicle(c, v) ==
    /\ calls[c].step = "vehicle" /\ calls[c].op = "ENROLL" /\ v \in calls[c].todo
    /\ vehicles' = [vehicles EXCEPT ![v] = EnrolledVehicle(@, calls[c].sku, calls[c].rid)]
    /\ calls' = [calls EXCEPT ![c].step = "member", ![c].vin = v]
    /\ UNCHANGED <<members, requests, oem, poller, aborts>>

\* The call ends after its last VIN, else turns to the next one.
NextVin(k, v) ==
    IF k.todo = {v} THEN Idle
    ELSE [k EXCEPT !.step = "vehicle", !.todo = @ \ {v}, !.vin = NoVin]

EnrollMember(c) ==
    /\ calls[c].step = "member"
    /\ members' = members \cup {<<calls[c].fleet, calls[c].vin>>}
    /\ calls' = [calls EXCEPT ![c] = NextVin(@, @.vin)]
    /\ UNCHANGED <<vehicles, requests, oem, poller, aborts>>

UnenrollVehicle(c, v) ==
    /\ calls[c].step = "vehicle" /\ calls[c].op = "UN_ENROLL" /\ v \in calls[c].todo
    /\ vehicles' = [vehicles EXCEPT ![v] = UnenrollingVehicle(@, calls[c].rid)]
    /\ calls' = [calls EXCEPT ![c] = NextVin(@, v)]
    /\ UNCHANGED <<members, requests, oem, poller, aborts>>

\* The call ends early: a pre-flight failure or an error answer before the
\* submission, and at any step an exception, a timeout or a crash.
CallEnds(c) ==
    /\ calls[c].step # "idle"
    /\ calls' = [calls EXCEPT ![c] = Idle]
    /\ UNCHANGED <<tables, oem, poller, aborts>>

-----------------------------------------------------------------------------
(* The enrollment poller: one invocation at a time (reserved concurrency 1) *)

PollScan ==
    /\ poller.step = "idle"
    /\ LET batch == {r \in Rids : InFlight(requests[r])} IN
       /\ batch # {}
       /\ poller' = [PollerIdle EXCEPT !.step = "fetch", !.batch = batch]
    /\ UNCHANGED <<tables, oem, calls, aborts>>

\* status/latest by request_ids: one page of what OEM1 knows, never a second.
AllResults(batch) ==
    {x \in Result : x.rid \in batch /\ x.code = oem[x.rid].code[x.vin]}

Pages(all) ==
    IF Cardinality(all) <= PageSize THEN {all}
    ELSE {p \in SUBSET all : Cardinality(p) = PageSize}

PollFetch ==
    /\ poller.step = "fetch"
    /\ \E page \in Pages(AllResults(poller.batch)) :
          poller' = [poller EXCEPT !.step = "apply", !.page = page]
    /\ UNCHANGED <<tables, oem, calls, aborts>>

ResultsOf(r) == {x \in poller.page : x.rid = r}

PollOpen(r) ==
    /\ poller.step = "apply" /\ poller.cur = NoRid /\ r \in poller.batch
    /\ poller' = [poller EXCEPT !.cur = r, !.todo = ResultsOf(r)]
    /\ UNCHANGED <<tables, oem, calls, aborts>>

\* A result is written to its vehicle; code 7 also leaves a membership to delete.
PollApply(x) ==
    /\ poller.cur # NoRid /\ poller.removing = NoVin /\ x \in poller.todo
    /\ vehicles' = [vehicles EXCEPT ![x.vin] =
                      AppliedVehicle(@, x.code, requests[poller.cur].hard)]
    /\ poller' = IF x.code = 7
                 THEN [poller EXCEPT !.removing = x.vin]
                 ELSE [poller EXCEPT !.todo = @ \ {x}]
    /\ UNCHANGED <<members, requests, oem, calls, aborts>>

\* Mistake: a removed vehicle stays in its fleet.
PollKeepMember ==
    /\ poller.removing # NoVin
    /\ poller' = [poller EXCEPT !.removing = NoVin,
                                !.todo = {x \in @ : x.vin # poller.removing}]
    /\ UNCHANGED <<tables, oem, calls, aborts>>

PollDropMember ==
    /\ poller.removing # NoVin
    /\ members' = members \ {<<requests[poller.cur].fleet, poller.removing>>}
    /\ poller' = [poller EXCEPT !.removing = NoVin,
                                !.todo = {x \in @ : x.vin # poller.removing}]
    /\ UNCHANGED <<vehicles, requests, oem, calls, aborts>>

PollClose ==
    /\ poller.cur # NoRid /\ poller.todo = {}
    /\ requests' = [requests EXCEPT ![poller.cur] =
                      PolledRequest(@, ResultsOf(poller.cur))]
    /\ poller' = IF poller.batch = {poller.cur} THEN PollerIdle
                 ELSE [poller EXCEPT !.batch = @ \ {poller.cur}, !.cur = NoRid,
                                    !.page = @ \ ResultsOf(poller.cur)]
    /\ UNCHANGED <<vehicles, members, oem, calls, aborts>>

\* status/latest failed, a write raised, or the Lambda was killed.  What was
\* written stays; the requests are picked up again by the next cycle.
PollAbandon ==
    /\ poller.step # "idle" /\ aborts < MaxAborts
    /\ aborts' = aborts + 1
    /\ poller' = PollerIdle
    /\ UNCHANGED <<tables, oem, calls>>

-----------------------------------------------------------------------------
(* Time and DynamoDB *)

\* 8 days pass since submitted_at; the row leaves the poller's window.
AgeOut(r) ==
    /\ r \in Slow /\ Recorded(r) /\ ~requests[r].aged
    /\ requests' = [requests EXCEPT ![r].aged = TRUE]
    /\ UNCHANGED <<vehicles, members, oem, calls, poller, aborts>>

IndexKey(r) ==
    /\ Recorded(r) /\ requests[r].key # NoKey /\ ~requests[r].indexed
    /\ requests' = [requests EXCEPT ![r].indexed = TRUE]
    /\ UNCHANGED <<vehicles, members, oem, calls, poller, aborts>>

-----------------------------------------------------------------------------

CallStep(c) ==
    \/ EnrollArrive(c) \/ EnrollReplay(c)
    \/ UnenrollArrive(c) \/ UnenrollReplay(c)
    \/ Submit(c) \/ SubmitLost(c) \/ Record(c)
    \/ \E v \in Vins : EnrollVehicle(c, v) \/ UnenrollVehicle(c, v)
    \/ EnrollMember(c) \/ CallEnds(c)

PollStep ==
    \/ PollScan \/ PollFetch
    \/ \E r \in Rids : PollOpen(r)
    \/ \E x \in poller.todo : PollApply(x)
    \/ PollDropMember \/ PollClose

Next ==
    \/ \E c \in Calls : CallStep(c)
    \/ PollStep
    \/ PollAbandon
    \/ \E r \in Rids, v \in Vins : OemProgress(r, v)
    \/ \E r \in Rids : AgeOut(r) \/ IndexKey(r)

Spec == Init /\ [][Next]_vars

\* The poller is invoked every minute and OEM1 decides every vehicle in the
\* end; nothing is assumed of the API callers.
FairSpec ==
    /\ Spec
    /\ WF_vars(PollStep)
    /\ \A r \in Rids, v \in Vins : WF_vars(OemProgress(r, v))

-----------------------------------------------------------------------------
(* Properties *)

\* Of what the bulk calls and the poller write: a row that names an OEM1
\* request, and a fleet membership, always has its enrollment-requests row.
\* Whatever step one of them died at, no vehicle they enrolled waits for a
\* request the poller cannot find.
EnrollmentTracked ==
    /\ \A v \in Vins : vehicles[v].rid # NoRid =>
          /\ Recorded(vehicles[v].rid)
          /\ v \in requests[vehicles[v].rid].vins
    /\ \A m \in members : \E r \in Rids :
          /\ requests[r].type = "ENROLL"
          /\ requests[r].fleet = m[1]
          /\ m[2] \in requests[r].vins

\* terminal_at is final for OEM1 too: a closed request has no vehicle OEM1 is
\* still working on, so closing it loses no later answer.
ClosedOnlyWhenSettled ==
    \A r \in Rids : requests[r].terminal =>
        \A v \in requests[r].vins : FcsTerminal(oem[r].code[v])

\* The poller only ever works on requests that are recorded and still open, so
\* a closed request's old results are never applied to a vehicle again.
PollerHoldsOpenRequests ==
    \A r \in poller.batch : Recorded(r) /\ ~requests[r].terminal

\* The poller deletes a vehicle's row only for an open unenroll request that
\* asked for a hard delete and whose vehicle OEM1 has reported as unenrolled.
DeletionAuthorised ==
    [][\A v \in Vins : vehicles[v].exists /\ ~vehicles'[v].exists =>
          \E r \in Rids : /\ requests[r].type = "UN_ENROLL"
                          /\ requests[r].hard
                          /\ ~requests[r].terminal
                          /\ oem[r].code[v] = 7]_vars

\* OEM1 has reported one of these codes of the vehicle for a recorded request.
Told(v, codes) == \E r \in Rids : Recorded(r) /\ oem[r].code[v] \in codes

\* However calls, polls and aborts interleave, a vehicle's row shows enrollment as
\* done, undone or failed only on OEM1's word.
VerdictsFromOem ==
    \A v \in Vins :
        /\ (vehicles[v].es = "COMPLETED" \/ vehicles[v].pending = "no") => Told(v, {3})
        /\ (vehicles[v].es = "UNENROLLED" \/ vehicles[v].status = "Inactive") => Told(v, {7})
        /\ vehicles[v].es = "FAILED" => Told(v, FailedCodes)

\* How far a request has come, and what OEM1 has said of a vehicle in it, as
\* the request ledger sees them.
Phase(r) ==
    IF requests[r].terminal THEN "closed"
    ELSE IF Recorded(r) THEN "recorded"
    ELSE IF Accepted(r) THEN "accepted" ELSE "unused"

Verdict(r, v) ==
    IF oem[r].code[v] = NoCode THEN "none"
    ELSE IF FcsTerminal(oem[r].code[v]) THEN "final" ELSE "pending"

Phases   == [r \in Rids |-> Phase(r)]
Verdicts == [r \in Rids |-> [v \in Vins |-> Verdict(r, v)]]

Ledger == INSTANCE RequestLedger WITH
    Requests <- Rids, Vehicles <- Vins, phase <- Phases, verdict <- Verdicts

\* Requests are accepted, recorded, decided and closed in that order, each at
\* most once, and closed only when decided.
LedgerImplemented == Ledger!Spec

\* Every recorded request is closed in the end, unless it first grows older
\* than the poller's 8-day window.
RequestsClose ==
    \A r \in Rids : Recorded(r) ~> (requests[r].terminal \/ requests[r].aged)

\* Once OEM1 has unenrolled a vehicle for a recorded request, the vehicle is
\* taken out of that request's fleet, unless the request ages out first.
RemovalReachesFleet ==
    \A r \in Rids, v \in Vins :
        (Recorded(r) /\ oem[r].code[v] = 7)
            ~> (requests[r].aged \/ <<requests[r].fleet, v>> \notin members)

=============================================================================
