-------------------------- MODULE EnrollmentTables --------------------------
(***************************************************************************)
(* The three DynamoDB tables the OEM1 enrollment Lambdas share, and every  *)
(* write expression those Lambdas send to them, as functions from a stored *)
(* item to the item stored afterwards.  An item that does not exist is the *)
(* blank one: DynamoDB's UpdateItem creates a missing item out of only the *)
(* attributes it SETs, which here is an update of the blank item.          *)
(***************************************************************************)
EXTENDS Integers, FiniteSets

CONSTANTS
    Vins,         \* vehicle identification numbers
    Fleets,       \* cloud-telemetry fleets
    Skus,         \* OEM1 product SKUs
    Keys,         \* clientRequestIds the UI may send
    MaxRequests,  \* bound: request ids OEM1 hands out are 1..MaxRequests
    EnrollCodes,  \* fcs codes OEM1 may report for an ENROLL request
    UnenrollCodes \* fcs codes OEM1 may report for an UN_ENROLL request

ASSUME MaxRequestsAssumption == MaxRequests \in Nat
ASSUME CodesAssumption == EnrollCodes \cup UnenrollCodes \subseteq Nat

NoKey == "no-key"
NoRid == 0
NoCode == -1
Rids  == 1..MaxRequests
Codes == EnrollCodes \cup UnenrollCodes \cup {0}
ASSUME NoKeyAssumption == NoKey \notin Keys

-----------------------------------------------------------------------------
(* fcs codes *)

FailedCodes  == {1002, 8010, 8020, 8030, 8040, 9999}
PendingCodes == {0, 1, 2, 5, 1001, 1003, 429}

\* The poller's Consumer Action Policy: fcs code -> oem1_enrollment_status.
FcsStatus(c) ==
    CASE c \in PendingCodes -> "IN_PROGRESS"
      [] c = 6              -> "UN_ENROLL_IN_PROGRESS"
      [] c = 3              -> "COMPLETED"
      [] c = 7              -> "UNENROLLED"
      [] c \in FailedCodes  -> "FAILED"
      [] OTHER              -> "UNKNOWN"

FcsTerminal(c) == c \in {3, 7} \cup FailedCodes

-----------------------------------------------------------------------------
(* vehicles table: key vehicleId (the VIN) *)

EnrollmentStatuses == {"unset", "IN_PROGRESS", "UN_ENROLL_IN_PROGRESS",
                       "COMPLETED", "UNENROLLED", "FAILED", "UNKNOWN"}

Vehicle ==
    [exists  : BOOLEAN,                    \* is there an item at all
     oem1    : BOOLEAN,                    \* oem_source = "oem1"
     status  : {"unset", "Active", "Connected", "Inactive"},
     es      : EnrollmentStatuses,         \* oem1_enrollment_status
     sku     : Skus \cup {"unset", "null"},\* oem1_active_sku
     rid     : Rids \cup {NoRid},          \* oem1_request_id
     pending : {"unset", "yes", "no"},     \* enrollment_pending
     fcs     : Codes \cup {NoCode}]        \* oem1_fcs_code

NoVehicle ==
    [exists |-> FALSE, oem1 |-> FALSE, status |-> "unset", es |-> "unset",
     sku |-> "unset", rid |-> NoRid, pending |-> "unset", fcs |-> NoCode]

IfNotExists(old, new) == IF old = "unset" THEN new ELSE old

\* bulk enroll: conditional PutItem of a new vehicle, else the UPDATE that
\* keeps whatever status the existing row has.
EnrolledVehicle(row, sku, rid) ==
    IF row.exists
    THEN [row EXCEPT !.sku = sku, !.rid = rid, !.pending = "yes",
                     !.es = IfNotExists(@, "IN_PROGRESS"),
                     !.status = IfNotExists(@, "Active")]
    ELSE [exists |-> TRUE, oem1 |-> TRUE, status |-> "Active",
          es |-> "IN_PROGRESS", sku |-> sku, rid |-> rid,
          pending |-> "yes", fcs |-> NoCode]

\* Mistake: bulk unenroll already reports the outcome.
UnenrolledAtOnce(row, rid) ==
    [row EXCEPT !.exists = TRUE, !.es = "UNENROLLED", !.rid = rid]

\* bulk unenroll marks the row; nothing checks that it still exists.
UnenrollingVehicle(row, rid) ==
    [row EXCEPT !.exists = TRUE, !.es = "UN_ENROLL_IN_PROGRESS", !.rid = rid]

\* poller, fcs 3 (oem1_fcs_code is not among the attributes it sets)
CompletedVehicle(row) ==
    [row EXCEPT !.exists = TRUE, !.es = "COMPLETED", !.pending = "no"]

\* Mistake: a status no reader of the table knows.
RemovedVehicle(row) ==
    [row EXCEPT !.exists = TRUE, !.status = "Removed",
                !.es = "UNENROLLED", !.sku = "null"]

\* poller, fcs 7, hard_delete false
SoftRemovedVehicle(row) ==
    [row EXCEPT !.exists = TRUE, !.status = "Inactive",
                !.es = "UNENROLLED", !.sku = "null"]

\* poller, every other code
PolledVehicle(row, c) ==
    [row EXCEPT !.exists = TRUE, !.es = FcsStatus(c), !.fcs = c]

\* Mistake: every unenrolled vehicle is deleted.
AppliedIgnoringHard(row, c, hard) ==
    CASE c = 3  -> CompletedVehicle(row)
      [] c = 7  -> NoVehicle
      [] OTHER  -> PolledVehicle(row, c)

\* What one polled result does to its vehicle's row.
AppliedVehicle(row, c, hard) ==
    CASE c = 3          -> CompletedVehicle(row)
      [] c = 7 /\ hard  -> NoVehicle
      [] c = 7 /\ ~hard -> SoftRemovedVehicle(row)
      [] OTHER          -> PolledVehicle(row, c)

-----------------------------------------------------------------------------
(* enrollment-requests table: key request_id *)

Request ==
    [type     : {"none", "ENROLL", "UN_ENROLL"},  \* "none": no item
     fleet    : Fleets \cup {"none"},
     vins     : SUBSET Vins,
     hard     : BOOLEAN,           \* hard_delete
     key      : Keys \cup {NoKey}, \* client_request_id
     indexed  : BOOLEAN,           \* visible in ClientRequestIdIndex
     polled   : BOOLEAN,           \* status_summary overwritten by the poller
     terminal : BOOLEAN,           \* terminal_at set
     aged     : BOOLEAN]           \* submitted_at older than 8 days

NoRequest ==
    [type |-> "none", fleet |-> "none", vins |-> {}, hard |-> FALSE,
     key |-> NoKey, indexed |-> FALSE, polled |-> FALSE,
     terminal |-> FALSE, aged |-> FALSE]

NewRequest(type, fleet, vins, hard, key) ==
    [NoRequest EXCEPT !.type = type, !.fleet = fleet, !.vins = vins,
                      !.hard = hard, !.key = key]

\* Mistake: the filter forgets terminal_at.
InFlightOrClosed(row) == row.type # "none" /\ ~row.aged

\* the poller's FilterExpression
InFlight(row) == row.type # "none" /\ ~row.terminal /\ ~row.aged

\* Mistakes: one terminal result, or any result, closes the request; a refused
\* vehicle keeps it open.
AnyTerminal(rs) == \E x \in rs : FcsTerminal(x.code)
AnyAnswer(rs) == rs # {}
AllSucceeded(rs) == rs # {} /\ \A x \in rs : x.code \in {3, 7}

\* all_terminal over the results that came back for one request
AllTerminal(rs) == rs # {} /\ \A x \in rs : FcsTerminal(x.code)

PolledRequest(row, rs) ==
    [row EXCEPT !.polled = TRUE, !.terminal = @ \/ AllTerminal(rs)]

=============================================================================
