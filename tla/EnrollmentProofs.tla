-------------------------- MODULE EnrollmentProofs --------------------------
(***************************************************************************)
(* Proofs about Enrollment, for every value of its constants: the          *)
(* inductive invariant, the safety properties it implies, and the step     *)
(* simulation of the request ledger.                                       *)
(***************************************************************************)
EXTENDS Enrollment, TLAPS

-----------------------------------------------------------------------------
(* The inductive invariant, in named parts. *)

\* A request row was put for a request OEM1 accepted, names exactly the
\* vehicles OEM1 took, and only an unenroll asks for a hard delete.
RequestInv ==
    \A r \in Rids :
        /\ Recorded(r) => /\ requests[r].type = oem[r].kind
                          /\ \A v \in Vins : v \in requests[r].vins
                                             <=> oem[r].code[v] # NoCode
        /\ requests[r].hard => requests[r].type = "UN_ENROLL"
        /\ requests[r].terminal => Recorded(r)

Submitted(c) == calls[c].step \in {"record", "vehicle", "member"}

\* A call past its submission owns an accepted request, which no other call
\* carries; it writes vehicles only once the request row is there.
CallOK(c) ==
    /\ calls[c].step # "idle" => calls[c].op # "none" /\ calls[c].fleet \in Fleets
    /\ calls[c].op = "ENROLL" => ~calls[c].hard
    /\ calls[c].rid # NoRid <=> Submitted(c)
    /\ Submitted(c) =>
          /\ oem[calls[c].rid].kind = calls[c].op
          /\ \A v \in Vins : v \in calls[c].vins
                             <=> oem[calls[c].rid].code[v] # NoCode
    /\ calls[c].step = "record" => ~Recorded(calls[c].rid)
    /\ calls[c].step \in {"vehicle", "member"} =>
          /\ Recorded(calls[c].rid)
          /\ requests[calls[c].rid].fleet = calls[c].fleet
          /\ calls[c].todo \subseteq calls[c].vins
    /\ calls[c].step = "member" => /\ calls[c].op = "ENROLL"
                                   /\ calls[c].vin \in calls[c].vins

CallInv == \A c \in Calls : CallOK(c)

OwnRequests ==
    \A c, d \in Calls : c # d /\ calls[c].rid # NoRid => calls[c].rid # calls[d].rid

\* What the poller holds came from OEM1, and its terminal codes still stand.
PollInv ==
    /\ PollerHoldsOpenRequests
    /\ poller.cur # NoRid => poller.step = "apply" /\ poller.cur \in poller.batch
    /\ poller.step # "apply" => poller.page = {} /\ poller.todo = {}
    /\ \A x \in poller.todo : x \in poller.page /\ x.rid = poller.cur
    /\ poller.removing # NoVin => poller.cur # NoRid /\ poller.todo # {}
    /\ \A x \in poller.page : /\ x.rid \in poller.batch
                              /\ oem[x.rid].code[x.vin] # NoCode
                              /\ FcsTerminal(x.code) => oem[x.rid].code[x.vin] = x.code

\* What holds of requests, calls, poller and OEM1, whoever else writes vehicles
\* and memberships; and, with these writers left out, all of it.
CoreInv == TypeOK /\ RequestInv /\ CallInv /\ OwnRequests /\ PollInv
IInv    == CoreInv /\ EnrollmentTracked

\* While the poller applies a page and still holds a request, every vehicle OEM1 took
\* for the request is on that page.
Shown(r) ==
    poller.step = "apply" /\ r \in poller.batch =>
        \A v \in Vins : oem[r].code[v] # NoCode =>
            \E x \in poller.page : x.rid = r /\ x.vin = v

\* What ClosedOnlyWhenSettled says of one request.
Settled(r) ==
    requests[r].terminal => \A v \in requests[r].vins : FcsTerminal(oem[r].code[v])

PageComplete == \A r \in Rids : Shown(r)

SettledInv == CoreInv /\ PageComplete /\ ClosedOnlyWhenSettled

-----------------------------------------------------------------------------
(* The write expressions keep an item of its table's type. *)

LEMMA ConstantTypes ==
    /\ NoVehicle \in Vehicle
    /\ NoRequest \in Request
    /\ Idle \in CallState
    /\ PollerIdle \in PollerState
    /\ NoRid \notin Rids
    /\ \A c \in Codes : c # NoCode
    /\ \A kind : OemCodes(kind) \subseteq Codes
  BY MaxRequestsAssumption, CodesAssumption
  DEF NoVehicle, Vehicle, NoRequest, Request, Idle, CallState, PollerIdle,
      PollerState, EnrollmentStatuses, NoRid, NoCode, Rids, Codes, OemCodes

\* A write of a bulk call reports no outcome of its own.
Unjudged(old, new) ==
    /\ new.es \in {old.es, "IN_PROGRESS", "UN_ENROLL_IN_PROGRESS"}
    /\ new.pending \in {old.pending, "yes"}
    /\ new.status \in {old.status, "Active"}

LEMMA FcsStatusType == \A c : FcsStatus(c) \in EnrollmentStatuses
  BY DEF FcsStatus, EnrollmentStatuses

LEMMA EnrolledType ==
    ASSUME NEW row \in Vehicle, NEW sku \in Skus \cup {"unset"},
           NEW rid \in Rids \cup {NoRid}
    PROVE  /\ EnrolledVehicle(row, sku, rid) \in Vehicle
           /\ EnrolledVehicle(row, sku, rid).exists
           /\ EnrolledVehicle(row, sku, rid).rid = rid
           /\ Unjudged(row, EnrolledVehicle(row, sku, rid))
<1>1. CASE ~row.exists
  BY <1>1 DEF EnrolledVehicle, Vehicle, EnrollmentStatuses, Codes, Unjudged
<1>2. CASE row.exists
  <2> DEFINE es == IfNotExists(row.es, "IN_PROGRESS")
             st == IfNotExists(row.status, "Active")
  <2>1. /\ es \in EnrollmentStatuses
        /\ st \in {"unset", "Active", "Connected", "Inactive"}
        /\ es \in {row.es, "IN_PROGRESS"} /\ st \in {row.status, "Active"}
    BY DEF IfNotExists, Vehicle, EnrollmentStatuses
  <2>2. EnrolledVehicle(row, sku, rid) =
          [row EXCEPT !.sku = sku, !.rid = rid, !.pending = "yes",
                      !.es = es, !.status = st]
    BY <1>2 DEF EnrolledVehicle, Vehicle
  <2> HIDE DEF es, st
  <2> QED
    BY <1>2, <2>1, <2>2 DEF Vehicle, Unjudged
<1> QED
  BY <1>1, <1>2

LEMMA UnenrollingType ==
    ASSUME NEW row \in Vehicle, NEW rid \in Rids \cup {NoRid}
    PROVE  /\ UnenrollingVehicle(row, rid) \in Vehicle
           /\ UnenrollingVehicle(row, rid).exists
           /\ UnenrollingVehicle(row, rid).rid = rid
           /\ Unjudged(row, UnenrollingVehicle(row, rid))
  BY DEF UnenrollingVehicle, Vehicle, EnrollmentStatuses, Unjudged

\* A polled result never changes which request a row names, except that a
\* deleted row names none, and it deletes only on code 7 with hard_delete.
LEMMA AppliedType ==
    ASSUME NEW row \in Vehicle, NEW c \in Codes, NEW hard \in BOOLEAN
    PROVE  /\ AppliedVehicle(row, c, hard) \in Vehicle
           /\ AppliedVehicle(row, c, hard).rid \in {row.rid, NoRid}
           /\ ~AppliedVehicle(row, c, hard).exists => c = 7 /\ hard
<1>1. CASE c = 3
  <2>1. AppliedVehicle(row, c, hard) = CompletedVehicle(row)
    BY <1>1 DEF AppliedVehicle
  <2> QED
    BY <2>1 DEF CompletedVehicle, Vehicle, EnrollmentStatuses
<1>2. CASE c = 7 /\ hard
  <2>1. AppliedVehicle(row, c, hard) = NoVehicle
    BY <1>2 DEF AppliedVehicle
  <2>2. NoVehicle.rid = NoRid
    BY DEF NoVehicle
  <2> QED
    BY <1>2, <2>1, <2>2, ConstantTypes
<1>3. CASE c = 7 /\ ~hard
  <2>1. AppliedVehicle(row, c, hard) = SoftRemovedVehicle(row)
    BY <1>3 DEF AppliedVehicle
  <2> QED
    BY <2>1 DEF SoftRemovedVehicle, Vehicle, EnrollmentStatuses
<1>4. CASE c # 3 /\ c # 7
  <2>1. AppliedVehicle(row, c, hard) = PolledVehicle(row, c)
    BY <1>4 DEF AppliedVehicle
  <2> QED
    <3>1. FcsStatus(c) \in EnrollmentStatuses
      BY FcsStatusType
    <3> HIDE DEF FcsStatus
    <3> QED
      BY <2>1, <3>1 DEF PolledVehicle, Vehicle
<1> QED
  BY <1>1, <1>2, <1>3, <1>4

-----------------------------------------------------------------------------
(* Type correctness *)

LEMMA InitType == Init => TypeOK
<1> SUFFICES ASSUME Init PROVE TypeOK
  OBVIOUS
<1>1. oem \in [Rids -> OemState]
  BY DEF Init, OemState
<1>2. aborts \in 0..MaxAborts
  BY EnvAssumption DEF Init
<1> QED
  BY <1>1, <1>2, ConstantTypes DEF Init, TypeOK

\* The calls' own part: whatever an API step does to calls[c] is typed.
LEMMA NextVinType ==
    ASSUME NEW k \in CallState, NEW v \in Vins
    PROVE  NextVin(k, v) \in CallState
<1>1. [k EXCEPT !.step = "vehicle", !.todo = @ \ {v}, !.vin = NoVin] \in CallState
  BY DEF CallState
<1> QED
  BY <1>1, ConstantTypes DEF NextVin

LEMMA BeginType ==
    ASSUME TypeOK, NEW c \in Calls, NEW op \in {"ENROLL", "UN_ENROLL"},
           NEW fleet \in Fleets, NEW sku \in Skus, NEW vins \in Batches,
           NEW hard \in BOOLEAN, NEW key \in Keys \cup {NoKey},
           Begin(c, op, fleet, sku, vins, hard, key)
    PROVE  calls' \in [Calls -> CallState]
<1> DEFINE k == [Idle EXCEPT !.step = "submit", !.op = op, !.fleet = fleet,
                             !.sku = sku, !.vins = vins, !.hard = hard, !.key = key]
<1>1. k \in CallState
  BY EnvAssumption DEF Idle, CallState, NoRid
<1>2. calls' = [calls EXCEPT ![c] = k]
  BY DEF Begin
<1> HIDE DEF k
<1> QED
  BY <1>1, <1>2 DEF TypeOK

LEMMA BeginCall ==
    ASSUME NEW c \in Calls, NEW op, NEW fleet, NEW sku, NEW vins, NEW hard \in BOOLEAN, NEW key,
           Begin(c, op, fleet, sku, vins, hard, key)
    PROVE  \E k : /\ calls' = [calls EXCEPT ![c] = k]
                  /\ k.step = "submit" /\ k.rid = NoRid /\ k.op = op
                  /\ k.fleet = fleet /\ (k.hard <=> hard)
<1> DEFINE k == [Idle EXCEPT !.step = "submit", !.op = op, !.fleet = fleet,
                             !.sku = sku, !.vins = vins, !.hard = hard, !.key = key]
<1>1. /\ k.step = "submit" /\ k.rid = NoRid /\ k.op = op
      /\ k.fleet = fleet /\ (k.hard <=> hard)
  BY DEF Idle
<1>2. calls' = [calls EXCEPT ![c] = k]
  BY DEF Begin
<1> HIDE DEF k
<1> QED
  BY <1>1, <1>2

\* What an arriving call is: about to submit, and only an unenroll may be hard.
LEMMA ArriveCall ==
    ASSUME NEW c \in Calls, EnrollArrive(c) \/ UnenrollArrive(c)
    PROVE  \E k : /\ calls' = [calls EXCEPT ![c] = k]
                  /\ k.step = "submit" /\ k.rid = NoRid
                  /\ k.op \in {"ENROLL", "UN_ENROLL"}
                  /\ k.fleet \in Fleets
                  /\ k.op = "ENROLL" => ~k.hard
<1>1. CASE EnrollArrive(c)
  <2>1. PICK fleet \in Fleets, sku \in Skus, vins \in Batches, key \in Keys \cup {NoKey} :
           Begin(c, "ENROLL", fleet, sku, vins, FALSE, key)
    BY <1>1 DEF EnrollArrive
  <2> DEFINE k == [Idle EXCEPT !.step = "submit", !.op = "ENROLL", !.fleet = fleet,
                               !.sku = sku, !.vins = vins, !.hard = FALSE, !.key = key]
  <2>2. /\ k.step = "submit" /\ k.rid = NoRid /\ k.op = "ENROLL"
        /\ k.fleet = fleet /\ ~k.hard
    BY DEF Idle
  <2>3. calls' = [calls EXCEPT ![c] = k]
    BY <2>1 DEF Begin
  <2> HIDE DEF k
  <2> QED
    BY <2>2, <2>3
<1>2. CASE UnenrollArrive(c)
  <2>1. PICK fleet \in Fleets, sku \in Skus, vins \in Batches, hard \in HardDeletes,
             key \in Keys \cup {NoKey} :
           Begin(c, "UN_ENROLL", fleet, sku, vins, hard, key)
    BY <1>2 DEF UnenrollArrive
  <2>2. PICK k : /\ calls' = [calls EXCEPT ![c] = k]
                 /\ k.step = "submit" /\ k.rid = NoRid /\ k.op = "UN_ENROLL"
                 /\ k.fleet = fleet
    BY <2>1, EnvAssumption, BeginCall
  <2> QED
    BY <2>1, <2>2
<1> QED
  BY <1>1, <1>2

LEMMA CallStepType ==
    ASSUME TypeOK, CallInv, NEW c \in Calls, CallStep(c)
    PROVE  TypeOK'
<1> USE DEF TypeOK, tables
<1>0. calls[c] \in CallState
  OBVIOUS
<1>1. CASE EnrollArrive(c)
  <2>1. calls' \in [Calls -> CallState]
    BY <1>1, BeginType DEF EnrollArrive
  <2> QED
    BY <1>1, <2>1 DEF EnrollArrive
<1>2. CASE EnrollReplay(c)
  <2>1. \A s \in {"500", "replayed"} : [Idle EXCEPT !.reply = s] \in CallState
    BY ConstantTypes DEF CallState
  <2> QED
    BY <1>2, <2>1 DEF EnrollReplay
<1>3. CASE UnenrollArrive(c)
  <2>1. calls' \in [Calls -> CallState]
    BY <1>3, BeginType, EnvAssumption DEF UnenrollArrive
  <2> QED
    BY <1>3, <2>1 DEF UnenrollArrive
<1>4. CASE UnenrollReplay(c)
  <2>1. [Idle EXCEPT !.reply = "replayed"] \in CallState
    BY ConstantTypes DEF CallState
  <2> QED
    BY <1>4, <2>1 DEF UnenrollReplay
<1>5. ASSUME NEW r \in Rids, OemAccepts(r, calls[c].op, calls[c].vins),
             calls[c].step = "submit"
      PROVE  oem' \in [Rids -> OemState]
  <2>1. 0 \in Codes
    BY DEF Codes
  <2>2. [kind |-> calls[c].op,
         code |-> [v \in Vins |-> IF v \in calls[c].vins THEN 0 ELSE NoCode]] \in OemState
    BY <1>0, <2>1 DEF OemState, CallState
  <2> QED
    BY <1>5, <2>2 DEF OemAccepts
<1>6. CASE Submit(c)
  <2>1. PICK r \in Rids : /\ OemAccepts(r, calls[c].op, calls[c].vins)
                          /\ calls' = [calls EXCEPT ![c].step = "record", ![c].rid = r]
    BY <1>6 DEF Submit
  <2>2. calls' \in [Calls -> CallState]
    BY <1>0, <2>1 DEF CallState
  <2> QED
    BY <1>5, <1>6, <2>1, <2>2 DEF Submit
<1>7. CASE SubmitLost(c)
  BY <1>5, <1>7, ConstantTypes DEF SubmitLost
<1>8. CASE Record(c)
  <2>1. NewRequest(calls[c].op, calls[c].fleet, calls[c].vins, calls[c].hard,
                   calls[c].key) \in Request
    BY <1>0, ConstantTypes DEF NewRequest, Request, CallState
  <2>2. requests' \in [Rids -> Request]
    BY <1>8, <2>1 DEF Record
  <2>3. calls' \in [Calls -> CallState]
    BY <1>0, <1>8 DEF Record, CallState
  <2> QED
    BY <1>8, <2>2, <2>3 DEF Record
<1>9. ASSUME NEW v \in Vins, EnrollVehicle(c, v)
      PROVE  TypeOK'
  <2>1. EnrolledVehicle(vehicles[v], calls[c].sku, calls[c].rid) \in Vehicle
    BY <1>0, EnrolledType DEF CallState
  <2>2. calls' \in [Calls -> CallState]
    BY <1>0, <1>9 DEF EnrollVehicle, CallState
  <2> QED
    BY <1>9, <2>1, <2>2 DEF EnrollVehicle
<1>10. ASSUME NEW v \in Vins, UnenrollVehicle(c, v)
       PROVE  TypeOK'
  <2>1. UnenrollingVehicle(vehicles[v], calls[c].rid) \in Vehicle
    BY <1>0, UnenrollingType DEF CallState
  <2>2. calls' \in [Calls -> CallState]
    BY <1>0, <1>10, NextVinType DEF UnenrollVehicle
  <2> QED
    BY <1>10, <2>1, <2>2 DEF UnenrollVehicle
<1>11. CASE EnrollMember(c)
  <2>1. calls[c].fleet \in Fleets /\ calls[c].vin \in Vins
    BY <1>0, <1>11 DEF EnrollMember, CallInv, CallOK, CallState
  <2>2. calls' \in [Calls -> CallState]
    BY <1>0, <1>11, <2>1, NextVinType DEF EnrollMember
  <2> QED
    BY <1>11, <2>1, <2>2 DEF EnrollMember
<1>12. CASE CallEnds(c)
  BY <1>12, ConstantTypes DEF CallEnds
<1> QED
  BY <1>1, <1>2, <1>3, <1>4, <1>6, <1>7, <1>8, <1>9, <1>10, <1>11, <1>12 DEF CallStep

LEMMA PollStepType ==
    ASSUME TypeOK, PollInv, PollStep
    PROVE  TypeOK'
<1> USE DEF TypeOK, tables
<1>0. poller \in PollerState
  OBVIOUS
<1>1. CASE PollScan
  <2>1. PICK batch \in SUBSET Rids :
           poller' = [PollerIdle EXCEPT !.step = "fetch", !.batch = batch]
    BY <1>1 DEF PollScan
  <2>2. poller' \in PollerState
    BY <2>1 DEF PollerIdle, PollerState
  <2> QED
    BY <1>1, <2>2 DEF PollScan
<1>2. CASE PollFetch
  <2>1. PICK page \in Pages(AllResults(poller.batch)) :
           poller' = [poller EXCEPT !.step = "apply", !.page = page]
    BY <1>2 DEF PollFetch
  <2>2. page \subseteq Result
    BY <2>1 DEF Pages, AllResults
  <2>3. poller' \in PollerState
    BY <1>0, <2>1, <2>2 DEF PollerState
  <2> QED
    BY <1>2, <2>3 DEF PollFetch
<1>3. ASSUME NEW r \in Rids, PollOpen(r)
      PROVE  TypeOK'
  <2>1. poller' \in PollerState
    BY <1>0, <1>3 DEF PollOpen, PollerState, ResultsOf
  <2> QED
    BY <1>3, <2>1 DEF PollOpen
<1>4. ASSUME NEW x \in poller.todo, PollApply(x)
      PROVE  TypeOK'
  <2>1. x \in Result /\ poller.cur \in Rids
    BY <1>0, <1>4 DEF PollApply, PollerState
  <2>2. AppliedVehicle(vehicles[x.vin], x.code, requests[poller.cur].hard) \in Vehicle
    BY <2>1, AppliedType DEF Result, Request
  <2>3. poller' \in PollerState
    BY <1>0, <1>4, <2>1 DEF PollApply, PollerState, Result
  <2> QED
    BY <1>4, <2>2, <2>3 DEF PollApply
<1>5. CASE PollDropMember
  <2>1. poller' \in PollerState
    BY <1>0, <1>5 DEF PollDropMember, PollerState
  <2> QED
    BY <1>5, <2>1 DEF PollDropMember
<1>6. CASE PollClose
  <2>1. poller' \in PollerState
    BY <1>0, <1>6, ConstantTypes DEF PollClose, PollerState
  <2>2. \A row \in Request : \A rs : PolledRequest(row, rs) \in Request
    BY DEF PolledRequest, Request
  <2> QED
    BY <1>0, <1>6, <2>1, <2>2 DEF PollClose, PollerState
<1> QED
  BY <1>1, <1>2, <1>3, <1>4, <1>5, <1>6 DEF PollStep

LEMMA TypeStep ==
    ASSUME TypeOK, CallInv, PollInv, [Next]_vars
    PROVE  TypeOK'
<1>1. ASSUME NEW c \in Calls, CallStep(c) PROVE TypeOK'
  BY <1>1, CallStepType
<1>2. CASE PollStep
  BY <1>2, PollStepType
<1>3. CASE PollAbandon
  BY <1>3, EnvAssumption, ConstantTypes DEF PollAbandon, TypeOK, tables
<1>4. ASSUME NEW r \in Rids, NEW v \in Vins, OemProgress(r, v) PROVE TypeOK'
  <2>1. PICK c \in OemCodes(oem[r].kind) : oem' = [oem EXCEPT ![r].code[v] = c]
    BY <1>4 DEF OemProgress
  <2>2. c \in Codes
    BY <2>1, ConstantTypes
  <2>3. oem' \in [Rids -> OemState]
    BY <2>1, <2>2 DEF TypeOK, OemState
  <2> QED
    BY <1>4, <2>3 DEF OemProgress, TypeOK, tables
<1>5. ASSUME NEW r \in Rids, AgeOut(r) \/ IndexKey(r) PROVE TypeOK'
  <2>1. /\ [requests[r] EXCEPT !.aged = TRUE] \in Request
        /\ [requests[r] EXCEPT !.indexed = TRUE] \in Request
    BY DEF TypeOK, Request
  <2>2. requests' \in [Rids -> Request]
    <3>1. CASE AgeOut(r)
      BY <2>1, <3>1 DEF AgeOut, TypeOK
    <3>2. CASE IndexKey(r)
      BY <2>1, <3>2 DEF IndexKey, TypeOK
    <3> QED
      BY <1>5, <3>1, <3>2
  <2> QED
    BY <1>5, <2>2 DEF AgeOut, IndexKey, TypeOK
<1>6. CASE UNCHANGED vars
  BY <1>6 DEF vars, TypeOK
<1> QED
  BY <1>1, <1>2, <1>3, <1>4, <1>5, <1>6 DEF Next

-----------------------------------------------------------------------------
(* What every step leaves alone: a request row keeps what it was put with, *)
(* and OEM1 keeps the vehicles it took and the verdicts it gave.           *)

RequestsKept ==
    \A r \in Rids : Recorded(r) =>
        /\ requests'[r].type = requests[r].type
        /\ requests'[r].fleet = requests[r].fleet
        /\ requests'[r].vins = requests[r].vins
        /\ requests'[r].hard = requests[r].hard
        /\ requests'[r].key = requests[r].key
        /\ requests[r].terminal => requests'[r].terminal

OemKept ==
    \A r \in Rids : Accepted(r) =>
        /\ oem'[r].kind = oem[r].kind
        /\ \A v \in Vins :
              /\ oem'[r].code[v] = NoCode <=> oem[r].code[v] = NoCode
              /\ FcsTerminal(oem[r].code[v]) => oem'[r].code[v] = oem[r].code[v]

\* An accepted submission only writes a request OEM1 did not have.
LEMMA AcceptKeeps ==
    ASSUME TypeOK, NEW r \in Rids, NEW kind, NEW vins \in SUBSET Vins,
           OemAccepts(r, kind, vins)
    PROVE  /\ OemKept
           /\ oem'[r].kind = kind
           /\ \A v \in Vins : v \in vins <=> oem'[r].code[v] # NoCode
  BY DEF OemAccepts, OemKept, TypeOK, OemState, Accepted, NoCode

LEMMA ProgressKeeps ==
    ASSUME TypeOK, NEW r \in Rids, NEW v \in Vins, OemProgress(r, v)
    PROVE  /\ OemKept
           /\ \A q \in Rids : /\ oem'[q].kind = oem[q].kind
                              /\ \A u \in Vins :
                                    oem'[q].code[u] = NoCode <=> oem[q].code[u] = NoCode
<1>1. PICK c \in OemCodes(oem[r].kind) : oem' = [oem EXCEPT ![r].code[v] = c]
  BY DEF OemProgress
<1>2. c # NoCode
  BY <1>1, ConstantTypes
<1>3. oem[r].code[v] # NoCode /\ ~FcsTerminal(oem[r].code[v])
  BY DEF OemProgress, OemFinal
<1>4. \A q \in Rids : \A u \in Vins :
         oem'[q].code[u] = IF q = r /\ u = v THEN c ELSE oem[q].code[u]
  BY <1>1 DEF TypeOK, OemState
<1>5. \A q \in Rids : oem'[q].kind = oem[q].kind
  BY <1>1 DEF TypeOK, OemState
<1> QED
  BY <1>2, <1>3, <1>4, <1>5 DEF OemKept

LEMMA Kept ==
    ASSUME CoreInv, [Next]_vars
    PROVE  RequestsKept /\ OemKept
<1> USE DEF CoreInv, tables
<1>1. UNCHANGED requests => RequestsKept
  BY DEF RequestsKept
<1>2. UNCHANGED oem => OemKept
  BY DEF OemKept
<1>3. ASSUME NEW c \in Calls, Submit(c) \/ SubmitLost(c) PROVE RequestsKept /\ OemKept
  <2>1. calls[c].vins \in SUBSET Vins
    BY DEF TypeOK, CallState
  <2> QED
    BY <1>1, <1>3, <2>1, AcceptKeeps DEF Submit, SubmitLost
<1>4. ASSUME NEW c \in Calls, Record(c) PROVE RequestsKept /\ OemKept
  <2>1. ~Recorded(calls[c].rid)
    BY <1>4 DEF Record, CallInv, CallOK
  <2>2. \A r \in Rids : Recorded(r) => requests'[r] = requests[r]
    BY <1>4, <2>1 DEF Record, TypeOK
  <2> QED
    BY <1>2, <1>4, <2>2 DEF Record, RequestsKept
<1>5. ASSUME NEW c \in Calls, CallStep(c) PROVE RequestsKept /\ OemKept
  BY <1>1, <1>2, <1>3, <1>4, <1>5
  DEF CallStep, EnrollArrive, EnrollReplay, UnenrollArrive, UnenrollReplay,
      EnrollVehicle, UnenrollVehicle, EnrollMember, CallEnds
<1>6. CASE PollClose
  <2>1. requests' = [requests EXCEPT ![poller.cur] =
                       PolledRequest(requests[poller.cur], ResultsOf(poller.cur))]
    BY <1>6 DEF PollClose
  <2> DEFINE Closing(r) == requests[r].terminal \/ AllTerminal(ResultsOf(r))
  <2>2. requests' = [requests EXCEPT ![poller.cur].polled = TRUE,
                                     ![poller.cur].terminal = Closing(poller.cur)]
    BY <2>1 DEF PolledRequest, TypeOK
  <2>3. requests[poller.cur].terminal => Closing(poller.cur)
    BY Zenon
  <2> HIDE DEF Closing
  <2>4. \A r \in Rids : /\ requests'[r].type = requests[r].type
                        /\ requests'[r].fleet = requests[r].fleet
                        /\ requests'[r].vins = requests[r].vins
                        /\ requests'[r].hard = requests[r].hard
                        /\ requests'[r].key = requests[r].key
                        /\ requests[r].terminal => requests'[r].terminal
    BY <2>2, <2>3 DEF TypeOK, Request
  <2> QED
    BY <1>2, <1>6, <2>4 DEF PollClose, RequestsKept
<1>7. CASE PollStep
  BY <1>1, <1>2, <1>6, <1>7
  DEF PollStep, PollScan, PollFetch, PollOpen, PollApply, PollDropMember
<1>8. ASSUME NEW r \in Rids, NEW v \in Vins, OemProgress(r, v)
      PROVE  RequestsKept /\ OemKept
  BY <1>1, <1>8, ProgressKeeps DEF OemProgress
<1>9. ASSUME NEW r \in Rids, AgeOut(r) \/ IndexKey(r) PROVE RequestsKept /\ OemKept
  BY <1>2, <1>9 DEF AgeOut, IndexKey, RequestsKept, TypeOK, Request
<1>10. CASE PollAbandon
  BY <1>1, <1>2, <1>10 DEF PollAbandon
<1>11. CASE UNCHANGED vars
  BY <1>1, <1>2, <1>11 DEF vars
<1> QED
  BY <1>5, <1>7, <1>8, <1>9, <1>10, <1>11 DEF Next

-----------------------------------------------------------------------------
(* Which steps put request rows, and which reach OEM1. *)

RowsSame ==
    \A r \in Rids : /\ requests'[r].type = requests[r].type
                    /\ requests'[r].fleet = requests[r].fleet
                    /\ requests'[r].vins = requests[r].vins
                    /\ requests'[r].hard = requests[r].hard

OemSame ==
    \A r \in Rids : /\ oem'[r].kind = oem[r].kind
                    /\ \A v \in Vins :
                          oem'[r].code[v] = NoCode <=> oem[r].code[v] = NoCode

LEMMA Effects ==
    ASSUME CoreInv, [Next]_vars
    PROVE  /\ RowsSame \/ \E c \in Calls : Record(c)
           /\ OemSame \/ \E c \in Calls : Submit(c) \/ SubmitLost(c)
           /\ \A r \in Rids : requests'[r].terminal /\ ~requests[r].terminal
                              => PollClose /\ r = poller.cur
<1> USE DEF CoreInv, tables
<1> DEFINE Closed == \A r \in Rids : requests'[r].terminal /\ ~requests[r].terminal
                                     => PollClose /\ r = poller.cur
<1>1. UNCHANGED requests => RowsSame /\ Closed
  BY DEF RowsSame
<1>2. UNCHANGED oem => OemSame
  BY DEF OemSame
<1>3. ASSUME NEW c \in Calls, CallStep(c), ~Record(c), ~Submit(c), ~SubmitLost(c)
      PROVE  RowsSame /\ OemSame /\ Closed
  BY <1>1, <1>2, <1>3
  DEF CallStep, EnrollArrive, EnrollReplay, UnenrollArrive, UnenrollReplay,
      EnrollVehicle, UnenrollVehicle, EnrollMember, CallEnds
<1>4. ASSUME NEW c \in Calls, Record(c)
      PROVE  OemSame /\ Closed
  <2>1. \A r \in Rids : requests'[r].terminal => requests[r].terminal
    BY <1>4 DEF Record, TypeOK, NewRequest, NoRequest
  <2> QED
    BY <1>2, <1>4, <2>1 DEF Record
<1>5. ASSUME NEW c \in Calls, Submit(c) \/ SubmitLost(c)
      PROVE  RowsSame /\ Closed
  BY <1>1, <1>5 DEF Submit, SubmitLost
<1>6. CASE PollClose
  <2>1. RowsSame
    BY <1>6 DEF PollClose, RowsSame, PolledRequest, TypeOK, Request
  <2>2. Closed
    BY <1>6 DEF PollClose, TypeOK
  <2> QED
    BY <1>2, <1>6, <2>1, <2>2 DEF PollClose
<1>7. CASE PollStep
  BY <1>1, <1>2, <1>6, <1>7
  DEF PollStep, PollScan, PollFetch, PollOpen, PollApply, PollDropMember
<1>8. ASSUME NEW r \in Rids, NEW v \in Vins, OemProgress(r, v)
      PROVE  RowsSame /\ OemSame /\ Closed
  BY <1>1, <1>8, ProgressKeeps DEF OemProgress, OemSame
<1>9. ASSUME NEW r \in Rids, AgeOut(r) \/ IndexKey(r)
      PROVE  RowsSame /\ OemSame /\ Closed
  <2>1. CASE AgeOut(r)
    BY <1>2, <2>1 DEF AgeOut, RowsSame, TypeOK, Request
  <2>2. CASE IndexKey(r)
    BY <1>2, <2>2 DEF IndexKey, RowsSame, TypeOK, Request
  <2> QED
    BY <1>9, <2>1, <2>2
<1>10. CASE PollAbandon
  BY <1>1, <1>2, <1>10 DEF PollAbandon
<1>11. CASE UNCHANGED vars
  BY <1>1, <1>2, <1>11 DEF vars
<1> QED
  BY <1>3, <1>4, <1>5, <1>7, <1>8, <1>9, <1>10, <1>11 DEF Next

\* What closes a request: a poll cycle whose results for it are all terminal.
LEMMA ClosedBy ==
    ASSUME CoreInv, [Next]_vars, NEW r \in Rids,
           requests'[r].terminal, ~requests[r].terminal
    PROVE  PollClose /\ r = poller.cur /\ AllTerminal(ResultsOf(r))
<1>1. PollClose /\ r = poller.cur
  BY Effects
<1>2. requests'[r] = PolledRequest(requests[r], ResultsOf(r))
  BY <1>1 DEF PollClose, CoreInv, TypeOK
<1>3. requests'[r].terminal <=> AllTerminal(ResultsOf(r))
  <2> DEFINE closed == requests[r].terminal \/ AllTerminal(ResultsOf(r))
  <2>1. requests'[r] = [requests[r] EXCEPT !.polled = TRUE, !.terminal = closed]
    BY <1>2 DEF PolledRequest
  <2>2. closed <=> AllTerminal(ResultsOf(r))
    BY Zenon
  <2> HIDE DEF closed
  <2>3. requests'[r].terminal = closed
    BY <2>1 DEF CoreInv, TypeOK, Request
  <2> QED
    BY <2>2, <2>3
<1> QED
  BY <1>1, <1>3

-----------------------------------------------------------------------------
(* Each part of the invariant survives every step. *)

LEMMA RequestStep ==
    ASSUME CoreInv, [Next]_vars
    PROVE  RequestInv'
<1> SUFFICES ASSUME NEW r \in Rids
             PROVE  /\ Recorded(r)' =>
                          /\ requests'[r].type = oem'[r].kind
                          /\ \A v \in Vins : v \in requests'[r].vins
                                             <=> oem'[r].code[v] # NoCode
                    /\ requests'[r].hard => requests'[r].type = "UN_ENROLL"
                    /\ requests'[r].terminal => Recorded(r)'
  BY DEF RequestInv
<1>0. RequestsKept /\ OemKept
  BY Kept
<1>1. CASE Recorded(r)
  <2>1. Accepted(r)
    BY <1>1 DEF CoreInv, RequestInv, Recorded, Accepted
  <2>2. /\ requests'[r].type = requests[r].type
        /\ requests'[r].vins = requests[r].vins
        /\ requests'[r].hard = requests[r].hard
    BY <1>0, <1>1 DEF RequestsKept
  <2>3. /\ oem'[r].kind = oem[r].kind
        /\ \A v \in Vins : oem'[r].code[v] = NoCode <=> oem[r].code[v] = NoCode
    BY <1>0, <2>1 DEF OemKept
  <2>4. /\ requests[r].type = oem[r].kind
        /\ \A v \in Vins : v \in requests[r].vins <=> oem[r].code[v] # NoCode
        /\ requests[r].hard => requests[r].type = "UN_ENROLL"
    BY <1>1 DEF CoreInv, RequestInv
  <2> QED
    BY <1>1, <2>2, <2>3, <2>4 DEF Recorded
<1>2. CASE ~Recorded(r) /\ RowsSame
  <2>1. ~Recorded(r)' /\ ~requests[r].hard
    BY <1>2 DEF RowsSame, Recorded, CoreInv, RequestInv
  <2>2. requests'[r].terminal => requests[r].terminal \/ r = poller.cur
    BY Effects
  <2>3. r # poller.cur
    BY <1>2, ConstantTypes DEF CoreInv, PollInv, PollerHoldsOpenRequests
  <2> QED
    BY <1>2, <2>1, <2>2, <2>3 DEF RowsSame, CoreInv, RequestInv
<1>3. ASSUME NEW c \in Calls, Record(c), ~Recorded(r)
      PROVE  /\ Recorded(r)' =>
                    /\ requests'[r].type = oem'[r].kind
                    /\ \A v \in Vins : v \in requests'[r].vins
                                       <=> oem'[r].code[v] # NoCode
             /\ requests'[r].hard => requests'[r].type = "UN_ENROLL"
             /\ requests'[r].terminal => Recorded(r)'
  <2>1. CASE r # calls[c].rid
    <3>1. requests'[r] = requests[r] /\ oem' = oem
      BY <1>3, <2>1 DEF Record, CoreInv, TypeOK
    <3> QED
      BY <3>1 DEF CoreInv, RequestInv, Recorded
  <2>2. CASE r = calls[c].rid
    <3>1. requests'[r] = NewRequest(calls[c].op, calls[c].fleet, calls[c].vins,
                                    calls[c].hard, calls[c].key)
      BY <1>3, <2>2 DEF Record, CoreInv, TypeOK, Recorded
    <3>2. /\ requests'[r].type = calls[c].op
          /\ requests'[r].vins = calls[c].vins
          /\ requests'[r].hard = calls[c].hard
          /\ ~requests'[r].terminal
      BY <3>1 DEF NewRequest, NoRequest
    <3>3. CallOK(c) /\ Submitted(c) /\ oem' = oem
      BY <1>3 DEF Record, CoreInv, CallInv, Submitted
    <3>4. calls[c].op \in {"ENROLL", "UN_ENROLL"}
      BY <1>3, <3>3 DEF Record, CallOK, CoreInv, TypeOK, CallState
    <3> QED
      BY <2>2, <3>2, <3>3, <3>4 DEF CallOK, Recorded
  <2> QED
    BY <2>1, <2>2
<1> QED
  BY <1>1, <1>2, <1>3, Effects

LEMMA OwnStep ==
    ASSUME CoreInv, [Next]_vars
    PROVE  OwnRequests'
<1> USE DEF CoreInv, OwnRequests
<1>1. CASE UNCHANGED calls
  BY <1>1
<1>2. ASSUME NEW c \in Calls, Submit(c) PROVE OwnRequests'
  <2>1. PICK r \in Rids : /\ ~Accepted(r)
                          /\ calls' = [calls EXCEPT ![c].step = "record", ![c].rid = r]
    BY <1>2 DEF Submit, OemAccepts
  <2>2. \A d \in Calls : calls[d].rid # r
    BY <2>1, ConstantTypes DEF CallInv, CallOK, Submitted, Accepted
  <2>3. \A d \in Calls : calls'[d].rid = IF d = c THEN r ELSE calls[d].rid
    BY <2>1 DEF TypeOK, CallState
  <2> QED
    BY <2>2, <2>3
<1>3. ASSUME NEW c \in Calls, CallStep(c), ~Submit(c) PROVE OwnRequests'
  <2>1. \A d \in Calls : calls'[d].rid \in {calls[d].rid, NoRid}
    <3>1. \A k \in CallState : \A v : NextVin(k, v).rid \in {k.rid, NoRid}
      BY DEF NextVin, Idle, CallState
    <3>2. CASE EnrollArrive(c) \/ UnenrollArrive(c)
      <4>1. PICK k : calls' = [calls EXCEPT ![c] = k] /\ k.rid = NoRid
        BY <3>2, ArriveCall
      <4> QED
        BY <4>1 DEF TypeOK
    <3>3. CASE EnrollReplay(c) \/ UnenrollReplay(c)
      BY <3>3 DEF EnrollReplay, UnenrollReplay, Idle, TypeOK
    <3>4. CASE SubmitLost(c) \/ CallEnds(c)
      BY <3>4 DEF SubmitLost, CallEnds, Idle, TypeOK
    <3>5. CASE Record(c)
      BY <3>5 DEF Record, TypeOK, CallState
    <3>6. CASE \E v \in Vins : EnrollVehicle(c, v)
      BY <3>6 DEF EnrollVehicle, TypeOK, CallState
    <3>7. CASE EnrollMember(c) \/ \E v \in Vins : UnenrollVehicle(c, v)
      BY <3>1, <3>7 DEF EnrollMember, UnenrollVehicle, TypeOK
    <3> QED
      BY <1>3, <3>2, <3>3, <3>4, <3>5, <3>6, <3>7 DEF CallStep
  <2> QED
    BY <2>1, ConstantTypes DEF TypeOK, CallState
<1>4. (\E c \in Calls : CallStep(c)) \/ UNCHANGED calls
  BY DEF Next, vars, PollStep, PollScan, PollFetch, PollOpen, PollApply, PollDropMember,
         PollClose, PollAbandon, OemProgress, AgeOut, IndexKey
<1> QED
  BY <1>1, <1>2, <1>3, <1>4

\* A call that takes no step of its own is not disturbed by the others.
LEMMA OtherCall ==
    ASSUME CoreInv, [Next]_vars, NEW d \in Calls, calls'[d] = calls[d]
    PROVE  CallOK(d)'
<1> DEFINE rid == calls[d].rid
<1>0. RequestsKept /\ OemKept
  BY Kept
<1>1. CallOK(d) /\ calls[d] \in CallState
  BY DEF CoreInv, CallInv, TypeOK
<1>2. ~Record(d)
  BY <1>1 DEF Record, CoreInv, TypeOK, CallState
<1>3. Submitted(d) => rid \in Rids /\ Accepted(rid)
  BY <1>1 DEF CallOK, CallState, Accepted, Submitted
<1>4. Submitted(d) =>
          /\ oem'[rid].kind = calls[d].op
          /\ \A v \in Vins : v \in calls[d].vins <=> oem'[rid].code[v] # NoCode
  BY <1>0, <1>1, <1>3 DEF CallOK, OemKept
<1>5. calls[d].step = "record" => ~Recorded(rid)'
  <2> SUFFICES ASSUME calls[d].step = "record" PROVE ~Recorded(rid)'
    OBVIOUS
  <2>1. ~Recorded(rid) /\ rid \in Rids
    BY <1>1, <1>3 DEF CallOK, Submitted
  <2>2. CASE RowsSame
    BY <2>1, <2>2 DEF RowsSame, Recorded
  <2>3. ASSUME NEW c \in Calls, Record(c) PROVE ~Recorded(rid)'
    <3>1. c # d /\ calls[c].rid # rid
      BY <1>2, <2>3, <2>1, ConstantTypes DEF CoreInv, OwnRequests
    <3>2. requests'[rid] = requests[rid]
      BY <2>1, <2>3, <3>1 DEF Record, CoreInv, TypeOK
    <3> QED
      BY <2>1, <3>2 DEF Recorded
  <2> QED
    BY <2>2, <2>3, Effects
<1>6. calls[d].step \in {"vehicle", "member"} =>
          /\ Recorded(rid)'
          /\ requests'[rid].fleet = calls[d].fleet
  BY <1>0, <1>1, <1>3 DEF CallOK, RequestsKept, Recorded, Submitted
<1> HIDE DEF rid
<1> QED
  BY <1>1, <1>4, <1>5, <1>6 DEF CallOK, Submitted, rid

\* A call that ends, or ends and answers from a stored row.
LEMMA IdleCall ==
    ASSUME NEW c \in Calls, calls'[c].step = "idle", calls'[c].op = "none",
           calls'[c].rid = NoRid
    PROVE  CallOK(c)'
  BY DEF CallOK, Submitted

\* A call that has written a vehicle completely.
LEMMA NextVinCall ==
    ASSUME CoreInv, NEW c \in Calls, NEW v,
           calls[c].step \in {"vehicle", "member"},
           calls'[c] = NextVin(calls[c], v), oem' = oem, requests' = requests
    PROVE  CallOK(c)'
<1>1. CallOK(c) /\ calls[c] \in CallState
  BY DEF CoreInv, CallInv, TypeOK
<1>2. CASE calls[c].todo = {v}
  <2>1. calls'[c] = Idle
    BY <1>2 DEF NextVin
  <2> QED
    BY <2>1, IdleCall DEF Idle
<1>3. CASE calls[c].todo # {v}
  <2>1. calls'[c] = [calls[c] EXCEPT !.step = "vehicle",
                                     !.todo = calls[c].todo \ {v}, !.vin = NoVin]
    BY <1>3 DEF NextVin
  <2>2. /\ calls'[c].step = "vehicle" /\ calls'[c].op = calls[c].op
        /\ calls'[c].fleet = calls[c].fleet /\ calls'[c].hard = calls[c].hard
        /\ calls'[c].vins = calls[c].vins /\ calls'[c].rid = calls[c].rid
        /\ calls'[c].todo \subseteq calls[c].todo
    BY <1>1, <2>1 DEF CallState
  <2>3. Submitted(c) /\ Submitted(c)'
    BY <2>2 DEF Submitted
  <2> QED
    BY <1>1, <2>2, <2>3 DEF CallOK, Recorded
<1> QED
  BY <1>2, <1>3

LEMMA OwnCall ==
    ASSUME CoreInv, [Next]_vars, NEW c \in Calls, CallStep(c)
    PROVE  CallOK(c)'
<1> USE DEF CoreInv, tables
<1>0. CallOK(c) /\ calls[c] \in CallState
  BY DEF CallInv, TypeOK
<1>1. CASE EnrollArrive(c) \/ UnenrollArrive(c)
  <2>1. PICK k : /\ calls' = [calls EXCEPT ![c] = k]
                 /\ k.step = "submit" /\ k.rid = NoRid
                 /\ k.op \in {"ENROLL", "UN_ENROLL"}
                 /\ k.fleet \in Fleets
                 /\ k.op = "ENROLL" => ~k.hard
    BY <1>1, ArriveCall
  <2>2. calls'[c] = k
    BY <2>1 DEF TypeOK
  <2> QED
    BY <2>1, <2>2 DEF CallOK, Submitted
<1>2. CASE EnrollReplay(c) \/ UnenrollReplay(c) \/ SubmitLost(c) \/ CallEnds(c)
  <2>1. calls'[c].step = "idle" /\ calls'[c].op = "none" /\ calls'[c].rid = NoRid
    BY <1>2 DEF EnrollReplay, UnenrollReplay, SubmitLost, CallEnds, Idle, TypeOK
  <2> QED
    BY <2>1, IdleCall
<1>3. CASE Submit(c)
  <2>1. PICK r \in Rids : /\ OemAccepts(r, calls[c].op, calls[c].vins)
                          /\ calls' = [calls EXCEPT ![c].step = "record", ![c].rid = r]
    BY <1>3 DEF Submit
  <2>2. calls'[c] = [calls[c] EXCEPT !.step = "record", !.rid = r]
    BY <2>1 DEF TypeOK
  <2>3. /\ calls'[c].step = "record" /\ calls'[c].rid = r
        /\ calls'[c].op = calls[c].op /\ calls'[c].vins = calls[c].vins
        /\ calls'[c].fleet = calls[c].fleet /\ calls'[c].hard = calls[c].hard
    BY <1>0, <2>2 DEF CallState
  <2>4. /\ oem'[r].kind = calls[c].op
        /\ \A v \in Vins : v \in calls[c].vins <=> oem'[r].code[v] # NoCode
    BY <1>0, <2>1, AcceptKeeps DEF CallState
  <2>5. ~Recorded(r) /\ requests' = requests
    BY <1>3, <2>1 DEF Submit, OemAccepts, Accepted, RequestInv, Recorded
  <2>6. r # NoRid /\ calls[c].step = "submit"
    BY <1>3, ConstantTypes DEF Submit
  <2> QED
    BY <1>0, <2>3, <2>4, <2>5, <2>6 DEF CallOK, Submitted, Recorded
<1>4. CASE Record(c)
  <2>1. Submitted(c) /\ calls[c].rid \in Rids /\ ~Recorded(calls[c].rid)
    BY <1>0, <1>4, ConstantTypes DEF Record, CallOK, CallState, Submitted
  <2>2. calls'[c] = [calls[c] EXCEPT !.step = "vehicle", !.todo = calls[c].vins]
    BY <1>4 DEF Record, TypeOK
  <2>3. /\ calls'[c].step = "vehicle" /\ calls'[c].rid = calls[c].rid
        /\ calls'[c].op = calls[c].op /\ calls'[c].vins = calls[c].vins
        /\ calls'[c].fleet = calls[c].fleet /\ calls'[c].hard = calls[c].hard
        /\ calls'[c].todo = calls[c].vins
    BY <1>0, <2>2 DEF CallState
  <2>4. requests'[calls[c].rid] =
          NewRequest(calls[c].op, calls[c].fleet, calls[c].vins, calls[c].hard, calls[c].key)
    BY <1>4, <2>1 DEF Record, TypeOK, Recorded
  <2>5. /\ requests'[calls[c].rid].type = calls[c].op
        /\ requests'[calls[c].rid].fleet = calls[c].fleet
    BY <2>4 DEF NewRequest, NoRequest
  <2>6. oem' = oem /\ calls[c].step = "record"
    BY <1>4 DEF Record
  <2>7. Submitted(c)' /\ Recorded(calls[c].rid)'
    BY <1>0, <2>3, <2>5, <2>6 DEF Submitted, Recorded, CallOK
  <2> QED
    BY <1>0, <2>1, <2>3, <2>5, <2>6, <2>7 DEF CallOK
<1>5. ASSUME NEW v \in Vins, EnrollVehicle(c, v) PROVE CallOK(c)'
  <2>1. calls'[c] = [calls[c] EXCEPT !.step = "member", !.vin = v]
    BY <1>5 DEF EnrollVehicle, TypeOK
  <2>2. /\ calls'[c].step = "member" /\ calls'[c].rid = calls[c].rid
        /\ calls'[c].op = calls[c].op /\ calls'[c].vins = calls[c].vins
        /\ calls'[c].fleet = calls[c].fleet /\ calls'[c].hard = calls[c].hard
        /\ calls'[c].todo = calls[c].todo /\ calls'[c].vin = v
    BY <1>0, <2>1 DEF CallState
  <2>3. /\ oem' = oem /\ requests' = requests
        /\ calls[c].step = "vehicle" /\ calls[c].op = "ENROLL" /\ v \in calls[c].todo
    BY <1>5 DEF EnrollVehicle
  <2>4. Submitted(c) /\ Submitted(c)'
    BY <2>2, <2>3 DEF Submitted
  <2> QED
    BY <1>0, <2>2, <2>3, <2>4 DEF CallOK, Recorded
<1>6. CASE EnrollMember(c)
  BY <1>6, NextVinCall DEF EnrollMember, TypeOK
<1>7. ASSUME NEW v \in Vins, UnenrollVehicle(c, v) PROVE CallOK(c)'
  BY <1>7, NextVinCall DEF UnenrollVehicle, TypeOK
<1> QED
  BY <1>1, <1>2, <1>3, <1>4, <1>5, <1>6, <1>7 DEF CallStep

LEMMA CallInvStep ==
    ASSUME CoreInv, [Next]_vars
    PROVE  CallInv'
<1> SUFFICES ASSUME NEW d \in Calls PROVE CallOK(d)'
  BY DEF CallInv
<1>1. CASE UNCHANGED calls
  BY <1>1, OtherCall
<1>2. ASSUME NEW c \in Calls, CallStep(c), c # d PROVE calls'[d] = calls[d]
  BY <1>2
  DEF CallStep, EnrollArrive, EnrollReplay, UnenrollArrive, UnenrollReplay, Begin, Submit,
      SubmitLost, Record, EnrollVehicle, UnenrollVehicle, EnrollMember, CallEnds, CoreInv, TypeOK
<1>3. (\E c \in Calls : CallStep(c)) \/ UNCHANGED calls
  BY DEF Next, vars, PollStep, PollScan, PollFetch, PollOpen, PollApply, PollDropMember,
         PollClose, PollAbandon, OemProgress, AgeOut, IndexKey
<1> QED
  BY <1>1, <1>2, <1>3, OtherCall, OwnCall

\* What a step may do to the poller: keep it, drop everything, or take one of
\* the poller's own actions.
LEMMA PollerMoves ==
    ASSUME [Next]_vars
    PROVE  \/ poller' = poller
           \/ poller' = PollerIdle
           \/ PollScan \/ PollFetch \/ (\E r \in Rids : PollOpen(r))
           \/ (\E x \in poller.todo : PollApply(x)) \/ PollDropMember \/ PollClose
  BY DEF Next, CallStep, EnrollArrive, EnrollReplay, UnenrollArrive, UnenrollReplay, Submit,
         SubmitLost, Record, EnrollVehicle, UnenrollVehicle, EnrollMember, CallEnds,
         PollStep, PollAbandon, OemProgress, AgeOut, IndexKey, vars

LEMMA BatchStep ==
    ASSUME CoreInv, [Next]_vars
    PROVE  PollerHoldsOpenRequests'
<1> USE DEF CoreInv
<1>1. ASSUME NEW r \in poller.batch, ~(PollClose /\ r = poller.cur)
      PROVE  Recorded(r)' /\ ~requests'[r].terminal
  <2>1. r \in Rids /\ Recorded(r) /\ ~requests[r].terminal
    BY DEF PollInv, PollerHoldsOpenRequests, TypeOK, PollerState
  <2>2. Recorded(r)'
    BY <2>1, Kept DEF RequestsKept, Recorded
  <2>3. ~requests'[r].terminal
    BY <1>1, <2>1, Effects
  <2> QED
    BY <2>2, <2>3
<1>2. CASE PollScan
  <2>1. poller' = [PollerIdle EXCEPT !.step = "fetch",
                                     !.batch = {r \in Rids : InFlight(requests[r])}]
    BY <1>2 DEF PollScan
  <2>2. poller'.batch = {r \in Rids : InFlight(requests[r])} /\ requests' = requests
    BY <1>2, <2>1 DEF PollerIdle, PollScan, tables
  <2> QED
    BY <2>2 DEF InFlight, PollerHoldsOpenRequests, Recorded
<1>3. CASE PollClose
  <2>1. poller'.batch \subseteq poller.batch \ {poller.cur}
    BY <1>3 DEF PollClose, PollerIdle, TypeOK, PollerState
  <2> QED
    BY <1>1, <2>1 DEF PollerHoldsOpenRequests, Recorded
<1>4. CASE ~PollScan /\ ~PollClose
  <2>1. poller'.batch \subseteq poller.batch
    <3>1. CASE poller' = poller \/ poller' = PollerIdle
      BY <3>1 DEF PollerIdle
    <3>2. CASE PollFetch \/ (\E r \in Rids : PollOpen(r))
                \/ (\E x \in poller.todo : PollApply(x)) \/ PollDropMember
      BY <3>2 DEF PollFetch, PollOpen, PollApply, PollDropMember, TypeOK, PollerState
    <3> QED
      BY <1>4, <3>1, <3>2, PollerMoves
  <2> QED
    BY <1>1, <1>4, <2>1 DEF PollerHoldsOpenRequests, Recorded
<1> QED
  BY <1>2, <1>3, <1>4

\* Results the poller holds stay true while other actors move.
LEMMA ResultsStand ==
    ASSUME CoreInv, [Next]_vars, NEW x \in poller.page
    PROVE  /\ oem'[x.rid].code[x.vin] # NoCode
           /\ FcsTerminal(x.code) => oem'[x.rid].code[x.vin] = x.code
<1>1. x \in Result /\ x.rid \in poller.batch
  BY DEF CoreInv, TypeOK, PollerState, PollInv
<1>2. Accepted(x.rid) /\ x.rid \in Rids /\ x.vin \in Vins
  BY <1>1 DEF CoreInv, PollInv, PollerHoldsOpenRequests, RequestInv, Recorded, Accepted, Result
<1>3. /\ oem[x.rid].code[x.vin] # NoCode
      /\ FcsTerminal(x.code) => oem[x.rid].code[x.vin] = x.code
  BY DEF CoreInv, PollInv
<1>4. OemKept
  BY Kept
<1> HIDE DEF FcsTerminal
<1> QED
  BY <1>2, <1>3, <1>4 DEF OemKept

LEMMA PollInvStep ==
    ASSUME CoreInv, [Next]_vars
    PROVE  PollInv'
<1> USE DEF CoreInv
<1>0. poller \in PollerState /\ PollInv /\ PollerHoldsOpenRequests'
  BY BatchStep DEF TypeOK
<1>1. ASSUME poller'.page \subseteq poller.page
      PROVE  \A x \in poller'.page :
                /\ oem'[x.rid].code[x.vin] # NoCode
                /\ FcsTerminal(x.code) => oem'[x.rid].code[x.vin] = x.code
  BY <1>1, ResultsStand
<1>2. CASE poller' = poller
  BY <1>0, <1>1, <1>2 DEF PollInv
<1>3. ASSUME poller'.step # "apply", poller'.page = {}, poller'.todo = {},
             poller'.cur = NoRid, poller'.removing = NoVin
      PROVE  PollInv'
  BY <1>0, <1>3 DEF PollInv
<1>4. CASE poller' = PollerIdle
  BY <1>3, <1>4 DEF PollerIdle
<1>5. CASE PollScan
  <2>1. PICK batch : poller' = [PollerIdle EXCEPT !.step = "fetch", !.batch = batch]
    BY <1>5 DEF PollScan
  <2> QED
    BY <1>3, <2>1 DEF PollerIdle
<1>6. CASE PollFetch
  <2>1. PICK page \in Pages(AllResults(poller.batch)) :
           poller' = [poller EXCEPT !.step = "apply", !.page = page]
    BY <1>6 DEF PollFetch
  <2>2. page \subseteq AllResults(poller.batch)
    BY <2>1 DEF Pages
  <2>3. /\ poller'.step = "apply" /\ poller'.page = page
        /\ poller'.cur = poller.cur /\ poller'.todo = poller.todo
        /\ poller'.batch = poller.batch /\ poller'.removing = poller.removing
    BY <1>0, <2>1 DEF PollerState
  <2>4. poller.todo = {} /\ poller.cur = NoRid
    BY <1>0, <1>6 DEF PollInv, PollFetch
  <2>5. \A x \in page : /\ x.rid \in poller.batch
                        /\ oem[x.rid].code[x.vin] # NoCode
                        /\ oem[x.rid].code[x.vin] = x.code
    BY <2>2, ConstantTypes DEF AllResults, Result
  <2>6. oem' = oem
    BY <1>6 DEF PollFetch
  <2> HIDE DEF FcsTerminal
  <2> QED
    BY <1>0, <2>3, <2>4, <2>5, <2>6 DEF PollInv
<1>7. ASSUME NEW r \in Rids, PollOpen(r) PROVE PollInv'
  <2>1. poller' = [poller EXCEPT !.cur = r, !.todo = ResultsOf(r)]
    BY <1>7 DEF PollOpen
  <2>2. /\ poller'.step = poller.step /\ poller'.page = poller.page
        /\ poller'.cur = r /\ poller'.todo = ResultsOf(r)
        /\ poller'.batch = poller.batch /\ poller'.removing = poller.removing
    BY <1>0, <2>1 DEF PollerState
  <2>3. poller.step = "apply" /\ poller.cur = NoRid /\ r \in poller.batch
    BY <1>7 DEF PollOpen
  <2>4. \A x \in ResultsOf(r) : x \in poller.page /\ x.rid = r
    BY DEF ResultsOf
  <2> QED
    BY <1>0, <1>1, <2>2, <2>3, <2>4 DEF PollInv
<1>8. ASSUME poller'.step = poller.step, poller'.page = poller.page,
             poller'.cur = poller.cur, poller'.batch = poller.batch,
             poller'.todo \subseteq poller.todo,
             poller'.removing # NoVin => poller.cur # NoRid /\ poller'.todo # {}
      PROVE  PollInv'
  BY <1>0, <1>1, <1>8 DEF PollInv
<1>9. ASSUME NEW x \in poller.todo, PollApply(x) PROVE PollInv'
  <2>1. /\ poller'.step = poller.step /\ poller'.page = poller.page
        /\ poller'.cur = poller.cur /\ poller'.batch = poller.batch
        /\ poller'.todo \subseteq poller.todo
        /\ poller'.removing # NoVin => poller'.todo # {}
    BY <1>0, <1>9 DEF PollApply, PollerState
  <2> QED
    BY <1>8, <1>9, <2>1 DEF PollApply
<1>10. CASE PollDropMember
  <2>1. /\ poller'.step = poller.step /\ poller'.page = poller.page
        /\ poller'.cur = poller.cur /\ poller'.batch = poller.batch
        /\ poller'.todo \subseteq poller.todo
        /\ poller'.removing = NoVin
    BY <1>0, <1>10 DEF PollDropMember, PollerState
  <2> QED
    BY <1>8, <2>1
<1>11. CASE PollClose
  <2>1. CASE poller.batch # {poller.cur}
    <3>1. poller' = [poller EXCEPT !.batch = poller.batch \ {poller.cur}, !.cur = NoRid,
                                   !.page = poller.page \ ResultsOf(poller.cur)]
      BY <1>11, <2>1 DEF PollClose
    <3>2. /\ poller'.step = poller.step /\ poller'.cur = NoRid
          /\ poller'.page = poller.page \ ResultsOf(poller.cur)
          /\ poller'.batch = poller.batch \ {poller.cur}
          /\ poller'.todo = {} /\ poller'.removing = poller.removing
      BY <1>0, <1>11, <3>1 DEF PollerState, PollClose
    <3>3. poller.removing = NoVin
      BY <1>0, <1>11 DEF PollClose, PollInv
    <3>4. poller.step = "apply"
      BY <1>0, <1>11 DEF PollClose, PollInv
    <3>5. \A x \in poller'.page : x.rid \in poller'.batch
      BY <1>0, <3>2 DEF ResultsOf, PollInv
    <3> QED
      BY <1>0, <1>1, <3>2, <3>3, <3>4, <3>5 DEF PollInv
  <2>2. CASE poller.batch = {poller.cur}
    BY <1>4, <1>11, <2>2 DEF PollClose
  <2> QED
    BY <2>1, <2>2
<1> QED
  BY <1>2, <1>4, <1>5, <1>6, <1>7, <1>9, <1>10, <1>11, PollerMoves

\* Only three actions write vehicle rows, and each keeps, clears or replaces
\* the request a row names.
LEMMA VehicleMoves ==
    ASSUME CoreInv, [Next]_vars, NEW v \in Vins
    PROVE  \/ vehicles'[v] = vehicles[v]
           \/ /\ \E c \in Calls : /\ calls[c].step = "vehicle" /\ v \in calls[c].todo
                                  /\ vehicles'[v].rid = calls[c].rid
              /\ vehicles'[v].exists /\ Unjudged(vehicles[v], vehicles'[v])
              /\ requests' = requests
           \/ \E x \in poller.todo :
                 /\ PollApply(x) /\ x.vin = v
                 /\ vehicles'[v] = AppliedVehicle(vehicles[v], x.code,
                                                  requests[poller.cur].hard)
<1> USE DEF CoreInv
<1>1. ASSUME NEW c \in Calls, NEW u \in Vins, EnrollVehicle(c, u), u = v
      PROVE  /\ calls[c].step = "vehicle" /\ v \in calls[c].todo
             /\ vehicles'[v].rid = calls[c].rid /\ vehicles'[v].exists
             /\ Unjudged(vehicles[v], vehicles'[v])
             /\ requests' = requests
  <2>1. vehicles'[v] = EnrolledVehicle(vehicles[v], calls[c].sku, calls[c].rid)
    BY <1>1 DEF EnrollVehicle, TypeOK
  <2>2. calls[c].sku \in Skus \cup {"unset"} /\ calls[c].rid \in Rids \cup {NoRid}
    BY DEF TypeOK, CallState
  <2> QED
    BY <1>1, <2>1, <2>2, EnrolledType DEF EnrollVehicle, TypeOK
<1>2. ASSUME NEW c \in Calls, NEW u \in Vins, UnenrollVehicle(c, u), u = v
      PROVE  /\ calls[c].step = "vehicle" /\ v \in calls[c].todo
             /\ vehicles'[v].rid = calls[c].rid /\ vehicles'[v].exists
             /\ Unjudged(vehicles[v], vehicles'[v])
             /\ requests' = requests
  <2>1. vehicles'[v] = UnenrollingVehicle(vehicles[v], calls[c].rid)
    BY <1>2 DEF UnenrollVehicle, TypeOK
  <2>2. calls[c].rid \in Rids \cup {NoRid}
    BY DEF TypeOK, CallState
  <2> QED
    BY <1>2, <2>1, <2>2, UnenrollingType DEF UnenrollVehicle, TypeOK
<1>3. ASSUME NEW c \in Calls, NEW u \in Vins, EnrollVehicle(c, u) \/ UnenrollVehicle(c, u),
             u # v
      PROVE  vehicles'[v] = vehicles[v]
  BY <1>3 DEF EnrollVehicle, UnenrollVehicle, TypeOK
<1>4. ASSUME NEW x \in poller.todo, PollApply(x)
      PROVE  /\ x.vin # v => vehicles'[v] = vehicles[v]
             /\ x.vin = v => vehicles'[v] = AppliedVehicle(vehicles[v], x.code,
                                                           requests[poller.cur].hard)
  BY <1>4 DEF PollApply, TypeOK
<1>5. \/ \E c \in Calls, u \in Vins : EnrollVehicle(c, u) \/ UnenrollVehicle(c, u)
      \/ \E x \in poller.todo : PollApply(x)
      \/ UNCHANGED vehicles
  BY DEF Next, CallStep, EnrollArrive, EnrollReplay, UnenrollArrive, UnenrollReplay, Submit,
         SubmitLost, Record, EnrollMember, CallEnds, PollStep, PollScan, PollFetch, PollOpen,
         PollDropMember, PollClose, PollAbandon, OemProgress, AgeOut, IndexKey, vars, tables
<1> QED
  BY <1>1, <1>2, <1>3, <1>4, <1>5

\* A call writing vehicles has its vehicles in the request row it put.
LEMMA CallRequest ==
    ASSUME CoreInv, NEW c \in Calls, calls[c].step \in {"vehicle", "member"}
    PROVE  /\ calls[c].rid \in Rids
           /\ Recorded(calls[c].rid)
           /\ requests[calls[c].rid].type = calls[c].op
           /\ requests[calls[c].rid].fleet = calls[c].fleet
           /\ calls[c].vins \subseteq requests[calls[c].rid].vins
           /\ calls[c].todo \subseteq calls[c].vins
<1>1. CallOK(c) /\ Submitted(c) /\ calls[c] \in CallState
  BY DEF CoreInv, CallInv, TypeOK, Submitted
<1>2. calls[c].rid \in Rids /\ Recorded(calls[c].rid)
  BY <1>1 DEF CallOK, CallState
<1>3. calls[c].vins \subseteq Vins
  BY <1>1 DEF CallState
<1> QED
  BY <1>1, <1>2, <1>3 DEF CallOK, CoreInv, RequestInv

LEMMA TrackedStep ==
    ASSUME IInv, [Next]_vars
    PROVE  EnrollmentTracked'
<1> USE DEF IInv, CoreInv
<1>0. RequestsKept
  BY Kept
<1>1. ASSUME NEW v \in Vins, vehicles'[v].rid # NoRid
      PROVE  /\ requests'[vehicles'[v].rid].type # "none"
             /\ v \in requests'[vehicles'[v].rid].vins
  <2>1. CASE vehicles'[v].rid = vehicles[v].rid
    <3>1. Recorded(vehicles[v].rid) /\ v \in requests[vehicles[v].rid].vins
      BY <1>1, <2>1 DEF EnrollmentTracked
    <3>2. vehicles[v].rid \in Rids
      BY <1>1, <2>1 DEF TypeOK, Vehicle
    <3> QED
      BY <1>0, <2>1, <3>1, <3>2 DEF RequestsKept, Recorded
  <2>2. ASSUME NEW c \in Calls, calls[c].step = "vehicle", v \in calls[c].todo,
               vehicles'[v].rid = calls[c].rid
        PROVE  /\ requests'[vehicles'[v].rid].type # "none"
               /\ v \in requests'[vehicles'[v].rid].vins
    BY <1>0, <2>2, CallRequest DEF RequestsKept, Recorded
  <2>3. ASSUME NEW x \in poller.todo,
               vehicles'[v] = AppliedVehicle(vehicles[v], x.code, requests[poller.cur].hard),
               PollApply(x)
        PROVE  vehicles'[v].rid = vehicles[v].rid
    <3>1. x.code \in Codes /\ vehicles[v] \in Vehicle /\ poller.cur \in Rids
      BY <2>3 DEF TypeOK, PollerState, Result, PollApply
    <3>2. requests[poller.cur].hard \in BOOLEAN
      BY <3>1 DEF TypeOK, Request
    <3> QED
      BY <1>1, <2>3, <3>1, <3>2, AppliedType
  <2> QED
    BY <2>1, <2>2, <2>3, VehicleMoves
<1>2. ASSUME NEW m \in members'
      PROVE  \E r \in Rids : /\ requests'[r].type = "ENROLL"
                             /\ requests'[r].fleet = m[1]
                             /\ m[2] \in requests'[r].vins
  <2>1. CASE m \in members
    <3>1. PICK r \in Rids : /\ requests[r].type = "ENROLL"
                            /\ requests[r].fleet = m[1]
                            /\ m[2] \in requests[r].vins
      BY <2>1 DEF EnrollmentTracked
    <3> QED
      BY <1>0, <3>1 DEF RequestsKept, Recorded
  <2>2. ASSUME NEW c \in Calls, EnrollMember(c), m = <<calls[c].fleet, calls[c].vin>>
        PROVE  \E r \in Rids : /\ requests'[r].type = "ENROLL"
                               /\ requests'[r].fleet = m[1]
                               /\ m[2] \in requests'[r].vins
    <3>1. calls[c].step = "member" /\ requests' = requests
      BY <2>2 DEF EnrollMember
    <3>2. calls[c].op = "ENROLL" /\ calls[c].vin \in calls[c].vins
      BY <3>1 DEF CallInv, CallOK
    <3> QED
      BY <2>2, <3>1, <3>2, CallRequest
  <2>3. m \in members \/ \E c \in Calls : EnrollMember(c) /\ m = <<calls[c].fleet, calls[c].vin>>
    BY <1>2 DEF Next, CallStep, EnrollArrive, EnrollReplay, UnenrollArrive, UnenrollReplay,
         Submit, SubmitLost, Record, EnrollVehicle, UnenrollVehicle, EnrollMember, CallEnds,
         PollStep, PollScan, PollFetch, PollOpen, PollApply, PollDropMember, PollClose,
         PollAbandon, OemProgress, AgeOut, IndexKey, vars, tables
  <2> QED
    BY <2>1, <2>2, <2>3
<1> QED
  BY <1>1, <1>2 DEF EnrollmentTracked, Recorded

-----------------------------------------------------------------------------
(* The theorems *)

LEMMA InitCore == Init => CoreInv
<1> SUFFICES ASSUME Init PROVE CoreInv
  OBVIOUS
<1>1. TypeOK
  BY InitType
<1>2. RequestInv
  BY DEF Init, RequestInv, NoRequest, Recorded
<1>3. CallInv /\ OwnRequests
  BY DEF Init, CallInv, CallOK, Submitted, Idle, OwnRequests
<1>4. PollInv
  BY DEF Init, PollInv, PollerIdle, PollerHoldsOpenRequests
<1> QED
  BY <1>1, <1>2, <1>3, <1>4 DEF CoreInv

LEMMA CoreStep ==
    ASSUME CoreInv, [Next]_vars
    PROVE  CoreInv'
<1>1. TypeOK'
  BY TypeStep DEF CoreInv
<1> QED
  BY <1>1, RequestStep, CallInvStep, OwnStep, PollInvStep DEF CoreInv

LEMMA InitTracked == Init => EnrollmentTracked
  BY DEF Init, EnrollmentTracked, NoVehicle

LEMMA IInvCore == IInv => CoreInv
  BY DEF IInv

\* The inductive invariant holds in every reachable state.
THEOREM Inductive == Spec => []IInv
<1>1. Init => IInv
  BY InitCore, InitTracked DEF IInv
<1>2. IInv /\ [Next]_vars => IInv'
  BY CoreStep, TrackedStep DEF IInv
<1> QED
  BY <1>1, <1>2, PTL DEF Spec

\* Every table, call and poller state stays of its type.
THEOREM TypeCorrect == Spec => []TypeOK
<1>1. IInv => TypeOK
  BY DEF IInv, CoreInv
<1> QED
  BY <1>1, Inductive, PTL

\* No vehicle row or fleet membership is ever without its request row, however
\* calls and poll cycles interleave and wherever they are cut short.
THEOREM Tracked == Spec => []EnrollmentTracked
<1>1. IInv => EnrollmentTracked
  BY DEF IInv
<1> QED
  BY <1>1, Inductive, PTL

\* The poller never works on a request that is closed or was never recorded.
THEOREM PollerOpen == Spec => []PollerHoldsOpenRequests
<1>1. IInv => PollerHoldsOpenRequests
  BY DEF IInv, CoreInv, PollInv
<1> QED
  BY <1>1, Inductive, PTL

LEMMA DeletionStep ==
    ASSUME CoreInv, [Next]_vars, NEW v \in Vins,
           vehicles[v].exists, ~vehicles'[v].exists
    PROVE  \E r \in Rids : /\ requests[r].type = "UN_ENROLL"
                           /\ requests[r].hard
                           /\ ~requests[r].terminal
                           /\ oem[r].code[v] = 7
<1>1. PICK x \in poller.todo :
         /\ PollApply(x) /\ x.vin = v
         /\ vehicles'[v] = AppliedVehicle(vehicles[v], x.code, requests[poller.cur].hard)
  BY VehicleMoves
<1>2. poller \in PollerState
  BY DEF CoreInv, TypeOK
<1>3. poller.cur \in Rids /\ x \in Result /\ x \in poller.page /\ x.rid = poller.cur
  BY <1>1, <1>2 DEF PollApply, PollerState, CoreInv, PollInv
<1>4. x.code \in Codes /\ vehicles[v] \in Vehicle /\ requests[poller.cur].hard \in BOOLEAN
  BY <1>3 DEF CoreInv, TypeOK, Result, Request
<1>5. x.code = 7 /\ requests[poller.cur].hard
  BY <1>1, <1>4, AppliedType
<1>6. oem[poller.cur].code[v] = 7
  BY <1>1, <1>3, <1>5 DEF CoreInv, PollInv, FcsTerminal
<1>7. requests[poller.cur].type = "UN_ENROLL" /\ ~requests[poller.cur].terminal
  BY <1>3, <1>5, ConstantTypes
  DEF CoreInv, RequestInv, PollInv, PollerHoldsOpenRequests
<1> QED
  BY <1>3, <1>5, <1>6, <1>7

\* A vehicle row is only ever deleted on behalf of an open hard-delete unenroll
\* request whose vehicle OEM1 has unenrolled.
THEOREM Deletion == Spec => DeletionAuthorised
<1>1. IInv /\ [Next]_vars =>
        [\A v \in Vins : vehicles[v].exists /\ ~vehicles'[v].exists =>
            \E r \in Rids : /\ requests[r].type = "UN_ENROLL"
                            /\ requests[r].hard
                            /\ ~requests[r].terminal
                            /\ oem[r].code[v] = 7]_vars
  BY DeletionStep, IInvCore
<1> QED
  BY <1>1, Inductive, PTL DEF Spec, DeletionAuthorised

-----------------------------------------------------------------------------
(* The outcomes a vehicle's row shows are OEM1's. *)

\* The outcome a polled code writes, or the row's own.
LEMMA AppliedOutcome ==
    ASSUME NEW row \in Vehicle, NEW c \in Codes, NEW hard \in BOOLEAN
    PROVE  LET new == AppliedVehicle(row, c, hard) IN
           /\ new.es = "COMPLETED" => c = 3
           /\ new.pending = "no" => c = 3 \/ row.pending = "no"
           /\ new.es = "UNENROLLED" => c = 7
           /\ new.status = "Inactive" => c = 7 \/ row.status = "Inactive"
           /\ new.es = "FAILED" => c \in FailedCodes
<1>1. CASE c = 3
  <2>1. AppliedVehicle(row, c, hard) = CompletedVehicle(row)
    BY <1>1 DEF AppliedVehicle
  <2>2. /\ CompletedVehicle(row).es = "COMPLETED"
        /\ CompletedVehicle(row).status = row.status
    BY DEF CompletedVehicle, Vehicle
  <2> QED
    BY <1>1, <2>1, <2>2
<1>2. CASE c = 7 /\ hard
  <2>1. AppliedVehicle(row, c, hard) = NoVehicle
    BY <1>2 DEF AppliedVehicle
  <2>2. NoVehicle.es = "unset" /\ NoVehicle.pending = "unset" /\ NoVehicle.status = "unset"
    BY DEF NoVehicle
  <2> QED
    BY <1>2, <2>1, <2>2
<1>3. CASE c = 7 /\ ~hard
  <2>1. AppliedVehicle(row, c, hard) = SoftRemovedVehicle(row)
    BY <1>3 DEF AppliedVehicle
  <2>2. /\ SoftRemovedVehicle(row).es = "UNENROLLED"
        /\ SoftRemovedVehicle(row).pending = row.pending
    BY DEF SoftRemovedVehicle, Vehicle
  <2> QED
    BY <1>3, <2>1, <2>2
<1>4. CASE c # 3 /\ c # 7
  <2>1. AppliedVehicle(row, c, hard) = PolledVehicle(row, c)
    BY <1>4 DEF AppliedVehicle
  <2>2. /\ FcsStatus(c) \notin {"COMPLETED", "UNENROLLED"}
        /\ FcsStatus(c) = "FAILED" => c \in FailedCodes
    BY <1>4 DEF FcsStatus
  <2> QED
    BY <1>4, <2>1, <2>2, FcsStatusType DEF PolledVehicle, Vehicle
<1> QED
  BY <1>1, <1>2, <1>3, <1>4

\* What OEM1 has finally said of a vehicle, it goes on saying.
LEMMA ToldKept ==
    ASSUME CoreInv, [Next]_vars, NEW v \in Vins, NEW codes,
           \A c \in codes : FcsTerminal(c), Told(v, codes)
    PROVE  Told(v, codes)'
<1>1. PICK r \in Rids : Recorded(r) /\ oem[r].code[v] \in codes
  BY DEF Told
<1>2. FcsTerminal(oem[r].code[v])
  BY <1>1
<1>3. Accepted(r)
  BY <1>1 DEF CoreInv, RequestInv, Recorded, Accepted
<1> HIDE DEF FcsTerminal
<1>4. oem'[r].code[v] = oem[r].code[v] /\ Recorded(r)'
  BY <1>1, <1>2, <1>3, Kept DEF OemKept, RequestsKept, Recorded
<1> QED
  BY <1>1, <1>4 DEF Told

LEMMA TerminalCodes == \A c : c \in {3} \cup {7} \cup FailedCodes <=> FcsTerminal(c)
  BY DEF FcsTerminal

LEMMA VerdictsStep ==
    ASSUME CoreInv, VerdictsFromOem, [Next]_vars
    PROVE  VerdictsFromOem'
<1> SUFFICES ASSUME NEW v \in Vins
             PROVE  /\ (vehicles'[v].es = "COMPLETED" \/ vehicles'[v].pending = "no")
                           => Told(v, {3})'
                    /\ (vehicles'[v].es = "UNENROLLED" \/ vehicles'[v].status = "Inactive")
                           => Told(v, {7})'
                    /\ vehicles'[v].es = "FAILED" => Told(v, FailedCodes)'
  BY DEF VerdictsFromOem
<1>1. /\ Told(v, {3}) => Told(v, {3})'
      /\ Told(v, {7}) => Told(v, {7})'
      /\ Told(v, FailedCodes) => Told(v, FailedCodes)'
  BY ToldKept, TerminalCodes
<1>2. /\ (vehicles[v].es = "COMPLETED" \/ vehicles[v].pending = "no") => Told(v, {3})
      /\ (vehicles[v].es = "UNENROLLED" \/ vehicles[v].status = "Inactive") => Told(v, {7})
      /\ vehicles[v].es = "FAILED" => Told(v, FailedCodes)
  BY DEF VerdictsFromOem
<1> HIDE DEF Told
<1>3. CASE vehicles'[v] = vehicles[v]
  BY <1>1, <1>2, <1>3
<1>4. CASE Unjudged(vehicles[v], vehicles'[v])
  BY <1>1, <1>2, <1>4 DEF Unjudged
<1>5. ASSUME NEW x \in poller.todo, PollApply(x), x.vin = v,
             vehicles'[v] = AppliedVehicle(vehicles[v], x.code, requests[poller.cur].hard)
      PROVE  /\ (vehicles'[v].es = "COMPLETED" \/ vehicles'[v].pending = "no")
                    => Told(v, {3})'
             /\ (vehicles'[v].es = "UNENROLLED" \/ vehicles'[v].status = "Inactive")
                    => Told(v, {7})'
             /\ vehicles'[v].es = "FAILED" => Told(v, FailedCodes)'
  <2>1. poller.cur \in Rids /\ x \in Result /\ x \in poller.page /\ x.rid = poller.cur
    BY <1>5 DEF PollApply, PollerState, CoreInv, PollInv, TypeOK
  <2>2. x.code \in Codes /\ vehicles[v] \in Vehicle /\ requests[poller.cur].hard \in BOOLEAN
    BY <2>1 DEF CoreInv, TypeOK, Result, Request
  <2>3. Recorded(poller.cur)
    BY <2>1 DEF CoreInv, PollInv, PollerHoldsOpenRequests
  <2>4. FcsTerminal(x.code) => Told(v, {x.code})
    <3> HIDE DEF FcsTerminal
    <3> QED
      BY <1>5, <2>1, <2>3 DEF CoreInv, PollInv, Told
  <2>5. (x.code \in FailedCodes /\ Told(v, {x.code})) => Told(v, FailedCodes)
    BY DEF Told
  <2>6. /\ x.code = 3 => Told(v, {3})
        /\ x.code = 7 => Told(v, {7})
        /\ x.code \in FailedCodes => Told(v, FailedCodes)
    BY <2>4, <2>5, TerminalCodes
  <2>7. LET new == AppliedVehicle(vehicles[v], x.code, requests[poller.cur].hard) IN
           /\ new.es = "COMPLETED" => x.code = 3
           /\ new.pending = "no" => x.code = 3 \/ vehicles[v].pending = "no"
           /\ new.es = "UNENROLLED" => x.code = 7
           /\ new.status = "Inactive" => x.code = 7 \/ vehicles[v].status = "Inactive"
           /\ new.es = "FAILED" => x.code \in FailedCodes
    BY <2>2, AppliedOutcome
  <2> QED
    BY <1>1, <1>2, <1>5, <2>6, <2>7
<1> QED
  BY <1>3, <1>4, <1>5, VehicleMoves

\* A vehicle is shown as enrolled, unenrolled or refused only once OEM1 has said
\* so for a recorded request, whatever was interleaved or cut short.
THEOREM OutcomesFromOem == Spec => []VerdictsFromOem
<1>1. Init => VerdictsFromOem
  BY DEF Init, VerdictsFromOem, NoVehicle
<1> QED
  BY <1>1, Inductive, IInvCore, VerdictsStep, PTL DEF Spec

\* A request is what it was recorded as, for good, and once closed it stays
\* closed: no put or poll of another request, or of a retried one, undoes it.
RequestRowsFinal ==
    [][\A r \in Rids : Recorded(r) =>
          /\ requests'[r].type = requests[r].type
          /\ requests'[r].fleet = requests[r].fleet
          /\ requests'[r].vins = requests[r].vins
          /\ requests'[r].hard = requests[r].hard
          /\ requests'[r].key = requests[r].key
          /\ requests[r].terminal => requests'[r].terminal]_vars

\* The unconditional put of bulk unenroll, and the polls, never rewrite what a
\* request was recorded with, and nothing reopens a closed one.
THEOREM RowsFinal == Spec => RequestRowsFinal
<1>1. IInv /\ [Next]_vars =>
        [\A r \in Rids : Recorded(r) =>
            /\ requests'[r].type = requests[r].type
            /\ requests'[r].fleet = requests[r].fleet
            /\ requests'[r].vins = requests[r].vins
            /\ requests'[r].hard = requests[r].hard
            /\ requests'[r].key = requests[r].key
            /\ requests[r].terminal => requests'[r].terminal]_vars
  BY Kept, IInvCore DEF RequestsKept
<1> QED
  BY <1>1, Inductive, PTL DEF Spec, RequestRowsFinal

\* However short the pages are, a closed request has a vehicle that OEM1 has
\* finally decided: an empty answer never closes one.
ClosedHasVerdict ==
    \A r \in Rids : requests[r].terminal =>
        \E v \in requests[r].vins : FcsTerminal(oem[r].code[v])

LEMMA ClosedHasVerdictStep ==
    ASSUME CoreInv, ClosedHasVerdict, [Next]_vars
    PROVE  ClosedHasVerdict'
<1> SUFFICES ASSUME NEW r \in Rids, requests'[r].terminal
             PROVE  \E v \in requests'[r].vins : FcsTerminal(oem'[r].code[v])
  BY DEF ClosedHasVerdict
<1>1. /\ Recorded(r)
      /\ \E v \in requests[r].vins : FcsTerminal(oem[r].code[v])
  <2>1. CASE requests[r].terminal
    BY <2>1 DEF CoreInv, RequestInv, ClosedHasVerdict
  <2>2. CASE ~requests[r].terminal
    <3>1. PollClose /\ r = poller.cur /\ AllTerminal(ResultsOf(r))
      BY <2>2, ClosedBy
    <3>2. PICK x \in poller.page : x.rid = r /\ FcsTerminal(x.code)
      BY <3>1 DEF AllTerminal, ResultsOf
    <3>3. x \in Result /\ poller.cur \in poller.batch /\ Recorded(r)
      BY <3>1, ConstantTypes
      DEF CoreInv, TypeOK, PollerState, PollInv, PollerHoldsOpenRequests, PollClose
    <3>4. oem[r].code[x.vin] = x.code /\ oem[r].code[x.vin] # NoCode
      <4> HIDE DEF FcsTerminal
      <4> QED
        BY <3>2 DEF CoreInv, PollInv
    <3>5. x.vin \in requests[r].vins
      BY <3>3, <3>4 DEF CoreInv, RequestInv, Result
    <3> QED
      BY <3>2, <3>3, <3>4, <3>5
  <2> QED
    BY <2>1, <2>2
<1>2. PICK v \in requests[r].vins : FcsTerminal(oem[r].code[v])
  BY <1>1
<1>3. v \in Vins /\ Accepted(r)
  BY <1>1 DEF CoreInv, TypeOK, Request, RequestInv, Recorded, Accepted
<1>4. requests'[r].vins = requests[r].vins
  BY <1>1, Kept DEF RequestsKept
<1>5. oem'[r].code[v] = oem[r].code[v]
  <2> HIDE DEF FcsTerminal
  <2> QED
    BY <1>2, <1>3, Kept DEF OemKept
<1> QED
  BY <1>2, <1>4, <1>5

\* No request is closed before OEM1 has finally decided one of its vehicles, for
\* every page size the status call may have.
THEOREM ClosedDecided == Spec => []ClosedHasVerdict
<1>1. Init => ClosedHasVerdict
  BY DEF Init, ClosedHasVerdict, NoRequest
<1> QED
  BY <1>1, Inductive, IInvCore, ClosedHasVerdictStep, PTL DEF Spec

-----------------------------------------------------------------------------
(* What a page shows of a request decides whether closing it is final. *)

\* A page fetched while the request is polled shows all that OEM1 knows of it.  It need
\* not show all of any other request, nor need pages fetched at other times.
PagesAnswer(r) ==
    [][PollFetch /\ r \in poller.batch => AllResults({r}) \subseteq poller'.page]_vars

\* No poll asks for more vehicles than one page has room for; how many are requested
\* over time is not bounded.
WholePages == [][PollFetch => Cardinality(AllResults(poller.batch)) <= PageSize]_vars

LEMMA RoomAnswers ==
    ASSUME PollFetch, Cardinality(AllResults(poller.batch)) <= PageSize,
           CoreInv, NEW r \in poller.batch
    PROVE  AllResults({r}) \subseteq poller'.page
<1>1. PICK page \in Pages(AllResults(poller.batch)) :
           poller' = [poller EXCEPT !.step = "apply", !.page = page]
  BY DEF PollFetch
<1>2. poller'.page = AllResults(poller.batch)
  BY <1>1 DEF Pages, CoreInv, TypeOK, PollerState
<1>3. AllResults({r}) \subseteq AllResults(poller.batch)
  BY DEF AllResults
<1> QED
  BY <1>2, <1>3

LEMMA ShownStep ==
    ASSUME CoreInv, NEW r \in Rids, Shown(r), [Next]_vars,
           PollFetch /\ r \in poller.batch => AllResults({r}) \subseteq poller'.page
    PROVE  Shown(r)'
<1> USE DEF CoreInv
<1> SUFFICES ASSUME poller'.step = "apply", r \in poller'.batch,
                    NEW v \in Vins, oem'[r].code[v] # NoCode
             PROVE  \E x \in poller'.page : x.rid = r /\ x.vin = v
  BY DEF Shown
<1>0. poller \in PollerState
  BY DEF TypeOK
<1>1. ASSUME r \in poller.batch
      PROVE  oem[r].code[v] # NoCode
  <2>1. Accepted(r)
    BY <1>0, <1>1
    DEF PollerState, PollInv, PollerHoldsOpenRequests, RequestInv, Recorded, Accepted
  <2> QED
    BY <2>1, Kept DEF OemKept
<1>2. CASE poller' = poller
  BY <1>1, <1>2 DEF Shown
<1>3. CASE PollFetch
  <2>1. poller'.batch = poller.batch
    BY <1>0, <1>3 DEF PollFetch, PollerState
  <2>2. oem[r].code[v] \in Codes
    BY <1>1, <2>1 DEF TypeOK, OemState
  <2>3. [rid |-> r, vin |-> v, code |-> oem[r].code[v]] \in AllResults({r})
    BY <2>2 DEF AllResults, Result
  <2> QED
    BY <1>3, <2>1, <2>3
<1>4. CASE poller' = PollerIdle \/ PollScan
  <2>1. ASSUME PollScan PROVE poller'.step = "fetch"
    <3>1. PICK batch : poller' = [PollerIdle EXCEPT !.step = "fetch", !.batch = batch]
      BY <2>1 DEF PollScan
    <3> QED
      BY <3>1 DEF PollerIdle
  <2> QED
    BY <1>4, <2>1 DEF PollerIdle
<1>6. CASE \/ \E q \in Rids : PollOpen(q)
           \/ \E x \in poller.todo : PollApply(x)
           \/ PollDropMember
  <2>1. poller'.step = poller.step /\ poller'.batch = poller.batch
        /\ poller'.page = poller.page
    BY <1>0, <1>6 DEF PollOpen, PollApply, PollDropMember, PollerState
  <2> QED
    BY <1>1, <2>1 DEF Shown
<1>7. CASE PollClose /\ poller' # PollerIdle
  <2>1. poller' = [poller EXCEPT !.batch = poller.batch \ {poller.cur}, !.cur = NoRid,
                                 !.page = poller.page \ ResultsOf(poller.cur)]
    BY <1>7 DEF PollClose
  <2>2. /\ poller'.batch = poller.batch \ {poller.cur}
        /\ poller'.page = poller.page \ ResultsOf(poller.cur)
        /\ poller'.step = poller.step
    BY <1>0, <2>1 DEF PollerState
  <2>3. PICK x \in poller.page : x.rid = r /\ x.vin = v
    BY <1>1, <2>2 DEF Shown
  <2> QED
    BY <2>2, <2>3 DEF ResultsOf
<1> QED
  BY <1>2, <1>3, <1>4, <1>6, <1>7, PollerMoves

\* A closing request has no vehicle on the page that OEM1 has not decided.
LEMMA ShownDecided ==
    ASSUME CoreInv, [Next]_vars, NEW r \in Rids, requests'[r].terminal, ~requests[r].terminal,
           NEW v \in Vins, \E x \in poller.page : x.rid = r /\ x.vin = v
    PROVE  FcsTerminal(oem[r].code[v])
<1>1. PICK x \in poller.page : x.rid = r /\ x.vin = v
  OBVIOUS
<1>2. FcsTerminal(x.code)
  BY <1>1, ClosedBy DEF AllTerminal, ResultsOf
<1>3. FcsTerminal(x.code) => oem[x.rid].code[x.vin] = x.code
  BY DEF CoreInv, PollInv
<1> HIDE DEF FcsTerminal
<1> QED
  BY <1>1, <1>2, <1>3

\* Closing a request that is shown means every vehicle OEM1 took for it is decided.
LEMMA CloseSettles ==
    ASSUME CoreInv, [Next]_vars, NEW r \in Rids, requests'[r].terminal, ~requests[r].terminal,
           Shown(r), NEW v \in Vins, oem[r].code[v] # NoCode
    PROVE  FcsTerminal(oem[r].code[v])
<1>1. poller.step = "apply" /\ r \in poller.batch
  BY ClosedBy DEF PollClose, CoreInv, PollInv
<1> QED
  BY <1>1, ShownDecided DEF Shown

LEMMA SettledStep ==
    ASSUME CoreInv, NEW r \in Rids, Shown(r), Settled(r), [Next]_vars
    PROVE  Settled(r)'
<1> SUFFICES ASSUME requests'[r].terminal, NEW v \in requests'[r].vins
             PROVE  FcsTerminal(oem'[r].code[v])
  BY DEF Settled
<1>1. Recorded(r) /\ v \in requests[r].vins /\ v \in Vins
  <2>1. Recorded(r)
    <3>1. CASE requests[r].terminal
      BY <3>1 DEF CoreInv, RequestInv
    <3>2. CASE ~requests[r].terminal
      BY <3>2, ClosedBy, ConstantTypes DEF CoreInv, PollInv, PollerHoldsOpenRequests
    <3> QED
      BY <3>1, <3>2
  <2>2. v \in requests[r].vins
    BY <2>1, Kept DEF RequestsKept
  <2> QED
    BY <2>1, <2>2 DEF CoreInv, TypeOK, Request
<1>2. Accepted(r) /\ oem[r].code[v] # NoCode
  BY <1>1 DEF CoreInv, RequestInv, Recorded, Accepted
<1>3. FcsTerminal(oem[r].code[v])
  BY <1>1, <1>2, CloseSettles DEF Settled
<1> HIDE DEF FcsTerminal
<1> QED
  BY <1>1, <1>2, <1>3, Kept DEF OemKept

LEMMA InitSettled ==
    Init => PageComplete /\ ClosedOnlyWhenSettled /\ \A r \in Rids : Shown(r) /\ Settled(r)
  BY DEF Init, PageComplete, Shown, Settled, PollerIdle, ClosedOnlyWhenSettled, NoRequest

\* A poll cycle closes a request on what its page shows: the vehicles that OEM1 may
\* still be working on then are those the page has cut off, and no others.
ClosesOnPage ==
    [][\A r \in Rids : ~requests[r].terminal /\ requests'[r].terminal =>
          \A v \in requests[r].vins :
              \/ FcsTerminal(oem[r].code[v])
              \/ ~ \E x \in poller.page : x.rid = r /\ x.vin = v]_vars

\* For every page size, and however much is in flight, no request is closed over a
\* vehicle that its page shows as undecided, nor over one decided otherwise since.
THEOREM ClosedOnPage == Spec => ClosesOnPage
<1>1. IInv /\ [Next]_vars =>
        [\A r \in Rids : ~requests[r].terminal /\ requests'[r].terminal =>
            \A v \in requests[r].vins :
                \/ FcsTerminal(oem[r].code[v])
                \/ ~ \E x \in poller.page : x.rid = r /\ x.vin = v]_vars
  <2> SUFFICES ASSUME CoreInv, [Next]_vars, NEW r \in Rids, ~requests[r].terminal,
                      requests'[r].terminal, NEW v \in requests[r].vins,
                      \E x \in poller.page : x.rid = r /\ x.vin = v
               PROVE  FcsTerminal(oem[r].code[v])
    BY IInvCore
  <2>1. v \in Vins
    BY DEF CoreInv, TypeOK, Request
  <2> QED
    BY <2>1, ShownDecided
<1> QED
  BY <1>1, Inductive, PTL DEF Spec, ClosesOnPage

\* A request whose own results the pages show is closed only when OEM1 has decided
\* each of its vehicles, whatever is cut off of the others.
THEOREM ShownSettled == \A r \in Rids : Spec /\ PagesAnswer(r) => []Settled(r)
<1> TAKE r \in Rids
<1>1. Init => CoreInv /\ Shown(r) /\ Settled(r)
  BY InitCore, InitSettled
<1>2. CoreInv /\ Shown(r) /\ Settled(r) /\ [Next]_vars
      /\ [PollFetch /\ r \in poller.batch => AllResults({r}) \subseteq poller'.page]_vars
        => CoreInv' /\ Shown(r)' /\ Settled(r)'
  <2> SUFFICES ASSUME CoreInv, Shown(r), Settled(r), [Next]_vars,
                      [PollFetch /\ r \in poller.batch => AllResults({r}) \subseteq poller'.page]_vars
               PROVE  CoreInv' /\ Shown(r)' /\ Settled(r)'
    OBVIOUS
  <2>1. CASE UNCHANGED vars
    BY <2>1, CoreStep DEF Shown, Settled, vars, tables
  <2>2. CASE Next /\ (PollFetch /\ r \in poller.batch => AllResults({r}) \subseteq poller'.page)
    BY <2>1, <2>2, CoreStep, ShownStep, SettledStep
  <2> QED
    BY <2>1, <2>2
<1> QED
  BY <1>1, <1>2, PTL DEF Spec, PagesAnswer

LEMMA SettledInvStep ==
    ASSUME SettledInv, [Next]_vars,
           [PollFetch => Cardinality(AllResults(poller.batch)) <= PageSize]_vars
    PROVE  SettledInv'
<1> USE DEF SettledInv
<1>1. CoreInv'
  BY CoreStep
<1>2. CASE UNCHANGED vars
  BY <1>1, <1>2 DEF PageComplete, Shown, ClosedOnlyWhenSettled, vars, tables
<1>3. CASE PollFetch => Cardinality(AllResults(poller.batch)) <= PageSize
  <2>1. \A r \in Rids : Shown(r) /\ Settled(r)
    BY DEF PageComplete, ClosedOnlyWhenSettled, Settled
  <2>2. \A r \in Rids : PollFetch /\ r \in poller.batch => AllResults({r}) \subseteq poller'.page
    BY <1>3, RoomAnswers
  <2>3. \A r \in Rids : Shown(r)' /\ Settled(r)'
    BY <2>1, <2>2, ShownStep, SettledStep
  <2> QED
    BY <1>1, <2>3 DEF PageComplete, ClosedOnlyWhenSettled, Settled
<1> QED
  BY <1>2, <1>3

LEMMA SettledInductive == Spec /\ WholePages => []SettledInv
<1>1. Init => SettledInv
  BY InitCore, InitSettled DEF SettledInv
<1>2. SettledInv /\ [Next]_vars
        /\ [PollFetch => Cardinality(AllResults(poller.batch)) <= PageSize]_vars => SettledInv'
  BY SettledInvStep
<1> QED
  BY <1>1, <1>2, PTL DEF Spec, WholePages

\* As long as no poll asks for more vehicles than its page has room for, a closed
\* request has no vehicle OEM1 is still working on.
THEOREM ClosedSettled == Spec /\ WholePages => []ClosedOnlyWhenSettled
<1>1. SettledInv => ClosedOnlyWhenSettled
  BY DEF SettledInv
<1> QED
  BY <1>1, SettledInductive, PTL

-----------------------------------------------------------------------------
(* The request ledger is implemented, step by step. *)

LEMMA LedgerInit == Init => Ledger!Init
<1> SUFFICES ASSUME Init PROVE Ledger!Init
  OBVIOUS
<1>1. \A r \in Rids : Phase(r) = "unused"
  BY DEF Init, Phase, NoRequest, Recorded, Accepted
<1>2. \A r \in Rids, v \in Vins : Verdict(r, v) = "none"
  BY DEF Init, Verdict
<1> QED
  BY <1>1, <1>2 DEF Ledger!Init, Phases, Verdicts

\* A step that writes no request's phase and no verdict stutters.
LEMMA LedgerStutter ==
    ASSUME \A r \in Rids : Phase(r)' = Phase(r),
           \A r \in Rids, v \in Vins : Verdict(r, v)' = Verdict(r, v)
    PROVE  UNCHANGED Ledger!ledger
  BY DEF Ledger!ledger, Phases, Verdicts

LEMMA SameOem == oem' = oem => \A r \in Rids, v \in Vins : Verdict(r, v)' = Verdict(r, v)
  BY DEF Verdict

LEMMA SamePhase ==
    ASSUME NEW r, requests'[r].terminal = requests[r].terminal,
           requests'[r].type = requests[r].type, oem'[r].kind = oem[r].kind
    PROVE  Phase(r)' = Phase(r)
  BY DEF Phase, Recorded, Accepted

LEMMA LedgerAccept ==
    ASSUME CoreInv, NEW r \in Rids, NEW kind \in {"ENROLL", "UN_ENROLL"},
           NEW vins \in SUBSET Vins, OemAccepts(r, kind, vins), requests' = requests
    PROVE  Ledger!Accept(r)
<1>1. oem' = [oem EXCEPT ![r] =
                [kind |-> kind,
                 code |-> [v \in Vins |-> IF v \in vins THEN 0 ELSE NoCode]]]
  BY DEF OemAccepts
<1>2. ~Accepted(r) /\ ~Recorded(r) /\ ~requests[r].terminal
  BY DEF OemAccepts, CoreInv, RequestInv, Accepted, Recorded
<1>3. Phase(r) = "unused"
  BY <1>2 DEF Phase
<1>4. Phase(r)' = "accepted"
  BY <1>1, <1>2 DEF Phase, Recorded, Accepted, CoreInv, TypeOK
<1>5. \A q \in Rids : q # r => oem'[q] = oem[q]
  BY <1>1 DEF CoreInv, TypeOK
<1>6. \A q \in Rids : q # r => Phase(q)' = Phase(q)
  BY <1>5 DEF Phase, Recorded, Accepted
<1>7. Phases' = [Phases EXCEPT ![r] = "accepted"]
  BY <1>4, <1>6 DEF Phases
<1>8. \A v \in Vins : Verdict(r, v)' = IF v \in vins THEN "pending" ELSE "none"
  <2>1. \A v \in Vins : oem'[r].code[v] = IF v \in vins THEN 0 ELSE NoCode
    BY <1>1 DEF CoreInv, TypeOK
  <2> QED
    BY <2>1 DEF Verdict, NoCode, FcsTerminal, FailedCodes
<1>9. \A q \in Rids, v \in Vins : q # r => Verdict(q, v)' = Verdict(q, v)
  BY <1>5 DEF Verdict
<1>10. Verdicts' = [Verdicts EXCEPT ![r] =
                      [v \in Vins |-> IF v \in vins THEN "pending" ELSE "none"]]
  BY <1>8, <1>9 DEF Verdicts
<1>11. Phases[r] = "unused"
  BY <1>3 DEF Phases
<1> QED
  BY <1>7, <1>10, <1>11 DEF Ledger!Accept

LEMMA LedgerRecord ==
    ASSUME CoreInv, NEW c \in Calls, Record(c), NEW r \in Rids, r = calls[c].rid
    PROVE  Ledger!Record(r)
<1>1. /\ ~Recorded(r) /\ Accepted(r)
      /\ calls[c].op \in {"ENROLL", "UN_ENROLL"}
  BY ConstantTypes
  DEF Record, CoreInv, TypeOK, CallState, CallInv, CallOK, Submitted, Accepted
<1>2. ~requests[r].terminal
  BY <1>1 DEF CoreInv, RequestInv
<1>3. requests'[r] = NewRequest(calls[c].op, calls[c].fleet, calls[c].vins,
                                calls[c].hard, calls[c].key)
  BY <1>1 DEF Record, CoreInv, TypeOK, Recorded
<1>4. requests'[r].type # "none" /\ ~requests'[r].terminal
  BY <1>1, <1>3 DEF NewRequest, NoRequest
<1>5. Phase(r) = "accepted" /\ Phase(r)' = "recorded"
  BY <1>1, <1>2, <1>4 DEF Phase, Recorded
<1>6. \A q \in Rids : q # r => requests'[q] = requests[q]
  BY DEF Record, CoreInv, TypeOK
<1>7. oem' = oem
  BY DEF Record
<1>8. \A q \in Rids : q # r => Phase(q)' = Phase(q)
  BY <1>6, <1>7 DEF Phase, Recorded, Accepted
<1>9. Phases' = [Phases EXCEPT ![r] = "recorded"] /\ Phases[r] = "accepted"
  BY <1>1, <1>5, <1>8 DEF Phases
<1>10. Verdicts' = Verdicts
  BY <1>7, SameOem DEF Verdicts
<1> QED
  BY <1>9, <1>10 DEF Ledger!Record

LEMMA LedgerProgress ==
    ASSUME CoreInv, NEW r \in Rids, NEW v \in Vins, OemProgress(r, v)
    PROVE  Ledger!Decide(r, v) \/ UNCHANGED Ledger!ledger
<1>1. PICK c \in OemCodes(oem[r].kind) : oem' = [oem EXCEPT ![r].code[v] = c]
  BY DEF OemProgress
<1>2. c # NoCode
  BY <1>1, ConstantTypes
<1>3. oem[r].code[v] # NoCode /\ ~FcsTerminal(oem[r].code[v])
  BY DEF OemProgress, OemFinal
<1>4. \A q \in Rids, u \in Vins :
         oem'[q].code[u] = IF q = r /\ u = v THEN c ELSE oem[q].code[u]
  BY <1>1 DEF CoreInv, TypeOK, OemState
<1>5. requests' = requests /\ \A q \in Rids : oem'[q].kind = oem[q].kind
  BY <1>1 DEF CoreInv, TypeOK, OemState, OemProgress, tables
<1>6. \A q \in Rids : Phase(q)' = Phase(q)
  BY <1>5, SamePhase
<1> HIDE DEF FcsTerminal
<1>7. \A q \in Rids, u \in Vins : ~(q = r /\ u = v) => Verdict(q, u)' = Verdict(q, u)
  BY <1>4 DEF Verdict
<1>8. Verdict(r, v) = "pending"
  BY <1>3 DEF Verdict
<1>9. Verdict(r, v)' = IF FcsTerminal(c) THEN "final" ELSE "pending"
  BY <1>2, <1>4 DEF Verdict
<1>10. CASE ~FcsTerminal(c)
  BY <1>6, <1>7, <1>8, <1>9, <1>10, LedgerStutter
<1>11. CASE FcsTerminal(c)
  <2>1. Verdicts' = [Verdicts EXCEPT ![r][v] = "final"]
    BY <1>7, <1>9, <1>11 DEF Verdicts
  <2>2. Verdicts[r][v] = "pending"
    BY <1>8 DEF Verdicts
  <2>3. Phases' = Phases
    BY <1>6 DEF Phases
  <2> QED
    BY <2>1, <2>2, <2>3 DEF Ledger!Decide
<1> QED
  BY <1>10, <1>11

LEMMA LedgerClose ==
    ASSUME SettledInv, [Next]_vars, PollClose, NEW r \in Rids, r = poller.cur
    PROVE  Ledger!Close(r) \/ UNCHANGED Ledger!ledger
<1> USE DEF SettledInv
<1>1. r \in poller.batch /\ oem' = oem
  BY DEF PollClose, CoreInv, TypeOK, PollerState, PollInv
<1>2. Recorded(r) /\ ~requests[r].terminal
  BY <1>1 DEF CoreInv, PollInv, PollerHoldsOpenRequests
<1>3. requests' = [requests EXCEPT ![r] = PolledRequest(requests[r], ResultsOf(r))]
  BY DEF PollClose
<1>4. \A q \in Rids : q # r => requests'[q] = requests[q]
  BY <1>3 DEF CoreInv, TypeOK
<1>5. requests'[r].type = requests[r].type
  BY <1>3 DEF PolledRequest, CoreInv, TypeOK, Request
<1>6. \A q \in Rids : q # r => Phase(q)' = Phase(q)
  BY <1>1, <1>4 DEF Phase, Recorded, Accepted
<1>7. CASE ~requests'[r].terminal
  <2>1. Phase(r)' = Phase(r)
    BY <1>1, <1>2, <1>5, <1>7 DEF Phase, Recorded
  <2> QED
    BY <1>1, <1>6, <2>1, SameOem, LedgerStutter
<1>8. CASE requests'[r].terminal
  <2>1. Phase(r) = "recorded" /\ Phase(r)' = "closed"
    BY <1>2, <1>8 DEF Phase
  <2>2. Phases' = [Phases EXCEPT ![r] = "closed"] /\ Phases[r] = "recorded"
    BY <1>1, <1>6, <2>1 DEF Phases
  <2>4. \A v \in Vins : Verdict(r, v) # "pending"
    BY <1>2, <1>8, CloseSettles DEF Verdict, PageComplete
  <2>5. \A v \in Vins : Verdicts[r][v] # "pending"
    BY <1>1, <2>4 DEF Verdicts
  <2>6. Verdicts' = Verdicts
    BY <1>1, SameOem DEF Verdicts
  <2> QED
    BY <2>2, <2>5, <2>6 DEF Ledger!Close
<1> QED
  BY <1>7, <1>8

LEMMA LedgerStep ==
    ASSUME SettledInv, [Next]_vars
    PROVE  [Ledger!Next]_Ledger!ledger
<1> USE DEF SettledInv
<1>1. ASSUME requests' = requests, oem' = oem PROVE UNCHANGED Ledger!ledger
  BY <1>1, SamePhase, SameOem, LedgerStutter
<1>2. ASSUME NEW c \in Calls, Submit(c) \/ SubmitLost(c) PROVE Ledger!Next
  <2>1. PICK r \in Rids : OemAccepts(r, calls[c].op, calls[c].vins)
    BY <1>2 DEF Submit, SubmitLost
  <2>2. calls[c].op \in {"ENROLL", "UN_ENROLL"} /\ calls[c].vins \in SUBSET Vins
    BY <1>2 DEF Submit, SubmitLost, CoreInv, TypeOK, CallState, CallInv, CallOK
  <2> QED
    BY <1>2, <2>1, <2>2, LedgerAccept DEF Submit, SubmitLost, tables, Ledger!Next
<1>3. ASSUME NEW c \in Calls, Record(c) PROVE Ledger!Next
  <2>1. calls[c].rid \in Rids
    BY <1>3 DEF Record, CoreInv, TypeOK, CallState, CallInv, CallOK, Submitted
  <2> QED
    BY <1>3, <2>1, LedgerRecord DEF Ledger!Next
<1>4. ASSUME NEW r \in Rids, NEW v \in Vins, OemProgress(r, v)
      PROVE  [Ledger!Next]_Ledger!ledger
  BY <1>4, LedgerProgress DEF Ledger!Next
<1>5. CASE PollClose
  <2>1. poller.cur \in Rids
    BY <1>5 DEF PollClose, CoreInv, TypeOK, PollerState
  <2> QED
    BY <1>5, <2>1, LedgerClose DEF Ledger!Next
<1>6. ASSUME NEW r \in Rids, AgeOut(r) \/ IndexKey(r) PROVE UNCHANGED Ledger!ledger
  <2>1. oem' = oem
    BY <1>6 DEF AgeOut, IndexKey
  <2>2. \A q \in Rids : /\ requests'[q].terminal = requests[q].terminal
                        /\ requests'[q].type = requests[q].type
    BY <1>6 DEF AgeOut, IndexKey, CoreInv, TypeOK, Request
  <2> QED
    BY <2>1, <2>2, SamePhase, SameOem, LedgerStutter
<1>7. \/ requests' = requests /\ oem' = oem
      \/ \E c \in Calls : Submit(c) \/ SubmitLost(c) \/ Record(c)
      \/ \E r \in Rids, v \in Vins : OemProgress(r, v)
      \/ \E r \in Rids : AgeOut(r) \/ IndexKey(r)
      \/ PollClose
  BY DEF Next, CallStep, EnrollArrive, EnrollReplay, UnenrollArrive, UnenrollReplay,
         EnrollVehicle, UnenrollVehicle, EnrollMember, CallEnds, PollStep, PollScan, PollFetch,
         PollOpen, PollApply, PollDropMember, PollAbandon, vars, tables
<1> QED
  BY <1>1, <1>2, <1>3, <1>4, <1>5, <1>6, <1>7

\* As long as no poll asks for more than a page, the Lambdas, the tables and OEM1
\* together implement the request ledger: accepted, recorded, decided and closed in
\* order, once each.
THEOREM LedgerRefined == Spec /\ WholePages => LedgerImplemented
<1>1. Init => Ledger!Init
  BY LedgerInit
<1>2. SettledInv /\ [Next]_vars => [Ledger!Next]_Ledger!ledger
  BY LedgerStep
<1> QED
  BY <1>1, <1>2, SettledInductive, PTL DEF Spec, LedgerImplemented, Ledger!Spec

-----------------------------------------------------------------------------
(* What the ledger promises, the Lambdas keep. *)

\* The ledger's inductive invariant.
LedgerInv ==
    /\ Phases \in [Rids -> {"unused", "accepted", "recorded", "closed"}]
    /\ Verdicts \in [Rids -> [Vins -> {"none", "pending", "final"}]]
    /\ \A r \in Rids, v \in Vins : Phases[r] = "unused" => Verdicts[r][v] = "none"
    /\ Ledger!ClosedIsDecided

LEMMA LedgerInvInit == Ledger!Init => LedgerInv
  BY DEF Ledger!Init, LedgerInv, Ledger!ClosedIsDecided

\* What a step of the ledger does to the phases and verdicts.
LEMMA LedgerMoves ==
    ASSUME LedgerInv, Ledger!Next
    PROVE  /\ LedgerInv'
           /\ \A r \in Rids : Phases[r] = "closed" =>
                 Phases'[r] = "closed" /\ Verdicts'[r] = Verdicts[r]
           /\ \A r \in Rids, v \in Vins :
                 Verdicts[r][v] = "final" => Verdicts'[r][v] = "final"
<1> USE DEF LedgerInv, Ledger!ClosedIsDecided
<1> DEFINE Goal ==
      /\ LedgerInv'
      /\ \A r \in Rids : Phases[r] = "closed" =>
            Phases'[r] = "closed" /\ Verdicts'[r] = Verdicts[r]
      /\ \A r \in Rids, v \in Vins :
            Verdicts[r][v] = "final" => Verdicts'[r][v] = "final"
<1>1. ASSUME NEW r \in Rids, Ledger!Accept(r) PROVE Goal
  <2>1. PICK vs \in SUBSET Vins :
           Verdicts' = [Verdicts EXCEPT ![r] =
                          [v \in Vins |-> IF v \in vs THEN "pending" ELSE "none"]]
    BY <1>1, Zenon DEF Ledger!Accept
  <2>2. /\ Phases[r] = "unused" /\ Phases' = [Phases EXCEPT ![r] = "accepted"]
        /\ \A v \in Vins : Verdicts[r][v] # "final"
    BY <1>1 DEF Ledger!Accept
  <2>3. Verdicts' \in [Rids -> [Vins -> {"none", "pending", "final"}]]
    <3> DEFINE new == [v \in Vins |-> IF v \in vs THEN "pending" ELSE "none"]
    <3>1. new \in [Vins -> {"none", "pending", "final"}]
      OBVIOUS
    <3>2. Verdicts' = [Verdicts EXCEPT ![r] = new]
      BY <2>1, Zenon
    <3> HIDE DEF new
    <3> QED
      BY <3>1, <3>2
  <2>4. \A q \in Rids : q # r => Verdicts'[q] = Verdicts[q] /\ Phases'[q] = Phases[q]
    BY <2>1, <2>2
  <2>5. Phases'[r] = "accepted" /\ Phases' \in [Rids -> {"unused", "accepted", "recorded", "closed"}]
    BY <2>2
  <2>6. LedgerInv'
    BY <2>3, <2>4, <2>5
  <2>7. \A q \in Rids : Phases[q] = "closed" => Phases'[q] = "closed" /\ Verdicts'[q] = Verdicts[q]
    BY <2>2, <2>4
  <2>8. \A q \in Rids, v \in Vins : Verdicts[q][v] = "final" => Verdicts'[q][v] = "final"
    BY <2>2, <2>4
  <2> QED
    BY <2>6, <2>7, <2>8
<1>2. ASSUME NEW r \in Rids, Ledger!Record(r) PROVE Goal
  BY <1>2 DEF Ledger!Record
<1>3. ASSUME NEW r \in Rids, NEW v \in Vins, Ledger!Decide(r, v) PROVE Goal
  BY <1>3 DEF Ledger!Decide
<1>4. ASSUME NEW r \in Rids, Ledger!Close(r) PROVE Goal
  BY <1>4 DEF Ledger!Close
<1> QED
  BY <1>1, <1>2, <1>3, <1>4 DEF Ledger!Next

LEMMA LedgerInvStep == LedgerInv /\ [Ledger!Next]_(Ledger!ledger) => LedgerInv'
<1>1. CASE UNCHANGED Ledger!ledger
  BY <1>1 DEF Ledger!ledger, LedgerInv, Ledger!ClosedIsDecided
<1> QED
  BY <1>1, LedgerMoves

\* The ledger by itself keeps its promises.
THEOREM LedgerKeepsPromises ==
    Ledger!Spec => []Ledger!ClosedIsDecided /\ Ledger!ClosedForGood /\ Ledger!FinalForGood
<1>1. LedgerInv => Ledger!ClosedIsDecided
  BY DEF LedgerInv
<1>2. LedgerInv /\ [Ledger!Next]_(Ledger!ledger) =>
        [\A r \in Rids : Phases[r] = "closed" =>
            Phases'[r] = "closed" /\ Verdicts'[r] = Verdicts[r]]_(Ledger!ledger)
  BY LedgerMoves
<1>3. LedgerInv /\ [Ledger!Next]_(Ledger!ledger) =>
        [\A r \in Rids, v \in Vins :
            Verdicts[r][v] = "final" => Verdicts'[r][v] = "final"]_(Ledger!ledger)
  BY LedgerMoves
<1> QED
  BY <1>1, <1>2, <1>3, LedgerInvInit, LedgerInvStep, PTL
  DEF Ledger!Spec, Ledger!ClosedForGood, Ledger!FinalForGood

\* As long as no poll asks for more than a page, nothing happens any more to a request
\* that was closed: no vehicle of it is undecided, and no later answer of OEM1 is still
\* to come.
THEOREM ClosedIsOver ==
    Spec /\ WholePages => []Ledger!ClosedIsDecided /\ Ledger!ClosedForGood
                                                  /\ Ledger!FinalForGood
  BY LedgerRefined, LedgerKeepsPromises DEF LedgerImplemented

=============================================================================
