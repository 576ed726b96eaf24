--------------------------- MODULE EnrollmentOpen ---------------------------
(***************************************************************************)
(* Enrollment among everybody else who writes its tables or asks OEM1 for  *)
(* enrollments.  Only the bulk APIs and the poller write the               *)
(* enrollment-requests table, so whatever the others do to vehicles and    *)
(* memberships, what the requests promise stands.                          *)
(***************************************************************************)
EXTENDS EnrollmentProofs

\* Add-vehicle, auto-registration, status sync, refresh, the Main API and the
\* seed scripts: any change at all of vehicle rows and memberships.
OthersWriteTables ==
    /\ vehicles' \in [Vins -> Vehicle]
    /\ members' \in SUBSET (Fleets \X Vins)
    /\ UNCHANGED <<requests, oem, calls, poller, aborts>>

\* Somebody else has OEM1 enroll or unenroll vehicles; OEM1 names the request in
\* status/latest, from where add-vehicle stores its id, but no row records it.
OthersAskOem ==
    /\ \E r \in Rids, kind \in {"ENROLL", "UN_ENROLL"}, vins \in SUBSET Vins :
          OemAccepts(r, kind, vins)
    /\ UNCHANGED <<tables, calls, poller, aborts>>

OthersStep == OthersWriteTables \/ OthersAskOem

OpenSpec == Init /\ [][Next \/ OthersStep]_vars

-----------------------------------------------------------------------------
(* What the others leave alone. *)

LEMMA OthersKeep ==
    ASSUME OthersStep
    PROVE  UNCHANGED <<requests, calls, poller, aborts>>
  BY DEF OthersStep, OthersWriteTables, OthersAskOem, tables

LEMMA OthersType ==
    ASSUME CoreInv, OthersStep
    PROVE  TypeOK'
<1> USE DEF CoreInv, TypeOK
<1>1. CASE OthersWriteTables
  BY <1>1 DEF OthersWriteTables
<1>2. CASE OthersAskOem
  <2>1. PICK r \in Rids, kind \in {"ENROLL", "UN_ENROLL"}, vins \in SUBSET Vins :
           OemAccepts(r, kind, vins)
    BY <1>2, Zenon DEF OthersAskOem
  <2>2. [v \in Vins |-> IF v \in vins THEN 0 ELSE NoCode] \in [Vins -> Codes \cup {NoCode}]
    BY DEF Codes
  <2>3. oem' \in [Rids -> OemState]
    BY <2>1, <2>2 DEF OemAccepts, OemState
  <2> QED
    BY <1>2, <2>3 DEF OthersAskOem, tables
<1> QED
  BY <1>1, <1>2 DEF OthersStep

\* OEM1 has accepted what is recorded, carried or polled.
LEMMA OemStands ==
    ASSUME CoreInv, OthersStep, NEW r \in Rids, Accepted(r)
    PROVE  /\ oem'[r].kind = oem[r].kind
           /\ \A v \in Vins : oem'[r].code[v] = oem[r].code[v]
<1>1. CASE OthersWriteTables
  BY <1>1 DEF OthersWriteTables
<1>2. CASE OthersAskOem
  <2>1. PICK q \in Rids : ~Accepted(q) /\ \E new : oem' = [oem EXCEPT ![q] = new]
    BY <1>2 DEF OthersAskOem, OemAccepts
  <2> QED
    BY <2>1 DEF CoreInv, TypeOK
<1> QED
  BY <1>1, <1>2 DEF OthersStep

LEMMA OthersRequests ==
    ASSUME CoreInv, OthersStep
    PROVE  RequestInv'
<1>1. requests' = requests
  BY OthersKeep
<1>2. ASSUME NEW r \in Rids, Recorded(r) PROVE Accepted(r)
  BY <1>2 DEF CoreInv, RequestInv, Recorded, Accepted
<1> QED
  BY <1>1, <1>2, OemStands DEF CoreInv, RequestInv, Recorded

LEMMA OthersCalls ==
    ASSUME CoreInv, OthersStep
    PROVE  CallInv' /\ OwnRequests'
<1>1. requests' = requests /\ calls' = calls
  BY OthersKeep
<1>2. ASSUME NEW c \in Calls PROVE CallOK(c)'
  <2>1. CallOK(c) /\ calls[c] \in CallState
    BY DEF CoreInv, CallInv, TypeOK
  <2>2. CASE ~Submitted(c)
    BY <1>1, <2>1, <2>2 DEF CallOK, Submitted, Recorded
  <2>3. CASE Submitted(c)
    <3>1. calls[c].rid \in Rids /\ Accepted(calls[c].rid)
      BY <2>1, <2>3 DEF CallOK, CallState, Submitted, Accepted
    <3> QED
      BY <1>1, <2>1, <2>3, <3>1, OemStands DEF CallOK, Submitted, Recorded
  <2> QED
    BY <2>2, <2>3
<1>3. OwnRequests'
  BY <1>1 DEF CoreInv, OwnRequests
<1> QED
  BY <1>2, <1>3 DEF CallInv

LEMMA OthersPolls ==
    ASSUME CoreInv, OthersStep
    PROVE  PollInv'
<1>1. requests' = requests /\ poller' = poller
  BY OthersKeep
<1>2. ASSUME NEW x \in poller.page
      PROVE  oem'[x.rid].code[x.vin] = oem[x.rid].code[x.vin]
  <2>1. x.rid \in Rids /\ x.vin \in Vins
    BY DEF CoreInv, TypeOK, PollerState, Result
  <2>2. Accepted(x.rid)
    BY <2>1 DEF CoreInv, PollInv, PollerHoldsOpenRequests, RequestInv, Recorded, Accepted
  <2> QED
    BY <2>1, <2>2, OemStands
<1> HIDE DEF FcsTerminal
<1> QED
  BY <1>1, <1>2 DEF CoreInv, PollInv, PollerHoldsOpenRequests, Recorded

LEMMA OpenStep ==
    ASSUME CoreInv, [Next \/ OthersStep]_vars
    PROVE  CoreInv'
<1>1. CASE [Next]_vars
  BY <1>1, CoreStep
<1>2. CASE OthersStep
  BY <1>2, OthersType, OthersRequests, OthersCalls, OthersPolls DEF CoreInv
<1> QED
  BY <1>1, <1>2

-----------------------------------------------------------------------------
(* The theorems *)

\* Requests, calls, poller and OEM1 agree whoever else writes vehicle rows and
\* memberships, and whatever they write there.
THEOREM OpenInductive == OpenSpec => []CoreInv
  BY InitCore, OpenStep, PTL DEF OpenSpec

\* No other writer makes the poller work on a request that is closed or was
\* never recorded.
THEOREM OpenPoller == OpenSpec => []PollerHoldsOpenRequests
<1>1. CoreInv => PollerHoldsOpenRequests
  BY DEF CoreInv, PollInv
<1> QED
  BY <1>1, OpenInductive, PTL

\* The rows the poller deletes are those of open hard-delete unenroll requests
\* whose vehicle OEM1 has unenrolled, even where others wrote those rows.
PollDeletionAuthorised ==
    [][\A v \in Vins : PollStep /\ vehicles[v].exists /\ ~vehicles'[v].exists =>
          \E r \in Rids : /\ requests[r].type = "UN_ENROLL"
                          /\ requests[r].hard
                          /\ ~requests[r].terminal
                          /\ oem[r].code[v] = 7]_vars

\* What a vehicle row says never decides whether the poller deletes it.
THEOREM OpenDeletion == OpenSpec => PollDeletionAuthorised
<1>1. CoreInv /\ [Next \/ OthersStep]_vars =>
        [\A v \in Vins : PollStep /\ vehicles[v].exists /\ ~vehicles'[v].exists =>
            \E r \in Rids : /\ requests[r].type = "UN_ENROLL"
                            /\ requests[r].hard
                            /\ ~requests[r].terminal
                            /\ oem[r].code[v] = 7]_vars
  <2>1. PollStep => [Next]_vars
    BY DEF Next
  <2> QED
    BY <2>1, DeletionStep
<1> QED
  BY <1>1, OpenInductive, PTL DEF OpenSpec, PollDeletionAuthorised

-----------------------------------------------------------------------------
(* What a page shows, and the ledger. *)

LEMMA OthersSettled ==
    ASSUME CoreInv, OthersStep, NEW r \in Rids, Shown(r), Settled(r)
    PROVE  Shown(r)' /\ Settled(r)'
<1>1. requests' = requests /\ poller' = poller
  BY OthersKeep
<1>2. ASSUME Recorded(r)
      PROVE  \A v \in Vins : oem'[r].code[v] = oem[r].code[v]
  <2>1. Accepted(r)
    BY <1>2 DEF CoreInv, RequestInv, Recorded, Accepted
  <2> QED
    BY <2>1, OemStands
<1>3. Shown(r)'
  <2>1. r \in poller.batch => Recorded(r)
    BY DEF CoreInv, PollInv, PollerHoldsOpenRequests
  <2> QED
    BY <1>1, <1>2, <2>1 DEF Shown
<1>4. Settled(r)'
  <2>1. requests[r].terminal => Recorded(r) /\ requests[r].vins \subseteq Vins
    BY DEF CoreInv, TypeOK, Request, RequestInv
  <2> HIDE DEF FcsTerminal
  <2> QED
    BY <1>1, <1>2, <2>1 DEF Settled
<1> QED
  BY <1>3, <1>4

\* A request whose own results the pages show is closed only when OEM1 has decided
\* each of its vehicles, whoever else writes vehicles or asks OEM1 for enrollments.
THEOREM OpenShownSettled == \A r \in Rids : OpenSpec /\ PagesAnswer(r) => []Settled(r)
<1> TAKE r \in Rids
<1>1. Init => CoreInv /\ Shown(r) /\ Settled(r)
  BY InitCore, InitSettled
<1>2. CoreInv /\ Shown(r) /\ Settled(r) /\ [Next \/ OthersStep]_vars
      /\ [PollFetch /\ r \in poller.batch => AllResults({r}) \subseteq poller'.page]_vars
        => CoreInv' /\ Shown(r)' /\ Settled(r)'
  <2> SUFFICES ASSUME CoreInv, Shown(r), Settled(r), [Next \/ OthersStep]_vars,
                      [PollFetch /\ r \in poller.batch => AllResults({r}) \subseteq poller'.page]_vars
               PROVE  CoreInv' /\ Shown(r)' /\ Settled(r)'
    OBVIOUS
  <2>1. CASE UNCHANGED vars
    BY <2>1, OpenStep DEF Shown, Settled, vars, tables
  <2>2. CASE Next /\ (PollFetch /\ r \in poller.batch => AllResults({r}) \subseteq poller'.page)
    BY <2>1, <2>2, CoreStep, ShownStep, SettledStep
  <2>3. CASE OthersStep
    BY <2>3, OpenStep, OthersSettled
  <2> QED
    BY <2>1, <2>2, <2>3
<1> QED
  BY <1>1, <1>2, PTL DEF OpenSpec, PagesAnswer

LEMMA OpenSettledInductive == OpenSpec /\ WholePages => []SettledInv
<1>1. Init => SettledInv
  BY InitCore, InitSettled DEF SettledInv
<1>2. SettledInv /\ [Next \/ OthersStep]_vars
        /\ [PollFetch => Cardinality(AllResults(poller.batch)) <= PageSize]_vars => SettledInv'
  <2>1. SettledInv /\ [Next]_vars
          /\ [PollFetch => Cardinality(AllResults(poller.batch)) <= PageSize]_vars => SettledInv'
    BY SettledInvStep
  <2>2. ASSUME SettledInv, OthersStep PROVE SettledInv'
    <3>1. CoreInv /\ \A r \in Rids : Shown(r) /\ Settled(r)
      BY <2>2 DEF SettledInv, PageComplete, ClosedOnlyWhenSettled, Settled
    <3>2. CoreInv' /\ \A r \in Rids : Shown(r)' /\ Settled(r)'
      BY <2>2, <3>1, OpenStep, OthersSettled
    <3> QED
      BY <3>2 DEF SettledInv, PageComplete, ClosedOnlyWhenSettled, Settled
  <2> QED
    BY <2>1, <2>2
<1> QED
  BY <1>1, <1>2, PTL DEF OpenSpec, WholePages

\* As long as no poll asks for more than a page, a closed request is decided, whoever
\* else writes vehicles.
THEOREM OpenClosedSettled == OpenSpec /\ WholePages => []ClosedOnlyWhenSettled
<1>1. SettledInv => ClosedOnlyWhenSettled
  BY DEF SettledInv
<1> QED
  BY <1>1, OpenSettledInductive, PTL

\* For the ledger the others do nothing, or have OEM1 accept one more request.
LEMMA OthersLedger ==
    ASSUME CoreInv, OthersStep
    PROVE  [Ledger!Next]_Ledger!ledger
<1>1. CASE OthersWriteTables
  BY <1>1, SamePhase, SameOem, LedgerStutter DEF OthersWriteTables
<1>2. CASE OthersAskOem
  BY <1>2, LedgerAccept DEF OthersAskOem, tables, Ledger!Next
<1> QED
  BY <1>1, <1>2 DEF OthersStep

\* The request ledger is implemented among all these writers too, as long as no poll
\* asks for more than a page: it depends on no vehicle row and no membership.
THEOREM OpenLedgerRefined == OpenSpec /\ WholePages => LedgerImplemented
<1>1. Init => Ledger!Init
  BY LedgerInit
<1>2. SettledInv /\ [Next \/ OthersStep]_vars => [Ledger!Next]_Ledger!ledger
  BY LedgerStep, OthersLedger DEF SettledInv
<1> QED
  BY <1>1, <1>2, OpenSettledInductive, PTL DEF OpenSpec, LedgerImplemented, Ledger!Spec

\* So nothing happens any more to a closed request, whoever else is at work.
THEOREM OpenClosedIsOver ==
    OpenSpec /\ WholePages => []Ledger!ClosedIsDecided /\ Ledger!ClosedForGood
                                                      /\ Ledger!FinalForGood
  BY OpenLedgerRefined, LedgerKeepsPromises DEF LedgerImplemented

=============================================================================
