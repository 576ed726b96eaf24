------------------------------ MODULE Commands ------------------------------
(***************************************************************************)
(* Remote vehicle commands: the commands API Lambda that publishes a       *)
(* command over MQTT and records it, the vehicle that executes it, and the *)
(* response Lambda that folds the answers into the command's row.  Every   *)
(* answer is an asynchronous Lambda invocation of its own: answers are     *)
(* delivered in any order, more than once or never, and the handlers of    *)
(* several of them run at the same time.                                   *)
(***************************************************************************)
EXTENDS Integers, FiniteSets

CONSTANTS
    Calls,         \* API invocations
    Sovd,          \* correlation ids the callers of diagnostic commands choose
    Actuators,     \* ids the Lambda draws for actuator commands
    Ecus,          \* number of ECUs a diagnostic scan visits
    Refusals,      \* statuses the sidecar may answer with before it scans
    Outcomes,      \* statuses it may answer with after the scan, in the message
    OutcomesInS3,  \* and those it may answer with by reference to a file in S3
    AgentStatuses  \* statuses the FleetWise agent may answer with

Terminal  == {"SUCCEEDED", "PARTIAL", "FAILED"}
Interim   == {"RATE_LIMITED", "TIMEOUT", "IN_PROGRESS", "UNKNOWN"}
Reported  == Terminal \cup Interim
NoCall    == "nobody"
NoId      == "no-id"
NoEcu     == -1
Ids       == Sovd \cup Actuators
Topics    == {"sovd", "fwe", "legacy"}

ASSUME CommandsAssumption ==
    /\ Sovd \cap Actuators = {}
    /\ NoId \notin Ids
    /\ NoCall \notin Calls
    /\ Ecus \in Nat
    /\ Refusals \cup Outcomes \cup OutcomesInS3 \cup AgentStatuses \subseteq Reported

VARIABLES
    rows,       \* commands table: id -> item
    calls,      \* state of each API invocation
    published,  \* MQTT: the <<topic, id>> requests that went out
    scan,       \* sidecar: id -> ECUs visited by the running execution, or NoEcu
    inbox,      \* answers published by vehicles; any of them may be (re)delivered
    pending,    \* answers whose handler has yet to store the response body
    handled     \* history: answers whose row update has been evaluated

vars == <<rows, calls, published, scan, inbox, pending, handled>>

Row ==
    [exists   : BOOLEAN,                           \* is there an item at all
     owner    : Calls \cup {NoCall},               \* issuedBy and attestation
     status   : Reported \cup {"SENT", "unset"},
     progress : NoEcu..(Ecus - 1),                 \* progress.ecu_index
     body     : Reported \cup {"unset"},           \* status inside `response`
     s3       : BOOLEAN]                           \* s3Key set

NoRow == [exists |-> FALSE, owner |-> NoCall, status |-> "unset",
          progress |-> NoEcu, body |-> "unset", s3 |-> FALSE]

SentRow(c) == [NoRow EXCEPT !.exists = TRUE, !.owner = c, !.status = "SENT"]

Call ==
    [step  : {"idle", "publish", "legacy", "put", "resend", "done"},
     id    : Ids \cup {NoId},
     reply : {"none", "200", "400", "409", "500"}]

Answer ==
    [id     : Ids,
     topic  : Topics,
     status : Reported \cup {"PROGRESS"},
     ecu    : NoEcu..(Ecus - 1),   \* the ECU a PROGRESS message reports
     stored : BOOLEAN]             \* storage_uri present

TypeOK ==
    /\ rows \in [Ids -> Row]
    /\ calls \in [Calls -> Call]
    /\ published \subseteq Topics \X Ids
    /\ scan \in [Sovd -> NoEcu..Ecus]
    /\ inbox \subseteq Answer
    /\ pending \subseteq Answer
    /\ handled \subseteq Answer

Init ==
    /\ rows = [k \in Ids |-> NoRow]
    /\ calls = [c \in Calls |-> [step |-> "idle", id |-> NoId, reply |-> "none"]]
    /\ published = {}
    /\ scan = [k \in Sovd |-> NoEcu]
    /\ inbox = {}
    /\ pending = {}
    /\ handled = {}

-----------------------------------------------------------------------------
(* The commands API.  Validation and authorisation come first and change   *)
(* nothing; then the command is published, and only then is it recorded.   *)

vehicleSide == <<scan, inbox, pending, handled>>

Ends(c, reply) == calls' = [calls EXCEPT ![c].step = "done", ![c].reply = reply]

Goes(c, step) == calls' = [calls EXCEPT ![c].step = step]

\* A diagnostic command passes validation, with the correlation id its caller chose.
SovdArrive(c) ==
    /\ calls[c].step = "idle"
    /\ \E k \in Sovd : calls' = [calls EXCEPT ![c].step = "publish", ![c].id = k]
    /\ UNCHANGED <<rows, published, vehicleSide>>

\* An actuator command passes validation and draws a fresh id.
ActuatorArrive(c) ==
    /\ calls[c].step = "idle"
    /\ \E k \in Actuators :
          /\ \A d \in Calls : calls[d].id # k
          /\ calls' = [calls EXCEPT ![c].step = "publish", ![c].id = k]
    /\ UNCHANGED <<rows, published, vehicleSide>>

SovdPublish(c) ==
    /\ calls[c].step = "publish" /\ calls[c].id \in Sovd
    /\ published' = published \cup {<<"sovd", calls[c].id>>}
    /\ Goes(c, "put")
    /\ UNCHANGED <<rows, vehicleSide>>

\* The protobuf for the FleetWise agent, unless it could not be built.
FwePublish(c) ==
    /\ calls[c].step = "publish" /\ calls[c].id \in Actuators
    /\ published' \in {published, published \cup {<<"fwe", calls[c].id>>}}
    /\ Goes(c, "legacy")
    /\ UNCHANGED <<rows, vehicleSide>>

LegacyPublish(c) ==
    /\ calls[c].step = "legacy"
    /\ published' = published \cup {<<"legacy", calls[c].id>>}
    /\ Goes(c, "put")
    /\ UNCHANGED <<rows, vehicleSide>>

PublishFails(c) ==
    /\ calls[c].step \in {"publish", "legacy"}
    /\ Ends(c, "500")
    /\ UNCHANGED <<rows, published, vehicleSide>>

\* The session id is validated after the command has gone out.
SovdBadSession(c) ==
    /\ calls[c].step = "put" /\ calls[c].id \in Sovd
    /\ Ends(c, "400")
    /\ UNCHANGED <<rows, published, vehicleSide>>

Puts(c) == calls[c].step \in {"put", "resend"}

\* Mistake: the put replaces whatever row is there.
SovdPutAlways(c) ==
    /\ Puts(c) /\ calls[c].id \in Sovd
    /\ rows' = [rows EXCEPT ![calls[c].id] = SentRow(c)]
    /\ Ends(c, "200")
    /\ UNCHANGED <<published, vehicleSide>>

\* PutItem on condition that the command has no row; the answer decides the reply.
SovdPut(c) ==
    /\ Puts(c) /\ calls[c].id \in Sovd
    /\ IF rows[calls[c].id].exists
       THEN Ends(c, "409") /\ UNCHANGED rows
       ELSE Ends(c, "200") /\ rows' = [rows EXCEPT ![calls[c].id] = SentRow(c)]
    /\ UNCHANGED <<published, vehicleSide>>

\* PutItem without a condition.
ActuatorPut(c) ==
    /\ Puts(c) /\ calls[c].id \in Actuators
    /\ rows' = [rows EXCEPT ![calls[c].id] = SentRow(c)]
    /\ Ends(c, "200")
    /\ UNCHANGED <<published, vehicleSide>>

\* A put that lands while its answer is lost: boto3 sends it again, and a
\* conditional one is then refused for the sake of the caller's own row.
PutUnanswered(c) ==
    /\ Puts(c)
    /\ calls[c].id \in Sovd => ~rows[calls[c].id].exists
    /\ rows' = [rows EXCEPT ![calls[c].id] = SentRow(c)]
    /\ Goes(c, "resend")
    /\ UNCHANGED <<published, vehicleSide>>

\* The Lambda times out, crashes or fails to write, before its put has landed or
\* after.
CallDies(c) ==
    /\ calls[c].step \in {"publish", "legacy", "put", "resend"}
    /\ Ends(c, "none")
    /\ UNCHANGED <<rows, published, vehicleSide>>

-----------------------------------------------------------------------------
(* The vehicle.  A request that was published may be delivered again, and  *)
(* is then executed again: nothing on the vehicle remembers it.            *)

apiSide == <<rows, calls, published>>

FinalAnswer(k, topic, status, stored) ==
    [id |-> k, topic |-> topic, status |-> status, ecu |-> NoEcu, stored |-> stored]

\* Mistake: ECUs are counted from 1.
ProgressFromOne(k, e) ==
    [id |-> k, topic |-> "sovd", status |-> "PROGRESS", ecu |-> e + 1, stored |-> FALSE]

ProgressAnswer(k, e) ==
    [id |-> k, topic |-> "sovd", status |-> "PROGRESS", ecu |-> e, stored |-> FALSE]

SovdStart(k) ==
    /\ <<"sovd", k>> \in published /\ scan[k] = NoEcu
    /\ scan' = [scan EXCEPT ![k] = 0]
    /\ UNCHANGED <<apiSide, inbox, pending, handled>>

\* Rate limited, refused, or an unknown component: one answer and no scan.
SovdRefuse(k, status) ==
    /\ scan[k] = 0
    /\ scan' = [scan EXCEPT ![k] = NoEcu]
    /\ inbox' = inbox \cup {FinalAnswer(k, "sovd", status, FALSE)}
    /\ UNCHANGED <<apiSide, pending, handled>>

SovdProgress(k) ==
    /\ scan[k] # NoEcu /\ scan[k] < Ecus
    /\ scan' = [scan EXCEPT ![k] = @ + 1]
    /\ inbox' = inbox \cup {ProgressAnswer(k, scan[k])}
    /\ UNCHANGED <<apiSide, pending, handled>>

SovdFinish(k, status, stored) ==
    /\ scan[k] = Ecus
    /\ scan' = [scan EXCEPT ![k] = NoEcu]
    /\ inbox' = inbox \cup {FinalAnswer(k, "sovd", status, stored)}
    /\ UNCHANGED <<apiSide, pending, handled>>

\* The simulator answers JSON, the FleetWise agent protobuf, to the same command.
SimulatorAnswer(k, status) ==
    /\ <<"legacy", k>> \in published
    /\ inbox' = inbox \cup {FinalAnswer(k, "legacy", status, FALSE)}
    /\ UNCHANGED <<apiSide, scan, pending, handled>>

AgentAnswer(k, status) ==
    /\ <<"fwe", k>> \in published
    /\ inbox' = inbox \cup {FinalAnswer(k, "fwe", status, FALSE)}
    /\ UNCHANGED <<apiSide, scan, pending, handled>>

-----------------------------------------------------------------------------
(* The response handler.  Every row update creates the row if it is not    *)
(* there.  The dtc-history writes that end a diagnostic answer never take  *)
(* effect: they are keyed by code, the deployed table by timestamp, and    *)
(* the rejected write is only logged.                                      *)

\* Mistake: the last PROGRESS message wins.
ProgressLast(row, e) == TRUE

\* _handle_sovd_response, PROGRESS branch: ConditionExpression
ProgressAdvances(row, e) == row.progress = NoEcu \/ row.progress < e

\* Mistake: the last answer wins.
LastAnswerWins(row, status) == TRUE

\* Mistakes: one membership test for both rules, so that a terminal status is
\* always written; and no test at all for an interim one.
OneRule(row, status) ==
    status \in Terminal \/ row.status \notin Terminal
InterimAlways(row, status) ==
    status \in Terminal => (status = "SUCCEEDED" \/ row.status # "SUCCEEDED")

\* _handle_sovd_response: ConditionExpression of the status update
SovdMayWrite(row, status) ==
    CASE status = "SUCCEEDED" -> TRUE
      [] status \in Terminal \ {"SUCCEEDED"} -> row.status # "SUCCEEDED"
      [] OTHER -> row.status \notin Terminal

\* handler, protobuf and legacy JSON: ConditionExpression
ActuatorMayWrite(row, status) ==
    status = "SUCCEEDED" \/ row.status # "SUCCEEDED"

HandleProgress(m) ==
    /\ m \in inbox /\ m.status = "PROGRESS"
    /\ rows' = IF ProgressAdvances(rows[m.id], m.ecu)
               THEN [rows EXCEPT ![m.id].exists = TRUE, ![m.id].progress = m.ecu]
               ELSE rows
    /\ handled' = handled \cup {m}
    /\ UNCHANGED <<calls, published, scan, inbox, pending>>

\* A diagnostic answer: the status update, and if it was accepted and its body
\* is not in S3, the body remains to be stored.
HandleSovd(m) ==
    /\ m \in inbox /\ m.topic = "sovd" /\ m.status # "PROGRESS"
    /\ IF SovdMayWrite(rows[m.id], m.status)
       THEN /\ rows' = [rows EXCEPT ![m.id].exists = TRUE,
                                    ![m.id].status = m.status,
                                    ![m.id].s3 = @ \/ m.stored]
            /\ pending' = IF m.stored THEN pending ELSE pending \cup {m}
       ELSE UNCHANGED <<rows, pending>>
    /\ handled' = handled \cup {m}
    /\ UNCHANGED <<calls, published, scan, inbox>>

\* _persist_response_payload, a second and unconditional update.
StoreBody(m) ==
    /\ m \in pending
    /\ rows' = [rows EXCEPT ![m.id].exists = TRUE, ![m.id].body = m.status]
    /\ pending' = pending \ {m}
    /\ UNCHANGED <<calls, published, scan, inbox, handled>>

\* The body is too large, the update fails, or the handler dies first.
LoseBody(m) ==
    /\ m \in pending
    /\ pending' = pending \ {m}
    /\ UNCHANGED <<rows, calls, published, scan, inbox, handled>>

HandleActuator(m) ==
    /\ m \in inbox /\ m.topic # "sovd"
    /\ rows' = IF ActuatorMayWrite(rows[m.id], m.status)
               THEN [rows EXCEPT ![m.id].exists = TRUE, ![m.id].status = m.status]
               ELSE rows
    /\ handled' = handled \cup {m}
    /\ UNCHANGED <<calls, published, scan, inbox, pending>>

-----------------------------------------------------------------------------

CallStep(c) ==
    \/ SovdArrive(c) \/ ActuatorArrive(c)
    \/ SovdPublish(c) \/ FwePublish(c) \/ LegacyPublish(c) \/ PublishFails(c)
    \/ SovdBadSession(c) \/ SovdPut(c) \/ ActuatorPut(c) \/ PutUnanswered(c) \/ CallDies(c)

VehicleStep ==
    \/ \E k \in Sovd :
          \/ SovdStart(k) \/ SovdProgress(k)
          \/ \E status \in Refusals : SovdRefuse(k, status)
          \/ \E status \in Outcomes : SovdFinish(k, status, FALSE)
          \/ \E status \in OutcomesInS3 : SovdFinish(k, status, TRUE)
    \/ \E k \in Actuators :
          \/ \E status \in {"SUCCEEDED", "FAILED"} : SimulatorAnswer(k, status)
          \/ \E status \in AgentStatuses : AgentAnswer(k, status)

Handle(m) == HandleProgress(m) \/ HandleSovd(m) \/ HandleActuator(m)

Next ==
    \/ \E c \in Calls : CallStep(c)
    \/ VehicleStep
    \/ \E m \in inbox : Handle(m)
    \/ \E m \in pending : StoreBody(m) \/ LoseBody(m)

Spec == Init /\ [][Next]_vars

\* A vehicle need not answer, a body may be lost, and a PROGRESS update that
\* fails is only logged; but every final answer that was published is handled at
\* least once: they are finitely many, and IoT Core and the asynchronous
\* invocation retry what failed.
HandleFinal == \E m \in inbox \ handled : HandleSovd(m) \/ HandleActuator(m)

FairSpec == Spec /\ WF_vars(HandleFinal)

-----------------------------------------------------------------------------
(* Properties *)

\* From a missing row to the outcome no later answer may change.
Rank(status) ==
    CASE status = "unset" -> 0
      [] status = "SENT" -> 1
      [] status \in Interim -> 2
      [] status \in {"PARTIAL", "FAILED"} -> 3
      [] status = "SUCCEEDED" -> 4

AnswersTo(k) == {m \in handled : m.id = k /\ m.status # "PROGRESS"}

\* A diagnostic command's row shows the best of the answers handled so far, in
\* whatever order and however often they came: none of them is better, and the
\* status is one that was really answered.
BestAnswerWins ==
    \A k \in Sovd :
        /\ \A m \in AnswersTo(k) : Rank(m.status) <= Rank(rows[k].status)
        /\ rows[k].status \in Reported =>
              \E m \in AnswersTo(k) : m.status = rows[k].status

\* The stored progress is that of the furthest ECU reported so far.
ProgressIsLatest ==
    \A k \in Sovd :
        LET told == {m \in handled : m.id = k /\ m.status = "PROGRESS"} IN
        /\ \A m \in told : m.ecu <= rows[k].progress
        /\ rows[k].progress # NoEcu => \E m \in told : m.ecu = rows[k].progress

\* The response body is stored by a later write than the status, so it may be
\* that of another answer; but it is never a better outcome than the status.
BodyNeverBetter ==
    \A k \in Sovd :
        /\ Rank(rows[k].body) <= Rank(rows[k].status)
        /\ \A m \in pending : m.id = k => Rank(m.status) <= Rank(rows[k].status)

\* Of the callers that chose the same correlation id only the one on record may be
\* told that the command is accepted, so never two; whoever is on record asked for
\* this id and was not turned away before its put; and a conflict is told of an id
\* that is taken.  (A caller on record need not have been accepted: its put may
\* have landed with the answer lost.)
AcceptedOwnsRow ==
    \A c \in Calls, k \in Sovd :
        /\ calls[c].id = k /\ calls[c].reply = "200" => rows[k].owner = c
        /\ calls[c].id = k /\ calls[c].reply = "409" => rows[k].exists
        /\ rows[k].owner = c =>
              /\ calls[c].id = k /\ calls[c].step \in {"resend", "done"}
              /\ calls[c].reply \notin {"400", "500"}

\* A succeeded actuator command is not taken back by a slower responder that
\* failed: only the put of its own sender can do that.
SuccessKept ==
    [][\A k \in Actuators :
          rows[k].status = "SUCCEEDED" /\ rows'[k].status # "SUCCEEDED" =>
              \E c \in Calls : calls[c].id = k /\ Puts(c)
                                               /\ calls'[c].step \in {"resend", "done"}]_vars

SovdOwner   == [k \in Sovd |-> rows[k].owner]
SovdOutcome == [k \in Sovd |-> Rank(rows[k].status)]

Outcome == INSTANCE CommandOutcome WITH
    Commands <- Sovd, Callers <- Calls, Nobody <- NoCall, Best <- 4,
    owner <- SovdOwner, outcome <- SovdOutcome

\* A diagnostic command's row gets one owner, before any answer or not at all,
\* and from then on its status only improves.
OutcomeImplemented == Outcome!Spec

\* A success the vehicle reported reaches the row of a diagnostic command and
\* stays there, whatever else the vehicle answers or the callers do.
SuccessReachesRow ==
    \A k \in Sovd :
        (\E m \in inbox : m.id = k /\ m.status = "SUCCEEDED")
            ~> [](rows[k].status = "SUCCEEDED")

=============================================================================
