--------------------------- MODULE CommandsProofs ---------------------------
(***************************************************************************)
(* Proofs about Commands, for every value of its constants: the inductive  *)
(* invariant, the safety properties it implies, and the step simulation of *)
(* CommandOutcome.                                                         *)
(***************************************************************************)
EXTENDS Commands, TLAPS

-----------------------------------------------------------------------------
(* The inductive invariant, in named parts. *)

\* Answers on the diagnostic topic are those to diagnostic commands; only they
\* report progress, of some ECU; a body still to be stored is one of a handled
\* diagnostic answer.
AnswerInv ==
    /\ handled \subseteq inbox
    /\ \A m \in inbox :
          /\ m.topic = "sovd" <=> m.id \in Sovd
          /\ m.status = "PROGRESS" => m.topic = "sovd" /\ m.ecu # NoEcu
    /\ \A m \in pending : m \in handled /\ m.topic = "sovd" /\ m.status # "PROGRESS"

\* A call that is not done has no reply; one that has not begun has no command.
CallInv ==
    \A c \in Calls :
        /\ calls[c].step # "done" => calls[c].reply = "none"
        /\ calls[c].step = "idle" => calls[c].id = NoId
        /\ calls[c].step \in {"publish", "legacy", "put", "resend"} => calls[c].id \in Ids

\* The put of a caller lands in the row of its diagnostic command.
Lands(c, k) ==
    /\ SovdPut(c) \/ PutUnanswered(c)
    /\ calls[c].id = k /\ ~rows[k].exists

MissingRow == \A k \in Sovd : ~rows[k].exists => rows[k] = NoRow

IInv ==
    /\ TypeOK /\ AnswerInv /\ CallInv /\ MissingRow
    /\ BestAnswerWins /\ ProgressIsLatest /\ BodyNeverBetter /\ AcceptedOwnsRow

-----------------------------------------------------------------------------
(* Statuses and types *)

LEMMA RankType ==
    \A s \in Reported \cup {"SENT", "unset"} :
        /\ Rank(s) \in 0..4
        /\ s \in Reported <=> Rank(s) >= 2
        /\ Rank(s) = 0 <=> s = "unset"
        /\ s = "SENT" => Rank(s) = 1
  BY DEF Rank, Reported, Terminal, Interim

\* What the three rules of the status update come to.
LEMMA MayWriteRank ==
    ASSUME NEW row, NEW s \in Reported, row.status \in Reported \cup {"SENT", "unset"}
    PROVE  /\ SovdMayWrite(row, s) => Rank(row.status) <= Rank(s)
           /\ ~SovdMayWrite(row, s) => Rank(s) <= Rank(row.status)
<1> DEFINE t == row.status
<1>1. t \in Reported \cup {"SENT", "unset"}
  OBVIOUS
<1>2. SovdMayWrite(row, s) <=>
        CASE s = "SUCCEEDED" -> TRUE
          [] s \in Terminal \ {"SUCCEEDED"} -> t # "SUCCEEDED"
          [] OTHER -> t \notin Terminal
  BY DEF SovdMayWrite
<1> HIDE DEF t
<1>3. (s = "SUCCEEDED" \/ (s \in Terminal \ {"SUCCEEDED"} /\ t # "SUCCEEDED")
         \/ (s \notin Terminal /\ t \notin Terminal)) => Rank(t) <= Rank(s)
  BY <1>1 DEF Rank, Reported, Terminal, Interim
<1>4. ((s \in Terminal \ {"SUCCEEDED"} /\ t = "SUCCEEDED")
         \/ (s \notin Terminal /\ t \in Terminal)) => Rank(s) <= Rank(t)
  BY <1>1 DEF Rank, Reported, Terminal, Interim
<1>5. SovdMayWrite(row, s) => Rank(t) <= Rank(s)
  BY <1>2, <1>3 DEF Terminal
<1>6. ~SovdMayWrite(row, s) => Rank(s) <= Rank(t)
  BY <1>2, <1>4 DEF Terminal
<1> QED
  BY <1>5, <1>6 DEF t

LEMMA RowType ==
    ASSUME NEW row \in Row
    PROVE  /\ NoRow \in Row /\ \A c \in Calls : SentRow(c) \in Row
           /\ \A s \in Reported, b \in BOOLEAN :
                 [row EXCEPT !.exists = TRUE, !.status = s, !.s3 = b] \in Row
           /\ \A s \in Reported :
                 /\ [row EXCEPT !.exists = TRUE, !.status = s] \in Row
                 /\ [row EXCEPT !.exists = TRUE, !.body = s] \in Row
           /\ \A e \in NoEcu..(Ecus - 1) :
                 [row EXCEPT !.exists = TRUE, !.progress = e] \in Row
<1>1. NoRow \in Row
  BY CommandsAssumption DEF NoRow, Row, NoEcu
<1>2. \A c \in Calls : SentRow(c) \in Row
  BY <1>1 DEF SentRow, Row
<1> QED
  BY <1>1, <1>2 DEF Row

LEMMA InitType == Init => TypeOK
<1>1. NoRow \in Row
  BY CommandsAssumption DEF NoRow, Row, NoEcu
<1>2. Init => /\ scan \in [Sovd -> NoEcu..Ecus]
              /\ rows \in [Ids -> Row]
              /\ calls \in [Calls -> Call]
  BY <1>1, CommandsAssumption DEF Init, Call, NoEcu
<1> QED
  BY <1>2 DEF Init, TypeOK

LEMMA CallType ==
    ASSUME TypeOK, CallInv, NEW c \in Calls, CallStep(c)
    PROVE  TypeOK'
<1>1. Ends(c, "none") \/ Ends(c, "200") \/ Ends(c, "400") \/ Ends(c, "409")
        \/ Ends(c, "500") => calls' \in [Calls -> Call]
  BY DEF TypeOK, Call, Ends
<1>2. Goes(c, "put") \/ Goes(c, "legacy") \/ Goes(c, "resend") => calls' \in [Calls -> Call]
  BY DEF TypeOK, Call, Goes
<1>3. CASE SovdArrive(c)
  <2>1. PICK k \in Sovd : calls' = [calls EXCEPT ![c].step = "publish", ![c].id = k]
    BY <1>3 DEF SovdArrive
  <2>2. calls' \in [Calls -> Call]
    BY <2>1 DEF TypeOK, Call, Ids
  <2> QED
    BY <1>3, <2>2 DEF SovdArrive, vehicleSide, TypeOK
<1>4. CASE ActuatorArrive(c)
  <2>1. PICK k \in Actuators : calls' = [calls EXCEPT ![c].step = "publish", ![c].id = k]
    BY <1>4 DEF ActuatorArrive
  <2>2. calls' \in [Calls -> Call]
    BY <2>1 DEF TypeOK, Call, Ids
  <2> QED
    BY <1>4, <2>2 DEF ActuatorArrive, vehicleSide, TypeOK
<1>5. CASE SovdPublish(c)
  <2>1. published' \subseteq Topics \X Ids
    BY <1>5 DEF SovdPublish, TypeOK, Topics, Ids
  <2> QED
    BY <1>2, <1>5, <2>1 DEF SovdPublish, vehicleSide, TypeOK
<1>6. CASE FwePublish(c)
  <2>1. published' \subseteq Topics \X Ids
    BY <1>6 DEF FwePublish, TypeOK, Topics, Ids
  <2> QED
    BY <1>2, <1>6, <2>1 DEF FwePublish, vehicleSide, TypeOK
<1>7. CASE LegacyPublish(c)
  <2>1. published' \subseteq Topics \X Ids
    BY <1>7 DEF LegacyPublish, TypeOK, Topics, CallInv
  <2> QED
    BY <1>2, <1>7, <2>1 DEF LegacyPublish, vehicleSide, TypeOK
<1>8. CASE PublishFails(c) \/ SovdBadSession(c) \/ CallDies(c)
  BY <1>1, <1>8 DEF PublishFails, SovdBadSession, CallDies, vehicleSide, TypeOK
<1>9. CASE SovdPut(c) \/ ActuatorPut(c) \/ PutUnanswered(c)
  <2>1. calls[c].id \in Ids /\ rows[calls[c].id] \in Row
    BY <1>9 DEF SovdPut, ActuatorPut, PutUnanswered, Puts, CallInv, TypeOK, Ids
  <2>2. SentRow(c) \in Row
    BY <2>1, RowType
  <2>3. rows' \in [Ids -> Row]
    BY <1>9, <2>2 DEF SovdPut, ActuatorPut, PutUnanswered, TypeOK
  <2>4. calls' \in [Calls -> Call]
    BY <1>1, <1>2, <1>9 DEF SovdPut, ActuatorPut, PutUnanswered
  <2> QED
    BY <1>9, <2>3, <2>4 DEF SovdPut, ActuatorPut, PutUnanswered, vehicleSide, TypeOK
<1> QED
  BY <1>3, <1>4, <1>5, <1>6, <1>7, <1>8, <1>9 DEF CallStep

LEMMA FinalAnswerType ==
    \A k \in Ids, t \in Topics, s \in Reported, b \in BOOLEAN :
        FinalAnswer(k, t, s, b) \in Answer
  BY CommandsAssumption DEF FinalAnswer, Answer, NoEcu

LEMMA ProgressAnswerType ==
    \A k \in Sovd, e \in 0..(Ecus - 1) : ProgressAnswer(k, e) \in Answer
  BY CommandsAssumption DEF ProgressAnswer, Answer, NoEcu, Ids, Topics

LEMMA VehicleType == TypeOK /\ VehicleStep => TypeOK'
<1> SUFFICES ASSUME TypeOK, VehicleStep PROVE TypeOK'
  OBVIOUS
<1> USE CommandsAssumption
<1>1. ASSUME NEW k \in Sovd, SovdStart(k) PROVE TypeOK'
  BY <1>1 DEF SovdStart, apiSide, TypeOK, NoEcu
<1>2. ASSUME NEW k \in Sovd, SovdProgress(k) PROVE TypeOK'
  <2>1. scan[k] \in 0..(Ecus - 1)
    BY <1>2 DEF SovdProgress, TypeOK, NoEcu
  <2>2. inbox' \subseteq Answer
    BY <1>2, <2>1, ProgressAnswerType DEF SovdProgress, TypeOK
  <2>3. scan' \in [Sovd -> NoEcu..Ecus]
    BY <1>2, <2>1 DEF SovdProgress, TypeOK, NoEcu
  <2> QED
    BY <1>2, <2>2, <2>3 DEF SovdProgress, apiSide, TypeOK
<1>3. ASSUME NEW k \in Sovd, NEW s \in Reported, NEW b \in BOOLEAN,
             SovdRefuse(k, s) \/ SovdFinish(k, s, b)
      PROVE  TypeOK'
  <2>1. FinalAnswer(k, "sovd", s, FALSE) \in Answer /\ FinalAnswer(k, "sovd", s, b) \in Answer
    BY FinalAnswerType DEF Ids, Topics
  <2>2. inbox' \subseteq Answer
    <3>1. CASE SovdRefuse(k, s)
      BY <2>1, <3>1 DEF SovdRefuse, TypeOK
    <3>2. CASE SovdFinish(k, s, b)
      BY <2>1, <3>2 DEF SovdFinish, TypeOK
    <3> QED
      BY <1>3, <3>1, <3>2
  <2>3. NoEcu \in NoEcu..Ecus
    BY DEF NoEcu
  <2>4. scan' = [scan EXCEPT ![k] = NoEcu]
    BY <1>3 DEF SovdRefuse, SovdFinish
  <2>5. scan' \in [Sovd -> NoEcu..Ecus]
    BY <2>3, <2>4 DEF TypeOK
  <2> QED
    BY <1>3, <2>2, <2>5 DEF SovdRefuse, SovdFinish, apiSide, TypeOK
<1>4. ASSUME NEW k \in Actuators, NEW s \in Reported,
             SimulatorAnswer(k, s) \/ AgentAnswer(k, s)
      PROVE  TypeOK'
  <2>1. FinalAnswer(k, "legacy", s, FALSE) \in Answer /\ FinalAnswer(k, "fwe", s, FALSE) \in Answer
    BY FinalAnswerType DEF Ids, Topics
  <2>2. inbox' \subseteq Answer
    BY <1>4, <2>1 DEF SimulatorAnswer, AgentAnswer, TypeOK
  <2> QED
    BY <1>4, <2>2 DEF SimulatorAnswer, AgentAnswer, apiSide, TypeOK
<1>5. {"SUCCEEDED", "FAILED"} \subseteq Reported
  BY DEF Reported, Terminal
<1> QED
  BY <1>1, <1>2, <1>3, <1>4, <1>5 DEF VehicleStep

LEMMA HandlerType ==
    ASSUME TypeOK, AnswerInv, NEW m,
           (m \in inbox /\ Handle(m)) \/ StoreBody(m) \/ LoseBody(m)
    PROVE  TypeOK'
<1>1. m \in Answer
  BY DEF TypeOK, StoreBody, LoseBody
<1>2. m.id \in Ids /\ rows[m.id] \in Row /\ m.stored \in BOOLEAN
      /\ m.ecu \in NoEcu..(Ecus - 1) /\ m.status \in Reported \cup {"PROGRESS"}
  BY <1>1 DEF TypeOK, Answer
<1> DEFINE row == rows[m.id]
<1>3. row.s3 \in BOOLEAN
  BY <1>2 DEF Row
<1>4. (row.s3 \/ m.stored) \in BOOLEAN
  BY <1>2, <1>3
<1>5. CASE HandleProgress(m)
  <2>1. [row EXCEPT !.exists = TRUE, !.progress = m.ecu] \in Row
    BY <1>2, RowType
  <2> QED
    BY <1>1, <1>5, <2>1 DEF HandleProgress, TypeOK
<1>6. CASE HandleSovd(m)
  <2>1. m.status \in Reported
    BY <1>2, <1>6 DEF HandleSovd
  <2>2. [row EXCEPT !.exists = TRUE, !.status = m.status, !.s3 = row.s3 \/ m.stored] \in Row
    BY <1>2, <1>4, <2>1, RowType
  <2>3. rows' \in [Ids -> Row]
    BY <1>2, <1>6, <2>2 DEF HandleSovd, TypeOK
  <2> QED
    BY <1>1, <1>6, <2>3 DEF HandleSovd, TypeOK
<1>7. CASE HandleActuator(m)
  <2>1. m.status \in Reported
    BY <1>2, <1>7 DEF HandleActuator, AnswerInv
  <2>2. [row EXCEPT !.exists = TRUE, !.status = m.status] \in Row
    BY <1>2, <2>1, RowType
  <2> QED
    BY <1>1, <1>2, <1>7, <2>2 DEF HandleActuator, TypeOK
<1>8. CASE StoreBody(m)
  <2>1. m.status \in Reported
    BY <1>2, <1>8 DEF StoreBody, AnswerInv
  <2>2. [row EXCEPT !.exists = TRUE, !.body = m.status] \in Row
    BY <1>2, <2>1, RowType
  <2> QED
    BY <1>1, <1>2, <1>8, <2>2 DEF StoreBody, TypeOK
<1>9. CASE LoseBody(m)
  BY <1>9 DEF LoseBody, TypeOK
<1> QED
  BY <1>5, <1>6, <1>7, <1>8, <1>9 DEF Handle

-----------------------------------------------------------------------------
(* Answers, calls and owners *)

LEMMA AnswerStep ==
    ASSUME TypeOK, AnswerInv, Next \/ UNCHANGED vars
    PROVE  AnswerInv'
<1>1. CASE UNCHANGED vehicleSide
  BY <1>1 DEF vehicleSide, AnswerInv
<1>2. ASSUME NEW c \in Calls, CallStep(c) PROVE AnswerInv'
  <2>1. UNCHANGED vehicleSide
    BY <1>2 DEF CallStep, SovdArrive, ActuatorArrive, SovdPublish, FwePublish,
                LegacyPublish, PublishFails, SovdBadSession, SovdPut, ActuatorPut, PutUnanswered, CallDies
  <2> QED
    BY <1>1, <2>1
<1>3. CASE VehicleStep
  <2>1. ASSUME NEW a, inbox' = inbox \cup {a}, UNCHANGED <<pending, handled>>,
               a.topic = "sovd" <=> a.id \in Sovd,
               a.status = "PROGRESS" => a.topic = "sovd" /\ a.ecu # NoEcu
        PROVE  AnswerInv'
    BY <2>1 DEF AnswerInv
  <2>2. ASSUME NEW k \in Sovd, SovdStart(k) PROVE AnswerInv'
    BY <2>2 DEF SovdStart, AnswerInv
  <2>3. ASSUME NEW k \in Sovd, SovdProgress(k) PROVE AnswerInv'
    <3>1. scan[k] # NoEcu
      BY <2>3 DEF SovdProgress
    <3>2. /\ ProgressAnswer(k, scan[k]).topic = "sovd"
          /\ ProgressAnswer(k, scan[k]).id = k
          /\ ProgressAnswer(k, scan[k]).ecu # NoEcu
      BY <3>1 DEF ProgressAnswer
    <3> QED
      BY <2>1, <2>3, <3>2 DEF SovdProgress
  <2>4. ASSUME NEW k \in Ids, NEW t, NEW st \in Reported, NEW b,
               t = "sovd" <=> k \in Sovd,
               inbox' = inbox \cup {FinalAnswer(k, t, st, b)},
               UNCHANGED <<pending, handled>>
        PROVE  AnswerInv'
    <3>1. /\ FinalAnswer(k, t, st, b).topic = t
          /\ FinalAnswer(k, t, st, b).id = k
          /\ FinalAnswer(k, t, st, b).status = st
      BY DEF FinalAnswer
    <3>2. st # "PROGRESS"
      BY DEF Reported, Terminal, Interim
    <3> QED
      BY <2>1, <2>4, <3>1, <3>2
  <2>5. ASSUME NEW k \in Sovd, NEW st \in Reported, NEW b,
               SovdRefuse(k, st) \/ SovdFinish(k, st, b)
        PROVE  AnswerInv'
    <3>1. CASE SovdRefuse(k, st)
      BY <2>4, <3>1 DEF SovdRefuse, Ids
    <3>2. CASE SovdFinish(k, st, b)
      BY <2>4, <3>2 DEF SovdFinish, Ids
    <3> QED
      BY <2>5, <3>1, <3>2
  <2>6. ASSUME NEW k \in Actuators, NEW st \in Reported,
               SimulatorAnswer(k, st) \/ AgentAnswer(k, st)
        PROVE  AnswerInv'
    <3>1. k \in Ids /\ k \notin Sovd
      BY CommandsAssumption DEF Ids
    <3>2. ("legacy" = "sovd" <=> k \in Sovd) /\ ("fwe" = "sovd" <=> k \in Sovd)
      BY <3>1
    <3>3. CASE SimulatorAnswer(k, st)
      <4>1. inbox' = inbox \cup {FinalAnswer(k, "legacy", st, FALSE)}
        BY <3>3 DEF SimulatorAnswer
      <4> QED
        BY <2>4, <3>1, <3>2, <3>3, <4>1 DEF SimulatorAnswer
    <3>4. CASE AgentAnswer(k, st)
      <4>1. inbox' = inbox \cup {FinalAnswer(k, "fwe", st, FALSE)}
        BY <3>4 DEF AgentAnswer
      <4> QED
        BY <2>4, <3>1, <3>2, <3>4, <4>1 DEF AgentAnswer
    <3> QED
      BY <2>6, <3>3, <3>4
  <2>7. {"SUCCEEDED", "FAILED"} \subseteq Reported
    BY DEF Reported, Terminal
  <2> QED
    BY <1>3, <2>2, <2>3, <2>5, <2>6, <2>7, CommandsAssumption DEF VehicleStep
<1>4. ASSUME NEW m \in inbox, Handle(m) PROVE AnswerInv'
  <2>1. CASE HandleProgress(m)
    BY <1>4, <2>1 DEF HandleProgress, AnswerInv
  <2>2. CASE HandleSovd(m)
    BY <1>4, <2>2 DEF HandleSovd, AnswerInv
  <2>3. CASE HandleActuator(m)
    BY <1>4, <2>3 DEF HandleActuator, AnswerInv
  <2> QED
    BY <1>4, <2>1, <2>2, <2>3 DEF Handle
<1>5. ASSUME NEW m \in pending, StoreBody(m) \/ LoseBody(m) PROVE AnswerInv'
  BY <1>5 DEF StoreBody, LoseBody, AnswerInv
<1>6. CASE UNCHANGED vars
  BY <1>1, <1>6 DEF vars, vehicleSide
<1> QED
  BY <1>2, <1>3, <1>4, <1>5, <1>6 DEF Next

\* The vehicle and the response handler leave the calls alone.
LEMMA CallsKept ==
    VehicleStep \/ (\E m : Handle(m) \/ StoreBody(m) \/ LoseBody(m)) => UNCHANGED calls
  BY DEF VehicleStep, Handle, SovdStart, SovdRefuse, SovdProgress, SovdFinish,
         SimulatorAnswer, AgentAnswer, apiSide, HandleProgress, HandleSovd,
         HandleActuator, StoreBody, LoseBody

LEMMA CallInvStep ==
    ASSUME TypeOK, CallInv, Next \/ UNCHANGED vars
    PROVE  CallInv'
<1>1. CASE UNCHANGED calls
  BY <1>1 DEF CallInv
<1>2. ASSUME NEW c \in Calls, CallStep(c) PROVE CallInv'
  <2>1. ASSUME NEW reply, Ends(c, reply) PROVE CallInv'
    BY <2>1 DEF Ends, CallInv, TypeOK, Call
  <2>2. CASE Goes(c, "put") /\ calls[c].step \in {"publish", "legacy"}
    BY <2>2 DEF Goes, CallInv, TypeOK, Call
  <2>3. CASE Goes(c, "legacy") /\ calls[c].step \in {"publish", "legacy"}
    BY <2>3 DEF Goes, CallInv, TypeOK, Call
  <2>4. CASE SovdArrive(c) \/ ActuatorArrive(c)
    <3>1. PICK k \in Ids : calls' = [calls EXCEPT ![c].step = "publish", ![c].id = k]
      BY <2>4 DEF SovdArrive, ActuatorArrive, Ids
    <3>2. calls[c].step = "idle" /\ calls[c].reply = "none"
      BY <2>4 DEF SovdArrive, ActuatorArrive, CallInv
    <3> QED
      BY <3>1, <3>2 DEF CallInv, TypeOK, Call
  <2>5. CASE SovdPublish(c) \/ FwePublish(c) \/ LegacyPublish(c)
    BY <2>2, <2>3, <2>5 DEF SovdPublish, FwePublish, LegacyPublish
  <2>6. CASE PublishFails(c) \/ SovdBadSession(c) \/ SovdPut(c) \/ ActuatorPut(c) \/ CallDies(c)
    BY <2>1, <2>6 DEF PublishFails, SovdBadSession, SovdPut, ActuatorPut, CallDies
  <2>7. CASE PutUnanswered(c)
    <3>1. calls[c].reply = "none" /\ calls[c].id \in Ids
      BY <2>7 DEF PutUnanswered, Puts, CallInv
    <3> QED
      BY <2>7, <3>1 DEF PutUnanswered, Goes, CallInv, TypeOK, Call
  <2> QED
    BY <1>2, <2>4, <2>5, <2>6, <2>7 DEF CallStep
<1> QED
  BY <1>1, <1>2, CallsKept DEF Next, vars

\* What a step does to the row of a diagnostic command: nothing, unless it is
\* the put of a caller, or the handling of an answer to it.
LEMMA RowMoves ==
    ASSUME TypeOK, AnswerInv, Next \/ UNCHANGED vars, NEW k \in Sovd
    PROVE  \/ UNCHANGED <<rows[k], handled>> /\ pending' \subseteq pending
           \/ \E m \in inbox : /\ m.id # k
                               /\ rows'[k] = rows[k]
                               /\ handled' = handled \cup {m}
                               /\ pending' \subseteq pending \cup {m}
           \/ \E c \in Calls : Lands(c, k)
           \/ \E m \in inbox : m.id = k /\ (HandleProgress(m) \/ HandleSovd(m))
           \/ \E m \in pending : m.id = k /\ StoreBody(m)
<1>0. k \in Ids
  BY DEF Ids
<1>1. ASSUME NEW c \in Calls, CallStep(c)
      PROVE  \/ UNCHANGED <<rows[k], handled>> /\ pending' \subseteq pending
             \/ Lands(c, k)
  <2>1. UNCHANGED <<pending, handled>>
    BY <1>1 DEF CallStep, vehicleSide, SovdArrive, ActuatorArrive, SovdPublish, FwePublish,
                LegacyPublish, PublishFails, SovdBadSession, SovdPut, ActuatorPut, PutUnanswered, CallDies
  <2>2. CASE ActuatorPut(c)
    <3>1. calls[c].id # k
      BY <2>2, CommandsAssumption DEF ActuatorPut
    <3>2. rows'[k] = rows[k]
      BY <1>0, <2>2, <3>1 DEF ActuatorPut, TypeOK
    <3> QED
      BY <2>1, <3>2
  <2>3. CASE SovdPut(c)
    <3>1. CASE rows[calls[c].id].exists
      BY <2>1, <2>3, <3>1 DEF SovdPut
    <3>2. CASE ~rows[calls[c].id].exists /\ calls[c].id # k
      <4>1. rows' = [rows EXCEPT ![calls[c].id] = SentRow(c)]
        BY <2>3, <3>2 DEF SovdPut
      <4>2. rows'[k] = rows[k]
        BY <1>0, <3>2, <4>1 DEF TypeOK
      <4> QED
        BY <2>1, <4>2
    <3> QED
      BY <2>3, <3>1, <3>2 DEF Lands
  <2>5. CASE PutUnanswered(c)
    <3>1. CASE calls[c].id = k
      BY <2>5, <3>1 DEF PutUnanswered, Lands
    <3>2. CASE calls[c].id # k
      <4>1. rows'[k] = rows[k]
        BY <1>0, <2>5, <3>2 DEF PutUnanswered, TypeOK
      <4> QED
        BY <2>1, <4>1
    <3> QED
      BY <3>1, <3>2
  <2>4. CASE ~ActuatorPut(c) /\ ~SovdPut(c) /\ ~PutUnanswered(c)
    <3>1. UNCHANGED rows
      BY <1>1, <2>4 DEF CallStep, SovdArrive, ActuatorArrive, SovdPublish, FwePublish,
                LegacyPublish, PublishFails, SovdBadSession, CallDies
    <3> QED
      BY <2>1, <3>1
  <2> QED
    BY <2>2, <2>3, <2>4, <2>5
<1>2. CASE VehicleStep
  BY <1>2 DEF VehicleStep, SovdStart, SovdRefuse, SovdProgress, SovdFinish,
              SimulatorAnswer, AgentAnswer, apiSide
<1>3. ASSUME NEW m \in inbox, Handle(m)
      PROVE  \/ /\ m.id # k
                /\ rows'[k] = rows[k]
                /\ handled' = handled \cup {m}
                /\ pending' \subseteq pending \cup {m}
             \/ m.id = k /\ (HandleProgress(m) \/ HandleSovd(m))
  <2>2. CASE m.id # k
    <3>1. CASE HandleProgress(m)
      BY <1>0, <2>2, <3>1 DEF HandleProgress, TypeOK
    <3>2. CASE HandleSovd(m)
      BY <1>0, <2>2, <3>2 DEF HandleSovd, TypeOK
    <3>3. CASE HandleActuator(m)
      BY <1>0, <2>2, <3>3 DEF HandleActuator, TypeOK
    <3> QED
      BY <1>3, <3>1, <3>2, <3>3 DEF Handle
  <2>3. CASE m.id = k
    BY <1>3, <2>3 DEF Handle, HandleActuator, AnswerInv
  <2> QED
    BY <2>2, <2>3
<1>4. ASSUME NEW m \in pending, StoreBody(m) \/ LoseBody(m)
      PROVE  \/ UNCHANGED <<rows[k], handled>> /\ pending' \subseteq pending
             \/ m.id = k /\ StoreBody(m)
  <2>1. CASE LoseBody(m)
    BY <2>1 DEF LoseBody
  <2>2. CASE StoreBody(m) /\ m.id # k
    BY <1>0, <2>2 DEF StoreBody, TypeOK
  <2> QED
    BY <1>4, <2>1, <2>2
<1>5. CASE UNCHANGED vars
  BY <1>5 DEF vars
<1> QED
  BY <1>1, <1>2, <1>3, <1>4, <1>5 DEF Next

\* Everything the invariant says of one diagnostic command's row.
RowInv(k) ==
    LET row == rows[k] IN
    /\ ~row.exists => row = NoRow
    /\ \A m \in handled : m.id = k /\ m.status # "PROGRESS" => Rank(m.status) <= Rank(row.status)
    /\ row.status \in Reported =>
          \E m \in handled : m.id = k /\ m.status # "PROGRESS" /\ m.status = row.status
    /\ \A m \in handled : m.id = k /\ m.status = "PROGRESS" => m.ecu <= row.progress
    /\ row.progress # NoEcu =>
          \E m \in handled : m.id = k /\ m.status = "PROGRESS" /\ m.ecu = row.progress
    /\ Rank(row.body) <= Rank(row.status)
    /\ \A m \in pending : m.id = k => Rank(m.status) <= Rank(row.status)

LEMMA RowInvs ==
    (MissingRow /\ BestAnswerWins /\ ProgressIsLatest /\ BodyNeverBetter)
        <=> \A k \in Sovd : RowInv(k)
<1>1. MissingRow <=> \A k \in Sovd : ~rows[k].exists => rows[k] = NoRow
  BY DEF MissingRow
<1>2. BestAnswerWins <=>
        \A k \in Sovd :
          /\ \A m \in handled : m.id = k /\ m.status # "PROGRESS"
                                  => Rank(m.status) <= Rank(rows[k].status)
          /\ rows[k].status \in Reported =>
                \E m \in handled : /\ m.id = k /\ m.status # "PROGRESS"
                                   /\ m.status = rows[k].status
  BY DEF BestAnswerWins, AnswersTo
<1>3. ProgressIsLatest <=>
        \A k \in Sovd :
          /\ \A m \in handled : m.id = k /\ m.status = "PROGRESS" => m.ecu <= rows[k].progress
          /\ rows[k].progress # NoEcu =>
                \E m \in handled : /\ m.id = k /\ m.status = "PROGRESS"
                                   /\ m.ecu = rows[k].progress
  BY DEF ProgressIsLatest
<1>4. BodyNeverBetter <=>
        \A k \in Sovd :
          /\ Rank(rows[k].body) <= Rank(rows[k].status)
          /\ \A m \in pending : m.id = k => Rank(m.status) <= Rank(rows[k].status)
  BY DEF BodyNeverBetter
<1> QED
  BY <1>1, <1>2, <1>3, <1>4 DEF RowInv

\* A step that leaves the row alone and handles nothing for it.
LEMMA RowKept ==
    ASSUME NEW k \in Sovd, RowInv(k), rows'[k] = rows[k],
           handled \subseteq handled',
           \A m \in handled' : m.id = k => m \in handled,
           \A m \in pending' : m.id = k => m \in pending
    PROVE  RowInv(k)'
  BY DEF RowInv

LEMMA RowOf ==
    ASSUME TypeOK, NEW k \in Sovd
    PROVE  /\ k \in Ids
           /\ rows[k] \in Row
           /\ rows[k].status \in Reported \cup {"SENT", "unset"}
           /\ rows[k].body \in Reported \cup {"unset"}
           /\ rows[k].progress \in NoEcu..(Ecus - 1)
  BY DEF TypeOK, Row, Ids

LEMMA AnswerOf ==
    ASSUME TypeOK, AnswerInv, NEW m \in inbox
    PROVE  /\ m.status \in Reported \cup {"PROGRESS"}
           /\ m.ecu \in NoEcu..(Ecus - 1)
           /\ m.status = "PROGRESS" => m.ecu # NoEcu
  BY DEF TypeOK, Answer, AnswerInv

LEMMA PutRow ==
    ASSUME TypeOK, AnswerInv, NEW k \in Sovd, RowInv(k), NEW c \in Calls,
           Lands(c, k)
    PROVE  RowInv(k)'
<1>1. /\ rows'[k] = SentRow(c)
      /\ UNCHANGED <<handled, pending>>
  BY RowOf DEF Lands, SovdPut, PutUnanswered, vehicleSide, TypeOK
<1>2. rows[k] = NoRow
  BY DEF RowInv, Lands
<1>3. rows[k].status = "unset" /\ Rank(rows[k].status) = 0 /\ rows[k].progress = NoEcu
  BY <1>2, RankType DEF NoRow
<1>4. \A m \in handled : m.id # k
  <2> SUFFICES ASSUME NEW m \in handled, m.id = k PROVE FALSE
    OBVIOUS
  <2>1. m \in inbox
    BY DEF AnswerInv
  <2>2. CASE m.status = "PROGRESS"
    <3>1. m.ecu <= NoEcu
      BY <1>3, <2>2 DEF RowInv
    <3> QED
      BY <2>1, <2>2, <3>1, AnswerOf, CommandsAssumption DEF NoEcu
  <2>3. CASE m.status # "PROGRESS"
    <3>1. m.status \in Reported /\ Rank(m.status) <= 0
      BY <1>3, <2>1, <2>3, AnswerOf DEF RowInv
    <3> QED
      BY <3>1, RankType
  <2> QED
    BY <2>2, <2>3
<1>5. \A m \in pending : m.id # k
  BY <1>4 DEF AnswerInv
<1>6. /\ rows'[k].exists /\ rows'[k].status = "SENT" /\ rows'[k].progress = NoEcu
      /\ rows'[k].body = "unset"
  BY <1>1 DEF SentRow, NoRow
<1>7. "SENT" \notin Reported /\ Rank("unset") = 0 /\ Rank("SENT") = 1
  BY RankType DEF Reported, Terminal, Interim
<1> QED
  BY <1>1, <1>4, <1>5, <1>6, <1>7 DEF RowInv

LEMMA ProgressRow ==
    ASSUME TypeOK, AnswerInv, NEW k \in Sovd, RowInv(k), NEW m \in inbox,
           m.id = k, HandleProgress(m)
    PROVE  RowInv(k)'
<1>1. /\ m.status = "PROGRESS"
      /\ m.ecu \in NoEcu..(Ecus - 1) /\ m.ecu # NoEcu
      /\ rows[k].progress \in NoEcu..(Ecus - 1)
  BY AnswerOf, RowOf DEF HandleProgress
<1>2. handled' = handled \cup {m} /\ pending' = pending
  BY DEF HandleProgress
<1>3. CASE ProgressAdvances(rows[k], m.ecu)
  <2>1. /\ rows'[k].exists /\ rows'[k].progress = m.ecu
        /\ rows'[k].status = rows[k].status /\ rows'[k].body = rows[k].body
    BY <1>3, RowOf DEF HandleProgress, TypeOK, Row
  <2>2. rows[k].progress <= m.ecu
    BY <1>1, <1>3, CommandsAssumption DEF ProgressAdvances, NoEcu
  <2>3. \A a \in handled' : a.id = k /\ a.status = "PROGRESS" => a.ecu <= m.ecu
    <3> SUFFICES ASSUME NEW a \in handled, a.id = k, a.status = "PROGRESS"
                 PROVE  a.ecu <= m.ecu
      BY <1>1, <1>2, CommandsAssumption DEF NoEcu
    <3>1. a \in inbox
      BY DEF AnswerInv
    <3>2. a.ecu <= rows[k].progress
      BY DEF RowInv
    <3>3. a.ecu \in NoEcu..(Ecus - 1)
      BY <3>1, AnswerOf
    <3> QED
      BY <1>1, <2>2, <3>2, <3>3, CommandsAssumption DEF NoEcu
  <2> QED
    BY <1>1, <1>2, <2>1, <2>3 DEF RowInv
<1>4. CASE ~ProgressAdvances(rows[k], m.ecu)
  <2>1. UNCHANGED rows
    BY <1>4 DEF HandleProgress
  <2>2. m.ecu <= rows[k].progress
    BY <1>1, <1>4, CommandsAssumption DEF ProgressAdvances, NoEcu
  <2> QED
    BY <1>1, <1>2, <2>1, <2>2 DEF RowInv
<1> QED
  BY <1>3, <1>4

LEMMA SovdRow ==
    ASSUME TypeOK, AnswerInv, NEW k \in Sovd, RowInv(k), NEW m \in inbox,
           m.id = k, HandleSovd(m)
    PROVE  RowInv(k)'
<1> DEFINE s == m.status  t == rows[k].status
<1>1. s \in Reported /\ s # "PROGRESS" /\ t \in Reported \cup {"SENT", "unset"}
  BY AnswerOf, RowOf DEF HandleSovd
<1>2. handled' = handled \cup {m} /\ pending' \subseteq pending \cup {m}
  BY DEF HandleSovd
<1>3. Rank(s) \in 0..4 /\ Rank(t) \in 0..4 /\ Rank(rows[k].body) \in 0..4
  BY <1>1, RankType, RowOf
<1>4. /\ \A a \in handled : a.id = k /\ a.status # "PROGRESS" => Rank(a.status) \in 0..4
      /\ \A a \in pending : Rank(a.status) \in 0..4
  BY RankType, AnswerOf DEF AnswerInv
<1>5. CASE SovdMayWrite(rows[k], s)
  <2>1. Rank(t) <= Rank(s)
    BY <1>1, <1>5, MayWriteRank
  <2>2. /\ rows'[k].exists /\ rows'[k].progress = rows[k].progress
        /\ rows'[k].status = s /\ rows'[k].body = rows[k].body
    BY <1>5, RowOf DEF HandleSovd, TypeOK, Row
  <2>3. \A a \in handled' : a.id = k /\ a.status # "PROGRESS" => Rank(a.status) <= Rank(s)
    BY <1>2, <1>3, <1>4, <2>1 DEF RowInv
  <2>4. \A a \in pending' : a.id = k => Rank(a.status) <= Rank(s)
    BY <1>2, <1>3, <1>4, <2>1 DEF RowInv
  <2>5. Rank(rows[k].body) <= Rank(s)
    BY <1>3, <2>1 DEF RowInv
  <2>6. \E a \in handled' : a.id = k /\ a.status # "PROGRESS" /\ a.status = s
    BY <1>1, <1>2
  <2>7. /\ \A a \in handled' : a.id = k /\ a.status = "PROGRESS" => a.ecu <= rows[k].progress
        /\ rows[k].progress # NoEcu =>
              \E a \in handled' : a.id = k /\ a.status = "PROGRESS" /\ a.ecu = rows[k].progress
    BY <1>1, <1>2 DEF RowInv
  <2> HIDE DEF s
  <2> QED
    BY <2>2, <2>3, <2>4, <2>5, <2>6, <2>7 DEF RowInv
<1>6. CASE ~SovdMayWrite(rows[k], s)
  <2>1. Rank(s) <= Rank(t)
    BY <1>1, <1>6, MayWriteRank
  <2>2. UNCHANGED <<rows, pending>>
    BY <1>6 DEF HandleSovd
  <2> QED
    BY <1>1, <1>2, <2>1, <2>2 DEF RowInv
<1> QED
  BY <1>5, <1>6

LEMMA BodyRow ==
    ASSUME TypeOK, AnswerInv, NEW k \in Sovd, RowInv(k), NEW m \in pending,
           m.id = k, StoreBody(m)
    PROVE  RowInv(k)'
<1>1. handled' = handled /\ pending' \subseteq pending
  BY DEF StoreBody
<1>2. /\ rows'[k].exists /\ rows'[k].progress = rows[k].progress
      /\ rows'[k].status = rows[k].status /\ rows'[k].body = m.status
  BY RowOf DEF StoreBody, TypeOK, Row
<1>3. Rank(m.status) <= Rank(rows[k].status)
  BY DEF RowInv
<1> QED
  BY <1>1, <1>2, <1>3 DEF RowInv

LEMMA RowStep ==
    ASSUME TypeOK, AnswerInv, Next \/ UNCHANGED vars, NEW k \in Sovd, RowInv(k)
    PROVE  RowInv(k)'
<1>1. CASE UNCHANGED <<rows[k], handled>> /\ pending' \subseteq pending
  BY <1>1, RowKept
<1>2. ASSUME NEW m \in inbox, m.id # k, rows'[k] = rows[k],
             handled' = handled \cup {m}, pending' \subseteq pending \cup {m}
      PROVE  RowInv(k)'
  BY <1>2, RowKept
<1>3. ASSUME NEW m \in inbox, m.id = k, HandleProgress(m) \/ HandleSovd(m)
      PROVE  RowInv(k)'
  BY <1>3, ProgressRow, SovdRow
<1> QED
  BY <1>1, <1>2, <1>3, RowMoves, PutRow, BodyRow

LEMMA TypeStep ==
    ASSUME TypeOK, AnswerInv, CallInv, Next \/ UNCHANGED vars
    PROVE  TypeOK'
<1>1. CASE UNCHANGED vars
  BY <1>1 DEF vars, TypeOK
<1>2. ASSUME NEW c \in Calls, CallStep(c) PROVE TypeOK'
  BY <1>2, CallType
<1>3. ASSUME NEW m \in inbox, Handle(m) PROVE TypeOK'
  BY <1>3, HandlerType
<1>4. ASSUME NEW m \in pending, StoreBody(m) \/ LoseBody(m) PROVE TypeOK'
  BY <1>4, HandlerType
<1> QED
  BY <1>1, <1>2, <1>3, <1>4, VehicleType DEF Next

-----------------------------------------------------------------------------
(* Owners.  A row changes hands where the put of a caller lands, and that  *)
(* is where there is no row.                                               *)

\* Where a put lands, and that a row once there stays.
LEMMA OwnerMoves ==
    ASSUME TypeOK, AnswerInv, MissingRow, Next \/ UNCHANGED vars, NEW k \in Sovd
    PROVE  /\ rows[k].exists => rows'[k].exists
           /\ \/ rows'[k].owner = rows[k].owner
              \/ \E c \in Calls : Lands(c, k) /\ rows[k] = NoRow /\ rows'[k] = SentRow(c)
<1>1. ASSUME NEW c \in Calls, Lands(c, k)
      PROVE  rows[k] = NoRow /\ rows'[k] = SentRow(c) /\ ~rows[k].exists
  BY <1>1, RowOf DEF Lands, SovdPut, PutUnanswered, TypeOK, MissingRow
<1>2. ASSUME NEW m \in inbox, m.id = k, HandleProgress(m) \/ HandleSovd(m)
      PROVE  rows'[k].owner = rows[k].owner /\ (rows[k].exists => rows'[k].exists)
  <2>1. CASE HandleProgress(m)
    BY <1>2, <2>1, RowOf DEF HandleProgress, TypeOK, Row
  <2>2. CASE HandleSovd(m)
    BY <1>2, <2>2, RowOf DEF HandleSovd, TypeOK, Row
  <2> QED
    BY <1>2, <2>1, <2>2
<1>3. ASSUME NEW m \in pending, m.id = k, StoreBody(m)
      PROVE  rows'[k].owner = rows[k].owner /\ (rows[k].exists => rows'[k].exists)
  BY <1>3, RowOf DEF StoreBody, TypeOK, Row
<1> QED
  BY <1>1, <1>2, <1>3, RowMoves

\* What a step does to one call: nothing, unless it is a step of that call.
LEMMA CallMoves ==
    ASSUME TypeOK, Next \/ UNCHANGED vars
    PROVE  \/ UNCHANGED calls
           \/ \E c \in Calls : CallStep(c) /\ \A d \in Calls \ {c} : calls'[d] = calls[d]
<1>1. ASSUME NEW c \in Calls, CallStep(c)
      PROVE  \A d \in Calls \ {c} : calls'[d] = calls[d]
  <2>1. CASE \E reply : Ends(c, reply)
    BY <2>1 DEF Ends, TypeOK
  <2>2. CASE \E step : Goes(c, step)
    BY <2>2 DEF Goes, TypeOK
  <2>3. CASE SovdArrive(c) \/ ActuatorArrive(c)
    BY <2>3 DEF SovdArrive, ActuatorArrive, TypeOK
  <2> QED
    BY <1>1, <2>1, <2>2, <2>3 DEF CallStep, SovdPublish, FwePublish, LegacyPublish,
         PublishFails, SovdBadSession, SovdPut, ActuatorPut, PutUnanswered, CallDies
<1>2. CASE UNCHANGED vars
  BY <1>2 DEF vars
<1> QED
  BY <1>1, <1>2, CallsKept DEF Next

\* What a call of a diagnostic command may have done by one of its own steps: it
\* is accepted or told of a conflict by the answer to its put only, and a put that
\* has gone out is not turned away.
LEMMA OwnStep ==
    ASSUME TypeOK, CallInv, NEW c \in Calls, CallStep(c)
    PROVE  /\ calls[c].reply = "none" /\ calls[c].step # "done"
           /\ calls[c].id # NoId => calls'[c].id = calls[c].id
           /\ ~SovdPut(c) /\ calls'[c].id \in Sovd => calls'[c].reply \notin {"200", "409"}
           /\ calls[c].id \in Sovd /\ calls[c].step = "resend" =>
                 calls'[c].step \in {"resend", "done"} /\ calls'[c].reply \notin {"400", "500"}
<1>1. calls[c].step # "done" /\ calls[c].reply = "none"
  BY DEF CallStep, SovdArrive, ActuatorArrive, SovdPublish, FwePublish, LegacyPublish,
         PublishFails, SovdBadSession, SovdPut, ActuatorPut, PutUnanswered,
         CallDies, CallInv, Puts
<1>2. ASSUME NEW reply, Ends(c, reply)
      PROVE  calls'[c].id = calls[c].id /\ calls'[c].reply = reply /\ calls'[c].step = "done"
  BY <1>2 DEF Ends, TypeOK, Call
<1>3. ASSUME NEW step, Goes(c, step)
      PROVE  calls'[c].id = calls[c].id /\ calls'[c].reply = "none" /\ calls'[c].step = step
  BY <1>1, <1>3 DEF Goes, TypeOK, Call
<1>4. ASSUME SovdArrive(c) \/ ActuatorArrive(c)
      PROVE  calls[c].id = NoId /\ calls'[c].reply = "none" /\ calls[c].step # "resend"
  BY <1>1, <1>4 DEF SovdArrive, ActuatorArrive, TypeOK, Call, CallInv
<1>5. ASSUME ActuatorPut(c)
      PROVE  calls'[c].id = calls[c].id /\ calls'[c].id \notin Sovd
  BY <1>2, <1>5, CommandsAssumption DEF ActuatorPut
<1>6. ASSUME SovdPut(c)
      PROVE  /\ calls'[c].id = calls[c].id /\ calls'[c].step = "done"
             /\ calls'[c].reply \in {"200", "409"}
  BY <1>2, <1>6 DEF SovdPut
<1>7. ASSUME SovdPublish(c) \/ FwePublish(c) \/ LegacyPublish(c)
      PROVE  calls'[c].id = calls[c].id /\ calls'[c].reply = "none" /\ calls[c].step # "resend"
  BY <1>3, <1>7 DEF SovdPublish, FwePublish, LegacyPublish
<1>8. ASSUME PublishFails(c) \/ SovdBadSession(c) \/ CallDies(c)
      PROVE  /\ calls'[c].id = calls[c].id /\ calls'[c].reply \notin {"200", "409"}
             /\ calls[c].step = "resend" => calls'[c].step = "done" /\ calls'[c].reply = "none"
  BY <1>2, <1>8 DEF PublishFails, SovdBadSession, CallDies
<1>9. ASSUME PutUnanswered(c)
      PROVE  calls'[c].id = calls[c].id /\ calls'[c].reply = "none" /\ calls'[c].step = "resend"
  BY <1>3, <1>9 DEF PutUnanswered
<1> QED
  BY <1>1, <1>4, <1>5, <1>6, <1>7, <1>8, <1>9 DEF CallStep

LEMMA OwnerStep ==
    ASSUME TypeOK, AnswerInv, CallInv, MissingRow, AcceptedOwnsRow, Next \/ UNCHANGED vars
    PROVE  AcceptedOwnsRow'
<1> SUFFICES ASSUME NEW c \in Calls, NEW k \in Sovd
             PROVE  /\ calls'[c].id = k /\ calls'[c].reply = "200" => rows'[k].owner = c
                    /\ calls'[c].id = k /\ calls'[c].reply = "409" => rows'[k].exists
                    /\ rows'[k].owner = c =>
                          /\ calls'[c].id = k /\ calls'[c].step \in {"resend", "done"}
                          /\ calls'[c].reply \notin {"400", "500"}
  BY DEF AcceptedOwnsRow
<1>0. k \in Ids /\ k # NoId
  BY CommandsAssumption DEF Ids
<1>1. /\ calls[c].id = k /\ calls[c].reply = "200" => rows[k].owner = c
      /\ calls[c].id = k /\ calls[c].reply = "409" => rows[k].exists
      /\ rows[k].owner = c =>
            /\ calls[c].id = k /\ calls[c].step \in {"resend", "done"}
            /\ calls[c].reply \notin {"400", "500"}
  BY DEF AcceptedOwnsRow
<1>2. ASSUME NEW d \in Calls, SovdPut(d), calls[d].id = k
      PROVE  /\ rows[k].exists => calls'[d].reply = "409" /\ rows'[k].exists
             /\ ~rows[k].exists => Lands(d, k)
  BY <1>2, RowOf DEF SovdPut, Ends, TypeOK, Call, Lands
<1>3. ASSUME NEW d \in Calls, Lands(d, k)
      PROVE  /\ calls'[d].id = k
             /\ \/ calls'[d].reply = "200" /\ calls'[d].step = "done"
                \/ calls'[d].reply = "none" /\ calls'[d].step = "resend"
             /\ \A e \in Calls \ {d} : calls'[e] = calls[e]
  <2>1. CASE SovdPut(d)
    BY <1>3, <2>1 DEF Lands, SovdPut, Ends, TypeOK, Call
  <2>2. CASE PutUnanswered(d)
    <3>1. calls[d].reply = "none"
      BY <2>2 DEF PutUnanswered, Puts, CallInv
    <3> QED
      BY <1>3, <2>2, <3>1 DEF Lands, PutUnanswered, Goes, TypeOK, Call
  <2> QED
    BY <1>3, <2>1, <2>2 DEF Lands
<1>4. \A d \in Calls : SentRow(d).owner = d /\ SentRow(d).exists
  BY DEF SentRow, NoRow
<1>5. rows[k].exists => rows'[k].exists
  BY OwnerMoves
<1>6. ASSUME NEW d \in Calls, Lands(d, k), rows[k] = NoRow, rows'[k] = SentRow(d)
      PROVE  /\ calls'[c].id = k /\ calls'[c].reply = "200" => rows'[k].owner = c
             /\ calls'[c].id = k /\ calls'[c].reply = "409" => rows'[k].exists
             /\ rows'[k].owner = c =>
                   /\ calls'[c].id = k /\ calls'[c].step \in {"resend", "done"}
                   /\ calls'[c].reply \notin {"400", "500"}
  <2>1. CASE c = d
    BY <1>3, <1>4, <1>6, <2>1
  <2>2. CASE c # d
    <3>1. rows[k].owner # c
      BY <1>6, CommandsAssumption DEF NoRow
    <3>2. calls'[c] = calls[c]
      BY <1>3, <1>6, <2>2
    <3> QED
      BY <1>1, <1>4, <1>6, <2>2, <3>1, <3>2
  <2> QED
    BY <2>1, <2>2
<1>7. CASE rows'[k].owner = rows[k].owner /\ ~(\E d \in Calls : Lands(d, k))
  <2>1. CASE calls'[c] = calls[c]
    BY <1>1, <1>5, <1>7, <2>1
  <2>2. CASE CallStep(c)
    <3>1. /\ calls[c].reply = "none" /\ calls[c].step # "done"
          /\ calls[c].id # NoId => calls'[c].id = calls[c].id
          /\ ~SovdPut(c) /\ calls'[c].id \in Sovd => calls'[c].reply \notin {"200", "409"}
          /\ calls[c].id \in Sovd /\ calls[c].step = "resend" =>
                calls'[c].step \in {"resend", "done"} /\ calls'[c].reply \notin {"400", "500"}
      BY <2>2, OwnStep
    <3>2. calls'[c].id = k /\ SovdPut(c) => calls[c].id = k
      BY <1>0, <3>1, CommandsAssumption DEF SovdPut, Ids
    <3>3. calls'[c].id = k /\ SovdPut(c) => calls'[c].reply = "409" /\ rows'[k].exists
      BY <1>2, <1>7, <3>2
    <3>4. rows'[k].owner = c => calls[c].id = k /\ calls[c].step = "resend"
      BY <1>1, <1>7, <3>1
    <3> QED
      BY <1>0, <3>1, <3>3, <3>4
  <2> QED
    BY <2>1, <2>2, CallMoves
<1>8. ASSUME NEW d \in Calls, Lands(d, k) PROVE rows[k] = NoRow /\ rows'[k] = SentRow(d)
  BY <1>8, RowOf DEF Lands, SovdPut, PutUnanswered, TypeOK, MissingRow
<1> QED
  BY <1>6, <1>7, <1>8, OwnerMoves

-----------------------------------------------------------------------------
(* The theorems *)

LEMMA InitIInv == Init => IInv
<1> SUFFICES ASSUME Init PROVE IInv
  OBVIOUS
<1>1. TypeOK
  BY InitType
<1>2. AnswerInv /\ CallInv
  BY DEF Init, AnswerInv, CallInv
<1>3. \A k \in Sovd : rows[k] = NoRow
  BY DEF Init, Ids
<1>4. \A c \in Calls : calls[c].id = NoId
  BY DEF Init
<1>5. AcceptedOwnsRow
  <2>1. \A k \in Sovd, c \in Calls : rows[k].owner # c
    BY <1>3, CommandsAssumption DEF NoRow
  <2>2. \A c \in Calls : calls[c].id \notin Sovd
    BY <1>4, CommandsAssumption DEF Ids
  <2> QED
    BY <2>1, <2>2 DEF AcceptedOwnsRow
<1>6. \A k \in Sovd : RowInv(k)
  <2> SUFFICES ASSUME NEW k \in Sovd PROVE RowInv(k)
    OBVIOUS
  <2>0. NoRow.status = "unset" /\ NoRow.body = "unset" /\ NoRow.progress = NoEcu
    BY DEF NoRow
  <2>1. /\ rows[k] = NoRow /\ rows[k].status = "unset" /\ rows[k].body = "unset"
        /\ rows[k].progress = NoEcu
    BY <1>3, <2>0
  <2>2. handled = {} /\ pending = {}
    BY DEF Init
  <2>3. "unset" \notin Reported /\ Rank("unset") = 0
    BY RankType DEF Reported, Terminal, Interim
  <2> QED
    BY <2>1, <2>2, <2>3 DEF RowInv
<1> QED
  BY <1>1, <1>2, <1>5, <1>6, RowInvs DEF IInv

LEMMA StepIInv == IInv /\ [Next]_vars => IInv'
<1> SUFFICES ASSUME IInv, Next \/ UNCHANGED vars PROVE IInv'
  OBVIOUS
<1>1. TypeOK' /\ AnswerInv' /\ CallInv'
  BY TypeStep, AnswerStep, CallInvStep DEF IInv
<1>2. AcceptedOwnsRow'
  BY OwnerStep DEF IInv
<1>3. \A k \in Sovd : RowInv(k)
  BY RowInvs DEF IInv
<1>4. \A k \in Sovd : RowInv(k)'
  BY <1>3, RowStep DEF IInv
<1>5. (\A k \in Sovd : RowInv(k))'
  BY <1>4
<1>6. (MissingRow /\ BestAnswerWins /\ ProgressIsLatest /\ BodyNeverBetter)'
  BY <1>5, RowInvs, PTL
<1> QED
  BY <1>1, <1>2, <1>6 DEF IInv

\* The invariant of the commands service is inductive: no interleaving of the
\* API invocations, the vehicle and the response handlers leaves it.
THEOREM Inductive == Spec => []IInv
  BY InitIInv, StepIInv, PTL DEF Spec

\* Every table, message and history keeps its type.
THEOREM TypeCorrect == Spec => []TypeOK
<1>1. IInv => TypeOK
  BY DEF IInv
<1> QED
  BY <1>1, Inductive, PTL

\* A diagnostic command's row shows the best answer handled so far, for any
\* number of ECUs, callers and answers, in any order and with any duplicates.
THEOREM BestAnswer == Spec => []BestAnswerWins
<1>1. IInv => BestAnswerWins
  BY DEF IInv
<1> QED
  BY <1>1, Inductive, PTL

\* The stored progress is that of the furthest ECU reported so far.
THEOREM LatestProgress == Spec => []ProgressIsLatest
<1>1. IInv => ProgressIsLatest
  BY DEF IInv
<1> QED
  BY <1>1, Inductive, PTL

\* The stored response body is never a better outcome than the stored status.
THEOREM BodyBound == Spec => []BodyNeverBetter
<1>1. IInv => BodyNeverBetter
  BY DEF IInv
<1> QED
  BY <1>1, Inductive, PTL

\* Of any number of callers with one correlation id only the one on record is ever
\* accepted, also when the answer of a put was lost and the put sent again; the one
\* on record was accepted, told of a conflict with its own put, or got no answer.
THEOREM OneOwner == Spec => []AcceptedOwnsRow
<1>1. IInv => AcceptedOwnsRow
  BY DEF IInv
<1> QED
  BY <1>1, Inductive, PTL

-----------------------------------------------------------------------------
(* The simulation of CommandOutcome *)

\* A step rewrites at most one row.
LEMMA OneRow ==
    ASSUME Next \/ UNCHANGED vars
    PROVE  UNCHANGED rows \/ \E i, r : rows' = [rows EXCEPT ![i] = r]
<1>1. ASSUME NEW c \in Calls, CallStep(c)
      PROVE  UNCHANGED rows \/ rows' = [rows EXCEPT ![calls[c].id] = SentRow(c)]
  BY <1>1 DEF CallStep, SovdArrive, ActuatorArrive, SovdPublish, FwePublish, LegacyPublish,
              PublishFails, SovdBadSession, SovdPut, ActuatorPut, PutUnanswered, CallDies
<1>2. CASE VehicleStep
  BY <1>2 DEF VehicleStep, SovdStart, SovdRefuse, SovdProgress, SovdFinish,
              SimulatorAnswer, AgentAnswer, apiSide
<1>3. ASSUME NEW m, Handle(m) \/ StoreBody(m) \/ LoseBody(m)
      PROVE  UNCHANGED rows \/ \E r : rows' = [rows EXCEPT ![m.id] = r]
  <2>1. CASE HandleProgress(m)
    BY <2>1 DEF HandleProgress
  <2>2. CASE HandleSovd(m)
    BY <2>2 DEF HandleSovd
  <2>3. CASE HandleActuator(m)
    BY <2>3 DEF HandleActuator
  <2>4. CASE StoreBody(m)
    BY <2>4 DEF StoreBody
  <2>5. CASE LoseBody(m)
    BY <2>5 DEF LoseBody
  <2> QED
    BY <1>3, <2>1, <2>2, <2>3, <2>4, <2>5 DEF Handle
<1>4. CASE UNCHANGED vars
  BY <1>4 DEF vars
<1> QED
  BY <1>1, <1>2, <1>3, <1>4 DEF Next

\* What a step does to the status of a diagnostic command.
LEMMA StatusMoves ==
    ASSUME TypeOK, AnswerInv, MissingRow, Next \/ UNCHANGED vars, NEW k \in Sovd
    PROVE  \/ rows'[k].owner = rows[k].owner /\ rows'[k].status = rows[k].status
           \/ /\ rows'[k].owner = rows[k].owner
              /\ rows'[k].status \in Reported
              /\ Rank(rows[k].status) <= Rank(rows'[k].status)
           \/ \E c \in Calls : rows[k] = NoRow /\ rows'[k] = SentRow(c)
<1>1. CASE \E c \in Calls : rows[k] = NoRow /\ rows'[k] = SentRow(c)
  BY <1>1
<1>2. CASE rows'[k].owner = rows[k].owner
  <2>1. ASSUME NEW c \in Calls, Lands(c, k)
        PROVE  rows[k] = NoRow /\ rows'[k] = SentRow(c)
    BY <2>1, RowOf DEF Lands, SovdPut, PutUnanswered, TypeOK, MissingRow
  <2>2. ASSUME NEW m \in inbox, m.id = k, HandleProgress(m)
        PROVE  rows'[k].status = rows[k].status
    BY <2>2, RowOf DEF HandleProgress, TypeOK, Row
  <2>3. ASSUME NEW m \in inbox, m.id = k, HandleSovd(m)
        PROVE  \/ rows'[k].status = rows[k].status
               \/ /\ rows'[k].status \in Reported
                  /\ Rank(rows[k].status) <= Rank(rows'[k].status)
    <3>1. m.status \in Reported
      BY <2>3, AnswerOf DEF HandleSovd
    <3>2. CASE SovdMayWrite(rows[k], m.status)
      <4>1. rows'[k].status = m.status
        BY <2>3, <3>2, RowOf DEF HandleSovd, TypeOK, Row
      <4>2. Rank(rows[k].status) <= Rank(m.status)
        BY <3>1, <3>2, RowOf, MayWriteRank
      <4> QED
        BY <3>1, <4>1, <4>2
    <3>3. CASE ~SovdMayWrite(rows[k], m.status)
      BY <2>3, <3>3 DEF HandleSovd
    <3> QED
      BY <3>2, <3>3
  <2>4. ASSUME NEW m \in pending, m.id = k, StoreBody(m)
        PROVE  rows'[k].status = rows[k].status
    BY <2>4, RowOf DEF StoreBody, TypeOK, Row
  <2> QED
    BY <1>2, <2>1, <2>2, <2>3, <2>4, RowMoves
<1> QED
  BY <1>1, <1>2, OwnerMoves

LEMMA OutcomeInit == Init => Outcome!Init
<1> SUFFICES ASSUME Init PROVE Outcome!Init
  OBVIOUS
<1>1. \A k \in Sovd : rows[k] = NoRow
  BY DEF Init, Ids
<1>2. NoRow.owner = NoCall /\ NoRow.status = "unset"
  BY DEF NoRow
<1>3. Rank("unset") = 0
  BY RankType
<1> QED
  BY <1>1, <1>2, <1>3 DEF Outcome!Init, SovdOwner, SovdOutcome

LEMMA OutcomeStep ==
    ASSUME TypeOK, AnswerInv, MissingRow, Next \/ UNCHANGED vars
    PROVE  Outcome!Next \/ UNCHANGED Outcome!record
<1>1. CASE \A k \in Sovd : rows'[k] = rows[k]
  BY <1>1 DEF Outcome!record, SovdOwner, SovdOutcome
<1>2. ASSUME NEW k \in Sovd, \A j \in Sovd \ {k} : rows'[j] = rows[j]
      PROVE  Outcome!Next \/ UNCHANGED Outcome!record
  <2>1. /\ SovdOwner' = [SovdOwner EXCEPT ![k] = rows'[k].owner]
        /\ SovdOutcome' = [SovdOutcome EXCEPT ![k] = Rank(rows'[k].status)]
    BY <1>2 DEF SovdOwner, SovdOutcome
  <2>2. SovdOwner[k] = rows[k].owner /\ SovdOutcome[k] = Rank(rows[k].status)
    BY DEF SovdOwner, SovdOutcome
  <2>3. CASE /\ rows'[k].owner = rows[k].owner
             /\ Rank(rows'[k].status) = Rank(rows[k].status)
    BY <2>1, <2>2, <2>3 DEF Outcome!record, SovdOwner, SovdOutcome
  <2>4. CASE /\ rows'[k].owner = rows[k].owner
             /\ rows'[k].status \in Reported
             /\ Rank(rows[k].status) < Rank(rows'[k].status)
    <3>1. Rank(rows'[k].status) \in 2..4
      BY <2>4, RankType
    <3>2. SovdOwner' = SovdOwner
      BY <2>1, <2>2, <2>4 DEF SovdOwner
    <3>3. Outcome!Improve(k, Rank(rows'[k].status))
      BY <2>1, <2>2, <2>4, <3>2 DEF Outcome!Improve
    <3> QED
      BY <3>1, <3>3 DEF Outcome!Next
  <2>5. ASSUME NEW c \in Calls, rows[k] = NoRow, rows'[k] = SentRow(c)
        PROVE  Outcome!Next
    <3>1. /\ NoRow.owner = NoCall /\ NoRow.status = "unset"
          /\ SentRow(c).owner = c /\ SentRow(c).status = "SENT"
      BY DEF NoRow, SentRow
    <3>2. Rank("unset") = 0 /\ Rank("SENT") = 1
      BY RankType
    <3>3. Outcome!Issue(k, c)
      BY <2>1, <2>2, <2>5, <3>1, <3>2 DEF Outcome!Issue
    <3> QED
      BY <3>3 DEF Outcome!Next
  <2>6. ASSUME rows'[k].status \in Reported, Rank(rows[k].status) <= Rank(rows'[k].status)
        PROVE  \/ Rank(rows[k].status) < Rank(rows'[k].status)
               \/ Rank(rows[k].status) = Rank(rows'[k].status)
    BY <2>6, RowOf, RankType
  <2> QED
    BY <2>3, <2>4, <2>5, <2>6, StatusMoves
<1>3. \/ \A k \in Sovd : rows'[k] = rows[k]
      \/ \E k \in Sovd : \A j \in Sovd \ {k} : rows'[j] = rows[j]
  <2>1. CASE UNCHANGED rows
    BY <2>1
  <2>2. ASSUME NEW i, NEW r, rows' = [rows EXCEPT ![i] = r]
        PROVE  \A j \in Sovd \ {i} : rows'[j] = rows[j]
    BY <2>2 DEF TypeOK, Ids
  <2> QED
    BY <2>1, <2>2, OneRow
<1> QED
  BY <1>1, <1>2, <1>3

\* The commands service implements CommandOutcome: whatever the order of its
\* answers, a diagnostic command gets one owner, before any answer or not at
\* all, and then its outcome only improves.
THEOREM OutcomeRefined == Spec => OutcomeImplemented
<1>1. IInv /\ [Next]_vars => [Outcome!Next]_(Outcome!record)
  BY OutcomeStep DEF IInv
<1> QED
  BY <1>1, OutcomeInit, Inductive, PTL DEF Spec, OutcomeImplemented, Outcome!Spec

-----------------------------------------------------------------------------
(* What CommandOutcome promises, the commands service keeps. *)

\* The inductive invariant of CommandOutcome.
OutcomeInv ==
    /\ SovdOwner \in [Sovd -> Calls \cup {NoCall}]
    /\ SovdOutcome \in [Sovd -> 0..4]
    /\ Outcome!OwnedIsSent

LEMMA OutcomeInvInit == Outcome!Init => OutcomeInv
  BY DEF Outcome!Init, OutcomeInv, Outcome!OwnedIsSent

\* What a step of CommandOutcome does to the record.
LEMMA OutcomeMoves ==
    ASSUME OutcomeInv, Outcome!Next
    PROVE  /\ OutcomeInv'
           /\ \A k \in Sovd : /\ SovdOutcome[k] <= SovdOutcome'[k]
                              /\ SovdOutcome[k] # 0 => SovdOwner'[k] = SovdOwner[k]
<1> USE DEF OutcomeInv, Outcome!OwnedIsSent
<1>1. ASSUME NEW k \in Sovd, NEW c \in Calls, Outcome!Issue(k, c)
      PROVE  /\ OutcomeInv'
             /\ \A j \in Sovd : /\ SovdOutcome[j] <= SovdOutcome'[j]
                                /\ SovdOutcome[j] # 0 => SovdOwner'[j] = SovdOwner[j]
  BY <1>1 DEF Outcome!Issue
<1>2. ASSUME NEW k \in Sovd, NEW n \in 2..4, Outcome!Improve(k, n)
      PROVE  /\ OutcomeInv'
             /\ \A j \in Sovd : /\ SovdOutcome[j] <= SovdOutcome'[j]
                                /\ SovdOutcome[j] # 0 => SovdOwner'[j] = SovdOwner[j]
  BY <1>2 DEF Outcome!Improve
<1> QED
  BY <1>1, <1>2 DEF Outcome!Next

LEMMA OutcomeInvStep == OutcomeInv /\ [Outcome!Next]_(Outcome!record) => OutcomeInv'
<1>1. CASE UNCHANGED Outcome!record
  BY <1>1 DEF Outcome!record, OutcomeInv, Outcome!OwnedIsSent
<1> QED
  BY <1>1, OutcomeMoves

\* CommandOutcome by itself keeps its promises.
THEOREM RecordKeepsPromises ==
    Outcome!Spec => /\ []Outcome!OwnedIsSent
                    /\ Outcome!NeverWorse
                    /\ Outcome!OwnerSettled
<1>1. OutcomeInv => Outcome!OwnedIsSent
  BY DEF OutcomeInv
<1>2. OutcomeInv /\ [Outcome!Next]_(Outcome!record) =>
        [\A k \in Sovd : SovdOutcome[k] <= SovdOutcome'[k]]_(Outcome!record)
  BY OutcomeMoves
<1>3. OutcomeInv /\ [Outcome!Next]_(Outcome!record) =>
        [\A k \in Sovd : SovdOutcome[k] # 0 => SovdOwner'[k] = SovdOwner[k]]_(Outcome!record)
  BY OutcomeMoves
<1> QED
  BY <1>1, <1>2, <1>3, OutcomeInvInit, OutcomeInvStep, PTL
  DEF Outcome!Spec, Outcome!NeverWorse, Outcome!OwnerSettled

\* The outcome a diagnostic command's row shows never gets worse, and once the
\* command was put or answered no later put of the same correlation id, before or
\* after any answer, takes the row over.
THEOREM OutcomeNeverWorse ==
    Spec => /\ []Outcome!OwnedIsSent
            /\ Outcome!NeverWorse
            /\ Outcome!OwnerSettled
  BY OutcomeRefined, RecordKeepsPromises DEF OutcomeImplemented

-----------------------------------------------------------------------------
(* Where an outcome comes from. *)

\* A request that went out is that of a call; a vehicle scans and answers only on
\* a request; a row shows a status only if it was answered.
Origin ==
    /\ \A x \in published : \E c \in Calls : calls[c].id = x[2]
    /\ \A k \in Sovd : scan[k] # NoEcu => <<"sovd", k>> \in published
    /\ \A m \in inbox : <<m.topic, m.id>> \in published
    /\ \A k \in Ids : rows[k].status \in Reported =>
          \E m \in handled : m.id = k /\ m.status = rows[k].status

\* A status that a row shows was answered by a vehicle, to a request that went out
\* on the topic of the answer, for a call that has this id.
NothingUnsolicited ==
    \A k \in Ids : rows[k].status \in Reported =>
        \E m \in handled, c \in Calls :
            /\ m.id = k /\ m.status = rows[k].status
            /\ <<m.topic, k>> \in published /\ calls[c].id = k

\* What a step of a call publishes, and that a call keeps its id.
LEMMA CallPublishes ==
    ASSUME TypeOK, CallInv, NEW c \in Calls, CallStep(c)
    PROVE  /\ UNCHANGED vehicleSide
           /\ published \subseteq published'
           /\ \A x \in published' \ published : x[2] = calls[c].id
           /\ calls[c].id # NoId => calls'[c].id = calls[c].id
           /\ \A x \in published' \ published : calls[c].id # NoId
<1>1. UNCHANGED vehicleSide
  BY DEF CallStep, SovdArrive, ActuatorArrive, SovdPublish, FwePublish,
         LegacyPublish, PublishFails, SovdBadSession, SovdPut, ActuatorPut, PutUnanswered, CallDies
<1>2. CASE SovdPublish(c) \/ FwePublish(c) \/ LegacyPublish(c)
  <2>1. \E t \in Topics : published' \in {published, published \cup {<<t, calls[c].id>>}}
    BY <1>2 DEF SovdPublish, FwePublish, LegacyPublish, Topics
  <2>2. calls[c].id \in Ids
    BY <1>2 DEF SovdPublish, FwePublish, LegacyPublish, CallInv
  <2>3. calls[c].id # NoId
    BY <2>2, CommandsAssumption
  <2> QED
    BY <1>1, <2>1, <2>3, OwnStep
<1>3. CASE UNCHANGED published
  BY <1>1, <1>3, OwnStep
<1> QED
  BY <1>2, <1>3 DEF CallStep, SovdArrive, ActuatorArrive, PublishFails, SovdBadSession,
                    SovdPut, ActuatorPut, PutUnanswered, CallDies

\* A call that has an id keeps it.
LEMMA IdsKept ==
    ASSUME TypeOK, CallInv, Next \/ UNCHANGED vars, NEW c \in Calls, calls[c].id # NoId
    PROVE  calls'[c].id = calls[c].id
  BY CallMoves, OwnStep

\* Outside a call's own steps nothing is published.
LEMMA PublishedKept ==
    VehicleStep \/ (\E m : Handle(m) \/ StoreBody(m) \/ LoseBody(m)) => UNCHANGED published
  BY DEF VehicleStep, Handle, SovdStart, SovdRefuse, SovdProgress, SovdFinish,
         SimulatorAnswer, AgentAnswer, apiSide, HandleProgress, HandleSovd,
         HandleActuator, StoreBody, LoseBody

LEMMA RequestsOfCalls ==
    ASSUME TypeOK, CallInv, Next \/ UNCHANGED vars,
           \A x \in published : \E c \in Calls : calls[c].id = x[2]
    PROVE  /\ \A x \in published' : \E c \in Calls : calls'[c].id = x[2]
           /\ published \subseteq published'
<1>1. ASSUME NEW x \in published
      PROVE  \E c \in Calls : calls'[c].id = x[2]
  <2>1. PICK c \in Calls : calls[c].id = x[2]
    OBVIOUS
  <2>2. calls[c].id # NoId
    BY <2>1, CommandsAssumption DEF TypeOK
  <2> QED
    BY <2>1, <2>2, IdsKept
<1>2. CASE UNCHANGED published
  BY <1>1, <1>2
<1>3. ASSUME NEW c \in Calls, CallStep(c)
      PROVE  /\ \A x \in published' : \E d \in Calls : calls'[d].id = x[2]
             /\ published \subseteq published'
  <2>1. \A x \in published' \ published : calls'[c].id = x[2]
    BY <1>3, CallPublishes
  <2> QED
    BY <1>1, <1>3, <2>1, CallPublishes
<1> QED
  BY <1>2, <1>3, PublishedKept DEF Next, vars

\* The vehicle acts on requests only.
LEMMA VehicleOnRequest ==
    ASSUME VehicleStep, scan \in [Sovd -> NoEcu..Ecus],
           \A k \in Sovd : scan[k] # NoEcu => <<"sovd", k>> \in published,
           \A m \in inbox : <<m.topic, m.id>> \in published
    PROVE  /\ \A k \in Sovd : scan'[k] # NoEcu => <<"sovd", k>> \in published
           /\ \A m \in inbox' : <<m.topic, m.id>> \in published
<1> DEFINE Goal ==
      /\ \A k \in Sovd : scan'[k] # NoEcu => <<"sovd", k>> \in published
      /\ \A m \in inbox' : <<m.topic, m.id>> \in published
<1>0. \A k, t, st, b : FinalAnswer(k, t, st, b).id = k /\ FinalAnswer(k, t, st, b).topic = t
  BY DEF FinalAnswer
<1>1. ASSUME NEW k \in Sovd, SovdStart(k) PROVE Goal
  BY <1>1 DEF SovdStart
<1>2. ASSUME NEW a, inbox' = inbox \cup {a}, <<a.topic, a.id>> \in published,
             \A k \in Sovd : scan'[k] # NoEcu => scan[k] # NoEcu
      PROVE  Goal
  BY <1>2
<1>3. ASSUME NEW k \in Sovd, scan[k] # NoEcu, NEW e, scan' = [scan EXCEPT ![k] = e],
             NEW a, a.topic = "sovd", a.id = k, inbox' = inbox \cup {a}
      PROVE  Goal
  <2>1. <<a.topic, a.id>> \in published
    BY <1>3
  <2>2. \A j \in Sovd : scan'[j] # NoEcu => scan[j] # NoEcu
    BY <1>3
  <2> QED
    BY <1>2, <1>3, <2>1, <2>2
<1>4. ASSUME NEW k \in Sovd, SovdProgress(k) PROVE Goal
  <2>1. /\ scan[k] # NoEcu
        /\ scan' = [scan EXCEPT ![k] = scan[k] + 1]
        /\ inbox' = inbox \cup {ProgressAnswer(k, scan[k])}
    BY <1>4 DEF SovdProgress
  <2>2. ProgressAnswer(k, scan[k]).topic = "sovd" /\ ProgressAnswer(k, scan[k]).id = k
    BY DEF ProgressAnswer
  <2> QED
    BY <1>3, <2>1, <2>2
<1>5. ASSUME NEW k \in Sovd, NEW st, NEW b, SovdRefuse(k, st) \/ SovdFinish(k, st, b) PROVE Goal
  <2>0. 0 # NoEcu /\ Ecus # NoEcu
    BY CommandsAssumption DEF NoEcu
  <2>1. scan[k] # NoEcu /\ scan' = [scan EXCEPT ![k] = NoEcu]
    BY <1>5, <2>0, Zenon DEF SovdRefuse, SovdFinish
  <2>2. \E c : inbox' = inbox \cup {FinalAnswer(k, "sovd", st, c)}
    BY <1>5 DEF SovdRefuse, SovdFinish
  <2> QED
    BY <1>0, <1>3, <2>1, <2>2
<1>6. ASSUME NEW k \in Actuators, NEW st, SimulatorAnswer(k, st) \/ AgentAnswer(k, st) PROVE Goal
  <2>1. UNCHANGED scan
    BY <1>6 DEF SimulatorAnswer, AgentAnswer
  <2>2. PICK t : <<t, k>> \in published /\ inbox' = inbox \cup {FinalAnswer(k, t, st, FALSE)}
    BY <1>6 DEF SimulatorAnswer, AgentAnswer
  <2>3. FinalAnswer(k, t, st, FALSE).topic = t /\ FinalAnswer(k, t, st, FALSE).id = k
    BY DEF FinalAnswer
  <2>4. <<FinalAnswer(k, t, st, FALSE).topic, FinalAnswer(k, t, st, FALSE).id>> \in published
    BY <2>2, <2>3
  <2> QED
    BY <1>2, <2>1, <2>2, <2>4
<1> HIDE DEF Goal
<1>7. Goal
  BY <1>1, <1>4, <1>5, <1>6 DEF VehicleStep
<1> QED
  BY <1>7 DEF Goal

\* A status that a step writes, unless it is the put of a caller, is the one just handled.
LEMMA StatusOrigin ==
    ASSUME TypeOK, AnswerInv, Next \/ UNCHANGED vars, NEW k \in Ids,
           rows'[k].status \in Reported
    PROVE  /\ handled \subseteq handled'
           /\ \/ rows'[k].status = rows[k].status
              \/ \E m \in handled' : m.id = k /\ m.status = rows'[k].status
<1>0. rows[k] \in Row
  BY DEF TypeOK
<1>1. ASSUME NEW c \in Calls, CallStep(c)
      PROVE  handled' = handled /\ rows'[k] = rows[k]
  <2>1. UNCHANGED rows \/ rows' = [rows EXCEPT ![calls[c].id] = SentRow(c)]
    BY <1>1 DEF CallStep, SovdArrive, ActuatorArrive, SovdPublish, FwePublish, LegacyPublish,
                PublishFails, SovdBadSession, SovdPut, ActuatorPut, PutUnanswered, CallDies
  <2>2. SentRow(c).status \notin Reported
    BY DEF SentRow, NoRow, Reported, Terminal, Interim
  <2>3. handled' = handled
    BY <1>1 DEF CallStep, vehicleSide, SovdArrive, ActuatorArrive, SovdPublish, FwePublish,
                LegacyPublish, PublishFails, SovdBadSession, SovdPut, ActuatorPut, PutUnanswered, CallDies
  <2> QED
    BY <2>1, <2>2, <2>3 DEF TypeOK
<1>2. CASE VehicleStep
  BY <1>2 DEF VehicleStep, SovdStart, SovdRefuse, SovdProgress, SovdFinish,
              SimulatorAnswer, AgentAnswer, apiSide
<1>3. ASSUME NEW m \in inbox, Handle(m)
      PROVE  /\ handled' = handled \cup {m}
             /\ rows'[k].status = rows[k].status \/ (m.id = k /\ m.status = rows'[k].status)
  <2>1. handled' = handled \cup {m}
    BY <1>3 DEF Handle, HandleProgress, HandleSovd, HandleActuator
  <2>2. CASE m.id # k
    <3>1. rows'[k] = rows[k]
      BY <1>3, <2>2 DEF Handle, HandleProgress, HandleSovd, HandleActuator, TypeOK
    <3> QED
      BY <2>1, <3>1
  <2>3. CASE m.id = k
    <3> DEFINE row == rows[k]
    <3>1. UNCHANGED rows
          \/ rows'[k] = [row EXCEPT !.exists = TRUE, !.progress = m.ecu]
          \/ rows'[k] = [row EXCEPT !.exists = TRUE, !.status = m.status]
          \/ rows'[k] = [row EXCEPT !.exists = TRUE, !.status = m.status, !.s3 = @ \/ m.stored]
      <4>1. CASE HandleProgress(m)
        BY <2>3, <4>1 DEF HandleProgress, TypeOK
      <4>2. CASE HandleSovd(m)
        BY <2>3, <4>2 DEF HandleSovd, TypeOK
      <4>3. CASE HandleActuator(m)
        BY <2>3, <4>3 DEF HandleActuator, TypeOK
      <4> QED
        BY <1>3, <4>1, <4>2, <4>3 DEF Handle
    <3>2. row \in [exists : BOOLEAN, owner : Calls \cup {NoCall},
                   status : Reported \cup {"SENT", "unset"},
                   progress : NoEcu..(Ecus - 1), body : Reported \cup {"unset"}, s3 : BOOLEAN]
      BY <1>0 DEF Row
    <3> HIDE DEF row
    <3>3. /\ [row EXCEPT !.exists = TRUE, !.progress = m.ecu].status = row.status
          /\ [row EXCEPT !.exists = TRUE, !.status = m.status].status = m.status
          /\ [row EXCEPT !.exists = TRUE, !.status = m.status,
                         !.s3 = @ \/ m.stored].status = m.status
      BY <3>2
    <3>4. UNCHANGED rows \/ rows'[k].status \in {row.status, m.status}
      BY <3>1, <3>3
    <3> QED
      BY <2>1, <2>3, <3>4 DEF row
  <2> QED
    BY <2>2, <2>3
<1>4. ASSUME NEW m \in pending, StoreBody(m) \/ LoseBody(m)
      PROVE  handled' = handled /\ rows'[k].status = rows[k].status
  <2>1. handled' = handled
    BY <1>4 DEF StoreBody, LoseBody
  <2>2. UNCHANGED rows \/ rows'[k] = rows[k]
        \/ rows'[k] = [rows[k] EXCEPT !.exists = TRUE, !.body = m.status]
    BY <1>4 DEF StoreBody, LoseBody, TypeOK
  <2>3. [rows[k] EXCEPT !.exists = TRUE, !.body = m.status].status = rows[k].status
    BY <1>0 DEF Row
  <2> QED
    BY <2>1, <2>2, <2>3
<1>5. CASE UNCHANGED vars
  BY <1>5 DEF vars
<1> QED
  BY <1>1, <1>2, <1>3, <1>4, <1>5 DEF Next

LEMMA OriginStep ==
    ASSUME IInv, Origin, Next \/ UNCHANGED vars
    PROVE  Origin'
<1> USE DEF IInv
<1>1. /\ \A x \in published' : \E c \in Calls : calls'[c].id = x[2]
      /\ published \subseteq published'
  BY RequestsOfCalls DEF Origin
<1>2. /\ \A k \in Sovd : scan'[k] # NoEcu => <<"sovd", k>> \in published'
      /\ \A m \in inbox' : <<m.topic, m.id>> \in published'
  <2>1. CASE UNCHANGED <<scan, inbox>>
    BY <1>1, <2>1 DEF Origin
  <2>2. CASE VehicleStep
    BY <1>1, <2>2, VehicleOnRequest DEF Origin, TypeOK
  <2>3. ASSUME NEW c \in Calls, CallStep(c) PROVE UNCHANGED <<scan, inbox>>
    BY <2>3, CallPublishes DEF vehicleSide
  <2>4. ASSUME NEW m, Handle(m) \/ StoreBody(m) \/ LoseBody(m) PROVE UNCHANGED <<scan, inbox>>
    BY <2>4 DEF Handle, HandleProgress, HandleSovd, HandleActuator, StoreBody, LoseBody
  <2> QED
    BY <2>1, <2>2, <2>3, <2>4 DEF Next, vars
<1>3. ASSUME NEW k \in Ids, rows'[k].status \in Reported
      PROVE  \E m \in handled' : m.id = k /\ m.status = rows'[k].status
  BY <1>3, StatusOrigin DEF Origin
<1> QED
  BY <1>1, <1>2, <1>3 DEF Origin

\* No outcome without a command: for diagnostic and actuator commands alike, what a
\* row shows was answered to a request that a call with that id sent.
THEOREM OutcomeSolicited == Spec => []NothingUnsolicited
<1>1. Init => Origin
  <2>1. NoRow.status \notin Reported
    BY DEF NoRow, Reported, Terminal, Interim
  <2> QED
    BY <2>1 DEF Init, Origin
<1>2. IInv /\ Origin /\ [Next]_vars => Origin'
  BY OriginStep
<1>3. IInv /\ Origin => NothingUnsolicited
  <2> SUFFICES ASSUME IInv, Origin, NEW k \in Ids, rows[k].status \in Reported
               PROVE  \E m \in handled, c \in Calls :
                         /\ m.id = k /\ m.status = rows[k].status
                         /\ <<m.topic, k>> \in published /\ calls[c].id = k
    BY DEF NothingUnsolicited
  <2>1. PICK m \in handled : m.id = k /\ m.status = rows[k].status
    BY DEF Origin
  <2>2. <<m.topic, k>> \in published
    BY <2>1 DEF Origin, IInv, AnswerInv
  <2>3. \E c \in Calls : calls[c].id = <<m.topic, k>>[2]
    BY <2>2 DEF Origin
  <2> QED
    BY <2>1, <2>2, <2>3
<1> QED
  BY <1>1, <1>2, <1>3, Inductive, PTL DEF Spec

-----------------------------------------------------------------------------
(* Actuator commands *)

LEMMA ActuatorStep ==
    ASSUME TypeOK, AnswerInv, Next \/ UNCHANGED vars, NEW k \in Actuators,
           rows[k].status = "SUCCEEDED", rows'[k].status # "SUCCEEDED"
    PROVE  \E c \in Calls :
             calls[c].id = k /\ Puts(c) /\ calls'[c].step \in {"resend", "done"}
<1>0. k \in Ids /\ k \notin Sovd /\ rows[k] \in Row
  BY CommandsAssumption DEF Ids, TypeOK
<1>1. ASSUME NEW c \in Calls, CallStep(c)
      PROVE  calls[c].id = k /\ Puts(c) /\ calls'[c].step \in {"resend", "done"}
  <2>1. CASE UNCHANGED rows
    BY <2>1
  <2>2. CASE SovdPut(c) \/ ActuatorPut(c) \/ PutUnanswered(c)
    <3>1. Puts(c)
      BY <2>2 DEF SovdPut, ActuatorPut, PutUnanswered
    <3>2. calls'[c].step \in {"resend", "done"}
      BY <2>2 DEF SovdPut, ActuatorPut, PutUnanswered, Ends, Goes, TypeOK, Call
    <3>3. UNCHANGED rows \/ rows' = [rows EXCEPT ![calls[c].id] = SentRow(c)]
      BY <2>2 DEF SovdPut, ActuatorPut, PutUnanswered
    <3>4. calls[c].id = k
      BY <1>0, <2>1, <3>3 DEF TypeOK
    <3> QED
      BY <3>1, <3>2, <3>4
  <2> QED
    BY <1>1, <2>1, <2>2 DEF CallStep, SovdArrive, ActuatorArrive, SovdPublish, FwePublish,
                            LegacyPublish, PublishFails, SovdBadSession, CallDies
<1>2. CASE VehicleStep
  BY <1>2 DEF VehicleStep, SovdStart, SovdRefuse, SovdProgress, SovdFinish,
              SimulatorAnswer, AgentAnswer, apiSide
<1>3. ASSUME NEW m \in inbox, Handle(m) PROVE FALSE
  <2>1. CASE HandleProgress(m)
    BY <1>0, <2>1 DEF HandleProgress, TypeOK, Row
  <2>2. CASE HandleSovd(m)
    <3>1. m.id # k
      BY <1>0, <1>3, <2>2 DEF HandleSovd, AnswerInv
    <3> QED
      BY <1>0, <2>2, <3>1 DEF HandleSovd, TypeOK
  <2>3. CASE HandleActuator(m)
    <3>1. CASE ActuatorMayWrite(rows[m.id], m.status) /\ m.id = k
      <4>1. m.status = "SUCCEEDED"
        BY <3>1 DEF ActuatorMayWrite
      <4>2. rows'[k].status = "SUCCEEDED"
        BY <1>0, <2>3, <3>1, <4>1 DEF HandleActuator, TypeOK, Row
      <4> QED
        BY <4>2
    <3>2. CASE ~(ActuatorMayWrite(rows[m.id], m.status) /\ m.id = k)
      BY <1>0, <2>3, <3>2 DEF HandleActuator, TypeOK
    <3> QED
      BY <3>1, <3>2
  <2> QED
    BY <1>3, <2>1, <2>2, <2>3 DEF Handle
<1>4. ASSUME NEW m \in pending, StoreBody(m) \/ LoseBody(m) PROVE FALSE
  BY <1>0, <1>4 DEF StoreBody, LoseBody, TypeOK, Row
<1>5. CASE UNCHANGED vars
  BY <1>5 DEF vars
<1> QED
  BY <1>1, <1>2, <1>3, <1>4, <1>5 DEF Next

\* A succeeded actuator command loses its success to the put of its own sender
\* only, never to an answer of the vehicle.
THEOREM SuccessStays == Spec => SuccessKept
<1>1. IInv /\ [Next]_vars =>
        [\A k \in Actuators :
          rows[k].status = "SUCCEEDED" /\ rows'[k].status # "SUCCEEDED" =>
              \E c \in Calls : calls[c].id = k /\ Puts(c)
                                               /\ calls'[c].step \in {"resend", "done"}]_vars
  BY ActuatorStep DEF IInv
<1> QED
  BY <1>1, Inductive, PTL DEF Spec, SuccessKept

=============================================================================
