----------------------------- MODULE LedgerProofs -----------------------------
(***************************************************************************)
(* Proofs about what the two ledgers say of a message: the sends           *)
(* (Delivery), then the manual sends and owner notices around them         *)
(* (ManualSend), for any number of servers, ids, texts and calls.          *)
(***************************************************************************)
EXTENDS ManualSend, TLAPS

------------------------------------------------------------------------------
(***************************************************************************)
(* A send.                                                                 *)
(***************************************************************************)
\* A server past recordMessage has a record to finish, and past the transport
\* an outcome to save: what type correctness of the ledger rests on.
HasRecord ==
    \A s \in Server :
        /\ phase[s] \in {"send", "written", "finish"} => messages[KeyOf(s)] \in Record
        /\ phase[s] = "finish" => result[s] # "none"

LEMMA TypeStep ==
  ASSUME TypeOK, HasRecord, [Next]_vars
  PROVE  TypeOK' /\ HasRecord'
<1> USE MaxAsksAssumption, NoMessageAssumption, NoTextAssumption
    DEF TypeOK, Request, Record
<1> USE DEF transport, Working, Goto, KeyOf, End, Answer, AnswerError, HasRecord
<1>1. ASSUME NEW s \in Server, Ask(s) PROVE TypeOK' /\ HasRecord'
  BY <1>1 DEF Ask
<1>2. ASSUME NEW s \in Server, Refuse(s) PROVE TypeOK' /\ HasRecord'
  BY <1>2 DEF Refuse
<1>3. ASSUME NEW s \in Server, Reserve(s) PROVE TypeOK' /\ HasRecord'
  <2> DEFINE record == [text |-> request[s].text, sender |-> s, status |-> "sending"]
  <2>1. /\ phase[s] = "asked" /\ request[s] \in Request /\ KeyOf(s) \in Key
        /\ messages' = [messages EXCEPT ![KeyOf(s)] = record]
        /\ UNCHANGED <<alive, asks, transport>> /\ told' = told
    BY <1>3 DEF Reserve
  <2>2. /\ messages' \in [Key -> Record \cup {NoMessage}]
        /\ messages'[KeyOf(s)] \in Record
        /\ \A k \in Key : messages[k] \in Record => messages'[k] \in Record
    <3>1. record \in Record
      BY <2>1
    <3> HIDE DEF record
    <3> QED
      BY <2>1, <3>1
  <2>3. CASE Goto(s, "send") /\ UNCHANGED <<request, result, told>>
    BY <2>1, <2>2, <2>3
  <2>4. CASE AnswerError(s)
    BY <2>1, <2>2, <2>4
  <2> QED
    BY <1>3, <2>3, <2>4 DEF Reserve
<1>4. ASSUME NEW s \in Server, Conflict(s) PROVE TypeOK' /\ HasRecord'
  BY <1>4 DEF Conflict
<1>5. ASSUME NEW s \in Server, Repeat(s) PROVE TypeOK' /\ HasRecord'
  <2>1. PICK status \in {"sending", "submitted", "failed", "uncertain"} :
          /\ messages' = [messages EXCEPT ![KeyOf(s)].status = status]
          /\ \/ Answer(s, IF status = "sending" THEN "uncertain" ELSE status)
             \/ AnswerError(s)
    BY <1>5, ZenonT(40) DEF Repeat, MayBeInterrupted
  <2>2. KeyOf(s) \in Key /\ messages[KeyOf(s)] \in Record
    BY <1>5 DEF Repeat
  <2>3. [messages[KeyOf(s)] EXCEPT !.status = status] \in Record
    BY <2>2
  <2>4. /\ messages' \in [Key -> Record \cup {NoMessage}]
        /\ \A k \in Key : messages[k] \in Record => messages'[k] \in Record
    BY <2>1, <2>2, <2>3
  <2>5. /\ told' \in SUBSET [key : Key, text : Text, answer : {"submitted", "failed", "uncertain"}]
        /\ phase' = [phase EXCEPT ![s] = "idle"]
        /\ request' = [request EXCEPT ![s] = NoMessage]
        /\ result' = [result EXCEPT ![s] = "none"]
    BY <2>1, <2>2, <1>5 DEF Repeat
  <2>6. /\ alive' = alive /\ asks' = asks /\ writes' = writes /\ wire' = wire
        /\ refused' = refused /\ delivered' = delivered
    BY <1>5 DEF Repeat
  <2>7. /\ phase' \in [Server -> {"idle", "asked", "send", "written", "finish"}]
        /\ request' \in [Server -> Request \cup {NoMessage}]
        /\ result' \in [Server -> {"none", "submitted", "failed", "uncertain"}]
    BY <2>5
  <2>8. \A t \in Server : phase'[t] # "idle" =>
          /\ t # s /\ phase'[t] = phase[t] /\ request'[t] = request[t]
          /\ result'[t] = result[t] /\ request[t] \in Request
    BY <2>5
  <2>9. TypeOK'
    BY <2>4, <2>5, <2>6, <2>7, <2>8
  <2>10. ASSUME NEW t \in Server,
                phase'[t] \in {"send", "written", "finish"}
         PROVE  /\ messages'[request'[t].key] \in Record
                /\ phase'[t] = "finish" => result'[t] # "none"
    <3>1. /\ phase[t] = phase'[t] /\ request'[t] = request[t] /\ result'[t] = result[t]
          /\ request[t].key \in Key
      BY <2>8, <2>10
    <3>2. /\ messages[request[t].key] \in Record
          /\ phase[t] = "finish" => result[t] # "none"
      BY <2>10, <3>1
    <3> QED
      BY <2>4, <3>1, <3>2
  <2>11. HasRecord'
    BY <2>10
  <2> QED
    BY <2>9, <2>11
<1>6. ASSUME NEW s \in Server, NotWritten(s) PROVE TypeOK' /\ HasRecord'
  BY <1>6 DEF NotWritten
<1>7. ASSUME NEW s \in Server, Write(s) PROVE TypeOK' /\ HasRecord'
  BY <1>7 DEF Write
<1>8. ASSUME NEW s \in Server, Outcome(s) PROVE TypeOK' /\ HasRecord'
  BY <1>8 DEF Outcome
<1>9. ASSUME NEW s \in Server, Rejected(s) PROVE TypeOK' /\ HasRecord'
  BY <1>9 DEF Rejected
<1>10. ASSUME NEW s \in Server, Finish(s) PROVE TypeOK' /\ HasRecord'
  <2>1. KeyOf(s) \in Key /\ messages[KeyOf(s)] \in Record
        /\ result[s] \in {"submitted", "failed", "uncertain"}
    BY <1>10 DEF Finish
  <2>2. [messages[KeyOf(s)] EXCEPT !.status = result[s]] \in Record
    BY <2>1
  <2>3. messages' = [messages EXCEPT ![KeyOf(s)].status = result[s]] \/ messages' = messages
    BY <1>10 DEF Finish
  <2>4. /\ messages' \in [Key -> Record \cup {NoMessage}]
        /\ \A k \in Key : messages[k] \in Record => messages'[k] \in Record
    BY <2>1, <2>2, <2>3
  <2>5. /\ told' \in SUBSET [key : Key, text : Text, answer : {"submitted", "failed", "uncertain"}]
        /\ phase' = [phase EXCEPT ![s] = "idle"]
        /\ request' = [request EXCEPT ![s] = NoMessage]
        /\ result' = [result EXCEPT ![s] = "none"]
    BY <2>1, <1>10 DEF Finish
  <2> QED
    BY <2>4, <2>5, <1>10 DEF Finish
<1>11. ASSUME NEW s \in Server, Exit(s) PROVE TypeOK' /\ HasRecord'
  BY <1>11 DEF Exit
<1>12. ASSUME NEW k \in Key, Deliver(k) PROVE TypeOK' /\ HasRecord'
  BY <1>12 DEF Deliver
<1>13. CASE UNCHANGED vars
  BY <1>13 DEF vars
<1> QED
  BY <1>1, <1>2, <1>3, <1>4, <1>5, <1>6, <1>7, <1>8, <1>9, <1>10, <1>11, <1>12, <1>13
  DEF Next, Serve

\* Type correctness of the send path and its ledger (executeBridgeTool,
\* recordMessage, finishMessage).
THEOREM TypeCorrect == Spec => []TypeOK
<1>1. Init => TypeOK /\ HasRecord
  BY MaxAsksAssumption, NoMessageAssumption, NoTextAssumption
  DEF TypeOK, Request, Record, Init, HasRecord
<1>2. TypeOK /\ HasRecord /\ [Next]_vars => TypeOK' /\ HasRecord'
  BY TypeStep
<1> QED
  BY <1>1, <1>2, PTL DEF Spec

------------------------------------------------------------------------------
LEMMA DeliveryInvInit == Init => DeliveryInv
  BY DEF Init, DeliveryInv, SenderOwnsRecord, PhaseTellsTransport, RecordTellsTransport,
         AnswersAreRecorded, AtMostOneWrite, RecordedBeforeWritten, Recorded, Handed

\* One case per action: what the action can disturb is about its own key.
LEMMA DeliveryInvStep ==
  ASSUME TypeOK, DeliveryInv, [Next]_vars
  PROVE  DeliveryInv'
<1> USE NoMessageAssumption, NoTextAssumption
    DEF TypeOK, DeliveryInv, SenderOwnsRecord, PhaseTellsTransport, RecordTellsTransport,
        AnswersAreRecorded, AtMostOneWrite, RecordedBeforeWritten, Recorded, Handed, Status,
        Request, Record, transport, Working, Goto, KeyOf, End, Answer, AnswerError
<1>1. ASSUME NEW s \in Server, Ask(s) PROVE DeliveryInv'
  BY <1>1 DEF Ask
<1>2. ASSUME NEW s \in Server, Refuse(s) PROVE DeliveryInv'
  BY <1>2 DEF Refuse
<1>3. ASSUME NEW s \in Server, Reserve(s) PROVE DeliveryInv'
  BY <1>3 DEF Reserve
<1>4. ASSUME NEW s \in Server, Conflict(s) PROVE DeliveryInv'
  BY <1>4 DEF Conflict
<1>5. ASSUME NEW s \in Server, Repeat(s) PROVE DeliveryInv'
  <2> DEFINE key == KeyOf(s)
  <2> HIDE DEF DeliveryInv, SenderOwnsRecord, PhaseTellsTransport, RecordTellsTransport,
        AnswersAreRecorded, AtMostOneWrite, RecordedBeforeWritten
  <2>1. PICK status \in {"sending", "submitted", "failed", "uncertain"} :
          /\ status = messages[key].status \/ (messages[key].status = "sending" /\ status = "uncertain")
          /\ messages' = [messages EXCEPT ![key].status = status]
          /\ \/ Answer(s, IF status = "sending" THEN "uncertain" ELSE status)
             \/ AnswerError(s)
    <3>1. PICK interrupted \in MayBeInterrupted(messages[key]) :
            /\ messages' = [messages EXCEPT ![key].status =
                              IF interrupted THEN "uncertain" ELSE messages[key].status]
            /\ \/ Answer(s, IF (IF interrupted THEN "uncertain" ELSE messages[key].status) = "sending"
                            THEN "uncertain"
                            ELSE IF interrupted THEN "uncertain" ELSE messages[key].status)
               \/ AnswerError(s)
      BY <1>5 DEF Repeat
    <3>2. messages[key].status \in {"sending", "submitted", "failed", "uncertain"}
      BY <1>5 DEF Repeat
    <3>3. CASE interrupted
      <4>1. messages[key].status = "sending"
        BY <3>1, <3>3 DEF MayBeInterrupted
      <4> QED BY <3>1, <3>3, <4>1
    <3>4. CASE ~interrupted
      BY <3>1, <3>2, <3>4
    <3> QED BY <3>3, <3>4
  <2>2. /\ key \in Key /\ messages[key] \in Record /\ messages[key].text = request[s].text
        /\ phase[s] = "asked" /\ UNCHANGED transport
    BY <1>5 DEF Repeat
  <2>3. /\ phase' = [phase EXCEPT ![s] = "idle"]
        /\ request' = [request EXCEPT ![s] = NoMessage]
        /\ result' = [result EXCEPT ![s] = "none"]
    BY <2>1
  <2>4. \A k \in Key : messages[k] # NoMessage =>
          /\ messages'[k] # NoMessage
          /\ messages'[k].text = messages[k].text /\ messages'[k].sender = messages[k].sender
          /\ messages'[k].status = IF k = key THEN status ELSE messages[k].status
    BY <2>1, <2>2
  <2>5. \A k \in Key : messages[k] = NoMessage => messages'[k] = NoMessage
    BY <2>1, <2>2
  <2>6. \A t \in told' :
          \/ t \in told
          \/ /\ t.key = key /\ t.text = messages[key].text
             /\ t.answer \in {"submitted", "failed"} => t.answer = status
    <3> DEFINE new == [key |-> key, text |-> messages[key].text,
                       answer |-> IF status = "sending" THEN "uncertain" ELSE status]
    <3>1. told' = told \cup {new} \/ told' = told
      BY <2>1, <2>2
    <3>2. /\ new.key = key /\ new.text = messages[key].text
          /\ new.answer \in {"submitted", "failed"} => new.answer = status
      OBVIOUS
    <3> HIDE DEF new
    <3> QED BY ONLY <3>1, <3>2
  <2>7. SenderOwnsRecord' /\ PhaseTellsTransport'
    <3>1. \A t \in Server \ {s} : phase'[t] = phase[t] /\ request'[t] = request[t] /\ result'[t] = result[t]
      BY <2>3
    <3>2. phase'[s] = "idle"
      BY <2>3
    <3>3. SenderOwnsRecord'
      BY <2>1, <2>2, <2>4, <3>1, <3>2 DEF DeliveryInv, SenderOwnsRecord
    <3>4. PhaseTellsTransport'
      BY <2>1, <2>2, <2>4, <3>1, <3>2 DEF DeliveryInv, PhaseTellsTransport
    <3> QED
      BY <3>3, <3>4
  <2>8. RecordTellsTransport' /\ AtMostOneWrite' /\ RecordedBeforeWritten'
    BY <2>1, <2>2, <2>4, <2>5, SMTT(20)
    DEF DeliveryInv, RecordTellsTransport, AtMostOneWrite, RecordedBeforeWritten
  <2>9. \A t \in told : t.key \in Key
    OBVIOUS
  <2>10. AnswersAreRecorded'
    <3> SUFFICES ASSUME NEW t \in told'
                 PROVE  /\ Recorded(t.key)' /\ messages'[t.key].text = t.text
                        /\ t.answer = "submitted" => messages'[t.key].status = "submitted"
                        /\ t.answer = "failed" => t.key \in refused'
      BY DEF AnswersAreRecorded
    <3>1. CASE t \in told
      BY <2>1, <2>2, <2>4, <2>9, <3>1 DEF DeliveryInv, AnswersAreRecorded
    <3>2. CASE t \notin told
      BY <2>1, <2>2, <2>4, <2>6, <3>2 DEF DeliveryInv, RecordTellsTransport
    <3> QED BY <3>1, <3>2
  <2> QED
    BY <2>2, <2>7, <2>8, <2>10 DEF DeliveryInv
<1>6. ASSUME NEW s \in Server, NotWritten(s) PROVE DeliveryInv'
  BY <1>6 DEF NotWritten
<1>7. ASSUME NEW s \in Server, Write(s) PROVE DeliveryInv'
  BY <1>7 DEF Write
<1>8. ASSUME NEW s \in Server, Outcome(s) PROVE DeliveryInv'
  BY <1>8 DEF Outcome
<1>9. ASSUME NEW s \in Server, Rejected(s) PROVE DeliveryInv'
  BY <1>9 DEF Rejected
<1>10. ASSUME NEW s \in Server, Finish(s) PROVE DeliveryInv'
  <2> DEFINE key == KeyOf(s)
  <2> HIDE DEF DeliveryInv, SenderOwnsRecord, PhaseTellsTransport, RecordTellsTransport,
        AnswersAreRecorded, AtMostOneWrite, RecordedBeforeWritten
  <2>1. /\ key \in Key /\ messages[key] \in Record /\ messages[key].text = request[s].text
        /\ messages[key].sender = s /\ messages[key].status \in {"sending", "uncertain"}
        /\ phase[s] = "finish" /\ UNCHANGED transport
        /\ \/ result[s] = "failed" /\ key \in refused
           \/ result[s] \in {"submitted", "uncertain"} /\ Handed(key)
    BY <1>10 DEF Finish, DeliveryInv, SenderOwnsRecord, PhaseTellsTransport
  <2>2. PICK status \in {"sending", "submitted", "failed", "uncertain"}, answer \in {"submitted", "failed", "uncertain"} :
          /\ status = result[s] \/ status = messages[key].status
          /\ messages' = [messages EXCEPT ![key].status = status]
          /\ answer = "submitted" => status = "submitted"
          /\ answer = "failed" => result[s] = "failed"
          /\ Answer(s, answer)
    <3>1. CASE messages' = [messages EXCEPT ![key].status = result[s]]
      <4>1. CASE Answer(s, result[s]) BY <2>1, <3>1, <4>1
      <4>2. CASE Answer(s, IF result[s] = "submitted" THEN "uncertain" ELSE result[s])
        BY <2>1, <3>1, <4>2
      <4> QED BY <1>10, <4>1, <4>2 DEF Finish
    <3>2. CASE UNCHANGED messages /\ Answer(s, IF result[s] = "submitted" THEN "uncertain" ELSE result[s])
      <4>1. messages' = [messages EXCEPT ![key].status = messages[key].status]
        BY <2>1, <3>2
      <4> QED BY <2>1, <3>2, <4>1
    <3> QED BY <1>10, <3>1, <3>2 DEF Finish
  <2>3. /\ phase' = [phase EXCEPT ![s] = "idle"]
        /\ request' = [request EXCEPT ![s] = NoMessage]
        /\ result' = [result EXCEPT ![s] = "none"]
    BY <2>2
  <2>4. \A k \in Key : messages[k] # NoMessage =>
          /\ messages'[k] # NoMessage
          /\ messages'[k].text = messages[k].text /\ messages'[k].sender = messages[k].sender
          /\ messages'[k].status = IF k = key THEN status ELSE messages[k].status
    BY <2>1, <2>2
  <2>5. \A k \in Key : messages[k] = NoMessage => messages'[k] = NoMessage
    BY <2>1, <2>2
  <2>6. \A t \in told' :
          \/ t \in told
          \/ t.key = key /\ t.text = messages[key].text /\ t.answer = answer
    <3> DEFINE new == [key |-> key, text |-> messages[key].text, answer |-> answer]
    <3>1. told' = told \cup {new}
      BY <2>1, <2>2
    <3>2. new.key = key /\ new.text = messages[key].text /\ new.answer = answer
      OBVIOUS
    <3> HIDE DEF new
    <3> QED BY ONLY <3>1, <3>2
  <2>7. SenderOwnsRecord' /\ PhaseTellsTransport'
    BY <2>1, <2>3, <2>4 DEF DeliveryInv, SenderOwnsRecord, PhaseTellsTransport
  <2>8. RecordTellsTransport' /\ AtMostOneWrite' /\ RecordedBeforeWritten'
    BY <2>1, <2>2, <2>4, <2>5, SMTT(20)
    DEF DeliveryInv, RecordTellsTransport, AtMostOneWrite, RecordedBeforeWritten
  <2>9. \A t \in told : t.key \in Key
    OBVIOUS
  <2>10. AnswersAreRecorded'
    <3> SUFFICES ASSUME NEW t \in told'
                 PROVE  /\ Recorded(t.key)' /\ messages'[t.key].text = t.text
                        /\ t.answer = "submitted" => messages'[t.key].status = "submitted"
                        /\ t.answer = "failed" => t.key \in refused'
      BY DEF AnswersAreRecorded
    <3>1. CASE t \in told
      BY <2>1, <2>2, <2>4, <2>9, <3>1 DEF DeliveryInv, AnswersAreRecorded
    <3>2. CASE t \notin told
      BY <2>1, <2>2, <2>4, <2>6, <3>2 DEF DeliveryInv, RecordTellsTransport
    <3> QED BY <3>1, <3>2
  <2> QED
    BY <2>1, <2>7, <2>8, <2>10 DEF DeliveryInv
<1>11. ASSUME NEW s \in Server, Exit(s) PROVE DeliveryInv'
  BY <1>11 DEF Exit
<1>12. ASSUME NEW k \in Key, Deliver(k) PROVE DeliveryInv'
  BY <1>12 DEF Deliver
<1>13. CASE UNCHANGED vars
  BY <1>13 DEF vars
<1> QED
  BY <1>1, <1>2, <1>3, <1>4, <1>5, <1>6, <1>7, <1>8, <1>9, <1>10, <1>11, <1>12, <1>13
  DEF Next, Serve

THEOREM DeliveryInvariant == Spec => [](TypeOK /\ DeliveryInv)
<1>1. TypeOK /\ DeliveryInv /\ [Next]_vars => DeliveryInv'
  BY DeliveryInvStep
<1> QED
  BY <1>1, DeliveryInvInit, TypeCorrect, PTL DEF Spec

\* A message id is given to a transport at most once (executeBridgeTool).
THEOREM AtMostOnce == Spec => []AtMostOneWrite
<1>1. DeliveryInv => AtMostOneWrite
  BY DEF DeliveryInv
<1> QED
  BY <1>1, DeliveryInvariant, PTL

\* The ledger knows every message that an application can receive (recordMessage).
THEOREM WriteAhead == Spec => []RecordedBeforeWritten
<1>1. DeliveryInv => RecordedBeforeWritten
  BY DEF DeliveryInv
<1> QED
  BY <1>1, DeliveryInvariant, PTL

\* What is recorded or reported as failed never arrives (finishMessage).
THEOREM FailuresAreTrue == Spec => []FailedNeverArrives
<1>1. TypeOK /\ DeliveryInv => FailedNeverArrives
  BY DEF TypeOK, DeliveryInv, RecordTellsTransport, AnswersAreRecorded, FailedNeverArrives,
         ToldOf, Recorded, Status
<1> QED
  BY <1>1, DeliveryInvariant, PTL

\* A success is told only of the caller's own text, and only if it was written.
THEOREM SuccessesAreTrue == Spec => []SuccessIsTrue
<1>1. TypeOK /\ DeliveryInv => SuccessIsTrue
  BY DEF TypeOK, DeliveryInv, RecordTellsTransport, AnswersAreRecorded, RecordedBeforeWritten,
         SuccessIsTrue, Handed
<1> QED
  BY <1>1, DeliveryInvariant, PTL

------------------------------------------------------------------------------
Final ==
    \A k \in Key : Recorded(k) =>
        /\ Recorded(k)' /\ messages'[k].text = messages[k].text
        /\ messages'[k].sender = messages[k].sender
        /\ Status(k) \in {"submitted", "failed"} => messages'[k] = messages[k]

LEMMA FinalStep ==
  ASSUME TypeOK, DeliveryInv, [Next]_vars
  PROVE  Final
<1> USE DEF TypeOK, Final, Recorded, Status, Working
<1>1. CASE UNCHANGED messages
  BY <1>1
<1>2. ASSUME NEW s \in Server, Reserve(s) PROVE Final
  BY <1>2 DEF Reserve
<1>3. ASSUME NEW s \in Server, Repeat(s) PROVE Final
  <2>1. KeyOf(s) \in Key /\ messages[KeyOf(s)] \in Record
    BY <1>3 DEF Repeat, KeyOf, Request
  <2>2. PICK status \in {"sending", "submitted", "failed", "uncertain"} :
          /\ messages' = [messages EXCEPT ![KeyOf(s)].status = status]
          /\ messages[KeyOf(s)].status # "sending" => status = messages[KeyOf(s)].status
    BY <1>3, <2>1 DEF Repeat, MayBeInterrupted, Record
  <2>3. [messages[KeyOf(s)] EXCEPT !.status = status] \in Record
    BY <2>1 DEF Record
  <2> QED
    BY <2>1, <2>2, <2>3, NoMessageAssumption DEF Record
<1>4. ASSUME NEW s \in Server, Finish(s) PROVE Final
  <2>1. /\ KeyOf(s) \in Key /\ messages[KeyOf(s)] \in Record
        /\ messages[KeyOf(s)].status \in {"sending", "uncertain"}
    BY <1>4 DEF Finish, DeliveryInv, SenderOwnsRecord, KeyOf, Request
  <2>2. messages' = [messages EXCEPT ![KeyOf(s)].status = result[s]] \/ messages' = messages
    BY <1>4 DEF Finish
  <2>3. [messages[KeyOf(s)] EXCEPT !.status = result[s]] \in Record
    BY <1>4, <2>1 DEF Finish, DeliveryInv, PhaseTellsTransport, Record
  <2> QED
    BY <2>1, <2>2, <2>3, NoMessageAssumption DEF Record
<1>5. UNCHANGED messages \/ \E s \in Server : Reserve(s) \/ Repeat(s) \/ Finish(s)
  BY DEF Next, vars, Serve, Ask, Refuse, Conflict, NotWritten, Write, Outcome, Rejected,
         Deliver, Exit
<1> QED
  BY <1>1, <1>2, <1>3, <1>4, <1>5

\* A saved success or failure is final, and a record keeps its text and sender.
THEOREM FinalOutcome == Spec => OutcomeIsFinal
<1>1. TypeOK /\ DeliveryInv /\ [Next]_vars => [Final]_vars
  BY FinalStep
<1> QED
  BY <1>1, DeliveryInvariant, PTL DEF Spec, OutcomeIsFinal, Final

------------------------------------------------------------------------------
(***************************************************************************)
(* The refinement.  Recording a message fixes its text; writing it hands   *)
(* it over, its delivery is the application taking it; a failure refuses   *)
(* it; the end of a call tells an answer.                                  *)
(***************************************************************************)
LEMMA RefinementStep ==
  ASSUME TypeOK, DeliveryInv, [Next]_vars
  PROVE  [Promise!Next]_(Promise!vars)
<1> DEFINE text == [k \in Key |-> IF messages[k] = NoMessage THEN NoText ELSE messages[k].text]
<1> USE NoMessageAssumption, NoTextAssumption
    DEF TypeOK, Working, Goto, KeyOf, End, transport, Promise!vars, Request, Record
<1>1. ASSUME NEW s \in Server,
             Ask(s) \/ Refuse(s) \/ Conflict(s) \/ Outcome(s) \/ Exit(s)
      PROVE  UNCHANGED Promise!vars
  BY <1>1 DEF Ask, Refuse, Conflict, Outcome, Exit, AnswerError
<1>2. ASSUME NEW s \in Server, Reserve(s) PROVE Promise!Next
  <2>1. /\ KeyOf(s) \in Key /\ request[s].text \in Text /\ UNCHANGED <<writes, refused, delivered, told>>
        /\ messages[KeyOf(s)] = NoMessage
    BY <1>2 DEF Reserve, AnswerError
  <2>2. PICK record \in Record :
          record.text = request[s].text /\ messages' = [messages EXCEPT ![KeyOf(s)] = record]
    BY <1>2, <2>1 DEF Reserve
  <2>3. text' = [text EXCEPT ![KeyOf(s)] = request[s].text] /\ text[KeyOf(s)] = NoText
    BY <2>1, <2>2
  <2>4. \E t \in Text : Promise!Accept(KeyOf(s), t)
    BY <2>1, <2>3 DEF Promise!Accept
  <2> QED
    BY <2>1, <2>4, Zenon DEF Promise!Next
<1>3. ASSUME NEW s \in Server, NotWritten(s) \/ Rejected(s) PROVE Promise!Next
  <2>1. Promise!Refuse(KeyOf(s))
    BY <1>3 DEF NotWritten, Rejected, Promise!Refuse, DeliveryInv, AtMostOneWrite, SenderOwnsRecord,
                PhaseTellsTransport, Recorded, Handed
  <2> QED
    BY <1>3, <2>1 DEF NotWritten, Rejected, Promise!Next
<1>4. ASSUME NEW s \in Server, Write(s) PROVE Promise!Next
  <2>1. /\ KeyOf(s) \in Key /\ text[KeyOf(s)] # NoText
        /\ writes[KeyOf(s)] = 0 /\ KeyOf(s) \notin refused
    BY <1>4 DEF Write, DeliveryInv, SenderOwnsRecord, PhaseTellsTransport, Recorded
  <2>2. writes' = [writes EXCEPT ![KeyOf(s)] = 1] /\ UNCHANGED <<text, refused, delivered, told>>
    BY <1>4, <2>1 DEF Write
  <2>3. Promise!HandOver(KeyOf(s))
    BY <2>1, <2>2 DEF Promise!HandOver
  <2> QED
    BY <2>1, <2>3 DEF Promise!Next
<1>5. ASSUME NEW k \in Key, Deliver(k) PROVE Promise!Next
  <2>1. writes[k] = 1 /\ k \notin refused /\ delivered' = delivered \cup {k}
        /\ UNCHANGED <<messages, writes, refused, told>>
    BY <1>5 DEF Deliver, DeliveryInv, AtMostOneWrite
  <2>2. Promise!Take(k)
    BY <2>1 DEF Promise!Take
  <2> QED
    BY <2>2 DEF Promise!Next
<1>6. ASSUME NEW s \in Server, NEW answer \in {"submitted", "failed", "uncertain"},
             KeyOf(s) \in Key, messages[KeyOf(s)] \in Record,
             messages[KeyOf(s)].text = request[s].text,
             NEW status \in {"sending", "submitted", "failed", "uncertain"},
             messages' = [messages EXCEPT ![KeyOf(s)].status = status],
             UNCHANGED <<writes, refused, delivered>>,
             Answer(s, answer) \/ AnswerError(s),
             answer = "submitted" => Handed(KeyOf(s)),
             answer = "failed" => KeyOf(s) \in refused
      PROVE  Promise!Next \/ UNCHANGED Promise!vars
  <2>1. [messages[KeyOf(s)] EXCEPT !.status = status] \in Record
    BY <1>6
  <2>2. text' = text /\ text[KeyOf(s)] = request[s].text /\ request[s].text # NoText
    BY <1>6, <2>1
  <2>3. CASE AnswerError(s)
    BY <1>6, <2>2, <2>3 DEF AnswerError
  <2>4. CASE Answer(s, answer)
    <3>1. Promise!TrueOf(KeyOf(s), answer)
      BY <1>6 DEF Promise!TrueOf, Handed
    <3>2. Promise!Tell(KeyOf(s), answer)
      BY <1>6, <2>2, <2>4, <3>1 DEF Promise!Tell, Answer
    <3> QED
      BY <1>6, <3>2 DEF Promise!Next
  <2> QED
    BY <1>6, <2>3, <2>4
<1>7. ASSUME NEW s \in Server, Repeat(s) PROVE Promise!Next \/ UNCHANGED Promise!vars
  <2> DEFINE key == KeyOf(s)
  <2>1. /\ key \in Key /\ messages[key] \in Record /\ messages[key].text = request[s].text
        /\ UNCHANGED <<writes, refused, delivered>>
        /\ messages[key].status = "submitted" => Handed(key)
        /\ messages[key].status = "failed" => key \in refused
    BY <1>7 DEF Repeat, DeliveryInv, RecordTellsTransport, Recorded, Status
  <2>2. PICK interrupted \in MayBeInterrupted(messages[key]) :
          /\ messages' = [messages EXCEPT ![key].status =
                            IF interrupted THEN "uncertain" ELSE messages[key].status]
          /\ \/ Answer(s, IF (IF interrupted THEN "uncertain" ELSE messages[key].status) = "sending"
                          THEN "uncertain"
                          ELSE IF interrupted THEN "uncertain" ELSE messages[key].status)
             \/ AnswerError(s)
    BY <1>7 DEF Repeat
  <2> DEFINE status == IF interrupted THEN "uncertain" ELSE messages[key].status
             answer == IF status = "sending" THEN "uncertain" ELSE status
  <2>3. /\ status \in {"sending", "submitted", "failed", "uncertain"}
        /\ answer \in {"submitted", "failed", "uncertain"}
        /\ answer = "submitted" => Handed(key)
        /\ answer = "failed" => key \in refused
    BY <2>1
  <2> HIDE DEF key, status, answer
  <2>4. messages' = [messages EXCEPT ![key].status = status]
        /\ (Answer(s, answer) \/ AnswerError(s))
    BY <2>2 DEF key, status, answer
  <2> QED
    BY <1>6, <2>1, <2>3, <2>4 DEF key
<1>8. ASSUME NEW s \in Server, Finish(s) PROVE Promise!Next \/ UNCHANGED Promise!vars
  <2> DEFINE key == KeyOf(s)
  <2>1. /\ key \in Key /\ messages[key] \in Record /\ messages[key].text = request[s].text
        /\ UNCHANGED <<writes, refused, delivered>>
        /\ \/ result[s] = "failed" /\ key \in refused
           \/ result[s] \in {"submitted", "uncertain"} /\ Handed(key)
    BY <1>8 DEF Finish, DeliveryInv, SenderOwnsRecord, PhaseTellsTransport, Recorded
  <2>2. PICK status \in {"sending", "submitted", "failed", "uncertain"},
             answer \in {"submitted", "failed", "uncertain"} :
          /\ messages' = [messages EXCEPT ![key].status = status]
          /\ answer = result[s] \/ answer = "uncertain"
          /\ Answer(s, answer)
    <3>1. PICK answer \in {"submitted", "failed", "uncertain"} :
            (answer = result[s] \/ answer = "uncertain") /\ Answer(s, answer)
      BY <1>8, <2>1 DEF Finish
    <3>2. CASE messages' = [messages EXCEPT ![key].status = result[s]]
      BY <2>1, <3>1, <3>2
    <3>3. CASE UNCHANGED messages
      <4>1. messages' = [messages EXCEPT ![key].status = messages[key].status]
        BY <2>1, <3>3
      <4> QED BY <2>1, <3>1, <4>1
    <3> QED BY <1>8, <3>2, <3>3 DEF Finish
  <2>3. /\ answer = "submitted" => Handed(key)
        /\ answer = "failed" => key \in refused
    BY <2>1, <2>2
  <2> QED
    BY <1>6, <2>1, <2>2, <2>3
<1>9. CASE UNCHANGED vars
  BY <1>9 DEF vars
<1> QED
  BY <1>1, <1>2, <1>3, <1>4, <1>5, <1>7, <1>8, <1>9 DEF Next, Serve

\* A send keeps the delivery promise: one handing over per id, true answers.
THEOREM Refinement == Spec => ImplementsOneDelivery
<1>1. Init => Promise!Init
  BY NoMessageAssumption DEF Init, Promise!Init
<1>2. TypeOK /\ DeliveryInv /\ [Next]_vars => [Promise!Next]_(Promise!vars)
  BY RefinementStep
<1> QED
  BY <1>1, <1>2, DeliveryInvariant, PTL DEF Spec, Promise!Spec, ImplementsOneDelivery

------------------------------------------------------------------------------
(***************************************************************************)
(* Manual sends and owner notices.                                         *)
(*                                                                         *)
(* The invariant says what each place of a manual call implies about the   *)
(* two ledgers, and what a manual record implies about the delivery        *)
(* ledger and the owner's chat.  Its heart is ownership: one call under an *)
(* id ever gets to send, and the notice has one holder at a time.          *)
(***************************************************************************)
SendPlaces == {"sending", "sent", "reread", "failing"}
NoticePlaces == {"notice", "noticed", "posted", "saving"}

\* The delivery ledger has the manual text of k, with this status.
Own(k, status) ==
    /\ messages[k] # NoMessage
    /\ messages[k].text = manual[k].text /\ messages[k].status = status

\* The manual text of k has not been written, or certainly does not arrive.
Lost(k) == k \in refused \/ wire[k] # manual[k].text

WireIsWritten == \A k \in Key : wire[k] # NoText => writes[k] > 0

CallsAreNested ==
    \A s \in Server :
        /\ place[s] = "idle" /\ phase[s] # "idle" => request[s].text \notin ManualText
        /\ place[s] = "sending" => phase[s] # "idle" /\ request[s] = want[s]
        /\ place[s] \notin {"idle", "sending"} => phase[s] = "idle"

KindsAreApart ==
    \A s \in Server : alive[s] /\ place[s] # "idle" /\ WantedKey(s) \notin mixed =>
        /\ Recorded(WantedKey(s)) => messages[WantedKey(s)].text \in ManualText
        /\ \A u \in Server : alive[u] /\ place[u] = "idle" /\ phase[u] # "idle" =>
              KeyOf(u) # WantedKey(s)

LedgersAgree ==
    /\ \A k \in Key : Recorded(k) /\ messages[k].text \in ManualText =>
          HasManual(k) /\ manual[k].text = messages[k].text
    /\ \A s \in Server : place[s] \notin {"idle", "reserve", "retry"} =>
          HasManual(WantedKey(s)) /\ Held(s).text = want[s].text

OneHolder ==
    \A s, u \in Server : place[s] # "idle" /\ place[u] # "idle" /\ WantedKey(s) = WantedKey(u) =>
        /\ place[s] \in SendPlaces /\ place[u] \in SendPlaces => s = u
        /\ place[s] \in NoticePlaces /\ place[u] \in NoticePlaces => s = u

SeenIsTrue ==
    \A s \in Server : place[s] \in {"reserve", "failing"} /\ seen[s] # NoMessage =>
        /\ Recorded(WantedKey(s)) /\ messages[WantedKey(s)].text = seen[s].text
        /\ seen[s].status \in {"submitted", "failed"} =>
              messages[WantedKey(s)].status = seen[s].status
        /\ place[s] = "reserve" => seen[s].text = want[s].text

\* What the place of server s says about the send under its id,
SendAt(s, k) ==
    /\ place[s] = "sending" /\ phase[s] = "asked" /\ Recorded(k) =>
          messages[k].text \notin ManualText
    /\ place[s] = "sent" => Own(k, "submitted")
    /\ place[s] \in {"reread", "failing"} /\ outcome[s] = "uncertain" =>
          Handed(k) /\ wire[k] = want[s].text
    /\ place[s] \in {"reread", "failing"} /\ outcome[s] # "uncertain" =>
          \/ Lost(k)
          \/ /\ Own(k, "submitted")
             /\ place[s] = "failing" => seen[s] # NoMessage /\ seen[s].status = "submitted"
    /\ place[s] \in {"claim"} \cup NoticePlaces /\ k \notin mixed => Own(k, "submitted")
    /\ place[s] \in SendPlaces /\ manual[k].send \in {"submitted", "failed"} => Own(k, manual[k].send)

\* and about the notice.
NoticeAt(s, k) ==
    /\ place[s] = "notice" => notices[k] = 0
    /\ place[s] \in {"noticed", "posted"} => notices[k] = 1
    /\ place[s] = "saving" =>
          /\ outcome[s] \in {"failed", "uncertain"}
          /\ outcome[s] = "failed" => notices[k] = 0
    /\ place[s] \in NoticePlaces =>
          /\ manual[k].attempted /\ ~manual[k].retryable
          /\ manual[k].notice = "submitted" => place[s] = "saving" /\ outcome[s] = "uncertain"

\* What a manual record says about its send,
SendOf(k) ==
    /\ manual[k].send = "failed" => Lost(k)
    /\ manual[k].send = "submitted" /\ k \notin mixed => Own(k, "submitted")

\* and about its notice.
NoticeOf(k) ==
    /\ notices[k] <= 1
    /\ notices[k] > 0 =>
          /\ HasManual(k) /\ manual[k].attempted /\ ~manual[k].retryable
          /\ k \notin mixed => Own(k, "submitted")
    /\ HasManual(k) /\ manual[k].retryable => manual[k].attempted
    /\ HasManual(k) /\ manual[k].notice = "submitted" => notices[k] = 1

PlaceTellsSend == \A s \in Server : place[s] # "idle" => SendAt(s, WantedKey(s))
PlaceTellsNotice == \A s \in Server : place[s] # "idle" => NoticeAt(s, WantedKey(s))

RecordTellsSend == \A k \in Key : HasManual(k) => SendOf(k)
RecordTellsNotice == \A k \in Key : NoticeOf(k)

ManualInv ==
    /\ WireIsWritten /\ CallsAreNested /\ KindsAreApart /\ LedgersAgree /\ OneHolder
    /\ SeenIsTrue /\ PlaceTellsSend /\ PlaceTellsNotice
    /\ RecordTellsSend /\ RecordTellsNotice

------------------------------------------------------------------------------
(***************************************************************************)
(* The inner send: the steps of a manual call that are steps of Delivery.  *)
(***************************************************************************)
LEMMA HasRecordHolds == TypeOK /\ DeliveryInv => HasRecord
<1> SUFFICES ASSUME TypeOK, DeliveryInv, NEW s \in Server
             PROVE  /\ phase[s] \in {"send", "written", "finish"} => messages[KeyOf(s)] \in Record
                    /\ phase[s] = "finish" => result[s] # "none"
  BY DEF HasRecord
<1>1. phase[s] # "idle" => KeyOf(s) \in Key
  BY DEF TypeOK, KeyOf, Request
<1>2. phase[s] \in {"send", "written", "finish"} => messages[KeyOf(s)] # NoMessage
  BY DEF DeliveryInv, SenderOwnsRecord, Recorded
<1>3. phase[s] = "finish" => result[s] # "none"
  BY DEF DeliveryInv, PhaseTellsTransport
<1> QED
  BY <1>1, <1>2, <1>3 DEF TypeOK

LEMMA DeliveryStep ==
  ASSUME TypeOK, DeliveryInv, [Next]_vars
  PROVE  TypeOK' /\ DeliveryInv'
  BY HasRecordHolds, TypeStep, DeliveryInvStep

\* The other manual steps leave the delivery ledger alone, or make a call of
\* one that a person asked for.
LEMMA InnerStep ==
  ASSUME ManualTypeOK, DeliveryInv, CallsAreNested, [ManualNext]_allVars
  PROVE  TypeOK' /\ DeliveryInv'
<1> USE DEF ManualTypeOK
<1>1. CASE [Next]_vars
  BY <1>1, DeliveryStep
<1>2. ASSUME NEW s \in Server, ManualAsk(s) \/ RetryAsk(s) PROVE TypeOK' /\ DeliveryInv'
  <2>1. asks' \in [Server -> 0..MaxAsks]
    BY <1>2, MaxAsksAssumption DEF ManualAsk, RetryAsk, TypeOK
  <2>2. UNCHANGED <<alive, phase, request, result, messages, writes, wire, refused, delivered, told>>
    BY <1>2 DEF ManualAsk, RetryAsk, transport
  <2> QED
    BY <2>1, <2>2 DEF TypeOK, DeliveryInv, SenderOwnsRecord, PhaseTellsTransport,
       RecordTellsTransport, AnswersAreRecorded, AtMostOneWrite, RecordedBeforeWritten,
       Recorded, Handed, Status, KeyOf
<1>3. ASSUME NEW s \in Server, ReserveNew(s) PROVE TypeOK' /\ DeliveryInv'
  <2>1. want[s] \in Request /\ phase[s] = "idle"
    BY <1>3 DEF ReserveNew, At, CallsAreNested
  <2>2. UNCHANGED <<alive, asks, result, messages, writes, wire, refused, delivered, told>>
    BY <1>3 DEF ReserveNew, transport
  <2>3. \/ request' = [request EXCEPT ![s] = want[s]] /\ phase' = [phase EXCEPT ![s] = "asked"]
        \/ UNCHANGED <<request, phase>>
    BY <1>3 DEF ReserveNew, Goto
  <2>4. TypeOK'
    BY <2>1, <2>2, <2>3 DEF TypeOK
  <2> QED
    BY <2>1, <2>2, <2>3, <2>4 DEF TypeOK, DeliveryInv, SenderOwnsRecord, PhaseTellsTransport,
       RecordTellsTransport, AnswersAreRecorded, AtMostOneWrite, RecordedBeforeWritten,
       Recorded, Handed, Status, KeyOf
<1>4. ASSUME NEW s \in Server,
             ReserveRepeat(s) \/ ReserveRefused(s) \/ SaveSent(s) \/ Reread(s) \/ SaveFailure(s)
             \/ Claim(s) \/ RetryClaim(s) \/ RetryRefused(s) \/ NoticeNotWritten(s)
             \/ WriteNotice(s) \/ NoticeTaken(s) \/ NoticeRejected(s) \/ SavePosted(s)
             \/ SaveNotice(s)
      PROVE  UNCHANGED vars
  BY <1>4 DEF ReserveRepeat, ReserveRefused, SaveSent, Reread, SaveFailure, Claim, RetryClaim,
     RetryRefused, NoticeNotWritten, WriteNotice, NoticeTaken, NoticeRejected, SavePosted,
     SaveNotice
<1>5. ASSUME NEW s \in Server, Automatic(s) \/ Inner(s) \/ InnerEnd(s) PROVE Next
  BY <1>5 DEF Automatic, Inner, InnerEnd, Next
<1>6. Surroundings => Next
  BY DEF Surroundings, Next
<1> QED
  BY <1>1, <1>2, <1>3, <1>4, <1>5, <1>6 DEF ManualNext, ManualStep, allVars

------------------------------------------------------------------------------
(***************************************************************************)
(* Type correctness.                                                       *)
(***************************************************************************)
\* What a repeat may make of a record (Settled).
LEMMA SettledRecord ==
  ASSUME NEW record \in ManualRecord, NEW message \in Record \cup {NoMessage},
         NEW interrupted \in BOOLEAN
  PROVE  LET settled == Settled(record, message, interrupted) IN
         /\ settled \in ManualRecord
         /\ settled.text = record.text /\ settled.attempted = record.attempted
         /\ \/ settled.send = record.send
            \/ record.send = "sending" /\ settled.send = "uncertain"
            \/ record.send = "sending" /\ message # NoMessage /\ settled.send = message.status
         /\ \/ settled.notice = record.notice /\ settled.retryable = record.retryable
            \/ record.notice = "pending" /\ settled.notice = "uncertain" /\ ~settled.retryable
<1> DEFINE known == message # NoMessage /\ message.status # "sending"
           lost == interrupted /\ record.notice = "pending" /\ record.attempted
           settled == Settled(record, message, interrupted)
<1>1. PICK send \in {"sending", "submitted", "failed", "uncertain"},
           notice \in {"pending", "submitted", "failed", "uncertain"}, retryable \in BOOLEAN :
        /\ settled = [record EXCEPT !.send = send, !.notice = notice, !.retryable = retryable]
        /\ \/ send = record.send
           \/ record.send = "sending" /\ send = "uncertain"
           \/ record.send = "sending" /\ message # NoMessage /\ send = message.status
        /\ \/ notice = record.notice /\ retryable = record.retryable
           \/ record.notice = "pending" /\ notice = "uncertain" /\ ~retryable
  <2> DEFINE send == IF record.send # "sending" THEN record.send
                     ELSE IF known THEN message.status
                     ELSE IF interrupted THEN "uncertain" ELSE record.send
             notice == IF lost THEN "uncertain" ELSE record.notice
             retryable == IF lost THEN FALSE ELSE record.retryable
  <2>1. settled = [record EXCEPT !.send = send, !.notice = notice, !.retryable = retryable]
    BY DEF Settled
  <2>2. /\ send \in {"sending", "submitted", "failed", "uncertain"}
        /\ \/ send = record.send
           \/ record.send = "sending" /\ send = "uncertain"
           \/ record.send = "sending" /\ message # NoMessage /\ send = message.status
    BY DEF ManualRecord, Record
  <2>3. /\ notice \in {"pending", "submitted", "failed", "uncertain"} /\ retryable \in BOOLEAN
        /\ \/ notice = record.notice /\ retryable = record.retryable
           \/ record.notice = "pending" /\ notice = "uncertain" /\ ~retryable
    BY DEF ManualRecord
  <2> HIDE DEF send, notice, retryable, settled
  <2> QED
    BY <2>1, <2>2, <2>3
<1> HIDE DEF settled
<1>2. settled \in ManualRecord
  BY <1>1 DEF ManualRecord
<1>3. /\ settled.text = record.text /\ settled.attempted = record.attempted
      /\ settled.send = send /\ settled.notice = notice /\ settled.retryable = retryable
  BY <1>1 DEF ManualRecord
<1> QED
  BY <1>1, <1>2, <1>3 DEF settled

LEMMA ManualTypeStep ==
  ASSUME ManualTypeOK, DeliveryInv, ManualInv, [ManualNext]_allVars
  PROVE  ManualTypeOK'
<1>1. TypeOK'
  BY InnerStep DEF ManualInv
<1> DEFINE Types == /\ place' \in [Server -> Places]
                    /\ want' \in [Server -> Request \cup {NoMessage}]
                    /\ \A s \in Server : place'[s] # "idle" =>
                          want'[s] \in Request /\ want'[s].text \in ManualText
                    /\ seen' \in [Server -> Record \cup {NoMessage}]
                    /\ outcome' \in [Server -> {"none", "submitted", "failed", "uncertain"}]
                    /\ manual' \in [Key -> ManualRecord \cup {NoMessage}]
                    /\ notices' \in [Key -> Nat]
                    /\ mixed' \subseteq Key
<1> USE ManualTextAssumption, NoMessageAssumption, NoManualRecordAssumption
    DEF ManualTypeOK, Places, At, Move, WantedKey, Held, Leave, Continue, Save, SaveOrNot,
        manualVars
<1>2. ASSUME UNCHANGED allVars \/ Surroundings PROVE Types
  BY <1>2 DEF allVars, Surroundings
<1>3. ASSUME NEW s \in Server, place[s] \notin {"idle", "reserve", "retry"}
      PROVE  /\ want[s].key \in Key /\ want[s] # NoMessage
             /\ manual[want[s].key] \in ManualRecord
  BY <1>3 DEF ManualInv, LedgersAgree, HasManual, Request
<1>4. ASSUME NEW s \in Server, Automatic(s) PROVE Types
  <2>1. mixed' \subseteq Key
    <3>1. CASE phase[s] = "idle"
      <4>1. PICK k : mixed' = mixed \cup {j \in {k} : ManuallyWanted(j)} /\ k = request'[s].key
        BY <1>4, <3>1 DEF Automatic
      <4>2. \A j : ManuallyWanted(j) => j \in Key
        BY DEF ManuallyWanted, Request
      <4> HIDE DEF ManualTypeOK
      <4> QED BY <4>1, <4>2 DEF ManualTypeOK
    <3>2. CASE phase[s] # "idle"
      BY <1>4, <3>2 DEF Automatic
    <3> QED BY <3>1, <3>2
  <2> QED
    BY <1>4, <2>1 DEF Automatic
<1>5. ASSUME NEW s \in Server, ManualAsk(s) PROVE Types
  BY <1>5 DEF ManualAsk, Request, TypeOK
<1>6. ASSUME NEW s \in Server, ReserveNew(s) PROVE Types
  <2>1. NewRecord(want[s].text, seen[s]) \in ManualRecord /\ want[s].key \in Key
    BY <1>6 DEF ReserveNew, NewRecord, ManualRecord, Record, Request
  <2> QED
    BY <1>6, <2>1 DEF ReserveNew
<1>7. ASSUME NEW s \in Server, ReserveRepeat(s) PROVE Types
  <2>1. want[s].key \in Key
    BY <1>7 DEF ReserveRepeat, Request
  <2>2. \A interrupted \in BOOLEAN :
          Settled(Held(s), seen[s], interrupted) \in ManualRecord
    BY <1>7, <2>1, SettledRecord DEF ReserveRepeat
  <2>3. PICK record \in ManualRecord :
          \/ Save(s, record) /\ record.send = "submitted" /\ Continue(s, "claim")
          \/ SaveOrNot(s, record) /\ Leave(s)
    BY <1>7, <2>2, Zenon DEF ReserveRepeat
  <2> QED
    BY <1>7, <2>1, <2>3 DEF ReserveRepeat
<1>8. ASSUME NEW s \in Server,
             ReserveRefused(s) \/ RetryRefused(s) \/ Inner(s) \/ NoticeNotWritten(s) \/ NoticeTaken(s)
      PROVE Types
  BY <1>8 DEF ReserveRefused, RetryRefused, Inner, NoticeNotWritten, NoticeTaken
<1>9. ASSUME NEW s \in Server, InnerEnd(s) PROVE Types
  BY <1>9 DEF InnerEnd
<1>10. ASSUME NEW s \in Server, SaveSent(s) PROVE Types
  <2> USE <1>10 DEF SaveSent
  <2>1. /\ want[s].key \in Key /\ want[s] # NoMessage /\ manual[want[s].key] \in ManualRecord
    BY <1>3
  <2>2. [Held(s) EXCEPT !.send = "submitted"] \in ManualRecord
    BY <2>1 DEF ManualRecord
  <2> QED
    BY <2>1, <2>2
<1>11. ASSUME NEW s \in Server, Reread(s) PROVE Types
  <2> USE <1>11 DEF Reread
  <2>1. want[s].key \in Key /\ want[s] # NoMessage
    BY <1>3
  <2>2. messages[WantedKey(s)] \in Record \cup {NoMessage}
    BY <2>1 DEF TypeOK
  <2>3. CASE Leave(s)
    BY <2>3
  <2>4. CASE /\ seen' = [seen EXCEPT ![s] = messages[WantedKey(s)]]
             /\ Move(s, "failing")
             /\ UNCHANGED <<want, outcome>>
    BY <2>2, <2>4
  <2> QED
    BY <2>3, <2>4
<1>12. ASSUME NEW s \in Server, SaveFailure(s) PROVE Types
  <2> USE <1>12 DEF SaveFailure
  <2>1. /\ want[s].key \in Key /\ want[s] # NoMessage /\ manual[want[s].key] \in ManualRecord
    BY <1>3
  <2>2. \A status \in {"uncertain", "submitted", "failed"} :
          [Held(s) EXCEPT !.send = status] \in ManualRecord
    BY <2>1 DEF ManualRecord
  <2>3. PICK record \in ManualRecord : SaveOrNot(s, record)
    BY <2>2
  <2> QED
    BY <2>1, <2>3
<1>13. ASSUME NEW s \in Server, Claim(s) PROVE Types
  <2> USE <1>13 DEF Claim
  <2>1. /\ want[s].key \in Key /\ want[s] # NoMessage /\ manual[want[s].key] \in ManualRecord
    BY <1>3
  <2>2. [Held(s) EXCEPT !.attempted = TRUE, !.retryable = FALSE] \in ManualRecord
    BY <2>1 DEF ManualRecord
  <2>3. PICK record \in ManualRecord : SaveOrNot(s, record) /\ (Leave(s) \/ Continue(s, "notice"))
    BY <2>2
  <2> QED
    BY <2>1, <2>3
<1>14. ASSUME NEW s \in Server, RetryAsk(s) PROVE Types
  BY <1>14 DEF RetryAsk, Request, Record, TypeOK
<1>15. ASSUME NEW s \in Server, RetryClaim(s) PROVE Types
  <2> USE <1>15 DEF RetryClaim
  <2>1. want[s].key \in Key /\ want[s] # NoMessage /\ manual[want[s].key] \in ManualRecord
    BY DEF Request
  <2>2. [Held(s) EXCEPT !.notice = "pending", !.attempted = TRUE, !.retryable = FALSE] \in ManualRecord
    BY <2>1 DEF ManualRecord
  <2>3. PICK record \in ManualRecord : SaveOrNot(s, record) /\ (Leave(s) \/ Continue(s, "notice"))
    BY <2>2
  <2> QED
    BY <2>1, <2>3
<1>16. ASSUME NEW s \in Server, WriteNotice(s) \/ NoticeRejected(s) PROVE Types
  <2>1. /\ want[s].key \in Key /\ notices[want[s].key] \in Nat
    BY <1>3, <1>16 DEF WriteNotice, NoticeRejected
  <2>2. NoticeRejected(s) => notices[want[s].key] = 1
    BY DEF NoticeRejected, ManualInv, PlaceTellsNotice, NoticeAt
  <2>3. notices' \in [Key -> Nat]
    BY <1>16, <2>1, <2>2 DEF WriteNotice, NoticeRejected
  <2> QED
    BY <1>16, <2>3 DEF WriteNotice, NoticeRejected
<1>17. ASSUME NEW s \in Server, SavePosted(s) PROVE Types
  <2> USE <1>17 DEF SavePosted
  <2>1. /\ want[s].key \in Key /\ want[s] # NoMessage /\ manual[want[s].key] \in ManualRecord
    BY <1>3
  <2>2. [Held(s) EXCEPT !.notice = "submitted", !.retryable = FALSE] \in ManualRecord
    BY <2>1 DEF ManualRecord
  <2> QED
    BY <2>1, <2>2
<1>18. ASSUME NEW s \in Server, SaveNotice(s) PROVE Types
  <2> USE <1>18 DEF SaveNotice
  <2>1. /\ want[s].key \in Key /\ want[s] # NoMessage /\ manual[want[s].key] \in ManualRecord
    BY <1>3
  <2>2. [Held(s) EXCEPT !.notice = outcome[s], !.retryable = outcome[s] = "failed"] \in ManualRecord
    BY <2>1 DEF ManualRecord, ManualInv, PlaceTellsNotice, NoticeAt
  <2> QED
    BY <2>1, <2>2
<1>19. Types
  BY <1>2, <1>4, <1>5, <1>6, <1>7, <1>8, <1>9, <1>10, <1>11, <1>12, <1>13, <1>14, <1>15,
     <1>16, <1>17, <1>18 DEF ManualNext, ManualStep
<1> QED
  BY <1>1, <1>19 DEF ManualTypeOK

------------------------------------------------------------------------------
(***************************************************************************)
(* The steps of a manual call around its inner send.  All of them go on to *)
(* another place, or leave, and save at most the record under their id.    *)
(***************************************************************************)
Local(s) ==
    /\ UNCHANGED <<vars, mixed>>
    /\ alive[s] /\ place[s] \notin {"idle", "sending"}
    /\ place'[s] \notin {"reserve", "retry", "sending"}
    /\ place'[s] # "idle" =>
          /\ want'[s] = want[s]
          /\ HasManual(WantedKey(s)) /\ Held(s).text = want[s].text
    /\ place'[s] \in SendPlaces => place[s] \in SendPlaces
    /\ place'[s] \in NoticePlaces /\ place[s] \notin NoticePlaces =>
          \A u \in Server : place[u] \in NoticePlaces => WantedKey(u) # WantedKey(s)
    /\ \A u \in Server \ {s} :
          /\ place'[u] = place[u] /\ want'[u] = want[u]
          /\ seen'[u] = seen[u] /\ outcome'[u] = outcome[u]
    /\ \A k \in Key \ {WantedKey(s)} : manual'[k] = manual[k] /\ notices'[k] = notices[k]
    /\ HasManual(WantedKey(s)) =>
          manual'[WantedKey(s)] # NoMessage /\ manual'[WantedKey(s)].text = Held(s).text
    /\ ~HasManual(WantedKey(s)) => place'[s] = "idle" /\ UNCHANGED <<manual, notices>>

LEMMA LocalKeepsShape ==
  ASSUME ManualTypeOK, ManualInv, NEW s \in Server, Local(s), ManualTypeOK'
  PROVE  WireIsWritten' /\ CallsAreNested' /\ KindsAreApart' /\ LedgersAgree' /\ OneHolder'
<1> USE DEF ManualInv, Local
<1>1. UNCHANGED <<alive, phase, request, messages, writes, wire, mixed>>
  BY DEF vars
<1>2. WireIsWritten'
  BY <1>1 DEF WireIsWritten
<1>3. CallsAreNested'
  BY <1>1 DEF CallsAreNested
<1>4. KindsAreApart'
  <2> SUFFICES ASSUME NEW t \in Server, alive[t], place'[t] # "idle", WantedKey(t)' \notin mixed
               PROVE  /\ Recorded(WantedKey(t))' => messages'[WantedKey(t)'].text \in ManualText
                      /\ \A u \in Server : alive[u] /\ place'[u] = "idle" /\ phase'[u] # "idle" =>
                            KeyOf(u)' # WantedKey(t)'
    BY <1>1 DEF KindsAreApart
  <2>1. place[t] # "idle" /\ WantedKey(t)' = WantedKey(t)
    BY DEF WantedKey
  <2>2. \A u \in Server : place'[u] = "idle" /\ phase'[u] # "idle" => place[u] = "idle"
    BY <1>1 DEF CallsAreNested
  <2> QED
    BY <1>1, <2>1, <2>2 DEF KindsAreApart, KeyOf, Recorded
<1>5. LedgersAgree'
  <2>1. ASSUME NEW k \in Key, HasManual(k)
        PROVE  HasManual(k)' /\ manual'[k].text = manual[k].text
    BY <2>1 DEF HasManual, Held
  <2>2. \A u \in Server : place[u] # "idle" => want[u].key \in Key
    BY DEF ManualTypeOK, Request
  <2>3. \A k \in Key : Recorded(k)' /\ messages'[k].text \in ManualText =>
          HasManual(k)' /\ manual'[k].text = messages'[k].text
    BY <1>1, <2>1 DEF LedgersAgree, Recorded
  <2>4. ASSUME NEW u \in Server, place'[u] \notin {"idle", "reserve", "retry"}
        PROVE  HasManual(WantedKey(u))' /\ Held(u)'.text = want'[u].text
    BY <2>1, <2>2, <2>4 DEF LedgersAgree, WantedKey, Held
  <2> QED
    BY <2>3, <2>4 DEF LedgersAgree
<1>6. OneHolder'
  BY <1>1 DEF OneHolder, WantedKey
<1> QED
  BY <1>2, <1>3, <1>4, <1>5, <1>6

\* A step of the call that sends, or one that saves the outcome it saw.
LEMMA LocalKeepsSend ==
  ASSUME ManualTypeOK, ManualInv, NEW s \in Server, Local(s), ManualTypeOK',
         NEW k \in Key, k = WantedKey(s),
         place'[s] = "failing" => seen'[s] = messages[k],
         place'[s] # "idle" => SendAt(s, k)',
         HasManual(k) => SendOf(k)',
         place[s] \notin SendPlaces /\ HasManual(k) =>
            \/ manual'[k].send = manual[k].send
            \/ manual'[k].send \notin {"submitted", "failed"}
            \/ Own(k, manual'[k].send)
  PROVE  SeenIsTrue' /\ PlaceTellsSend' /\ RecordTellsSend'
<1> USE DEF ManualInv, Local
<1>1. UNCHANGED <<alive, phase, request, messages, writes, wire, refused, mixed>>
  BY DEF vars
<1>2. SeenIsTrue'
  BY <1>1 DEF SeenIsTrue, WantedKey, Recorded
<1>3. \A j \in Key : HasManual(j) => HasManual(j)' /\ manual'[j].text = manual[j].text
  BY DEF HasManual, Held
<1>4. \A j \in Key : \A status : HasManual(j) =>
        (Own(j, status)' <=> Own(j, status)) /\ (Lost(j)' <=> Lost(j))
  BY <1>1, <1>3 DEF Own, Lost
<1>5. ASSUME NEW u \in Server, place'[u] # "idle" PROVE SendAt(u, WantedKey(u))'
  <2>1. place[u] # "idle" /\ WantedKey(u)' = WantedKey(u) /\ want'[u] = want[u]
    BY <1>5 DEF WantedKey
  <2>2. WantedKey(u) \in Key /\ SendAt(u, WantedKey(u))
    BY <2>1 DEF PlaceTellsSend, WantedKey, ManualTypeOK, Request
  <2>3. CASE u = s
    BY <1>5, <2>1, <2>3
  <2>4. CASE u # s
    <3>1. /\ place'[u] = place[u] /\ seen'[u] = seen[u] /\ outcome'[u] = outcome[u]
          /\ phase'[u] = phase[u]
      BY <1>1, <2>4
    <3>2. place[u] \notin {"reserve", "retry"} => HasManual(WantedKey(u))
      BY <2>1 DEF LedgersAgree
    <3>3. /\ Recorded(WantedKey(u))' <=> Recorded(WantedKey(u))
          /\ Handed(WantedKey(u))' <=> Handed(WantedKey(u))
      BY <1>1, <2>1 DEF Recorded, Handed
    <3>4. CASE place[u] \notin SendPlaces
      BY <1>1, <1>4, <2>1, <2>2, <3>1, <3>2, <3>3, <3>4 DEF SendAt, NoticePlaces, SendPlaces
    <3>5. CASE place[u] \in SendPlaces
      <4>1. \/ manual'[WantedKey(u)].send = manual[WantedKey(u)].send
            \/ manual'[WantedKey(u)].send \notin {"submitted", "failed"}
            \/ Own(WantedKey(u), manual'[WantedKey(u)].send)
        <5>1. CASE WantedKey(u) # k
          BY <2>2, <5>1
        <5>2. CASE WantedKey(u) = k
          BY <2>1, <2>4, <3>2, <3>5, <5>2 DEF OneHolder, SendPlaces
        <5> QED BY <5>1, <5>2
      <4> QED
        BY <1>1, <1>4, <2>1, <2>2, <3>1, <3>2, <3>3, <3>5, <4>1 DEF SendAt, NoticePlaces, SendPlaces
    <3> QED
      BY <3>4, <3>5
  <2> QED
    BY <2>3, <2>4
<1>6. ASSUME NEW j \in Key, HasManual(j)' PROVE SendOf(j)'
  <2>1. HasManual(j)
    BY <1>6 DEF HasManual
  <2>2. CASE j = k
    BY <2>1, <2>2
  <2>3. CASE j # k
    BY <1>1, <1>4, <2>1, <2>3 DEF SendOf, RecordTellsSend
  <2> QED
    BY <2>2, <2>3
<1> QED
  BY <1>2, <1>5, <1>6 DEF PlaceTellsSend, RecordTellsSend

\* A step that saves nothing about the send, in a call that is past it.
LEMMA LocalSparesSend ==
  ASSUME ManualTypeOK, ManualInv, NEW s \in Server, Local(s), ManualTypeOK',
         NEW k \in Key, k = WantedKey(s), place'[s] \in {"idle", "claim"} \cup NoticePlaces,
         place'[s] # "idle" /\ k \notin mixed => Own(k, "submitted"),
         HasManual(k) => manual'[k].send = manual[k].send
  PROVE  SeenIsTrue' /\ PlaceTellsSend' /\ RecordTellsSend'
<1>1. UNCHANGED <<messages, wire, refused, mixed>>
  BY DEF Local, vars
<1>2. HasManual(k) => manual'[k].text = manual[k].text
  BY DEF Local, Held
<1>3. ASSUME place'[s] # "idle" PROVE SendAt(s, k)'
  <2>1. HasManual(k)
    BY <1>3 DEF Local
  <2> QED
    BY <1>1, <1>2, <1>3, <2>1 DEF SendAt, NoticePlaces, SendPlaces, Own
<1>4. ASSUME HasManual(k) PROVE SendOf(k)'
  <2>1. SendOf(k)
    BY <1>4 DEF ManualInv, RecordTellsSend
  <2> QED
    BY <1>1, <1>2, <1>4, <2>1 DEF SendOf, Own, Lost
<1> QED
  BY <1>3, <1>4, LocalKeepsSend DEF NoticePlaces

\* The holder of a notice saves what it knows; any other step leaves the notice alone.
LEMMA LocalKeepsNotice ==
  ASSUME ManualTypeOK, ManualInv, NEW s \in Server, Local(s), ManualTypeOK',
         NEW k \in Key, k = WantedKey(s),
         place'[s] # "idle" => NoticeAt(s, k)',
         HasManual(k) => NoticeOf(k)',
         place[s] \notin NoticePlaces /\ place'[s] \notin NoticePlaces /\ HasManual(k) =>
            /\ notices'[k] = notices[k]
            /\ manual[k].attempted => manual'[k].attempted
            /\ manual'[k].retryable => manual[k].retryable
            /\ manual'[k].notice = "submitted" => manual[k].notice = "submitted"
  PROVE  PlaceTellsNotice' /\ RecordTellsNotice'
<1> USE DEF ManualInv, Local
<1>1. UNCHANGED <<messages, mixed>>
  BY DEF vars
<1>2. ASSUME NEW u \in Server, place'[u] # "idle" PROVE NoticeAt(u, WantedKey(u))'
  <2>1. place[u] # "idle" /\ WantedKey(u)' = WantedKey(u)
    BY <1>2 DEF WantedKey
  <2>2. WantedKey(u) \in Key /\ NoticeAt(u, WantedKey(u))
    BY <2>1 DEF PlaceTellsNotice, WantedKey, ManualTypeOK, Request
  <2>3. CASE u = s
    BY <1>2, <2>1, <2>3
  <2>4. CASE u # s /\ WantedKey(u) # k
    BY <2>1, <2>2, <2>4 DEF NoticeAt
  <2>5. CASE u # s /\ WantedKey(u) = k /\ place[u] \in NoticePlaces
    <3>1. place[s] \notin NoticePlaces
      BY <2>1, <2>5 DEF OneHolder
    <3>2. place'[s] \notin NoticePlaces
      BY <2>5, <3>1
    <3>3. HasManual(k)
      BY <2>5 DEF LedgersAgree, NoticePlaces
    <3> QED
      BY <2>1, <2>2, <2>5, <3>1, <3>2, <3>3 DEF NoticeAt
  <2>6. CASE u # s /\ place[u] \notin NoticePlaces
    BY <2>1, <2>6 DEF NoticeAt, NoticePlaces
  <2> QED
    BY <2>3, <2>4, <2>5, <2>6
<1>3. ASSUME NEW j \in Key PROVE NoticeOf(j)'
  <2>1. CASE j = k /\ HasManual(k)
    BY <2>1
  <2>2. CASE j # k \/ ~HasManual(k)
    <3>1. manual'[j] = manual[j] /\ notices'[j] = notices[j]
      BY <2>2
    <3>2. NoticeOf(j)
      BY DEF RecordTellsNotice
    <3> QED
      BY <1>1, <3>1, <3>2 DEF NoticeOf, HasManual, Own
  <2> QED
    BY <2>1, <2>2
<1> QED
  BY <1>2, <1>3 DEF PlaceTellsNotice, RecordTellsNotice

\* A step that saves nothing about the notice, in a call that does not hold it.
LEMMA LocalSparesNotice ==
  ASSUME ManualTypeOK, ManualInv, NEW s \in Server, Local(s), ManualTypeOK',
         NEW k \in Key, k = WantedKey(s), place'[s] \notin NoticePlaces,
         HasManual(k) =>
            /\ notices'[k] = notices[k]
            /\ manual[k].attempted => manual'[k].attempted
            /\ manual'[k].retryable => manual[k].retryable
            /\ manual'[k].notice = "submitted" => manual[k].notice = "submitted"
  PROVE  PlaceTellsNotice' /\ RecordTellsNotice'
<1>1. place'[s] # "idle" => NoticeAt(s, k)'
  BY DEF NoticeAt, NoticePlaces
<1>2. ASSUME HasManual(k) PROVE NoticeOf(k)'
  <2>1. NoticeOf(k)
    BY DEF ManualInv, RecordTellsNotice
  <2>2. UNCHANGED <<messages, mixed>> /\ HasManual(k)' /\ manual'[k].text = manual[k].text
    BY <1>2 DEF Local, vars, HasManual, Held
  <2> QED
    BY <1>2, <2>1, <2>2 DEF NoticeOf, Own
<1> QED
  BY <1>1, <1>2, LocalKeepsNotice

\* The steps that save nothing about the notice, or nothing at all.
LEMMA SendSideStep ==
  ASSUME ManualTypeOK, DeliveryInv, ManualInv, ManualTypeOK', NEW s \in Server,
         NEW k \in Key, k = WantedKey(s),
         \/ ReserveRepeat(s) \/ ReserveRefused(s) \/ RetryRefused(s)
         \/ SaveSent(s) \/ Reread(s) \/ SaveFailure(s)
  PROVE  ManualInv'
<1>1. want[s] \in Request /\ (HasManual(k) => manual[k] \in ManualRecord)
  BY DEF ReserveRepeat, ReserveRefused, RetryRefused, SaveSent, Reread, SaveFailure, At,
         ManualTypeOK, Request, WantedKey, HasManual
<1>2. place[s] \notin {"idle", "reserve", "retry"} => HasManual(k) /\ manual[k].text = want[s].text
  BY DEF ManualInv, LedgersAgree, Held
<1>3. ASSUME NEW t, NEW status \in {"submitted", "failed"},
             messages[k] # NoMessage, messages[k].text = t, messages[k].status = status
      PROVE  /\ status = "submitted" => Handed(k) /\ wire[k] = t
             /\ status = "failed" => k \in refused
  BY <1>1, <1>3 DEF DeliveryInv, RecordTellsTransport, RecordedBeforeWritten, Recorded, Status, Handed
<1>4. CASE ReserveRefused(s) \/ RetryRefused(s)
  <2>1. Local(s) /\ place'[s] = "idle" /\ UNCHANGED <<manual, notices>>
    BY <1>1, <1>4 DEF ReserveRefused, RetryRefused, Local, Leave, Move, At, ManualTypeOK,
       SendPlaces, NoticePlaces, HasManual, Held
  <2> QED
    BY <1>1, <2>1, LocalKeepsShape, LocalSparesSend, LocalSparesNotice DEF ManualInv, NoticePlaces
<1>5. CASE ReserveRepeat(s)
  <2>1. HasManual(k) /\ manual[k].text = want[s].text /\ manual[k] \in ManualRecord
    BY <1>1, <1>5 DEF ReserveRepeat, HasManual, Held
  <2>2. PICK record \in ManualRecord :
          /\ record.text = manual[k].text /\ record.attempted = manual[k].attempted
          /\ \/ record.send = manual[k].send
             \/ record.send = "uncertain"
             \/ seen[s] # NoMessage /\ record.send = seen[s].status
          /\ \/ record.notice = manual[k].notice /\ record.retryable = manual[k].retryable
             \/ record.notice = "uncertain" /\ ~record.retryable
          /\ \/ Save(s, record) /\ record.send = "submitted" /\ Continue(s, "claim")
             \/ SaveOrNot(s, record) /\ Leave(s)
    <3>1. PICK interrupted \in BOOLEAN :
            LET record == Settled(Held(s), seen[s], interrupted) IN
            \/ Save(s, record) /\ record.send = "submitted" /\ Continue(s, "claim")
            \/ SaveOrNot(s, record) /\ Leave(s)
      BY <1>5 DEF ReserveRepeat
    <3> DEFINE record == Settled(Held(s), seen[s], interrupted)
    <3>2. seen[s] \in Record \cup {NoMessage} /\ Held(s) = manual[k]
      BY DEF ManualTypeOK, Held
    <3>3. /\ record \in ManualRecord
          /\ record.text = manual[k].text /\ record.attempted = manual[k].attempted
          /\ \/ record.send = manual[k].send
             \/ record.send = "uncertain"
             \/ seen[s] # NoMessage /\ record.send = seen[s].status
          /\ \/ record.notice = manual[k].notice /\ record.retryable = manual[k].retryable
             \/ record.notice = "uncertain" /\ ~record.retryable
      BY <2>1, <3>2, SettledRecord
    <3> HIDE DEF record
    <3>4. \/ Save(s, record) /\ record.send = "submitted" /\ Continue(s, "claim")
          \/ SaveOrNot(s, record) /\ Leave(s)
      BY <3>1 DEF record
    <3> QED
      BY <3>3, <3>4
  <2>3. record.send \in {"submitted", "failed"} =>
          record.send = manual[k].send \/ Own(k, record.send)
    <3>1. seen[s] # NoMessage => messages[k] # NoMessage /\ messages[k].text = want[s].text
      BY <1>5 DEF ManualInv, SeenIsTrue, ReserveRepeat, At, Recorded
    <3>2. seen[s] # NoMessage /\ seen[s].status \in {"submitted", "failed"} =>
            messages[k].status = seen[s].status
      BY <1>5 DEF ManualInv, SeenIsTrue, ReserveRepeat, At, Recorded
    <3> QED
      BY <2>1, <2>2, <3>1, <3>2 DEF Own
  <2>4. /\ manual' = [manual EXCEPT ![k] = record] \/ UNCHANGED manual
        /\ place' = [place EXCEPT ![s] = IF place'[s] = "claim" THEN "claim" ELSE "idle"]
        /\ place'[s] = "claim" => manual'[k] = record /\ record.send = "submitted"
        /\ place'[s] = "claim" => want'[s] = want[s]
        /\ \A u \in Server \ {s} : want'[u] = want[u] /\ seen'[u] = seen[u] /\ outcome'[u] = outcome[u]
        /\ UNCHANGED <<vars, notices, mixed>> /\ alive[s] /\ place[s] = "reserve"
    BY <1>1, <1>5, <2>2 DEF ReserveRepeat, Save, SaveOrNot, Continue, Leave, Move, At, ManualTypeOK
  <2>5. place'[s] \in {"claim", "idle"} /\ (manual'[k] = record \/ manual'[k] = manual[k])
    BY <1>1, <2>4 DEF ManualTypeOK
  <2>6. Local(s)
    BY <1>1, <2>1, <2>2, <2>4, <2>5, NoManualRecordAssumption
    DEF Local, SendPlaces, NoticePlaces, ManualTypeOK, Held, HasManual
  <2>7. SendOf(k)
    BY <1>1, <2>1 DEF ManualInv, RecordTellsSend
  <2>8. /\ manual'[k].text = manual[k].text
        /\ UNCHANGED <<messages, wire, refused, mixed>>
    BY <2>2, <2>4, <2>5 DEF vars
  <2>9. SendOf(k)'
    BY <1>3, <2>1, <2>2, <2>3, <2>5, <2>7, <2>8 DEF SendOf, Own, Lost, Handed
  <2>10. place'[s] # "idle" => SendAt(s, k)'
    BY <2>4, <2>5, <2>8, <2>9 DEF SendAt, SendOf, SendPlaces, NoticePlaces
  <2>11. SeenIsTrue' /\ PlaceTellsSend' /\ RecordTellsSend'
    BY <1>1, <2>3, <2>5, <2>6, <2>9, <2>10, LocalKeepsSend
  <2>12. PlaceTellsNotice' /\ RecordTellsNotice'
    BY <1>1, <2>2, <2>4, <2>5, <2>6, LocalSparesNotice DEF NoticePlaces
  <2> QED
    BY <2>6, <2>11, <2>12, LocalKeepsShape DEF ManualInv
<1>6. CASE SaveSent(s)
  <2>1. HasManual(k) /\ manual[k] \in ManualRecord /\ manual[k].text = want[s].text /\ Own(k, "submitted")
    BY <1>1, <1>2, <1>6 DEF SaveSent, At, ManualInv, PlaceTellsSend, SendAt
  <2>2. PICK record \in ManualRecord :
          /\ record.text = manual[k].text /\ record.attempted = manual[k].attempted
          /\ record.send = "submitted"
          /\ record.notice = manual[k].notice /\ record.retryable = manual[k].retryable
          /\ record = [Held(s) EXCEPT !.send = "submitted"]
    BY <2>1 DEF Held, ManualRecord
  <2>3. /\ UNCHANGED <<vars, notices, mixed>> /\ alive[s] /\ place[s] = "sent"
        /\ want'[s] = want[s] /\ seen'[s] = seen[s]
        /\ manual' = [manual EXCEPT ![k] = record] \/ UNCHANGED manual
        /\ \/ place'[s] = "claim"
           \/ place'[s] = "reread" /\ outcome'[s] = "failed"
        /\ \A u \in Server \ {s} : /\ place'[u] = place[u] /\ want'[u] = want[u]
                                   /\ seen'[u] = seen[u] /\ outcome'[u] = outcome[u]
    BY <1>6, <2>2 DEF SaveSent, Save, SaveOrNot, Continue, Move, At, ManualTypeOK
  <2>4. manual'[k] = record \/ manual'[k] = manual[k]
    BY <2>3 DEF ManualTypeOK
  <2>5. Local(s)
    BY <2>1, <2>2, <2>3, <2>4, NoManualRecordAssumption, ZenonT(40)
    DEF Local, SendPlaces, NoticePlaces, ManualTypeOK, Held, HasManual
  <2>6. UNCHANGED <<messages, wire, refused, mixed>> /\ manual'[k].text = manual[k].text
    BY <2>2, <2>3, <2>4 DEF vars
  <2>7. /\ Own(k, "submitted")'
        /\ manual'[k].send \in {"submitted", "failed"} => Own(k, manual[k].send)'
    BY <1>6, <2>1, <2>2, <2>4, <2>6, ZenonT(40) DEF Own, ManualInv, PlaceTellsSend, SendAt, SaveSent, At, SendPlaces
  <2>8. SendOf(k)'
    BY <2>1, <2>2, <2>4, <2>6, <2>7 DEF SendOf, Own, Lost, ManualInv, RecordTellsSend
  <2>9. SendAt(s, k)'
    BY <2>3, <2>7 DEF SendAt, NoticePlaces
  <2>10. SeenIsTrue' /\ PlaceTellsSend' /\ RecordTellsSend'
    BY <2>3, <2>5, <2>8, <2>9, LocalKeepsSend DEF SendPlaces
  <2>11. PlaceTellsNotice' /\ RecordTellsNotice'
    <3>1. /\ manual'[k].attempted = manual[k].attempted
          /\ manual'[k].notice = manual[k].notice /\ manual'[k].retryable = manual[k].retryable
      BY <2>2, <2>4
    <3> QED
      BY <2>3, <2>5, <3>1, LocalSparesNotice DEF NoticePlaces
  <2> QED
    BY <2>5, <2>10, <2>11, LocalKeepsShape DEF ManualInv
<1>7. CASE Reread(s)
  <2>1. HasManual(k) /\ manual[k].text = want[s].text
    BY <1>2, <1>7 DEF Reread, At
  <2>2. /\ UNCHANGED <<vars, manual, notices, mixed>> /\ alive[s] /\ place[s] = "reread"
        /\ \/ place'[s] = "idle"
           \/ /\ place'[s] = "failing" /\ seen'[s] = messages[k]
              /\ want'[s] = want[s] /\ outcome'[s] = outcome[s]
        /\ \A u \in Server \ {s} : /\ place'[u] = place[u] /\ want'[u] = want[u]
                                   /\ seen'[u] = seen[u] /\ outcome'[u] = outcome[u]
    BY <1>7 DEF Reread, Leave, Move, At, ManualTypeOK
  <2>3. Local(s)
    BY <2>1, <2>2 DEF Local, SendPlaces, NoticePlaces, Held, HasManual
  <2>4. UNCHANGED <<messages, writes, wire, refused, mixed>>
    BY <2>2 DEF vars
  <2>5. SendAt(s, k) /\ SendOf(k)
    BY <2>1, <2>2 DEF ManualInv, PlaceTellsSend, RecordTellsSend
  <2>6. SendOf(k)'
    BY <2>2, <2>4, <2>5 DEF SendOf, Own, Lost
  <2>7. place'[s] # "idle" => SendAt(s, k)'
    BY <2>2, <2>4, <2>5 DEF SendAt, Own, Lost, Handed, NoticePlaces, SendPlaces
  <2>8. SeenIsTrue' /\ PlaceTellsSend' /\ RecordTellsSend'
    BY <2>2, <2>3, <2>6, <2>7, LocalKeepsSend DEF SendPlaces
  <2>9. PlaceTellsNotice' /\ RecordTellsNotice'
    BY <2>2, <2>3, LocalSparesNotice DEF NoticePlaces
  <2> QED
    BY <2>3, <2>8, <2>9, LocalKeepsShape DEF ManualInv
<1>8. CASE SaveFailure(s)
  <2>1. HasManual(k) /\ manual[k] \in ManualRecord /\ manual[k].text = want[s].text /\ SendAt(s, k) /\ SendOf(k)
    BY <1>1, <1>2, <1>8 DEF SaveFailure, At, ManualInv, PlaceTellsSend, RecordTellsSend
  <2>2. PICK send \in {"uncertain", "submitted", "failed"} :
          /\ SaveOrNot(s, [Held(s) EXCEPT !.send = send])
          /\ send = "submitted" => seen[s] # NoMessage /\ seen[s].status = "submitted"
          /\ send = "failed" => /\ outcome[s] # "uncertain"
                                /\ ~(seen[s] # NoMessage /\ seen[s].status = "submitted")
    BY <1>8 DEF SaveFailure
  <2>3. PICK record \in ManualRecord :
          /\ record.text = manual[k].text /\ record.attempted = manual[k].attempted
          /\ record.send = send
          /\ record.notice = manual[k].notice /\ record.retryable = manual[k].retryable
          /\ record = [Held(s) EXCEPT !.send = send]
    BY <2>1 DEF Held, ManualRecord
  <2>4. /\ UNCHANGED <<vars, notices, mixed>> /\ alive[s] /\ place[s] = "failing"
        /\ manual' = [manual EXCEPT ![k] = record] \/ UNCHANGED manual
        /\ place'[s] = "idle"
        /\ \A u \in Server \ {s} : /\ place'[u] = place[u] /\ want'[u] = want[u]
                                   /\ seen'[u] = seen[u] /\ outcome'[u] = outcome[u]
    BY <1>8, <2>2, <2>3 DEF SaveFailure, Save, SaveOrNot, Leave, Move, At, ManualTypeOK
  <2>5. manual'[k] = record \/ manual'[k] = manual[k]
    BY <2>4 DEF ManualTypeOK
  <2>6. Local(s)
    BY <2>1, <2>3, <2>4, <2>5, NoManualRecordAssumption, ZenonT(40)
    DEF Local, SendPlaces, NoticePlaces, ManualTypeOK, Held, HasManual
  <2>7. UNCHANGED <<messages, wire, refused, mixed>> /\ manual'[k].text = manual[k].text
    BY <2>3, <2>4, <2>5 DEF vars
  <2>8. send = "failed" => Lost(k)
    BY <2>1, <2>2, <2>4 DEF SendAt
  <2>9. send = "submitted" /\ k \notin mixed => Own(k, "submitted")
    <3> SUFFICES ASSUME send = "submitted", k \notin mixed PROVE Own(k, "submitted")
      OBVIOUS
    <3>1. Recorded(k) /\ messages[k].status = "submitted"
      BY <2>2, <2>4 DEF ManualInv, SeenIsTrue, Recorded
    <3>2. messages[k].text \in ManualText
      BY <2>4, <3>1 DEF ManualInv, KindsAreApart
    <3> QED
      BY <3>1, <3>2 DEF ManualInv, LedgersAgree, Own, Recorded
  <2>10. SendOf(k)'
    BY <2>1, <2>3, <2>5, <2>7, <2>8, <2>9 DEF SendOf, Own, Lost
  <2>11. SeenIsTrue' /\ PlaceTellsSend' /\ RecordTellsSend'
    BY <2>4, <2>6, <2>10, LocalKeepsSend DEF SendPlaces
  <2>12. PlaceTellsNotice' /\ RecordTellsNotice'
    <3>1. /\ manual'[k].attempted = manual[k].attempted
          /\ manual'[k].notice = manual[k].notice /\ manual'[k].retryable = manual[k].retryable
      BY <2>3, <2>5
    <3> QED
      BY <2>4, <2>6, <3>1, LocalSparesNotice DEF NoticePlaces
  <2> QED
    BY <2>6, <2>11, <2>12, LocalKeepsShape DEF ManualInv
<1> QED
  BY <1>4, <1>5, <1>6, <1>7, <1>8

\* The steps that claim a notice, send it and save what became of it.
LEMMA NoticeSideStep ==
  ASSUME ManualTypeOK, ManualInv, ManualTypeOK', NEW s \in Server,
         NEW k \in Key, k = WantedKey(s),
         \/ Claim(s) \/ RetryClaim(s) \/ NoticeNotWritten(s) \/ WriteNotice(s) \/ NoticeTaken(s)
         \/ NoticeRejected(s) \/ SavePosted(s) \/ SaveNotice(s)
  PROVE  ManualInv'
<1> USE DEF At
<1>1. alive[s] /\ place[s] \in {"claim", "retry"} \cup NoticePlaces /\ UNCHANGED <<vars, mixed>>
  BY DEF Claim, RetryClaim, NoticeNotWritten, WriteNotice, NoticeTaken, NoticeRejected, SavePosted,
         SaveNotice, NoticePlaces
<1>2. HasManual(k) /\ manual[k].text = want[s].text /\ manual[k] \in ManualRecord
  BY <1>1 DEF ManualInv, LedgersAgree, RetryClaim, NoticePlaces, HasManual, Held, ManualTypeOK,
     Claim, NoticeNotWritten, WriteNotice, NoticeTaken, NoticeRejected, SavePosted, SaveNotice
<1>3. SendAt(s, k) /\ NoticeAt(s, k) /\ SendOf(k) /\ NoticeOf(k)
  BY <1>1, <1>2 DEF ManualInv, PlaceTellsSend, PlaceTellsNotice, RecordTellsSend, RecordTellsNotice,
     NoticePlaces
<1>4. k \notin mixed => Own(k, "submitted")
  <2>1. CASE place[s] # "retry"
    BY <1>1, <1>3, <2>1 DEF SendAt
  <2>2. CASE place[s] = "retry"
    BY <1>2, <1>3, <2>2 DEF SendOf, RetryClaim, Retryable, Held, Claim, NoticeNotWritten, WriteNotice,
       NoticeTaken, NoticeRejected, SavePosted, SaveNotice
  <2> QED
    BY <2>1, <2>2
<1>5. ASSUME NEW record \in ManualRecord, record.text = manual[k].text, record.send = manual[k].send,
             record.attempted,
             manual' = [manual EXCEPT ![k] = record] \/ UNCHANGED manual,
             NEW p \in {"idle"} \cup NoticePlaces, place' = [place EXCEPT ![s] = p],
             p # "idle" => want'[s] = want[s],
             \A u \in Server \ {s} : want'[u] = want[u] /\ seen'[u] = seen[u] /\ outcome'[u] = outcome[u],
             \A j \in Key \ {k} : notices'[j] = notices[j],
             p \in NoticePlaces /\ place[s] \notin NoticePlaces => manual[k].retryable \/ ~manual[k].attempted,
             p # "idle" => NoticeAt(s, k)',
             \/ NoticeOf(k)'
             \/ /\ notices'[k] = notices[k] /\ manual'[k].attempted
                /\ manual'[k].retryable => manual[k].retryable \/ notices[k] = 0
                /\ manual'[k].notice = "submitted" => manual[k].notice = "submitted" \/ notices[k] = 1,
             place[s] \notin NoticePlaces /\ p \notin NoticePlaces =>
                /\ notices'[k] = notices[k]
                /\ manual'[k].retryable => manual[k].retryable
                /\ manual'[k].notice = "submitted" => manual[k].notice = "submitted"
      PROVE  ManualInv'
  <2>1. place'[s] = p /\ \A u \in Server \ {s} : place'[u] = place[u]
    BY <1>5 DEF ManualTypeOK
  <2>2. /\ manual'[k] \in {record, manual[k]}
        /\ \A j \in Key \ {k} : manual'[j] = manual[j]
    BY <1>5 DEF ManualTypeOK
  <2>3. /\ HasManual(k)' /\ manual'[k].text = manual[k].text /\ manual'[k].send = manual[k].send
        /\ manual[k].attempted => manual'[k].attempted
    BY <1>2, <1>5, <2>2, NoManualRecordAssumption DEF HasManual
  <2>4. \A u \in Server : place[u] \in NoticePlaces /\ place[s] \notin NoticePlaces /\ p \in NoticePlaces =>
          WantedKey(u) # k
    BY <1>5 DEF ManualInv, PlaceTellsNotice, NoticeAt, NoticePlaces
  <2>5. Local(s)
    BY <1>1, <1>2, <1>5, <2>1, <2>2, <2>3, <2>4
    DEF Local, SendPlaces, NoticePlaces, HasManual, Held
  <2>6. SeenIsTrue' /\ PlaceTellsSend' /\ RecordTellsSend'
    BY <1>4, <1>5, <2>1, <2>3, <2>5, LocalSparesSend
  <2>7. NoticeOf(k)'
    BY <1>1, <1>2, <1>3, <1>5, <2>3 DEF NoticeOf, Own, vars
  <2>8. PlaceTellsNotice' /\ RecordTellsNotice'
    BY <1>5, <2>1, <2>3, <2>5, <2>7, LocalKeepsNotice
  <2> QED
    BY <2>5, <2>6, <2>8, LocalKeepsShape DEF ManualInv
<1>6. UNCHANGED <<manual, notices>> => NoticeOf(k)'
  BY <1>1, <1>3 DEF NoticeOf, Own, HasManual, vars
<1>7. ASSUME manual'[k] \in ManualRecord, manual'[k].text = manual[k].text, manual'[k].attempted,
              notices'[k] \in {0, 1}, notices'[k] = 1 => ~manual'[k].retryable,
              manual'[k].notice = "submitted" => notices'[k] = 1
       PROVE  NoticeOf(k)'
  <2>1. k \notin mixed' => Own(k, "submitted")'
    BY <1>1, <1>4, <1>7 DEF Own, vars
  <2>2. HasManual(k)'
    BY <1>7, NoManualRecordAssumption DEF HasManual
  <2> HIDE DEF Own, HasManual
  <2> QED
    BY <1>7, <2>1, <2>2 DEF NoticeOf
<1>8. notices \in [Key -> Nat] /\ place \in [Server -> Places]
  BY DEF ManualTypeOK
<1> USE DEF Move, Leave, Continue, Save, SaveOrNot, Held
<1>9. CASE Claim(s)
  <2> DEFINE record == [manual[k] EXCEPT !.attempted = TRUE, !.retryable = FALSE]
  <2>1. record \in ManualRecord /\ record.text = manual[k].text /\ record.send = manual[k].send
    BY <1>2 DEF ManualRecord
  <2>2. record.notice = manual[k].notice /\ record.attempted /\ ~record.retryable
    BY <1>2 DEF ManualRecord
  <2>3. /\ manual' = [manual EXCEPT ![k] = record] \/ UNCHANGED manual
        /\ \/ place' = [place EXCEPT ![s] = "idle"]
           \/ /\ place' = [place EXCEPT ![s] = "notice"]
              /\ manual' = [manual EXCEPT ![k] = record]
              /\ want'[s] = want[s] /\ manual[k].notice = "pending" /\ ~manual[k].attempted
        /\ UNCHANGED notices
        /\ \A u \in Server \ {s} : want'[u] = want[u] /\ seen'[u] = seen[u] /\ outcome'[u] = outcome[u]
    BY <1>9 DEF Claim, ManualTypeOK
  <2> HIDE DEF record
  <2>4. UNCHANGED manual \/ manual'[k] = record
    BY <2>3 DEF ManualTypeOK
  <2>5. NoticeOf(k)'
    <3>1. CASE UNCHANGED manual
      BY <1>6, <2>3, <3>1
    <3>2. CASE manual'[k] = record
      <4>1. notices'[k] \in {0, 1} /\ (record.notice = "submitted" => notices'[k] = 1)
        BY <1>2, <1>3, <1>8, <2>2, <2>3 DEF NoticeOf
      <4> QED
        BY <1>7, <2>1, <2>2, <3>2, <4>1
    <3> QED
      BY <2>4, <3>1, <3>2
  <2>6. CASE place' = [place EXCEPT ![s] = "idle"]
    BY <1>5, <1>9, <2>1, <2>2, <2>3, <2>4, <2>5, <2>6 DEF Claim, NoticePlaces
  <2>7. CASE place' # [place EXCEPT ![s] = "idle"]
    <3>1. place'[s] = "notice" /\ manual'[k] = record /\ notices[k] = 0
      BY <1>3, <1>8, <2>3, <2>7 DEF ManualTypeOK, NoticeOf
    <3>2. NoticeAt(s, k)'
      BY <2>2, <2>3, <2>7, <3>1 DEF NoticeAt
    <3> QED
      BY <1>5, <2>1, <2>2, <2>3, <2>5, <2>7, <3>2 DEF NoticePlaces
  <2> QED
    BY <2>6, <2>7
<1>10. CASE RetryClaim(s)
  <2> DEFINE record == [manual[k] EXCEPT !.notice = "pending", !.attempted = TRUE, !.retryable = FALSE]
  <2>1. record \in ManualRecord /\ record.text = manual[k].text /\ record.send = manual[k].send
    BY <1>2 DEF ManualRecord
  <2>2. record.notice = "pending" /\ record.attempted /\ ~record.retryable
    BY <1>2 DEF ManualRecord
  <2>3. /\ manual' = [manual EXCEPT ![k] = record] \/ UNCHANGED manual
        /\ \/ place' = [place EXCEPT ![s] = "idle"]
           \/ /\ place' = [place EXCEPT ![s] = "notice"]
              /\ manual' = [manual EXCEPT ![k] = record]
              /\ want'[s] = want[s]
        /\ UNCHANGED notices /\ manual[k].retryable
        /\ \A u \in Server \ {s} : want'[u] = want[u] /\ seen'[u] = seen[u] /\ outcome'[u] = outcome[u]
    BY <1>10 DEF RetryClaim, Retryable, ManualTypeOK
  <2> HIDE DEF record
  <2>4. UNCHANGED manual \/ manual'[k] = record
    BY <2>3 DEF ManualTypeOK
  <2>5. NoticeOf(k)'
    <3>1. CASE UNCHANGED manual
      BY <1>6, <2>3, <3>1
    <3>2. CASE manual'[k] = record
      <4>1. notices'[k] \in {0, 1}
        BY <1>3, <1>8, <2>3 DEF NoticeOf
      <4> QED
        BY <1>7, <2>1, <2>2, <3>2, <4>1
    <3> QED
      BY <2>4, <3>1, <3>2
  <2>6. CASE place' = [place EXCEPT ![s] = "idle"]
    BY <1>5, <1>10, <2>1, <2>2, <2>3, <2>4, <2>5, <2>6 DEF RetryClaim, NoticePlaces
  <2>7. CASE place' # [place EXCEPT ![s] = "idle"]
    <3>1. place'[s] = "notice" /\ manual'[k] = record /\ notices[k] = 0
      BY <1>3, <1>8, <2>3, <2>7 DEF ManualTypeOK, NoticeOf
    <3>2. NoticeAt(s, k)'
      BY <2>2, <2>3, <2>7, <3>1 DEF NoticeAt
    <3> QED
      BY <1>5, <2>1, <2>2, <2>3, <2>5, <2>7, <3>2 DEF NoticePlaces
  <2> QED
    BY <2>6, <2>7
<1>11. CASE place[s] \in NoticePlaces
  <2>1. manual[k].attempted /\ ~manual[k].retryable
    BY <1>3, <1>11 DEF NoticeAt
  <2>2. \A u \in Server \ {s} : want'[u] = want[u] /\ seen'[u] = seen[u] /\ outcome'[u] = outcome[u]
    BY <1>11 DEF Claim, RetryClaim, NoticeNotWritten, WriteNotice, NoticeTaken, NoticeRejected,
       SavePosted, SaveNotice, ManualTypeOK, NoticePlaces
  <2>3. CASE NoticeNotWritten(s)
    <3>1. /\ place' = [place EXCEPT ![s] = "saving"] /\ UNCHANGED <<manual, notices, want>>
          /\ place'[s] = "saving" /\ outcome'[s] = "failed" /\ notices[k] = 0
      BY <1>3, <1>8, <2>3 DEF NoticeNotWritten, ManualTypeOK, NoticeAt
    <3>2. NoticeAt(s, k)'
      BY <1>3, <2>1, <2>3, <3>1 DEF NoticeAt, NoticePlaces, NoticeNotWritten
    <3> QED
      BY <1>2, <1>5, <1>6, <1>11, <2>1, <2>2, <3>1, <3>2 DEF NoticePlaces
  <2>4. CASE WriteNotice(s)
    <3>1. /\ place' = [place EXCEPT ![s] = "noticed"] /\ UNCHANGED <<manual, want>>
          /\ place'[s] = "noticed" /\ notices[k] = 0 /\ notices'[k] = 1
          /\ \A j \in Key \ {k} : notices'[j] = notices[j]
          /\ manual[k].notice # "submitted"
      BY <1>3, <1>8, <2>4 DEF WriteNotice, ManualTypeOK, NoticeAt, NoticePlaces
    <3>2. NoticeAt(s, k)'
      BY <2>1, <3>1 DEF NoticeAt
    <3>3. NoticeOf(k)'
      BY <1>1, <1>2, <1>4, <2>1, <3>1 DEF NoticeOf, HasManual, Own, vars
    <3> QED
      BY <1>2, <1>5, <1>11, <2>1, <2>2, <3>1, <3>2, <3>3 DEF NoticePlaces
  <2>5. CASE NoticeTaken(s)
    <3>1. /\ UNCHANGED <<manual, notices, want>>
          /\ notices[k] = 1 /\ manual[k].notice # "submitted"
      BY <1>3, <1>8, <2>5 DEF NoticeTaken, ManualTypeOK, NoticeAt, NoticePlaces
    <3>2. PICK p \in {"posted", "saving"} :
            /\ place' = [place EXCEPT ![s] = p] /\ place'[s] = p
            /\ p = "saving" => outcome'[s] = "uncertain"
      BY <1>8, <2>5 DEF NoticeTaken, ManualTypeOK
    <3>3. NoticeAt(s, k)'
      BY <2>1, <3>1, <3>2 DEF NoticeAt
    <3> QED
      BY <1>2, <1>5, <1>6, <1>11, <2>1, <2>2, <3>1, <3>2, <3>3 DEF NoticePlaces
  <2>6. CASE NoticeRejected(s)
    <3>1. /\ place' = [place EXCEPT ![s] = "saving"] /\ UNCHANGED <<manual, want>>
          /\ place'[s] = "saving" /\ outcome'[s] = "failed" /\ notices[k] = 1 /\ notices'[k] = 0
          /\ \A j \in Key \ {k} : notices'[j] = notices[j]
          /\ manual[k].notice # "submitted"
      BY <1>3, <1>8, <2>6 DEF NoticeRejected, ManualTypeOK, NoticeAt, NoticePlaces
    <3>2. NoticeAt(s, k)'
      BY <2>1, <3>1 DEF NoticeAt
    <3>3. NoticeOf(k)'
      BY <1>1, <1>2, <2>1, <3>1 DEF NoticeOf, HasManual
    <3> QED
      BY <1>2, <1>5, <1>11, <2>1, <2>2, <3>1, <3>2, <3>3 DEF NoticePlaces
  <2>7. CASE SavePosted(s)
    <3> DEFINE record == [manual[k] EXCEPT !.notice = "submitted", !.retryable = FALSE]
    <3>1. record \in ManualRecord /\ record.text = manual[k].text /\ record.send = manual[k].send
      BY <1>2 DEF ManualRecord
    <3>2. record.notice = "submitted" /\ record.attempted /\ ~record.retryable
      BY <1>2, <2>1 DEF ManualRecord
    <3>3. /\ manual' = [manual EXCEPT ![k] = record] \/ UNCHANGED manual
          /\ UNCHANGED notices /\ notices[k] = 1
          /\ \/ place' = [place EXCEPT ![s] = "idle"] /\ place'[s] = "idle"
             \/ /\ place' = [place EXCEPT ![s] = "saving"] /\ place'[s] = "saving"
                /\ outcome'[s] = "uncertain" /\ want'[s] = want[s]
      BY <1>3, <1>8, <2>7 DEF SavePosted, NoticeAt, ManualTypeOK
    <3> HIDE DEF record
    <3>4. UNCHANGED manual \/ manual'[k] = record
      BY <3>3 DEF ManualTypeOK
    <3>5. NoticeOf(k)'
      <4>1. CASE UNCHANGED manual
        BY <1>6, <3>3, <4>1
      <4>2. CASE manual'[k] = record
        BY <1>7, <3>1, <3>2, <3>3, <4>2
      <4> QED
        BY <3>4, <4>1, <4>2
    <3>6. place'[s] # "idle" => NoticeAt(s, k)'
      BY <2>1, <3>2, <3>3, <3>4 DEF NoticeAt
    <3> QED
      BY <1>5, <1>11, <2>2, <3>1, <3>2, <3>3, <3>5, <3>6 DEF NoticePlaces
  <2>8. CASE SaveNotice(s)
    <3> DEFINE record == [manual[k] EXCEPT !.notice = outcome[s], !.retryable = outcome[s] = "failed"]
    <3>1. outcome[s] \in {"failed", "uncertain"} /\ (outcome[s] = "failed" => notices[k] = 0)
      BY <1>3, <2>8 DEF SaveNotice, NoticeAt
    <3>2. record \in ManualRecord /\ record.text = manual[k].text /\ record.send = manual[k].send
      BY <1>2, <3>1 DEF ManualRecord
    <3>3. record.notice = outcome[s] /\ record.attempted /\ (record.retryable <=> outcome[s] = "failed")
      BY <1>2, <2>1 DEF ManualRecord
    <3>4. /\ manual' = [manual EXCEPT ![k] = record] \/ UNCHANGED manual
          /\ UNCHANGED notices /\ place' = [place EXCEPT ![s] = "idle"]
      BY <2>8 DEF SaveNotice
    <3> HIDE DEF record
    <3>5. UNCHANGED manual \/ manual'[k] = record
      BY <3>4 DEF ManualTypeOK
    <3>6. NoticeOf(k)'
      <4>1. CASE UNCHANGED manual
        BY <1>6, <3>4, <4>1
      <4>2. CASE manual'[k] = record
        <5>1. notices'[k] \in {0, 1} /\ (outcome[s] = "failed" => notices'[k] = 0)
          BY <1>3, <1>8, <3>1, <3>4 DEF NoticeOf
        <5> QED
          BY <1>7, <3>1, <3>2, <3>3, <4>2, <5>1
      <4> QED
        BY <3>5, <4>1, <4>2
    <3> QED
      BY <1>5, <1>11, <2>2, <3>2, <3>3, <3>4, <3>6 DEF NoticePlaces
  <2> QED
    BY <1>11, <2>3, <2>4, <2>5, <2>6, <2>7, <2>8 DEF Claim, RetryClaim, NoticePlaces
<1> QED
  BY <1>1, <1>9, <1>10, <1>11 DEF NoticePlaces, NoticeNotWritten, WriteNotice, NoticeTaken, NoticeRejected,
     SavePosted, SaveNotice

------------------------------------------------------------------------------
(***************************************************************************)
(* The inner sends and the automatic ones.                                 *)
(***************************************************************************)
LEMMA ServeEffect ==
  ASSUME TypeOK, DeliveryInv, NEW s \in Server, Serve(s)
  PROVE  /\ alive' = alive /\ alive[s]
         /\ \A u \in Server \ {s} : phase'[u] = phase[u] /\ request'[u] = request[u]
         /\ phase[s] = "idle" =>
               /\ phase'[s] = "asked" /\ request'[s] \in Request
               /\ UNCHANGED <<messages, writes, wire, refused>>
         /\ phase[s] # "idle" =>
               phase'[s] # "asked" /\ (phase'[s] # "idle" => request'[s] = request[s])
         /\ \A k \in Key : messages[k] = NoMessage /\ messages'[k] # NoMessage =>
               phase[s] = "asked" /\ k = KeyOf(s) /\ messages'[k].text = request[s].text
         /\ \A k \in Key :
               \/ wire'[k] = wire[k] /\ writes'[k] = writes[k]
               \/ /\ phase[s] = "send" /\ k = KeyOf(s) /\ phase'[s] = "written"
                  /\ wire'[k] = request[s].text /\ writes'[k] = 1
         /\ refused \subseteq refused'
         /\ \A k \in refused' \ refused :
               phase[s] \in {"send", "written"} /\ phase'[s] = "finish" /\ k = KeyOf(s)
<1> USE NoMessageAssumption DEF TypeOK, Working, Goto, KeyOf, End, AnswerError, Answer, transport, Request
<1>1. CASE Ask(s)
  BY <1>1 DEF Ask
<1>2. CASE Refuse(s) \/ Conflict(s)
  BY <1>2 DEF Refuse, Conflict
<1>3. CASE Reserve(s)
  BY <1>3 DEF Reserve, Record
<1>4. CASE Repeat(s)
  <2>1. PICK status : messages' = [messages EXCEPT ![KeyOf(s)].status = status]
    BY <1>4 DEF Repeat
  <2>2. KeyOf(s) \in Key /\ messages[KeyOf(s)] # NoMessage
    BY <1>4 DEF Repeat
  <2>3. \A k \in Key : messages[k] = NoMessage => messages'[k] = NoMessage
    BY <2>1, <2>2
  <2>4. /\ phase[s] = "asked" /\ phase' = [phase EXCEPT ![s] = "idle"]
        /\ request' = [request EXCEPT ![s] = NoMessage]
        /\ UNCHANGED <<alive, writes, wire, refused>> /\ alive[s]
    BY <1>4 DEF Repeat
  <2> QED
    BY <2>3, <2>4
<1>5. CASE NotWritten(s) \/ Rejected(s)
  BY <1>5 DEF NotWritten, Rejected
<1>6. CASE Write(s)
  BY <1>6 DEF Write, DeliveryInv, PhaseTellsTransport
<1>7. CASE Outcome(s)
  BY <1>7 DEF Outcome
<1>8. CASE Finish(s)
  <2>1. KeyOf(s) \in Key /\ messages[KeyOf(s)] # NoMessage
    BY <1>8 DEF Finish, DeliveryInv, SenderOwnsRecord, Recorded
  <2>2. \A k \in Key : messages[k] = NoMessage => messages'[k] = NoMessage
    BY <1>8, <2>1 DEF Finish
  <2>3. /\ phase[s] = "finish" /\ phase' = [phase EXCEPT ![s] = "idle"]
        /\ request' = [request EXCEPT ![s] = NoMessage]
        /\ UNCHANGED <<alive, writes, wire, refused>> /\ alive[s]
    BY <1>8 DEF Finish
  <2> QED
    BY <2>2, <2>3
<1> QED
  BY <1>1, <1>2, <1>3, <1>4, <1>5, <1>6, <1>7, <1>8 DEF Serve

\* What a saved outcome rests on stays true.
LEMMA OwnIsStable ==
  ASSUME TypeOK, DeliveryInv, [Next]_vars, NEW k \in Key, manual'[k] = manual[k],
         NEW status \in {"submitted", "failed"}, Own(k, status)
  PROVE  Own(k, status)'
  BY FinalStep DEF Own, Final, Recorded, Status

\* A step of a send, by the call of a person or by an automatic one.
LEMMA ServeKeepsManual ==
  ASSUME ManualTypeOK, DeliveryInv, ManualInv, TypeOK', DeliveryInv', NEW s \in Server, Serve(s),
         place[s] \in {"idle", "sending"},
         UNCHANGED <<want, seen, manual, notices>>, mixed \subseteq mixed',
         \A u \in Server \ {s} : place'[u] = place[u] /\ outcome'[u] = outcome[u],
         place[s] = "idle" =>
            /\ place'[s] = "idle"
            /\ phase[s] = "idle" =>
                  /\ request'[s].text \notin ManualText
                  /\ \A t \in Server : alive[t] /\ place[t] # "idle" /\ WantedKey(t) = request'[s].key
                        => WantedKey(t) \in mixed',
         place[s] = "sending" =>
            IF phase'[s] = "idle"
            THEN place'[s] \in {"sent", "reread"} /\ SendAt(s, WantedKey(s))'
            ELSE place'[s] = "sending"
  PROVE  ManualInv'
<1> USE DEF ManualInv
<1>1. [Next]_vars
  BY DEF Next
<1>2. /\ TypeOK
      /\ place[s] = "sending" => phase[s] # "idle" /\ request[s] = want[s] /\ want[s].text \in ManualText
      /\ place[s] = "idle" /\ phase[s] # "idle" => request[s].text \notin ManualText
  BY DEF ManualTypeOK, CallsAreNested
<1>3. /\ alive' = alive /\ alive[s]
      /\ \A u \in Server \ {s} : phase'[u] = phase[u] /\ request'[u] = request[u]
      /\ phase[s] = "idle" => phase'[s] = "asked" /\ UNCHANGED <<messages, writes, wire, refused>>
      /\ phase[s] # "idle" =>
            phase'[s] # "asked" /\ (phase'[s] # "idle" => request'[s] = request[s])
  BY <1>2, ServeEffect
<1>4. \A u \in Server : (place'[u] = "idle" <=> place[u] = "idle") /\ WantedKey(u)' = WantedKey(u)
  BY DEF WantedKey
<1>5. \A u \in Server : place[u] # "idle" => want[u].key \in Key /\ want[u].text \in ManualText
  BY DEF ManualTypeOK, Request
\* What s records has its text: a manual one only in a person's call.
<1>6. \A k \in Key : messages[k] = NoMessage /\ messages'[k] # NoMessage =>
        /\ k = KeyOf(s) /\ messages'[k].text = request[s].text /\ phase[s] = "asked"
  BY <1>2, ServeEffect
<1>7. \A k \in Key : messages[k] # NoMessage =>
        messages'[k] # NoMessage /\ messages'[k].text = messages[k].text
  BY <1>1, <1>2, FinalStep DEF Final, Recorded
<1>8. \A k \in Key :
        \/ wire'[k] = wire[k] /\ writes'[k] = writes[k]
        \/ /\ phase[s] = "send" /\ k = KeyOf(s) /\ phase'[s] = "written"
           /\ wire'[k] = request[s].text /\ writes'[k] = 1
  BY <1>2, ServeEffect
<1>9. /\ refused \subseteq refused'
      /\ \A k \in refused' \ refused :
            phase[s] \in {"send", "written"} /\ phase'[s] = "finish" /\ k = KeyOf(s)
  BY <1>2, ServeEffect
<1>10. WireIsWritten'
  BY <1>8 DEF WireIsWritten
<1>11. CallsAreNested'
  BY <1>2, <1>3 DEF CallsAreNested
<1>12. KindsAreApart'
  <2> SUFFICES ASSUME NEW t \in Server, alive[t], place[t] # "idle", WantedKey(t) \notin mixed'
               PROVE  /\ Recorded(WantedKey(t))' => messages'[WantedKey(t)].text \in ManualText
                      /\ \A u \in Server : alive[u] /\ place[u] = "idle" /\ phase'[u] # "idle" =>
                            request'[u].key # WantedKey(t)
    BY <1>3, <1>4 DEF KindsAreApart, KeyOf
  <2>1. /\ WantedKey(t) \in Key
        /\ Recorded(WantedKey(t)) => messages[WantedKey(t)].text \in ManualText
        /\ \A u \in Server : alive[u] /\ place[u] = "idle" /\ phase[u] # "idle" =>
              request[u].key # WantedKey(t)
    BY <1>5 DEF KindsAreApart, KeyOf, WantedKey
  <2>2. ASSUME Recorded(WantedKey(t))' PROVE messages'[WantedKey(t)].text \in ManualText
    <3>1. messages'[WantedKey(t)] # NoMessage
      BY <1>4, <2>2 DEF Recorded
    <3>2. CASE messages[WantedKey(t)] # NoMessage
      BY <1>7, <2>1, <3>2 DEF Recorded
    <3>3. CASE messages[WantedKey(t)] = NoMessage
      BY <1>2, <1>3, <1>6, <2>1, <3>1, <3>3 DEF KeyOf
    <3> QED BY <3>2, <3>3
  <2>3. ASSUME NEW u \in Server, alive[u], place[u] = "idle", phase'[u] # "idle"
        PROVE  request'[u].key # WantedKey(t)
    BY <1>3, <2>1, <2>3
  <2> QED
    BY <2>2, <2>3
<1>13. LedgersAgree'
  <2>1. ASSUME NEW k \in Key, messages'[k] # NoMessage, messages'[k].text \in ManualText
        PROVE  manual[k] # NoMessage /\ manual[k].text = messages'[k].text
    <3>1. CASE messages[k] # NoMessage
      BY <1>7, <2>1, <3>1 DEF LedgersAgree, Recorded, HasManual
    <3>2. CASE messages[k] = NoMessage
      BY <1>2, <1>6, <2>1, <3>2 DEF LedgersAgree, KeyOf, WantedKey, Held, HasManual
    <3> QED BY <3>1, <3>2
  <2>2. ASSUME NEW u \in Server, place'[u] \notin {"idle", "reserve", "retry"}
        PROVE  place[u] \notin {"idle", "reserve", "retry"}
    BY <1>4, <2>2
  <2> QED
    BY <1>4, <2>1, <2>2 DEF LedgersAgree, Recorded, HasManual, Held
<1>14. OneHolder'
  <2>1. \A u \in Server : /\ place'[u] \in SendPlaces => place[u] \in SendPlaces
                          /\ place'[u] \in NoticePlaces => place[u] \in NoticePlaces
    BY DEF SendPlaces, NoticePlaces
  <2> QED
    BY <1>4, <2>1 DEF OneHolder
<1>15. SeenIsTrue'
  <2> SUFFICES ASSUME NEW u \in Server, place'[u] \in {"reserve", "failing"}, seen[u] # NoMessage
               PROVE  /\ messages'[WantedKey(u)] # NoMessage /\ messages'[WantedKey(u)].text = seen[u].text
                      /\ seen[u].status \in {"submitted", "failed"} =>
                            messages'[WantedKey(u)].status = seen[u].status
                      /\ place'[u] = "reserve" => seen[u].text = want[u].text
    BY <1>4 DEF SeenIsTrue, Recorded
  <2>1. place'[u] = place[u] /\ WantedKey(u) \in Key
    BY <1>5 DEF WantedKey
  <2>2. Final
    BY <1>1, <1>2, FinalStep
  <2>3. messages[WantedKey(u)] # NoMessage
    BY <2>1 DEF SeenIsTrue, Recorded
  <2> QED
    BY <2>1, <2>2, <2>3 DEF SeenIsTrue, Recorded, Final, Status
<1>16. \A k \in Key, status \in {"submitted", "failed"} : Own(k, status) => Own(k, status)'
  BY <1>1, <1>2, OwnIsStable
\* Nobody but the one call that sends the manual text can write it.
<1>17. ASSUME NEW k \in Key, HasManual(k), Lost(k), place[s] = "sending" => WantedKey(s) # k \/ k \in refused
       PROVE  Lost(k)'
  <2>1. CASE k \in refused
    BY <1>9, <2>1 DEF Lost
  <2>2. CASE k \notin refused
    <3>1. manual[k].text \in ManualText /\ wire[k] # manual[k].text
      BY <1>17, <2>2, NoManualRecordAssumption DEF Lost, ManualTypeOK, ManualRecord, HasManual
    <3>2. CASE wire'[k] = wire[k]
      BY <3>1, <3>2 DEF Lost
    <3>3. CASE wire'[k] # wire[k]
      BY <1>2, <1>8, <1>17, <2>2, <3>1, <3>3 DEF Lost, KeyOf, WantedKey
    <3> QED
      BY <3>2, <3>3
  <2> QED
    BY <2>1, <2>2
\* A text that was handed over by a call that is past its send stays handed over.
<1>18. ASSUME NEW k \in Key, Handed(k), wire[k] \in ManualText,
              place[s] = "sending" => WantedKey(s) # k
       PROVE  Handed(k)' /\ wire'[k] = wire[k]
  <2>1. writes[k] = 1 /\ k \notin refused
    BY <1>18 DEF Handed
  <2>2. phase[s] = "send" => k # KeyOf(s)
    BY <1>18, <2>1 DEF DeliveryInv, PhaseTellsTransport
  <2>3. writes'[k] = 1 /\ wire'[k] = wire[k]
    BY <1>8, <2>1, <2>2
  <2>4. phase[s] = "written" => k # KeyOf(s)
    <3> SUFFICES ASSUME phase[s] = "written", k = KeyOf(s) PROVE FALSE
      OBVIOUS
    <3>1. messages[k].text = request[s].text /\ messages[k].text = wire[k]
      BY <2>1 DEF DeliveryInv, SenderOwnsRecord, RecordedBeforeWritten
    <3> QED
      BY <1>2, <1>18, <3>1 DEF KeyOf, WantedKey
  <2> QED
    BY <1>9, <2>1, <2>2, <2>3, <2>4 DEF Handed
<1>19. ASSUME NEW u \in Server, place'[u] # "idle" PROVE SendAt(u, WantedKey(u))'
  <2>1. place[u] # "idle" /\ WantedKey(u) \in Key /\ SendAt(u, WantedKey(u))
    BY <1>4, <1>5, <1>19 DEF PlaceTellsSend, WantedKey
  <2> DEFINE NewSendAt(k) ==
          /\ place'[u] = "sending" /\ phase'[u] = "asked" /\ messages'[k] # NoMessage =>
                messages'[k].text \notin ManualText
          /\ place'[u] = "sent" => Own(k, "submitted")'
          /\ place'[u] \in {"reread", "failing"} /\ outcome'[u] = "uncertain" =>
                Handed(k)' /\ wire'[k] = want[u].text
          /\ place'[u] \in {"reread", "failing"} /\ outcome'[u] # "uncertain" =>
                \/ Lost(k)'
                \/ /\ Own(k, "submitted")'
                   /\ place'[u] = "failing" => seen[u] # NoMessage /\ seen[u].status = "submitted"
          /\ place'[u] \in {"claim"} \cup NoticePlaces /\ k \notin mixed' => Own(k, "submitted")'
          /\ place'[u] \in SendPlaces /\ manual[k].send \in {"submitted", "failed"} => Own(k, manual[k].send)'
  <2>2. ASSUME NEW k \in Key, k = WantedKey(u), NewSendAt(k) PROVE SendAt(u, WantedKey(u))'
    <3>1. k = WantedKey(u)'
      BY <1>4, <2>2
    <3>2. SendAt(u, k)'
      BY <2>2 DEF SendAt, Recorded
    <3> QED
      BY <3>1, <3>2
  <2>3. CASE u = s /\ phase'[s] = "idle"
    BY <1>2, <1>3, <2>1, <2>3
  <2>4. CASE u = s /\ phase'[s] # "idle"
    <3>1. place'[s] = "sending" /\ place[s] = "sending" /\ phase'[s] # "asked"
      BY <1>2, <1>3, <2>1, <2>4
    <3>2. ASSUME NEW k \in Key, k = WantedKey(u) PROVE NewSendAt(k)
      BY <1>16, <2>1, <2>4, <3>1, <3>2 DEF SendAt, SendPlaces, NoticePlaces
    <3> QED
      BY <2>1, <2>2, <3>2
  <2>5. CASE u # s
    <3> SUFFICES ASSUME NEW k \in Key, k = WantedKey(u) PROVE NewSendAt(k)
      BY <2>1, <2>2
    <3>1. place'[u] = place[u] /\ outcome'[u] = outcome[u] /\ phase'[u] = phase[u] /\ want[u].text \in ManualText
      BY <1>3, <1>5, <2>1, <2>5
    <3>2. place[u] \in SendPlaces => (place[s] = "sending" => WantedKey(s) # k)
      BY <2>1, <2>5 DEF OneHolder, SendPlaces
    <3>3. place[u] \notin {"reserve", "retry"} => HasManual(k) /\ manual[k].text = want[u].text
      BY <2>1 DEF LedgersAgree, Held
    <3>4. SendAt(u, k)
      BY <2>1
    <3>5. place[u] = "sending" /\ phase[u] = "asked" /\ messages'[k] # NoMessage =>
            messages'[k].text \notin ManualText
      <4>1. CASE messages[k] # NoMessage
        BY <1>7, <3>4, <4>1 DEF SendAt, Recorded
      <4>2. CASE messages[k] = NoMessage
        BY <1>2, <1>6, <3>2, <4>2 DEF SendPlaces, KeyOf, WantedKey
      <4> QED BY <4>1, <4>2
    <3>6. place[u] \in {"reread", "failing"} /\ outcome[u] = "uncertain" =>
            Handed(k)' /\ wire'[k] = want[u].text
      BY <1>18, <3>1, <3>2, <3>4 DEF SendAt, SendPlaces
    <3>7. place[u] \in {"reread", "failing"} /\ outcome[u] # "uncertain" =>
            \/ Lost(k)'
            \/ /\ Own(k, "submitted")'
               /\ place[u] = "failing" => seen[u] # NoMessage /\ seen[u].status = "submitted"
      BY <1>16, <1>17, <3>2, <3>3, <3>4 DEF SendAt, SendPlaces
    <3> QED
      BY <1>16, <3>1, <3>4, <3>5, <3>6, <3>7 DEF SendAt
  <2> QED
    BY <2>3, <2>4, <2>5
<1>20. PlaceTellsNotice'
  <2> SUFFICES ASSUME NEW u \in Server, place'[u] # "idle" PROVE NoticeAt(u, WantedKey(u))'
    BY DEF PlaceTellsNotice
  <2>1. place[u] # "idle" /\ NoticeAt(u, WantedKey(u))
    BY <1>4 DEF PlaceTellsNotice
  <2>2. CASE u = s
    BY <2>1, <2>2 DEF NoticeAt, NoticePlaces
  <2>3. CASE u # s
    BY <1>4, <2>1, <2>3 DEF NoticeAt
  <2> QED
    BY <2>2, <2>3
<1>21. RecordTellsSend'
  <2> SUFFICES ASSUME NEW k \in Key, HasManual(k) PROVE SendOf(k)'
    BY DEF RecordTellsSend, HasManual
  <2>1. SendOf(k)
    BY DEF RecordTellsSend
  <2>2. manual[k].send = "failed" /\ place[s] = "sending" /\ WantedKey(s) = k => k \in refused
    BY DEF PlaceTellsSend, SendAt, SendPlaces, Own, DeliveryInv, RecordTellsTransport, Recorded, Status
  <2>3. manual[k].send = "failed" => Lost(k)'
    BY <1>17, <2>1, <2>2 DEF SendOf
  <2> QED
    BY <1>16, <2>1, <2>3 DEF SendOf
<1>22. RecordTellsNotice'
  BY <1>16 DEF RecordTellsNotice, NoticeOf, HasManual
<1> QED
  BY <1>10, <1>11, <1>12, <1>13, <1>14, <1>15, <1>19, <1>20, <1>21, <1>22 DEF PlaceTellsSend

\* The inner send is over: what is known of it then.
LEMMA InnerEndTells ==
  ASSUME ManualTypeOK, DeliveryInv, ManualInv, TypeOK', DeliveryInv', NEW s \in Server, InnerEnd(s),
         NEW k \in Key, k = WantedKey(s)
  PROVE  place'[s] \in {"sent", "reread"} /\ SendAt(s, k)'
<1> USE DEF ManualInv
<1>1. /\ place[s] = "sending" /\ Serve(s) /\ phase[s] # "idle" /\ phase'[s] = "idle"
      /\ request[s] = want[s] /\ want[s].text \in ManualText /\ KeyOf(s) = k
      /\ manual[k] \in ManualRecord /\ manual[k].text = want[s].text
      /\ UNCHANGED <<want, manual, mixed>> /\ TypeOK /\ [Next]_vars
      /\ SendAt(s, k)
  <2>1. place[s] = "sending" /\ Serve(s) /\ phase[s] # "idle" /\ phase'[s] = "idle"
        /\ UNCHANGED <<want, manual, mixed>>
    BY DEF InnerEnd, At, Continue
  <2>2. request[s] = want[s] /\ want[s].text \in ManualText /\ KeyOf(s) = k
    BY <2>1 DEF CallsAreNested, ManualTypeOK, KeyOf, WantedKey
  <2>3. manual[k] \in ManualRecord /\ manual[k].text = want[s].text
    BY <2>1 DEF LedgersAgree, Held, HasManual, ManualTypeOK
  <2>4. SendAt(s, k)
    BY <2>1 DEF PlaceTellsSend
  <2>5. [Next]_vars
    BY <2>1 DEF Next
  <2> QED
    BY <2>1, <2>2, <2>3, <2>4, <2>5 DEF ManualTypeOK
<1>2. UNCHANGED <<writes, wire, refused>>
  BY <1>1, ServeEffect, ZenonT(40) DEF TypeOK
<1>3. manual[k].send \in {"submitted", "failed"} => Own(k, manual[k].send)'
  BY <1>1, OwnIsStable DEF SendAt, SendPlaces
<1>4. CASE Returns(s) /\ Continue(s, "sent")
  <2>1. PICK t \in told' \ told : t.answer = "submitted"
    BY <1>4 DEF Returns
  <2>2. t.key = k /\ t.text = request[s].text
    <3>1. \E answer : told' = told \cup {[key |-> KeyOf(s), text |-> request[s].text, answer |-> answer]}
      BY <1>1, <2>1 DEF Serve, Ask, Refuse, Reserve, Conflict, Repeat, NotWritten, Write, Outcome,
         Rejected, Finish, Answer, AnswerError
    <3> QED
      BY <1>1, <2>1, <3>1
  <2>3. Own(k, "submitted")'
    BY <1>1, <2>1, <2>2 DEF DeliveryInv, AnswersAreRecorded, Own, Status, Recorded
  <2>4. place'[s] = "sent"
    BY <1>4 DEF Continue, Move, ManualTypeOK
  <2> QED
    BY <1>1, <1>3, <2>3, <2>4 DEF SendAt, NoticePlaces
<1>5. CASE /\ ~Returns(s) /\ Move(s, "reread")
           /\ outcome' = [outcome EXCEPT ![s] = IF DeliveryUnknown(s) THEN "uncertain" ELSE "failed"]
  <2>1. place'[s] = "reread" /\ outcome'[s] = IF DeliveryUnknown(s) THEN "uncertain" ELSE "failed"
    BY <1>5 DEF Move, ManualTypeOK
  <2>2. ASSUME DeliveryUnknown(s) PROVE Handed(k)' /\ wire'[k] = want[s].text
    <3>1. Handed(k)
      BY <1>1, <2>2 DEF DeliveryUnknown, DeliveryInv, PhaseTellsTransport
    <3>2. messages[k].text = request[s].text /\ messages[k].text = wire[k]
      BY <1>1, <2>2, <3>1 DEF DeliveryUnknown, DeliveryInv, SenderOwnsRecord, RecordedBeforeWritten, Handed
    <3> QED
      BY <1>1, <1>2, <3>1, <3>2 DEF Handed
  <2>3. ASSUME ~DeliveryUnknown(s) PROVE Lost(k)'
    <3>1. phase[s] \in {"asked", "finish"}
      <4>1. phase[s] \in {"idle", "asked", "send", "written", "finish"}
        BY <1>1 DEF TypeOK
      <4> QED
        BY <1>1, <4>1 DEF Serve, Ask, Refuse, Reserve, Conflict, Repeat, NotWritten, Write, Outcome,
           Rejected, Finish, Working, Goto, TypeOK
    <3>2. CASE phase[s] = "finish"
      BY <1>1, <1>2, <2>3, <3>2 DEF DeliveryUnknown, DeliveryInv, PhaseTellsTransport, Lost
    <3>3. CASE phase[s] = "asked"
      <4>1. wire[k] # want[s].text
        <5>1. CASE wire[k] = NoText
          BY <1>1, <5>1, NoTextAssumption, ManualTextAssumption
        <5>2. CASE wire[k] # NoText
          <6>1. Recorded(k) /\ messages[k].text = wire[k]
            BY <1>1, <5>2 DEF WireIsWritten, DeliveryInv, RecordedBeforeWritten
          <6> QED
            BY <1>1, <3>3, <6>1 DEF SendAt
        <5> QED
          BY <5>1, <5>2
      <4> QED
        BY <1>1, <1>2, <4>1 DEF Lost
    <3> QED
      BY <3>1, <3>2, <3>3
  <2> QED
    BY <1>1, <1>3, <2>1, <2>2, <2>3 DEF SendAt, NoticePlaces
<1> QED
  BY <1>4, <1>5 DEF InnerEnd

LEMMA SendStep ==
  ASSUME ManualTypeOK, DeliveryInv, ManualInv, TypeOK', DeliveryInv', NEW s \in Server,
         Automatic(s) \/ Inner(s) \/ InnerEnd(s)
  PROVE  ManualInv'
<1>1. CASE Automatic(s)
  <2>1. mixed \subseteq mixed' /\ (phase[s] = "idle" =>
          /\ request'[s].text \notin ManualText
          /\ \A t \in Server : alive[t] /\ place[t] # "idle" /\ WantedKey(t) = request'[s].key
                => WantedKey(t) \in mixed')
    <3>1. CASE phase[s] = "idle"
      <4>1. PICK k : k = request'[s].key
        OBVIOUS
      <4>2. mixed' = mixed \cup {j \in {k} : ManuallyWanted(j)} /\ request'[s].text \notin ManualText
        BY <1>1, <3>1, <4>1 DEF Automatic
      <4>3. ASSUME NEW t \in Server, alive[t], place[t] # "idle", WantedKey(t) = k
            PROVE  k \in mixed'
        BY <4>2, <4>3 DEF ManuallyWanted
      <4> QED
        BY <4>1, <4>2, <4>3
    <3>2. CASE phase[s] # "idle"
      BY <1>1, <3>2 DEF Automatic
    <3> QED
      BY <3>1, <3>2
  <2>2. /\ Serve(s) /\ place[s] = "idle" /\ UNCHANGED <<place, want, seen, outcome, manual, notices>>
    BY <1>1 DEF Automatic
  <2> QED
    BY <2>1, <2>2, ServeKeepsManual
<1>2. CASE Inner(s)
  <2>1. /\ Serve(s) /\ place[s] = "sending" /\ phase'[s] # "idle"
        /\ UNCHANGED <<place, want, seen, outcome, manual, notices, mixed>>
    BY <1>2 DEF Inner, At, manualVars
  <2> QED
    BY <2>1, ServeKeepsManual
<1>3. CASE InnerEnd(s)
  <2>1. WantedKey(s) \in Key /\ place[s] = "sending"
    BY <1>3 DEF InnerEnd, At, ManualTypeOK, WantedKey, Request
  <2>2. PICK k \in Key : k = WantedKey(s)
    BY <2>1
  <2>3. /\ Serve(s) /\ phase'[s] = "idle" /\ UNCHANGED <<want, seen, manual, notices, mixed>>
        /\ \A u \in Server \ {s} : place'[u] = place[u] /\ outcome'[u] = outcome[u]
    BY <1>3 DEF InnerEnd, Continue, Move, ManualTypeOK
  <2>4. place'[s] \in {"sent", "reread"} /\ SendAt(s, k)'
    BY <1>3, <2>2, InnerEndTells
  <2>5. WantedKey(s)' = k
    BY <2>2, <2>3 DEF WantedKey
  <2>6. SendAt(s, WantedKey(s))'
    BY <2>4, <2>5
  <2> QED
    BY <2>1, <2>3, <2>4, <2>6, ServeKeepsManual
<1> QED
  BY <1>1, <1>2, <1>3

------------------------------------------------------------------------------
(***************************************************************************)
(* The start of a manual call: what it reads, and the record it creates.   *)
(***************************************************************************)
LEMMA AskStep ==
  ASSUME ManualTypeOK, ManualInv, NEW s \in Server, ManualAsk(s) \/ RetryAsk(s)
  PROVE  ManualInv'
<1> USE DEF ManualInv
<1>1. /\ alive[s] /\ place[s] = "idle" /\ phase[s] = "idle"
      /\ UNCHANGED <<alive, phase, request, messages, writes, wire, refused, outcome, manual, notices>>
  BY DEF ManualAsk, RetryAsk, At, transport
<1>2. PICK k \in Key, t \in ManualText :
        /\ want' = [want EXCEPT ![s] = [key |-> k, text |-> t]]
        /\ messages[k] # NoMessage => messages[k].text = t
        /\ mixed' = mixed \cup {j \in {k} : AutomaticallyAsked(j)}
        /\ \/ place' = [place EXCEPT ![s] = "reserve"] /\ seen' = [seen EXCEPT ![s] = messages[k]]
           \/ place' = [place EXCEPT ![s] = "retry"] /\ UNCHANGED seen
  BY DEF ManualAsk, RetryAsk, Move
<1>3. /\ place'[s] \in {"reserve", "retry"} /\ WantedKey(s)' = k /\ want'[s].text = t
      /\ place'[s] = "reserve" => seen'[s] = messages[k]
      /\ mixed \subseteq mixed' /\ (k \notin mixed' => ~AutomaticallyAsked(k))
      /\ \A u \in Server \ {s} : place'[u] = place[u] /\ want'[u] = want[u] /\ seen'[u] = seen[u]
  BY <1>2 DEF ManualTypeOK, WantedKey
<1>4. \A u \in Server \ {s} : WantedKey(u)' = WantedKey(u)
  BY <1>3 DEF WantedKey
<1>5. WireIsWritten' /\ CallsAreNested' /\ OneHolder'
  <2>1. \A u \in Server : place'[u] \in SendPlaces \cup NoticePlaces => u # s /\ place'[u] = place[u]
    BY <1>3 DEF SendPlaces, NoticePlaces
  <2> QED
    BY <1>1, <1>3, <1>4, <2>1 DEF WireIsWritten, CallsAreNested, OneHolder, SendPlaces, NoticePlaces
<1>6. KindsAreApart'
  <2> SUFFICES ASSUME NEW v \in Server, alive[v], place'[v] # "idle", WantedKey(v)' \notin mixed'
               PROVE  /\ Recorded(WantedKey(v))' => messages[WantedKey(v)'].text \in ManualText
                      /\ \A u \in Server : alive[u] /\ place'[u] = "idle" /\ phase[u] # "idle" =>
                            KeyOf(u) # WantedKey(v)'
    BY <1>1 DEF KindsAreApart, KeyOf
  <2>1. \A u \in Server : place'[u] = "idle" => place[u] = "idle"
    BY <1>3
  <2>2. CASE v = s
    BY <1>1, <1>2, <1>3, <2>1, <2>2 DEF AutomaticallyAsked, Recorded
  <2>3. CASE v # s
    BY <1>1, <1>3, <1>4, <2>1, <2>3 DEF KindsAreApart, Recorded
  <2> QED
    BY <2>2, <2>3
<1>7. LedgersAgree'
  <2>1. \A u \in Server : place'[u] \notin {"idle", "reserve", "retry"} => u # s /\ place'[u] = place[u]
    BY <1>3
  <2> QED
    BY <1>1, <1>3, <1>4, <2>1 DEF LedgersAgree, Recorded, HasManual, Held
<1>8. SeenIsTrue'
  <2> SUFFICES ASSUME NEW u \in Server, place'[u] \in {"reserve", "failing"}, seen'[u] # NoMessage
               PROVE  /\ Recorded(WantedKey(u))' /\ messages[WantedKey(u)'].text = seen'[u].text
                      /\ seen'[u].status \in {"submitted", "failed"} =>
                            messages[WantedKey(u)'].status = seen'[u].status
                      /\ place'[u] = "reserve" => seen'[u].text = want'[u].text
    BY <1>1 DEF SeenIsTrue
  <2>1. CASE u = s
    BY <1>1, <1>2, <1>3, <2>1 DEF Recorded
  <2>2. CASE u # s
    BY <1>1, <1>3, <1>4, <2>2 DEF SeenIsTrue, Recorded
  <2> QED
    BY <2>1, <2>2
<1>9. ASSUME NEW u \in Server, place'[u] # "idle"
      PROVE  SendAt(u, WantedKey(u))' /\ NoticeAt(u, WantedKey(u))'
  <2>1. CASE u = s
    BY <1>3, <2>1 DEF SendAt, NoticeAt, SendPlaces, NoticePlaces
  <2>2. CASE u # s
    <3>1. SendAt(u, WantedKey(u)) /\ NoticeAt(u, WantedKey(u))
      BY <1>3, <1>9, <2>2 DEF PlaceTellsSend, PlaceTellsNotice
    <3> QED
      BY <1>1, <1>3, <1>4, <2>2, <3>1 DEF SendAt, NoticeAt, Own, Lost, Handed, Recorded
  <2> QED
    BY <2>1, <2>2
<1>10. RecordTellsSend' /\ RecordTellsNotice'
  BY <1>1, <1>3 DEF RecordTellsSend, RecordTellsNotice, SendOf, NoticeOf, Own, Lost, HasManual
<1> QED
  BY <1>5, <1>6, <1>7, <1>8, <1>9, <1>10 DEF PlaceTellsSend, PlaceTellsNotice

LEMMA ReserveStep ==
  ASSUME ManualTypeOK, DeliveryInv, ManualInv, ManualTypeOK', NEW s \in Server,
         NEW k \in Key, k = WantedKey(s), ReserveNew(s)
  PROVE  ManualInv'
<1> USE DEF ManualInv
<1>1. /\ alive[s] /\ place[s] = "reserve" /\ phase[s] = "idle" /\ manual[k] = NoMessage
      /\ want[s] \in Request /\ want[s].text \in ManualText /\ notices[k] = 0
      /\ UNCHANGED <<alive, messages, writes, wire, refused, notices, mixed>>
  <2>1. /\ alive[s] /\ place[s] = "reserve" /\ manual[k] = NoMessage
        /\ UNCHANGED <<alive, messages, writes, wire, refused, notices, mixed>>
    BY DEF ReserveNew, At, Held, transport
  <2>2. phase[s] = "idle" /\ want[s] \in Request /\ want[s].text \in ManualText
    BY <2>1 DEF CallsAreNested, ManualTypeOK
  <2>3. notices[k] = 0
    BY <2>1 DEF RecordTellsNotice, NoticeOf, HasManual, ManualTypeOK
  <2> QED
    BY <2>1, <2>2, <2>3
\* Nobody else is past the reservation of k, and no manual text is recorded under it.
<1>2. /\ \A u \in Server : place[u] \notin {"idle", "reserve", "retry"} => WantedKey(u) # k
      /\ messages[k] # NoMessage => messages[k].text \notin ManualText
      /\ seen[s] = NoMessage
  <2>1. \A u \in Server : place[u] \notin {"idle", "reserve", "retry"} => WantedKey(u) # k
    BY <1>1 DEF LedgersAgree, HasManual
  <2>2. messages[k] # NoMessage => messages[k].text \notin ManualText
    BY <1>1 DEF LedgersAgree, HasManual, Recorded
  <2>3. seen[s] # NoMessage => messages[k] # NoMessage /\ messages[k].text = want[s].text
    BY <1>1 DEF SeenIsTrue, Recorded
  <2> QED
    BY <1>1, <2>1, <2>2, <2>3
<1> DEFINE record == NewRecord(want[s].text, seen[s])
<1>3. /\ record \in ManualRecord
      /\ record.text = want[s].text /\ record.send = "sending" /\ record.notice = "pending"
      /\ ~record.attempted /\ ~record.retryable
  <2>1. record = [text |-> want[s].text, send |-> "sending", notice |-> "pending",
                  attempted |-> FALSE, retryable |-> FALSE]
    BY <1>2 DEF NewRecord
  <2> HIDE DEF record
  <2> QED
    BY <1>1, <2>1 DEF ManualRecord
<1>4. /\ manual' = [manual EXCEPT ![k] = record] \/ UNCHANGED manual
      /\ \/ /\ place' = [place EXCEPT ![s] = "sending"] /\ manual' = [manual EXCEPT ![k] = record]
            /\ request' = [request EXCEPT ![s] = want[s]] /\ phase' = [phase EXCEPT ![s] = "asked"]
            /\ UNCHANGED <<want, seen, outcome>>
         \/ /\ place' = [place EXCEPT ![s] = "idle"] /\ UNCHANGED <<request, phase>>
            /\ want' = [want EXCEPT ![s] = NoMessage]
            /\ seen' = [seen EXCEPT ![s] = NoMessage]
            /\ outcome' = [outcome EXCEPT ![s] = "none"]
  BY <1>2 DEF ReserveNew, Save, SaveOrNot, Leave, Continue, Move, Goto
<1> HIDE DEF record
<1>5. /\ \/ /\ place'[s] = "sending" /\ manual'[k] = record /\ want'[s] = want[s]
            /\ request'[s] = want[s] /\ phase'[s] = "asked"
         \/ place'[s] = "idle" /\ phase'[s] = "idle"
      /\ manual'[k] \in {record, NoMessage}
      /\ \A j \in Key \ {k} : manual'[j] = manual[j]
      /\ \A u \in Server \ {s} :
            /\ place'[u] = place[u] /\ want'[u] = want[u] /\ seen'[u] = seen[u]
            /\ outcome'[u] = outcome[u] /\ request'[u] = request[u] /\ phase'[u] = phase[u]
  BY <1>1, <1>4 DEF ManualTypeOK, TypeOK
<1>6. \A u \in Server : place'[u] # "idle" => place[u] # "idle" /\ WantedKey(u)' = WantedKey(u) /\ WantedKey(u) \in Key
  BY <1>1, <1>5 DEF WantedKey, ManualTypeOK, Request
<1>7. WireIsWritten'
  BY <1>1 DEF WireIsWritten
<1>8. CallsAreNested'
  BY <1>1, <1>5 DEF CallsAreNested
<1>9. KindsAreApart'
  <2> SUFFICES ASSUME NEW v \in Server, alive[v], place'[v] # "idle", WantedKey(v) \notin mixed
               PROVE  /\ Recorded(WantedKey(v)) => messages[WantedKey(v)].text \in ManualText
                      /\ \A u \in Server : alive[u] /\ place'[u] = "idle" /\ phase'[u] # "idle" =>
                            KeyOf(u)' # WantedKey(v)
    BY <1>1, <1>6 DEF KindsAreApart, Recorded
  <2>1. \A u \in Server : place'[u] = "idle" /\ phase'[u] # "idle" =>
          place[u] = "idle" /\ phase[u] # "idle" /\ KeyOf(u)' = KeyOf(u)
    BY <1>5 DEF KeyOf
  <2> QED
    BY <1>6, <2>1 DEF KindsAreApart
<1>10. LedgersAgree'
  <2>1. ASSUME NEW j \in Key, Recorded(j)', messages'[j].text \in ManualText
        PROVE  HasManual(j)' /\ manual'[j].text = messages'[j].text
    BY <1>1, <1>2, <1>5, <2>1 DEF LedgersAgree, Recorded, HasManual
  <2>2. ASSUME NEW u \in Server, place'[u] \notin {"idle", "reserve", "retry"}
        PROVE  manual'[WantedKey(u)] # NoMessage /\ manual'[WantedKey(u)].text = want'[u].text
    <3>1. CASE u = s
      BY <1>3, <1>5, <2>2, <3>1, NoManualRecordAssumption
    <3>2. CASE u # s
      BY <1>2, <1>5, <1>6, <2>2, <3>2 DEF LedgersAgree, HasManual, Held
    <3> QED BY <3>1, <3>2
  <2>3. \A u \in Server : place'[u] \notin {"idle", "reserve", "retry"} =>
          HasManual(WantedKey(u))' /\ Held(u)'.text = want'[u].text
    BY <1>6, <2>2 DEF HasManual, Held
  <2> QED
    BY <2>1, <2>3 DEF LedgersAgree
<1>11. OneHolder'
  BY <1>2, <1>5, <1>6 DEF OneHolder, SendPlaces, NoticePlaces
<1>12. SeenIsTrue'
  <2>1. \A u \in Server : place'[u] \in {"reserve", "failing"} => u # s
    BY <1>5
  <2> QED
    BY <1>1, <1>5, <1>6, <2>1 DEF SeenIsTrue, Recorded
<1>13. ASSUME NEW u \in Server, place'[u] # "idle"
       PROVE  SendAt(u, WantedKey(u))' /\ NoticeAt(u, WantedKey(u))'
  <2> PICK j \in Key : j = WantedKey(u)
    BY <1>6, <1>13
  <2> SUFFICES SendAt(u, j)' /\ NoticeAt(u, j)'
    <3>1. j = WantedKey(u)'
      BY <1>6, <1>13
    <3> QED BY <3>1
  <2>1. CASE u = s
    BY <1>1, <1>2, <1>3, <1>5, <1>13, <2>1 DEF SendAt, NoticeAt, SendPlaces, NoticePlaces, Recorded
  <2>2. CASE u # s /\ j = k
    BY <1>2, <1>5, <1>13, <2>2 DEF SendAt, NoticeAt, SendPlaces, NoticePlaces
  <2>3. CASE u # s /\ j # k
    <3>1. SendAt(u, j) /\ NoticeAt(u, j)
      BY <1>6, <1>13 DEF PlaceTellsSend, PlaceTellsNotice
    <3> QED
      BY <1>1, <1>5, <2>3, <3>1 DEF SendAt, NoticeAt, Own, Lost, Handed, Recorded
  <2> QED
    BY <2>1, <2>2, <2>3
<1>14. ASSUME NEW j \in Key PROVE (HasManual(j)' => SendOf(j)') /\ NoticeOf(j)'
  <2>1. CASE j = k
    BY <1>1, <1>3, <1>5, <2>1 DEF SendOf, NoticeOf, HasManual
  <2>2. CASE j # k
    BY <1>1, <1>5, <2>2 DEF RecordTellsSend, RecordTellsNotice, SendOf, NoticeOf, Own, Lost, HasManual
  <2> QED
    BY <2>1, <2>2
<1> QED
  BY <1>7, <1>8, <1>9, <1>10, <1>11, <1>12, <1>13, <1>14
  DEF PlaceTellsSend, PlaceTellsNotice, RecordTellsSend, RecordTellsNotice

------------------------------------------------------------------------------
(***************************************************************************)
(* The invariant, and what it says.                                        *)
(***************************************************************************)
LEMMA SurroundingsStep ==
  ASSUME ManualTypeOK, ManualInv, Surroundings \/ UNCHANGED allVars
  PROVE  ManualInv'
<1> USE DEF ManualInv
<1>1. /\ UNCHANGED <<phase, request, messages, writes, wire, refused>>
      /\ UNCHANGED <<place, want, seen, outcome, manual, notices, mixed>>
      /\ \A s \in Server : alive'[s] => alive[s]
  BY DEF Surroundings, Exit, Deliver, allVars, manualVars, vars, transport, ManualTypeOK, TypeOK
<1>2. WireIsWritten' /\ CallsAreNested' /\ LedgersAgree' /\ OneHolder' /\ SeenIsTrue'
  BY <1>1 DEF WireIsWritten, CallsAreNested, LedgersAgree, OneHolder, SeenIsTrue, Recorded,
     HasManual, Held, WantedKey
<1>3. KindsAreApart'
  BY <1>1 DEF KindsAreApart, Recorded, WantedKey, KeyOf
<1>4. PlaceTellsSend' /\ PlaceTellsNotice'
  BY <1>1 DEF PlaceTellsSend, PlaceTellsNotice, SendAt, NoticeAt, Own, Lost, Handed, Recorded,
     WantedKey
<1>5. RecordTellsSend' /\ RecordTellsNotice'
  BY <1>1 DEF RecordTellsSend, RecordTellsNotice, SendOf, NoticeOf, Own, Lost, HasManual
<1> QED
  BY <1>2, <1>3, <1>4, <1>5

LEMMA ManualInvInit == ManualInit => ManualTypeOK /\ DeliveryInv /\ ManualInv
<1> SUFFICES ASSUME ManualInit PROVE ManualTypeOK /\ DeliveryInv /\ ManualInv
  OBVIOUS
<1>1. TypeOK /\ DeliveryInv
  BY DeliveryInvInit, MaxAsksAssumption, NoMessageAssumption DEF ManualInit, Init, TypeOK
<1>2. ManualTypeOK
  BY <1>1 DEF ManualInit, ManualTypeOK, Places
<1>3. WireIsWritten /\ CallsAreNested /\ KindsAreApart /\ LedgersAgree /\ OneHolder /\ SeenIsTrue
  BY DEF ManualInit, Init, WireIsWritten, CallsAreNested, KindsAreApart, LedgersAgree, OneHolder,
     SeenIsTrue, Recorded, HasManual
<1>4. PlaceTellsSend /\ PlaceTellsNotice /\ RecordTellsSend /\ RecordTellsNotice
  BY DEF ManualInit, PlaceTellsSend, PlaceTellsNotice, RecordTellsSend, RecordTellsNotice,
     NoticeOf, HasManual
<1> QED
  BY <1>1, <1>2, <1>3, <1>4 DEF ManualInv

LEMMA ManualInvStep ==
  ASSUME ManualTypeOK, DeliveryInv, ManualInv, [ManualNext]_allVars
  PROVE  ManualTypeOK' /\ DeliveryInv' /\ ManualInv'
<1>1. TypeOK' /\ DeliveryInv' /\ ManualTypeOK'
  BY InnerStep, ManualTypeStep DEF ManualInv
<1>2. CASE Surroundings \/ UNCHANGED allVars
  BY <1>1, <1>2, SurroundingsStep
<1>3. ASSUME NEW s \in Server, Automatic(s) \/ Inner(s) \/ InnerEnd(s) PROVE ManualInv'
  BY <1>1, <1>3, SendStep
<1>4. ASSUME NEW s \in Server, ManualAsk(s) \/ RetryAsk(s) PROVE ManualInv'
  BY <1>4, AskStep
<1>5. ASSUME NEW s \in Server,
             ReserveNew(s) \/ ReserveRepeat(s) \/ ReserveRefused(s) \/ RetryRefused(s)
             \/ SaveSent(s) \/ Reread(s) \/ SaveFailure(s)
             \/ Claim(s) \/ RetryClaim(s) \/ NoticeNotWritten(s) \/ WriteNotice(s)
             \/ NoticeTaken(s) \/ NoticeRejected(s) \/ SavePosted(s) \/ SaveNotice(s)
      PROVE  ManualInv'
  <2>1. place[s] # "idle"
    BY <1>5 DEF ReserveNew, ReserveRepeat, ReserveRefused, RetryRefused, SaveSent, Reread, SaveFailure,
       Claim, RetryClaim, NoticeNotWritten, WriteNotice, NoticeTaken, NoticeRejected, SavePosted,
       SaveNotice, At
  <2>2. PICK k \in Key : k = WantedKey(s)
    BY <2>1 DEF ManualTypeOK, Request, WantedKey
  <2> QED
    BY <1>1, <1>5, <2>2, ReserveStep, SendSideStep, NoticeSideStep
<1> QED
  BY <1>1, <1>2, <1>3, <1>4, <1>5 DEF ManualNext, ManualStep

THEOREM ManualInvariant == ManualSpec => [](ManualTypeOK /\ DeliveryInv /\ ManualInv)
<1>1. ManualInit => ManualTypeOK /\ DeliveryInv /\ ManualInv
  BY ManualInvInit
<1>2. ManualTypeOK /\ DeliveryInv /\ ManualInv /\ [ManualNext]_allVars
        => (ManualTypeOK /\ DeliveryInv /\ ManualInv)'
  BY ManualInvStep
<1> QED
  BY <1>1, <1>2, PTL DEF ManualSpec

\* Every reachable state of the two ledgers, the calls and the owner's chat is
\* well-typed.
THEOREM ManualTypeCorrect == ManualSpec => []ManualTypeOK
  BY ManualInvariant, PTL

\* A manual id leads to one write to Claude and one notice that the owner's chat
\* may have taken (manualSend, retryManualNotice).
THEOREM OneWriteOneNotice == ManualSpec => []AtMostOneEach
<1>1. DeliveryInv /\ ManualInv => AtMostOneEach
  BY DEF AtMostOneEach, DeliveryInv, AtMostOneWrite, ManualInv, RecordTellsNotice, NoticeOf
<1> QED
  BY <1>1, ManualInvariant, PTL

\* What the delivery ledger says of a manual text that it has, it says of the
\* one write of that text.
LEMMA OwnIsWritten ==
  ASSUME TypeOK, DeliveryInv, NEW k \in Key, Own(k, "submitted")
  PROVE  wire[k] = manual[k].text /\ writes[k] = 1 /\ k \notin refused
  BY DEF Own, DeliveryInv, RecordTellsTransport, RecordedBeforeWritten, AtMostOneWrite, Recorded,
     Status, Handed

\* The owner's chat is told only of a submitted manual message, unless manual and
\* automatic calls used the id at the same time; and whatever calls did, only a notice
\* that certainly did not arrive, and that nobody is sending, may be retried.
THEOREM NoticesAreTrue == ManualSpec => []NoticeIsTrue
<1>1. ASSUME ManualTypeOK, DeliveryInv, ManualInv PROVE NoticeIsTrue
  <2> SUFFICES ASSUME NEW k \in Key
               PROVE  /\ notices[k] > 0 /\ k \notin mixed =>
                            /\ HasManual(k) /\ wire[k] = manual[k].text
                            /\ messages[k].status = "submitted" /\ writes[k] = 1 /\ k \notin refused
                      /\ HasManual(k) /\ manual[k].retryable =>
                            /\ notices[k] = 0
                            /\ \A s \in Server : place[s] \in NoticePlaces => WantedKey(s) # k
                      /\ HasManual(k) /\ manual[k].notice = "submitted" => notices[k] = 1
    BY DEF NoticeIsTrue, Retryable, NoticePlaces
  <2>1. NoticeOf(k)
    BY <1>1 DEF ManualInv, RecordTellsNotice
  <2>2. notices[k] \in Nat /\ TypeOK
    BY <1>1 DEF ManualTypeOK
  <2>3. ASSUME notices[k] > 0, k \notin mixed
        PROVE  /\ HasManual(k) /\ wire[k] = manual[k].text
               /\ messages[k].status = "submitted" /\ writes[k] = 1 /\ k \notin refused
    <3>1. HasManual(k) /\ Own(k, "submitted")
      BY <2>1, <2>3 DEF NoticeOf
    <3> QED
      BY <1>1, <2>2, <3>1, OwnIsWritten DEF Own
  <2>4. ASSUME HasManual(k), manual[k].retryable, NEW s \in Server, place[s] \in NoticePlaces
        PROVE  WantedKey(s) # k
    BY <1>1, <2>4 DEF ManualInv, PlaceTellsNotice, NoticeAt, NoticePlaces
  <2>5. HasManual(k) /\ manual[k].retryable => notices[k] = 0
    BY <2>1, <2>2 DEF NoticeOf
  <2> QED
    BY <2>1, <2>3, <2>4, <2>5 DEF NoticeOf
<1> QED
  BY <1>1, ManualInvariant, PTL

\* A manual record that says "failed" belongs to a message that Claude never gets;
\* one that says "submitted" to a submitted one, unless an automatic call used the
\* id at the same time.
THEOREM ManualRecordsAreTrue == ManualSpec => []ManualRecordIsTrue
<1>1. ASSUME ManualTypeOK, DeliveryInv, ManualInv PROVE ManualRecordIsTrue
  <2> SUFFICES ASSUME NEW k \in Key, HasManual(k)
               PROVE  /\ k \in delivered /\ manual[k].send = "failed" => wire[k] # manual[k].text
                      /\ k \notin mixed => SuccessIsManual(k)
    BY DEF ManualRecordIsTrue, SuccessIsManual
  <2>1. SendOf(k)
    BY <1>1 DEF ManualInv, RecordTellsSend
  <2>2. k \in delivered => k \notin refused
    BY <1>1 DEF DeliveryInv, RecordedBeforeWritten, Handed
  <2>3. k \notin mixed => SuccessIsManual(k)
    BY <1>1, <2>1, OwnIsWritten DEF SendOf, SuccessIsManual, ManualTypeOK
  <2> QED
    BY <2>1, <2>2, <2>3 DEF SendOf, Lost
<1> QED
  BY <1>1, ManualInvariant, PTL

------------------------------------------------------------------------------
(***************************************************************************)
(* The action property: what a save never undoes.                          *)
(***************************************************************************)
KeepsOutcome(old, new) ==
    /\ new.text = old.text
    /\ old.send = "failed" => new.send = "failed"
    /\ old.send = "submitted" => new.send \in {"submitted", "uncertain"}
    /\ old.attempted => new.attempted
    /\ old.notice = "submitted" => new.notice \in {"submitted", "uncertain"}

KeepsOutcomes == \A k \in Key : HasManual(k) => HasManual(k)' /\ KeepsOutcome(manual[k], manual'[k])

LEMMA SaveKeepsOutcomes ==
  ASSUME ManualTypeOK, NEW s \in Server, NEW k \in Key, k = WantedKey(s),
         NEW record \in ManualRecord, KeepsOutcome(manual[k], record), SaveOrNot(s, record)
  PROVE  KeepsOutcomes
<1>1. \A j \in Key : manual'[j] = manual[j] \/ (j = k /\ manual'[j] = record)
  BY DEF SaveOrNot, Save, ManualTypeOK
<1> QED
  BY <1>1, NoManualRecordAssumption DEF KeepsOutcomes, HasManual, KeepsOutcome

LEMMA ReserveRepeatKeepsOutcomes ==
  ASSUME ManualTypeOK, NEW s \in Server, NEW k \in Key, k = WantedKey(s), ReserveRepeat(s)
  PROVE  KeepsOutcomes
<1>1. manual[k] \in ManualRecord
  BY DEF ReserveRepeat, Held, ManualTypeOK
<1>2. PICK interrupted \in BOOLEAN : SaveOrNot(s, Settled(manual[k], seen[s], interrupted))
  BY DEF ReserveRepeat, SaveOrNot, Held
<1> DEFINE record == Settled(manual[k], seen[s], interrupted)
<1>3. record \in ManualRecord /\ KeepsOutcome(manual[k], record)
  BY <1>1, SettledRecord DEF KeepsOutcome, ManualTypeOK
<1> HIDE DEF record
<1>4. SaveOrNot(s, record)
  BY <1>2 DEF record
<1> QED
  BY <1>3, <1>4, SaveKeepsOutcomes

\* The sender saves the outcome it saw, unless a repeat already found another one
\* in the delivery ledger: the two never contradict each other.
LEMMA SenderKeepsOutcomes ==
  ASSUME ManualTypeOK, DeliveryInv, ManualInv, NEW s \in Server, NEW k \in Key, k = WantedKey(s),
         SaveSent(s) \/ SaveFailure(s)
  PROVE  KeepsOutcomes
<1> USE DEF ManualInv
<1>1. place[s] \in {"sent", "failing"}
  BY DEF SaveSent, SaveFailure, At
<1>2. manual[k] \in ManualRecord /\ SendAt(s, k)
  BY <1>1 DEF LedgersAgree, HasManual, ManualTypeOK, PlaceTellsSend
<1>3. PICK send \in {"uncertain", "submitted", "failed"} :
        /\ SaveOrNot(s, [manual[k] EXCEPT !.send = send])
        /\ \/ place[s] = "sent" /\ send = "submitted"
           \/ /\ place[s] = "failing"
              /\ send = IF outcome[s] = "uncertain" THEN "uncertain"
                        ELSE IF seen[s] # NoMessage /\ seen[s].status = "submitted" THEN "submitted"
                        ELSE "failed"
  BY DEF SaveSent, SaveFailure, SaveOrNot, Held, At
<1>4. manual[k].send \in {"submitted", "failed"} => Own(k, manual[k].send)
  BY <1>1, <1>2 DEF SendAt, SendPlaces
<1>5. Own(k, "failed") => k \in refused
  BY DEF Own, DeliveryInv, RecordTellsTransport, Recorded, Status
<1>6. Own(k, "submitted") => ~Lost(k)
  BY OwnIsWritten DEF ManualTypeOK, Lost
<1>7. seen[s] # NoMessage /\ seen[s].status = "submitted" /\ place[s] = "failing" => ~Own(k, "failed")
  BY DEF SeenIsTrue, Own
<1>8. manual[k].send = "failed" => send = "failed"
  BY <1>2, <1>3, <1>4, <1>5, <1>7 DEF SendAt, Own, Handed
<1>9. manual[k].send = "submitted" => send \in {"submitted", "uncertain"}
  BY <1>2, <1>3, <1>4, <1>6 DEF SendAt
<1> DEFINE record == [manual[k] EXCEPT !.send = send]
<1>10. record \in ManualRecord /\ KeepsOutcome(manual[k], record)
  BY <1>2, <1>8, <1>9 DEF ManualRecord, KeepsOutcome
<1> QED
  BY <1>3, <1>10, SaveKeepsOutcomes

\* Claims and saves of a notice leave the send alone.
LEMMA NoticeKeepsOutcomes ==
  ASSUME ManualTypeOK, ManualInv, NEW s \in Server, NEW k \in Key, k = WantedKey(s),
         Claim(s) \/ RetryClaim(s) \/ SavePosted(s) \/ SaveNotice(s)
  PROVE  KeepsOutcomes
<1> USE DEF ManualInv
<1>1. place[s] \in {"claim", "retry"} \cup NoticePlaces
  BY DEF Claim, RetryClaim, SavePosted, SaveNotice, At, NoticePlaces
<1>2. manual[k] \in ManualRecord
  <2>1. manual[k] # NoMessage
    BY <1>1 DEF LedgersAgree, HasManual, NoticePlaces, RetryClaim, Held, Claim, SavePosted, SaveNotice, At
  <2> QED
    BY <2>1 DEF ManualTypeOK
<1>3. CASE UNCHANGED manual
  BY <1>2, <1>3 DEF KeepsOutcomes, HasManual, KeepsOutcome
<1>4. PICK notice \in {"pending", "submitted", "failed", "uncertain"}, retryable \in BOOLEAN,
           attempted \in BOOLEAN :
        /\ \/ UNCHANGED manual
           \/ SaveOrNot(s, [manual[k] EXCEPT !.notice = notice, !.attempted = attempted,
                                             !.retryable = retryable])
        /\ manual[k].attempted => attempted
        /\ manual[k].notice = "submitted" => notice \in {"submitted", "uncertain"}
  <2>1. CASE Claim(s)
    <3>1. \/ UNCHANGED manual
          \/ SaveOrNot(s, [manual[k] EXCEPT !.attempted = TRUE, !.retryable = FALSE])
      BY <2>1 DEF Claim, Held, SaveOrNot
    <3>2. [manual[k] EXCEPT !.attempted = TRUE, !.retryable = FALSE]
            = [manual[k] EXCEPT !.notice = manual[k].notice, !.attempted = TRUE, !.retryable = FALSE]
      BY <1>2 DEF ManualRecord
    <3> QED
      BY <1>2, <3>1, <3>2 DEF ManualRecord
  <2>2. CASE RetryClaim(s)
    <3>1. /\ manual[k].notice = "failed"
          /\ SaveOrNot(s, [manual[k] EXCEPT !.notice = "pending", !.attempted = TRUE, !.retryable = FALSE])
      BY <2>2 DEF RetryClaim, Held, SaveOrNot, Retryable
    <3> QED
      BY <3>1
  <2>3. CASE SavePosted(s)
    <3>1. SaveOrNot(s, [manual[k] EXCEPT !.notice = "submitted", !.retryable = FALSE])
      BY <2>3 DEF SavePosted, Held, SaveOrNot
    <3>2. [manual[k] EXCEPT !.notice = "submitted", !.retryable = FALSE]
            = [manual[k] EXCEPT !.notice = "submitted", !.attempted = manual[k].attempted, !.retryable = FALSE]
      BY <1>2 DEF ManualRecord
    <3> QED
      BY <1>2, <3>1, <3>2 DEF ManualRecord
  <2>4. CASE SaveNotice(s)
    <3> DEFINE retryable == outcome[s] = "failed"
    <3>1. SaveOrNot(s, [manual[k] EXCEPT !.notice = outcome[s], !.retryable = retryable])
      BY <2>4 DEF SaveNotice, Held
    <3>2. /\ outcome[s] \in {"failed", "uncertain"}
          /\ manual[k].notice = "submitted" => outcome[s] = "uncertain"
      BY <2>4 DEF SaveNotice, At, PlaceTellsNotice, NoticeAt, NoticePlaces
    <3> HIDE DEF retryable
    <3>3. [manual[k] EXCEPT !.notice = outcome[s], !.retryable = retryable]
            = [manual[k] EXCEPT !.notice = outcome[s], !.attempted = manual[k].attempted,
                                !.retryable = retryable]
      BY <1>2 DEF ManualRecord
    <3>4. retryable \in BOOLEAN
      BY DEF retryable
    <3> QED
      BY <1>2, <3>1, <3>2, <3>3, <3>4 DEF ManualRecord
  <2> QED
    BY <2>1, <2>2, <2>3, <2>4
<1> DEFINE record == [manual[k] EXCEPT !.notice = notice, !.attempted = attempted, !.retryable = retryable]
<1>5. record \in ManualRecord /\ KeepsOutcome(manual[k], record)
  BY <1>2, <1>4 DEF ManualRecord, KeepsOutcome
<1> HIDE DEF record
<1>6. UNCHANGED manual \/ SaveOrNot(s, record)
  BY <1>4 DEF record
<1> QED
  BY <1>3, <1>5, <1>6, SaveKeepsOutcomes

\* A manual record keeps its text, a failure of the send, and that its notice was
\* begun; a saved success, of the send or of the notice, only becomes uncertain.
THEOREM ManualOutcomes == ManualSpec => ManualOutcomeIsFinal
<1> DEFINE Kept == \A k \in Key : HasManual(k) =>
                     /\ HasManual(k)' /\ manual'[k].text = manual[k].text
                     /\ manual[k].send = "failed" => manual'[k].send = "failed"
                     /\ manual[k].send = "submitted" => manual'[k].send \in {"submitted", "uncertain"}
                     /\ manual[k].attempted => manual'[k].attempted
                     /\ manual[k].notice = "submitted" => manual'[k].notice \in {"submitted", "uncertain"}
<1>1. ASSUME ManualTypeOK, DeliveryInv, ManualInv, [ManualNext]_allVars PROVE KeepsOutcomes
  <2>1. CASE UNCHANGED manual
    BY <2>1 DEF KeepsOutcomes, HasManual, KeepsOutcome
  <2>2. ASSUME NEW s \in Server,
               \/ ReserveNew(s) \/ ReserveRepeat(s) \/ SaveSent(s) \/ SaveFailure(s)
               \/ Claim(s) \/ RetryClaim(s) \/ SavePosted(s) \/ SaveNotice(s)
        PROVE  KeepsOutcomes
    <3>1. place[s] # "idle"
      BY <2>2 DEF ReserveNew, ReserveRepeat, SaveSent, SaveFailure, Claim, RetryClaim, SavePosted,
         SaveNotice, At
    <3>2. PICK k \in Key : k = WantedKey(s)
      BY <1>1, <3>1 DEF ManualTypeOK, Request, WantedKey
    <3>3. CASE ReserveNew(s)
      <4>1. \A j \in Key : manual[j] # NoMessage => manual'[j] = manual[j]
        BY <1>1, <3>2, <3>3 DEF ReserveNew, Held, SaveOrNot, Save, ManualTypeOK
      <4> QED
        BY <4>1 DEF KeepsOutcomes, HasManual, KeepsOutcome
    <3> QED
      BY <1>1, <2>2, <3>2, <3>3, ReserveRepeatKeepsOutcomes, SenderKeepsOutcomes, NoticeKeepsOutcomes
  <2>3. ASSUME NEW s \in Server,
               \/ Automatic(s) \/ ManualAsk(s) \/ ReserveRefused(s) \/ Inner(s) \/ InnerEnd(s)
               \/ Reread(s) \/ RetryAsk(s) \/ RetryRefused(s) \/ NoticeNotWritten(s)
               \/ WriteNotice(s) \/ NoticeTaken(s) \/ NoticeRejected(s)
        PROVE  UNCHANGED manual
    BY <2>3 DEF Automatic, ManualAsk, ReserveRefused, Inner, InnerEnd, Reread, RetryAsk,
       RetryRefused, NoticeNotWritten, WriteNotice, NoticeTaken, NoticeRejected, manualVars
  <2>4. Surroundings \/ UNCHANGED allVars => UNCHANGED manual
    BY DEF Surroundings, allVars, manualVars
  <2> QED
    BY <1>1, <2>1, <2>2, <2>3, <2>4 DEF ManualNext, ManualStep
<1>2. ManualTypeOK /\ DeliveryInv /\ ManualInv /\ [ManualNext]_allVars => [Kept]_allVars
  BY <1>1 DEF KeepsOutcomes, KeepsOutcome
<1> QED
  BY <1>2, ManualInvariant, PTL DEF ManualSpec, ManualOutcomeIsFinal

==============================================================================
