------------------------ MODULE TerminalSendProofs ------------------------
(***************************************************************************)
(* Proofs about messages to a terminal, for any number of sends and turns. *)
(***************************************************************************)
EXTENDS TerminalSend, TLAPS

Writes == Inputs \cup {"queue"}
Unread(s) == at[s] \in Writes /\ wire[s] = "replied"

\* The first connection never writes, and leads to a record or to nothing.
ProbeOnlyReads ==
    \A s \in Send :
        /\ probing[s] => at[s] \in {"new", "open", "read", "record", "declined", "desktop"}
        /\ ~probing[s] => at[s] \notin {"new", "record", "declined", "desktop"}

\* What a reply that was not looked at yet says is true.
RepliesAreTrue ==
    \A s \in Send : Unread(s) =>
        /\ taken[s] \in {0, 1}
        /\ Kind(s) = "taken" => taken[s] = 1
        /\ Kind(s) \in {"refused", "gone"} => taken[s] = 0
        /\ at[s] = "queue" => Kind(s) = "taken"

\* The queue's child process answers at once or not at all.
QueueIsNotAsked == \A s \in Send : at[s] = "queue" => wire[s] # "sent"

\* Without such a reply nothing was taken before the end, and only a message whose
\* fate was left open may be taken after it.
UntakenBefore == \A s \in Send : at[s] # "done" /\ ~Unread(s) => taken[s] = 0
OutcomesAreTrue ==
    \A s \in Send : at[s] = "done" =>
        /\ taken[s] \in {0, 1}
        /\ outcome[s] = "submitted" => taken[s] = 1
        /\ outcome[s] = "failed" => taken[s] = 0
        /\ wire[s] = "sent" => taken[s] = 0 /\ outcome[s] = "uncertain"

SendInv == ProbeOnlyReads /\ RepliesAreTrue /\ QueueIsNotAsked /\ UntakenBefore /\ OutcomesAreTrue

------------------------------------------------------------------------------

Places == {"new", "open", "read", "record", "recorded", "turns", "steer", "reread", "start",
           "queue", "declined", "desktop"}

\* How a step leaves its place: for another one, or with an outcome.
LEMMA GotoType ==
  ASSUME TypeOK, NEW s \in Send, NEW place \in Places, at[s] # "done", Goto(s, place)
  PROVE  /\ at' \in [Send -> Places \cup {"done"}] /\ wire' \in [Send -> {"quiet", "sent", "replied"}]
         /\ reply' \in [Send -> Reply] /\ outcome' \in [Send -> Outcome]
         /\ \A t \in Send : outcome'[t] # "none" <=> at'[t] = "done"
<1>1. Says("none") \in Reply
  BY MaxTurnsAssumption DEF Says, Reply
<1> QED
  BY <1>1 DEF TypeOK, Goto, Places, Ended, Outcome

LEMMA SettleType ==
  ASSUME TypeOK, NEW s \in Send, NEW o \in Outcome \ {"none"}, Settle(s, o)
  PROVE  /\ at' \in [Send -> Places \cup {"done"}] /\ wire' \in [Send -> {"quiet", "sent", "replied"}]
         /\ reply' \in [Send -> Reply] /\ outcome' \in [Send -> Outcome]
         /\ \A t \in Send : outcome'[t] # "none" <=> at'[t] = "done"
<1>1. Says("none") \in Reply
  BY MaxTurnsAssumption DEF Says, Reply
<1> QED
  BY <1>1 DEF TypeOK, Settle, Places, Ended, Outcome

\* Type correctness of openDaemon, sendToTerminalThread and queueToTerminalThread;
\* an outcome is there exactly when a recorded send has ended.
THEOREM TypeCorrect == Spec => []TypeOK
<1>1. Init => TypeOK
  BY MaxTurnsAssumption DEF Init, TypeOK, Reply, Says, Status, Outcome, Ended
<1>2. TypeOK /\ [Next]_vars => TypeOK'
  <2> SUFFICES ASSUME TypeOK, [Next]_vars PROVE TypeOK'
    OBVIOUS
  <2> DEFINE Moves(s) == \/ \E place \in Places : at[s] # "done" /\ Goto(s, place)
                         \/ \E o \in Outcome \ {"none"} : Settle(s, o)
             Rest == /\ status' \in Status /\ turn' \in 0..MaxTurns
                     /\ expected' \in [Send -> 0..MaxTurns]
                     /\ explicit' \in [Send -> BOOLEAN] /\ probing' \in [Send -> BOOLEAN]
                     /\ queueOnly' \in [Send -> BOOLEAN] /\ taken' \in [Send -> Nat]
  <2>0. ASSUME NEW s \in Send, Moves(s), Rest PROVE TypeOK'
    <3>1. CASE \E place \in Places : at[s] # "done" /\ Goto(s, place)
      <4>1. PICK place \in Places : at[s] # "done" /\ Goto(s, place)
        BY <3>1
      <4> QED BY <2>0, <4>1, GotoType DEF TypeOK, Places, Ended
    <3>2. CASE \E o \in Outcome \ {"none"} : Settle(s, o)
      <4>1. PICK o \in Outcome \ {"none"} : Settle(s, o)
        BY <3>2
      <4> QED BY <2>0, <4>1, SettleType DEF TypeOK, Places, Ended
    <3> QED BY <2>0, <3>1, <3>2
  <2>1. CASE People
    BY <2>1, MaxTurnsAssumption DEF People, TypeOK, Status, route
  <2>2. ASSUME NEW s \in Send, Daemon(s) PROVE TypeOK'
    <3>1. CASE Opened(s)
      <4>1. Moves(s) /\ Rest
        BY <3>1 DEF Opened, Places, TypeOK, thread, route
      <4> QED BY <4>1, <2>0
    <3>2. CASE AnswerRead(s)
      <4> DEFINE seen == IF at[s] # "turns" THEN Says(status)
                         ELSE [kind |-> "turn", turn |-> IF status = "active" THEN turn ELSE 0]
      <4>1. PICK r \in {Says("other"), Says("missing"), seen} : reply' = [reply EXCEPT ![s] = r]
        BY <3>2 DEF AnswerRead
      <4>2. Says("other") \in Reply /\ Says("missing") \in Reply /\ seen \in Reply
        BY MaxTurnsAssumption DEF Reply, Says, TypeOK
      <4>3. r \in Reply
        BY <4>1, <4>2
      <4> QED BY <4>1, <4>3, <3>2 DEF AnswerRead, TypeOK, thread, route
    <3>3. CASE AnswerInput(s)
      <4>1. PICK kind \in {"taken", "other", "refused", "gone"} :
              reply' = [reply EXCEPT ![s] = Says(kind)]
        BY <3>3 DEF AnswerInput, Refusals
      <4>2. Says(kind) \in Reply
        BY MaxTurnsAssumption DEF Reply, Says
      <4>3. taken' \in [Send -> Nat] /\ status' \in Status /\ turn' \in 0..MaxTurns
        BY <3>3, MaxTurnsAssumption DEF AnswerInput, TakeInput, TypeOK, Status, thread
      <4> QED BY <4>1, <4>2, <4>3, <3>3 DEF AnswerInput, TypeOK, route
    <3>4. CASE TakeLate(s)
      <4>1. taken' \in [Send -> Nat] /\ status' \in Status /\ turn' \in 0..MaxTurns
        BY <3>4, MaxTurnsAssumption DEF TakeLate, TakeInput, TypeOK, Status, thread
      <4> QED BY <4>1, <3>4 DEF TakeLate, TypeOK, route
    <3> QED BY <2>2, <3>1, <3>2, <3>3, <3>4 DEF Daemon
  <2>3. ASSUME NEW s \in Send, Begin(s) \/ Record(s) \/ Deliver(s) PROVE TypeOK'
    <3>1. Moves(s)
      BY <2>3 DEF Begin, NoDaemon, Record, Deliver, Fail, Places, Outcome
    <3>2. Rest
      BY <2>3 DEF Begin, NoDaemon, Record, Deliver, TypeOK, thread, route
    <3> QED BY <2>0, <3>1, <3>2
  <2>4. ASSUME NEW s \in Send, GotRoute(s) \/ GotStatus(s) PROVE TypeOK'
    <3>1. Moves(s)
      BY <2>4 DEF GotRoute, GotStatus, Got, Fail, Places, Outcome
    <3>2. Rest
      BY <2>4 DEF GotRoute, GotStatus, TypeOK, thread, route
    <3> QED BY <2>0, <3>1, <3>2
  <2>5. ASSUME NEW s \in Send, GotTurn(s) \/ GotReread(s) PROVE TypeOK'
    <3>1. Moves(s)
      BY <2>5 DEF GotTurn, GotReread, Got, Places, Outcome
    <3>2. reply[s].turn \in 0..MaxTurns /\ 0 \in 0..MaxTurns
      BY MaxTurnsAssumption DEF TypeOK, Reply
    <3>3. Rest
      BY <2>5, <3>2 DEF GotTurn, GotReread, TypeOK, thread, route
    <3> QED BY <2>0, <3>1, <3>3
  <2>6. ASSUME NEW s \in Send, GotInput(s) PROVE TypeOK'
    <3>1. Moves(s)
      BY <2>6 DEF GotInput, Inputs, Places, Outcome
    <3>2. Rest
      BY <2>6 DEF GotInput, TypeOK, thread, route
    <3> QED BY <2>0, <3>1, <3>2
  <2>7. ASSUME NEW s \in Send, QueueRefuses(s) \/ QueueConfirms(s) \/ QueueBreaks(s)
        PROVE  TypeOK'
    <3>1. Moves(s)
      BY <2>7 DEF QueueRefuses, QueueConfirms, QueueBreaks, Outcome
    <3>2. Rest
      BY <2>7 DEF QueueRefuses, QueueConfirms, QueueBreaks, TypeOK, thread, route
    <3> QED BY <2>0, <3>1, <3>2
  <2>8. ASSUME NEW s \in Send, QueueTakes(s) PROVE TypeOK'
    <3>1. Says("taken") \in Reply
      BY MaxTurnsAssumption DEF Says, Reply
    <3> QED BY <2>8, <3>1 DEF QueueTakes, TypeOK, thread, route
  <2>9. ASSUME NEW s \in Send, Ask(s) PROVE TypeOK'
    BY <2>9 DEF Ask, TypeOK, thread, route
  <2>10. ASSUME NEW s \in Send, Unreachable(s) \/ Lost(s) PROVE TypeOK'
    <3>1. CASE Lost(s) /\ at[s] \in Inputs /\ wire[s] # "quiet"
      BY <3>1 DEF Lost, TypeOK, Outcome, Ended, thread, route
    <3>2. CASE ~(Lost(s) /\ at[s] \in Inputs /\ wire[s] # "quiet")
      <4>1. Moves(s)
        BY <2>10, <3>2 DEF Unreachable, Lost, NoDaemon, Fail, Places, Outcome, Reads, Inputs
      <4>2. Rest
        BY <2>10, <3>2 DEF Unreachable, Lost, NoDaemon, TypeOK, thread, route
      <4> QED BY <2>0, <4>1, <4>2
    <3> QED BY <3>1, <3>2
  <2>11. CASE UNCHANGED vars
    BY <2>11 DEF vars, TypeOK
  <2> QED
    BY <2>1, <2>2, <2>3, <2>4, <2>5, <2>6, <2>7, <2>8, <2>9, <2>10, <2>11 DEF Next, Proceed
<1> QED
  BY <1>1, <1>2, PTL DEF Spec

------------------------------------------------------------------------------
LEMMA SendInvInit == Init => SendInv
  BY DEF Init, SendInv, ProbeOnlyReads, RepliesAreTrue, QueueIsNotAsked, UntakenBefore,
         OutcomesAreTrue, Unread, Writes, Inputs

LEMMA SendInvStep ==
  ASSUME TypeOK, SendInv, [Next]_vars
  PROVE  SendInv'
<1> USE DEF SendInv, ProbeOnlyReads, RepliesAreTrue, QueueIsNotAsked, UntakenBefore,
            OutcomesAreTrue, Unread, Writes, Reads, Inputs, Got, Kind, Says, thread, route, TypeOK, Ended
<1>1. CASE People
  BY <1>1 DEF People
<1>2. ASSUME NEW s \in Send, Opened(s) PROVE SendInv'
  BY <1>2 DEF Opened, Goto
<1>3. ASSUME NEW s \in Send, AnswerRead(s) PROVE SendInv'
  BY <1>3 DEF AnswerRead
<1>4. ASSUME NEW s \in Send, AnswerInput(s) PROVE SendInv'
  BY <1>4 DEF AnswerInput, TakeInput, Refusals
<1>5. ASSUME NEW s \in Send, TakeLate(s) PROVE SendInv'
  BY <1>5 DEF TakeLate, TakeInput
<1>6. ASSUME NEW s \in Send, Begin(s) \/ Record(s) \/ Deliver(s) PROVE SendInv'
  BY <1>6 DEF Begin, NoDaemon, Record, Deliver, Fail, Goto, Settle
<1>7. ASSUME NEW s \in Send, Ask(s) PROVE SendInv'
  BY <1>7 DEF Ask
<1>8. ASSUME NEW s \in Send, GotRoute(s) PROVE SendInv'
  BY <1>8 DEF GotRoute, Fail, Goto, Settle
<1>9. ASSUME NEW s \in Send, GotStatus(s) PROVE SendInv'
  BY <1>9 DEF GotStatus, Goto, Settle
<1>10. ASSUME NEW s \in Send, GotTurn(s) \/ GotReread(s) PROVE SendInv'
  BY <1>10 DEF GotTurn, GotReread, Goto, Settle
<1>11. ASSUME NEW s \in Send, GotInput(s) PROVE SendInv'
  BY <1>11 DEF GotInput, Goto, Settle
<1>12. ASSUME NEW s \in Send, QueueTakes(s) PROVE SendInv'
  BY <1>12 DEF QueueTakes
<1>13. ASSUME NEW s \in Send, QueueRefuses(s) \/ QueueConfirms(s) \/ QueueBreaks(s)
       PROVE  SendInv'
  BY <1>13 DEF QueueRefuses, QueueConfirms, QueueBreaks, Settle
<1>14. ASSUME NEW s \in Send, Unreachable(s) PROVE SendInv'
  BY <1>14 DEF Unreachable, NoDaemon, Goto, Settle
<1>15. ASSUME NEW s \in Send, Lost(s) PROVE SendInv'
  BY <1>15 DEF Lost, Fail, Goto, Settle
<1>16. CASE UNCHANGED vars
  BY <1>16 DEF vars
<1> QED
  BY <1>1, <1>2, <1>3, <1>4, <1>5, <1>6, <1>7, <1>8, <1>9, <1>10, <1>11, <1>12, <1>13,
     <1>14, <1>15, <1>16 DEF Next, Daemon, Proceed

THEOREM SendInvariant == Spec => [](TypeOK /\ SendInv)
  BY SendInvInit, SendInvStep, TypeCorrect, PTL DEF Spec

\* Whenever a send is about to write its message, for the first or the second
\* time, nobody has taken it (sendToTerminalThread, queueToTerminalThread).
THEOREM Untaken == Spec => []AttemptsAreUntaken
<1>1. TypeOK /\ SendInv => AttemptsAreUntaken
  BY DEF SendInv, UntakenBefore, AttemptsAreUntaken, Unread, Writes, Reads, Inputs
<1> QED
  BY <1>1, SendInvariant, PTL

------------------------------------------------------------------------------
LEMMA RefinementInit == Init => Promise!Init
<1> SUFFICES ASSUME Init PROVE Promise!Init
  OBVIOUS
<1>1. Answers = {} /\ {s \in Send : outcome[s] = "failed"} = {}
  BY DEF Init, Answers
<1>2. \A s \in Send : probing[s]
  BY DEF Init
<1> QED
  BY <1>1, <1>2 DEF Init, Promise!Init

\* A step of a send that takes nothing, decides nothing and records nothing is
\* not seen by the promise.
LEMMA Unseen ==
  ASSUME UNCHANGED <<probing, taken, outcome>>
  PROVE  UNCHANGED Promise!vars
  BY DEF Promise!vars, Answers

\* An outcome that is true is a refusal or an answer of the promise.
LEMMA EndIsPromised ==
  ASSUME TypeOK, NEW s \in Send, NEW o \in {"submitted", "failed", "uncertain"},
         outcome[s] = "none", ~probing[s],
         outcome' = [outcome EXCEPT ![s] = o], UNCHANGED <<probing, taken>>,
         o = "submitted" => taken[s] = 1, o = "failed" => taken[s] = 0
  PROVE  Promise!Next
<1> DEFINE text == [t \in Send |-> IF probing[t] THEN "none" ELSE t]
           failed == {t \in Send : outcome[t] = "failed"}
<1>1. text[s] = s /\ s # "none" /\ text' = text
  BY SendAssumption
<1>2. \A t \in Send : outcome'[t] = IF t = s THEN o ELSE outcome[t]
  BY DEF TypeOK
<1>3. s \notin failed
  OBVIOUS
<1>4. CASE o = "failed"
  <2>1. failed' = failed \cup {s} /\ Answers' = Answers
    BY <1>2, <1>4 DEF Answers
  <2>2. Promise!Refuse(s)
    BY <1>1, <1>3, <1>4, <2>1 DEF Promise!Refuse
  <2> QED
    BY <2>2 DEF Promise!Next
<1>5. CASE o # "failed"
  <2>1. failed' = failed /\ Answers' = Answers \cup {[key |-> s, text |-> s, answer |-> o]}
    BY <1>2, <1>5 DEF Answers
  <2>2. Promise!TrueOf(s, o)
    BY <1>3, <1>5 DEF Promise!TrueOf
  <2>3. Promise!Tell(s, o)
    BY <1>1, <2>1, <2>2 DEF Promise!Tell
  <2> QED
    BY <2>3 DEF Promise!Next
<1> QED
  BY <1>4, <1>5

\* A message that was not taken and has not failed may be taken.
LEMMA TakenIsPromised ==
  ASSUME TypeOK, NEW s \in Send, ~probing[s], taken[s] = 0, outcome[s] # "failed",
         taken' = [taken EXCEPT ![s] = @ + 1], UNCHANGED <<probing, outcome>>
  PROVE  Promise!Next
<1>1. s # "none" /\ s \notin {t \in Send : outcome[t] = "failed"}
  BY SendAssumption
<1>2. UNCHANGED Answers /\ taken' = [taken EXCEPT ![s] = 1]
  BY DEF Answers, TypeOK
<1>3. {t \in Send : taken'[t] > 0} = {t \in Send : taken[t] > 0} \cup {s}
  BY <1>2 DEF TypeOK
<1>4. Promise!HandOver(s)
  BY <1>1, <1>2, <1>3 DEF Promise!HandOver
<1> QED
  BY <1>4 DEF Promise!Next

\* Recording fixes the text.
LEMMA RecordIsPromised ==
  ASSUME TypeOK, NEW s \in Send, probing[s],
         probing' = [probing EXCEPT ![s] = FALSE], UNCHANGED <<taken, outcome>>
  PROVE  Promise!Next
<1> DEFINE text == [t \in Send |-> IF probing[t] THEN "none" ELSE t]
<1>1. text[s] = "none" /\ text' = [text EXCEPT ![s] = s]
  BY DEF TypeOK
<1>2. UNCHANGED Answers
  BY DEF Answers
<1>3. Promise!Accept(s, s)
  BY <1>1, <1>2 DEF Promise!Accept
<1> QED
  BY <1>3 DEF Promise!Next

LEMMA RefinementStep ==
  ASSUME TypeOK, SendInv, [Next]_vars
  PROVE  [Promise!Next]_(Promise!vars)
<1> DEFINE Silent == UNCHANGED <<probing, taken, outcome>>
           Takes(s) == /\ ~probing[s] /\ taken[s] = 0 /\ outcome[s] # "failed"
                       /\ taken' = [taken EXCEPT ![s] = @ + 1] /\ UNCHANGED <<probing, outcome>>
           Ends(s) == \E o \in {"submitted", "failed", "uncertain"} :
                         /\ outcome[s] = "none" /\ ~probing[s]
                         /\ outcome' = [outcome EXCEPT ![s] = o] /\ UNCHANGED <<probing, taken>>
                         /\ o = "submitted" => taken[s] = 1
                         /\ o = "failed" => taken[s] = 0
           Recorded(s) == /\ probing[s] /\ probing' = [probing EXCEPT ![s] = FALSE]
                          /\ UNCHANGED <<taken, outcome>>
           Seen(s) == Silent \/ Takes(s) \/ Ends(s) \/ Recorded(s)
<1>1. ASSUME NEW s \in Send, Seen(s) PROVE [Promise!Next]_(Promise!vars)
  <2>1. CASE Silent
    BY <2>1, Unseen
  <2>2. CASE Takes(s)
    BY <2>2, TakenIsPromised
  <2>3. CASE Ends(s)
    BY <2>3, EndIsPromised
  <2>4. CASE Recorded(s)
    BY <2>4, RecordIsPromised
  <2> QED BY <1>1, <2>1, <2>2, <2>3, <2>4
<1> USE DEF SendInv, ProbeOnlyReads, Reads, Inputs, Got, Goto, Settle, Fail, thread, route,
            TypeOK
<1>2. CASE People \/ UNCHANGED vars
  BY <1>2, Unseen DEF People, vars
<1>3. ASSUME NEW s \in Send, Daemon(s) PROVE Seen(s)
  <2>1. CASE Opened(s) \/ AnswerRead(s)
    BY <2>1 DEF Opened, AnswerRead
  <2>2. CASE AnswerInput(s)
    <3>1. ~probing[s] /\ taken[s] = 0 /\ outcome[s] # "failed"
      BY <2>2 DEF AnswerInput, UntakenBefore, Unread
    <3> QED BY <2>2, <3>1 DEF AnswerInput, TakeInput
  <2>3. CASE TakeLate(s)
    BY <2>3 DEF TakeLate, TakeInput, OutcomesAreTrue
  <2> QED BY <1>3, <2>1, <2>2, <2>3 DEF Daemon
<1>4. ASSUME NEW s \in Send, Begin(s) \/ Record(s) \/ Deliver(s) \/ Ask(s) PROVE Seen(s)
  BY <1>4 DEF Begin, NoDaemon, Record, Deliver, Ask, UntakenBefore, Unread, Writes
<1>5. ASSUME NEW s \in Send, GotRoute(s) \/ GotStatus(s) \/ GotTurn(s) \/ GotReread(s) PROVE Seen(s)
  BY <1>5 DEF GotRoute, GotStatus, GotTurn, GotReread, UntakenBefore, Unread, Writes
<1>6. ASSUME NEW s \in Send, GotInput(s) PROVE Seen(s)
  BY <1>6 DEF GotInput, RepliesAreTrue, UntakenBefore, Unread, Writes
<1>7. ASSUME NEW s \in Send,
             QueueRefuses(s) \/ QueueTakes(s) \/ QueueConfirms(s) \/ QueueBreaks(s)
      PROVE  Seen(s)
  BY <1>7 DEF QueueRefuses, QueueTakes, QueueConfirms, QueueBreaks, RepliesAreTrue,
              UntakenBefore, Unread, Writes
<1>8. ASSUME NEW s \in Send, Unreachable(s) \/ Lost(s) PROVE Seen(s)
  BY <1>8 DEF Unreachable, NoDaemon, Lost, UntakenBefore, Unread, Writes
<1> QED
  BY <1>1, <1>2, <1>3, <1>4, <1>5, <1>6, <1>7, <1>8 DEF Next, Proceed

\* A message sent to a terminal keeps the promise of one delivery, whatever the
\* thread, the daemon and the connections do meanwhile.
THEOREM Refinement == Spec => ImplementsOneDelivery
  BY RefinementInit, RefinementStep, SendInvariant, PTL
     DEF Spec, Promise!Spec, ImplementsOneDelivery

==============================================================================
