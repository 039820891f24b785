----------------------------- MODULE ManualSend ------------------------------
(***************************************************************************)
(* Messages a person sends from the panel: manualSend and                  *)
(* retryManualNotice of lib/manual-service.mjs.                            *)
(*                                                                         *)
(* A manual send drives executeBridgeTool, so this module extends Delivery *)
(* and its steps carry out the inner send.  Around it, a second ledger     *)
(* (the owning task's manual records) keeps what became of the send and of *)
(* the notice that repeats the text, for context, in the owner's own chat. *)
(* The servers also work on automatic sends, also under the same ids.      *)
(***************************************************************************)
EXTENDS Delivery

CONSTANT ManualText     \* the texts of manual origin; the others are automatic

ASSUME ManualTextAssumption == ManualText \subseteq Text

ManualRecord ==
    [text : ManualText, send : {"sending", "submitted", "failed", "uncertain"},
     notice : {"pending", "submitted", "failed", "uncertain"},
     attempted : BOOLEAN, retryable : BOOLEAN]

ASSUME NoManualRecordAssumption == NoMessage \notin ManualRecord

VARIABLES
    place,      \* place[s]: where the server is in a manual call
    want,       \* want[s]: the manual call's key and text
    seen,       \* seen[s]: the delivery record as the call last read it (originalMessage)
    outcome,    \* outcome[s]: of the inner send, then of the notice
    manual,     \* the manual ledger
    notices,    \* notices[k]: how many notices the owner's chat took or may have taken
    mixed       \* the keys that manual and automatic calls have used at the same time

manualVars == <<place, want, seen, outcome, manual, notices, mixed>>
allVars == <<vars, manualVars>>

Places == {"idle", "reserve", "sending", "sent", "reread", "failing", "claim",
           "retry", "notice", "noticed", "posted", "saving"}

ManualTypeOK ==
    /\ TypeOK
    /\ place \in [Server -> Places]
    /\ want \in [Server -> Request \cup {NoMessage}]
    /\ \A s \in Server : place[s] # "idle" => want[s] \in Request /\ want[s].text \in ManualText
    /\ seen \in [Server -> Record \cup {NoMessage}]
    /\ outcome \in [Server -> {"none", "submitted", "failed", "uncertain"}]
    /\ manual \in [Key -> ManualRecord \cup {NoMessage}]
    /\ notices \in [Key -> Nat]
    /\ mixed \subseteq Key

ManualInit ==
    /\ Init
    /\ place = [s \in Server |-> "idle"]
    /\ want = [s \in Server |-> NoMessage]
    /\ seen = [s \in Server |-> NoMessage]
    /\ outcome = [s \in Server |-> "none"]
    /\ manual = [k \in Key |-> NoMessage]
    /\ notices = [k \in Key |-> 0]
    /\ mixed = {}

------------------------------------------------------------------------------
(* Steps *)

At(s, p) == alive[s] /\ place[s] = p
Move(s, p) == place' = [place EXCEPT ![s] = p]
WantedKey(s) == want[s].key
Held(s) == manual[WantedKey(s)]

\* A manual call is over, with an answer or an error.
Leave(s) ==
    /\ Move(s, "idle")
    /\ want' = [want EXCEPT ![s] = NoMessage]
    /\ seen' = [seen EXCEPT ![s] = NoMessage]
    /\ outcome' = [outcome EXCEPT ![s] = "none"]

Continue(s, p) == Move(s, p) /\ UNCHANGED <<want, seen, outcome>>
Save(s, record) == manual' = [manual EXCEPT ![WantedKey(s)] = record]

\* updateLedger throws, as the directories or the ledger are not what they should
\* be, or cannot be written or unlocked: the record may have been saved all the same.
SaveOrNot(s, record) == Save(s, record) \/ UNCHANGED manual

\* Manual calls, and automatic ones, that are about an id.
ManuallyWanted(k) == \E s \in Server : alive[s] /\ place[s] # "idle" /\ WantedKey(s) = k
AutomaticallyAsked(k) ==
    \E s \in Server : alive[s] /\ place[s] = "idle" /\ phase[s] # "idle" /\ KeyOf(s) = k

\* An automatic send, step by step; it has nothing to do with the manual ledger.
Automatic(s) ==
    /\ place[s] = "idle"
    /\ Serve(s)
    /\ IF phase[s] = "idle"
       THEN /\ request'[s].text \notin ManualText
            /\ mixed' = mixed \cup {k \in {request'[s].key} : ManuallyWanted(k)}
       ELSE UNCHANGED mixed
    /\ UNCHANGED <<place, want, seen, outcome, manual, notices>>

\* A person's click, or a repeat of it.  The delivery record is read here, with
\* no lock; another text or origin under the id ends the call.
ManualAsk(s) ==
    /\ At(s, "idle") /\ phase[s] = "idle" /\ asks[s] < MaxAsks
    /\ asks' = [asks EXCEPT ![s] = @ + 1]
    /\ \E k \in Key, t \in ManualText :
          /\ messages[k] # NoMessage => messages[k].text = t
          /\ mixed' = mixed \cup {j \in {k} : AutomaticallyAsked(j)}
          /\ want' = [want EXCEPT ![s] = [key |-> k, text |-> t]]
          /\ seen' = [seen EXCEPT ![s] = messages[k]]
    /\ Move(s, "reserve")
    /\ UNCHANGED outcome
    /\ UNCHANGED <<alive, phase, request, result, messages, transport, told, manual, notices>>

\* Mutant of Settled: a finished send is settled again.
SettledAgain(record, message, interrupted) ==
    IF interrupted THEN [record EXCEPT !.send = "uncertain"] ELSE record

\* What a repeat makes of the record it finds: an unfinished send takes the
\* outcome that the delivery ledger had, or becomes uncertain once its sender is
\* dead or a minute old; so does a notice that was begun.
Settled(record, message, interrupted) ==
    LET known == message # NoMessage /\ message.status # "sending"
        lost == interrupted /\ record.notice = "pending" /\ record.attempted IN
    [record EXCEPT
        !.send = IF @ # "sending" THEN @
                 ELSE IF known THEN message.status
                 ELSE IF interrupted THEN "uncertain" ELSE @,
        !.notice = IF lost THEN "uncertain" ELSE @,
        !.retryable = IF lost THEN FALSE ELSE @]

\* Mutant of NewRecord: no notice status until a notice is begun.
NewRecordUnset(text, message) ==
    [text |-> text, send |-> "sending", notice |-> "none", attempted |-> FALSE, retryable |-> FALSE]

\* A record to start with.  If the delivery ledger already has the message, the
\* manual record was lost, and whether a notice was sent is not known.
NewRecord(text, message) ==
    [text |-> text,
     send |-> IF message = NoMessage THEN "sending" ELSE message.status,
     notice |-> IF message = NoMessage THEN "pending" ELSE "uncertain",
     attempted |-> message # NoMessage,
     retryable |-> FALSE]

\* The record is this call's to send: the inner send starts.
ReserveNew(s) ==
    /\ At(s, "reserve") /\ Held(s) = NoMessage
    /\ LET record == NewRecord(want[s].text, seen[s]) IN
       \/ /\ Save(s, record)
          /\ seen[s] = NoMessage
          /\ request' = [request EXCEPT ![s] = want[s]]
          /\ Goto(s, "asked")
          /\ Continue(s, "sending")
       \/ /\ Save(s, record)
          /\ seen[s] # NoMessage
          /\ IF record.send = "submitted" THEN Continue(s, "claim") ELSE Leave(s)
          /\ UNCHANGED <<request, phase>>
       \/ SaveOrNot(s, record) /\ Leave(s) /\ UNCHANGED <<request, phase>>
    /\ UNCHANGED <<alive, asks, result, messages, transport, told, notices, mixed>>

ReserveRepeat(s) ==
    /\ At(s, "reserve") /\ Held(s) # NoMessage
    /\ Held(s).text = want[s].text
    /\ \E interrupted \in BOOLEAN :
          LET record == Settled(Held(s), seen[s], interrupted) IN
          \/ Save(s, record) /\ record.send = "submitted" /\ Continue(s, "claim")
          \/ SaveOrNot(s, record) /\ Leave(s)
    /\ UNCHANGED <<vars, notices, mixed>>

\* The id belongs to another text, or the ledger cannot be read or locked.
ReserveRefused(s) ==
    /\ At(s, "reserve")
    /\ Leave(s)
    /\ UNCHANGED <<vars, manual, notices, mixed>>

\* executeBridgeTool at work.
Inner(s) ==
    /\ At(s, "sending") /\ phase[s] # "idle"
    /\ Serve(s) /\ phase'[s] # "idle"
    /\ UNCHANGED manualVars

\* Mutant of DeliveryUnknown: the flag on the error is not looked at.
DeliveryUnknownIgnored(s) == FALSE

\* It returns a success, or throws.  A manual text has one inner send under an
\* id, so a success is new among the answers.
Returns(s) == \E t \in told' \ told : t.answer = "submitted"
DeliveryUnknown(s) == phase[s] = "finish" /\ result[s] # "failed"

InnerEnd(s) ==
    /\ At(s, "sending") /\ phase[s] # "idle"
    /\ Serve(s) /\ phase'[s] = "idle"
    /\ \/ Returns(s) /\ Continue(s, "sent")
       \/ /\ ~Returns(s)
          /\ outcome' = [outcome EXCEPT ![s] = IF DeliveryUnknown(s) THEN "uncertain" ELSE "failed"]
          /\ Move(s, "reread")
          /\ UNCHANGED <<want, seen>>
    /\ UNCHANGED <<manual, notices, mixed>>

\* The success is saved; if that fails, the catch block takes over.
SaveSent(s) ==
    /\ At(s, "sent")
    /\ LET record == [Held(s) EXCEPT !.send = "submitted"] IN
       \/ Save(s, record) /\ Continue(s, "claim")
       \/ /\ SaveOrNot(s, record)
          /\ outcome' = [outcome EXCEPT ![s] = "failed"]
          /\ Move(s, "reread")
          /\ UNCHANGED <<want, seen>>
    /\ UNCHANGED <<vars, notices, mixed>>

\* The catch block reads the delivery record again, which may fail too,
Reread(s) ==
    /\ At(s, "reread")
    /\ \/ /\ seen' = [seen EXCEPT ![s] = messages[WantedKey(s)]]
          /\ Move(s, "failing")
          /\ UNCHANGED <<want, outcome>>
       \/ Leave(s)
    /\ UNCHANGED <<vars, manual, notices, mixed>>

\* and saves what became of the send.  No notice follows in this call.
SaveFailure(s) ==
    /\ At(s, "failing")
    /\ LET sent == seen[s] # NoMessage /\ seen[s].status = "submitted" IN
       SaveOrNot(s, [Held(s) EXCEPT !.send = IF outcome[s] = "uncertain" THEN "uncertain"
                                             ELSE IF sent THEN "submitted" ELSE "failed"])
    /\ Leave(s)
    /\ UNCHANGED <<vars, notices, mixed>>

\* Mutant of Claim: a pending notice is claimed by everyone who finds it.
ClaimPending(s) ==
    /\ At(s, "claim")
    /\ IF Held(s).notice = "pending"
       THEN Save(s, [Held(s) EXCEPT !.attempted = TRUE]) /\ Continue(s, "notice")
       ELSE Leave(s) /\ UNCHANGED manual
    /\ UNCHANGED <<vars, notices, mixed>>

\* The notice of a submitted message is claimed, once.
Claim(s) ==
    /\ At(s, "claim")
    /\ LET record == [Held(s) EXCEPT !.attempted = TRUE, !.retryable = FALSE] IN
       IF Held(s).notice = "pending" /\ ~Held(s).attempted
       THEN \/ Save(s, record) /\ Continue(s, "notice")
            \/ SaveOrNot(s, record) /\ Leave(s)
       ELSE Leave(s) /\ UNCHANGED manual
    /\ UNCHANGED <<vars, notices, mixed>>

\* retryManualNotice: a person repeats a notice that certainly failed, of a
\* manual message that was certainly submitted.
RetryAsk(s) ==
    /\ At(s, "idle") /\ phase[s] = "idle" /\ asks[s] < MaxAsks
    /\ asks' = [asks EXCEPT ![s] = @ + 1]
    /\ \E k \in Key :
          /\ messages[k] # NoMessage
          /\ mixed' = mixed \cup {j \in {k} : AutomaticallyAsked(j)}
          /\ messages[k].status = "submitted" /\ messages[k].text \in ManualText
          /\ want' = [want EXCEPT ![s] = [key |-> k, text |-> messages[k].text]]
    /\ Move(s, "retry")
    /\ UNCHANGED <<alive, phase, request, result, messages, transport, told>>
    /\ UNCHANGED <<seen, outcome, manual, notices>>

Retryable(record) == record.send = "submitted" /\ record.notice = "failed" /\ record.retryable

RetryClaim(s) ==
    /\ At(s, "retry") /\ Held(s) # NoMessage
    /\ Held(s).text = want[s].text /\ Retryable(Held(s))
    /\ LET record == [Held(s) EXCEPT !.notice = "pending", !.attempted = TRUE, !.retryable = FALSE] IN
       \/ Save(s, record) /\ Continue(s, "notice")
       \/ SaveOrNot(s, record) /\ Leave(s)
    /\ UNCHANGED <<vars, notices, mixed>>

RetryRefused(s) ==
    /\ At(s, "retry")
    /\ Leave(s)
    /\ UNCHANGED <<vars, manual, notices, mixed>>

\* submitNotice: the owner's chat gets the text, or the attempt ends before
\* anything is written.
NoticeNotWritten(s) ==
    /\ At(s, "notice")
    /\ outcome' = [outcome EXCEPT ![s] = "failed"]
    /\ Move(s, "saving")
    /\ UNCHANGED <<vars, want, seen, manual, notices, mixed>>

WriteNotice(s) ==
    /\ At(s, "notice")
    /\ notices' = [notices EXCEPT ![WantedKey(s)] = @ + 1]
    /\ Continue(s, "noticed")
    /\ UNCHANGED <<vars, manual, mixed>>

\* The chat acknowledges, stays silent, or answers that it took nothing.
NoticeTaken(s) ==
    /\ At(s, "noticed")
    /\ \/ Continue(s, "posted")
       \/ /\ outcome' = [outcome EXCEPT ![s] = "uncertain"]
          /\ Move(s, "saving")
          /\ UNCHANGED <<want, seen>>
    /\ UNCHANGED <<vars, manual, notices, mixed>>

NoticeRejected(s) ==
    /\ At(s, "noticed")
    /\ notices' = [notices EXCEPT ![WantedKey(s)] = @ - 1]
    /\ outcome' = [outcome EXCEPT ![s] = "failed"]
    /\ Move(s, "saving")
    /\ UNCHANGED <<vars, want, seen, manual, mixed>>

\* Mutant of SavePosted: the error of the save is taken for one of the notice.
SavePostedOrFailed(s) ==
    /\ At(s, "posted")
    /\ \/ Save(s, [Held(s) EXCEPT !.notice = "submitted"]) /\ Leave(s)
       \/ /\ outcome' = [outcome EXCEPT ![s] = "failed"]
          /\ Move(s, "saving")
          /\ UNCHANGED <<want, seen, manual>>
    /\ UNCHANGED <<vars, notices, mixed>>

\* The acknowledged notice is saved; if that fails, it becomes uncertain.
SavePosted(s) ==
    /\ At(s, "posted")
    /\ LET record == [Held(s) EXCEPT !.notice = "submitted", !.retryable = FALSE] IN
       \/ Save(s, record) /\ Leave(s)
       \/ /\ SaveOrNot(s, record)
          /\ outcome' = [outcome EXCEPT ![s] = "uncertain"]
          /\ Move(s, "saving")
          /\ UNCHANGED <<want, seen>>
    /\ UNCHANGED <<vars, notices, mixed>>

SaveNotice(s) ==
    /\ At(s, "saving")
    /\ SaveOrNot(s, [Held(s) EXCEPT !.notice = outcome[s], !.retryable = outcome[s] = "failed"])
    /\ Leave(s)
    /\ UNCHANGED <<vars, notices, mixed>>

ManualStep(s) ==
    \/ ManualAsk(s) \/ ReserveNew(s) \/ ReserveRepeat(s) \/ ReserveRefused(s)
    \/ Inner(s) \/ InnerEnd(s) \/ SaveSent(s) \/ Reread(s) \/ SaveFailure(s)
    \/ Claim(s) \/ RetryAsk(s) \/ RetryClaim(s) \/ RetryRefused(s)
    \/ NoticeNotWritten(s) \/ WriteNotice(s) \/ NoticeTaken(s) \/ NoticeRejected(s)
    \/ SavePosted(s) \/ SaveNotice(s)

Surroundings ==
    /\ \/ \E s \in Server : Exit(s)
       \/ \E k \in Key : Deliver(k)
    /\ UNCHANGED manualVars

ManualNext ==
    \/ \E s \in Server : Automatic(s) \/ ManualStep(s)
    \/ Surroundings

ManualSpec == ManualInit /\ [][ManualNext]_allVars

------------------------------------------------------------------------------
(* Properties *)

HasManual(k) == manual[k] # NoMessage

\* A manual id leads to one write to Claude and one notice that the owner's chat
\* may have taken, over repeats, retries, crashes and failing saves.
AtMostOneEach == \A k \in Key : writes[k] <= 1 /\ notices[k] <= 1

\* The owner's chat is told of a message only when that very text was submitted
\* to Claude as a manual message (manualSend claims after the send), unless manual
\* and automatic calls used the id at the same time (`mixed`): then a manual call may
\* take the automatic record for its own, and post a notice of a text that was not
\* sent.  A notice may be retried only if no attempt is under way or may have arrived;
\* one recorded as submitted did arrive (submitNotice, retryManualNotice).
NoticeIsTrue ==
    \A k \in Key :
        /\ notices[k] > 0 /\ k \notin mixed =>
              /\ HasManual(k) /\ wire[k] = manual[k].text
              /\ messages[k].status = "submitted" /\ writes[k] = 1 /\ k \notin refused
        /\ HasManual(k) /\ Retryable(manual[k]) =>
              /\ notices[k] = 0
              /\ \A s \in Server : place[s] \in {"notice", "noticed", "posted", "saving"} =>
                    WantedKey(s) # k \/ ~alive[s]
        /\ HasManual(k) /\ manual[k].notice = "submitted" => notices[k] = 1

\* A manual record that says "submitted" belongs to a manual message that was
\* submitted, and not to an automatic one under the same id
\* (test/manual.test.mjs: "cannot relabel or reuse one another sending origin").
SuccessIsManual(k) ==
    HasManual(k) /\ manual[k].send = "submitted" =>
        wire[k] = manual[k].text /\ writes[k] = 1 /\ k \notin refused
ManualSuccessIsTrue == \A k \in Key : SuccessIsManual(k)

\* A manual record that says "failed" belongs to a manual message that Claude
\* never gets; one that says "submitted" to a submitted one, if no automatic call
\* used the id at the same time (the catch block of manualSend).
ManualRecordIsTrue ==
    \A k \in Key :
        /\ k \in delivered /\ HasManual(k) /\ manual[k].send = "failed" => wire[k] # manual[k].text
        /\ k \notin mixed => SuccessIsManual(k)

\* A manual record keeps its text, a failure of the send, and that its notice was
\* begun.  A saved success can only become uncertain: when a repeat saw the outcome
\* before the sender, whose own save of it failed (catch blocks of manualSend and
\* submitNotice).
ManualOutcomeIsFinal ==
    [][ \A k \in Key : HasManual(k) =>
          /\ HasManual(k)' /\ manual'[k].text = manual[k].text
          /\ manual[k].send = "failed" => manual'[k].send = "failed"
          /\ manual[k].send = "submitted" => manual'[k].send \in {"submitted", "uncertain"}
          /\ manual[k].attempted => manual'[k].attempted
          /\ manual[k].notice = "submitted" => manual'[k].notice \in {"submitted", "uncertain"}
      ]_allVars

==============================================================================
