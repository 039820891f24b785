------------------------------- MODULE Delivery -------------------------------
(***************************************************************************)
(* A send: executeBridgeTool of lib/desktop-service.mjs over the delivery  *)
(* ledger of lib/store.mjs (recordMessage, finishMessage).                 *)
(*                                                                         *)
(* A server is one process of the bridge's MCP server; it works on one     *)
(* call at a time.  Several servers share a sender's ledger, any of them   *)
(* may exit at any step, and a caller may repeat a message id at any of    *)
(* them at any time.  A ledger operation is one atomic update, or none,    *)
(* that may report an error in either case (AtomicUpdates).                *)
(*                                                                         *)
(* The transport is what every route of the bridge shows the service: it   *)
(* fails before anything is written, or it writes the message and then     *)
(* succeeds, is refused for certain, or ends with an unknown outcome.      *)
(***************************************************************************)
EXTENDS Naturals

CONSTANTS
    Server,     \* the server processes
    Key,        \* a message id with its sender and recipient (messageKey)
    Text,       \* what a request says: its text and its origin (manual or not)
    MaxAsks,    \* how many calls one server gets (a bound on runs)
    NoMessage,  \* no record under a key of the ledger; no call at a server
    NoText      \* no text

ASSUME MaxAsksAssumption == MaxAsks \in Nat
ASSUME NoTextAssumption == NoText \notin Text

Request == [key : Key, text : Text]
Record == [text : Text, sender : Server,
           status : {"sending", "submitted", "failed", "uncertain"}]

ASSUME NoMessageAssumption == NoMessage \notin Record /\ NoMessage \notin Request

VARIABLES
    alive,      \* alive[s]: the server process runs
    phase,      \* phase[s]: where its present call is
    request,    \* request[s]: its present call
    asks,       \* asks[s]: calls so far
    result,     \* result[s]: the transport's outcome, before it is saved
    messages,   \* the ledger
    writes,     \* writes[k]: how often the message was given to a transport
    wire,       \* wire[k]: the text given to the transport
    refused,    \* the keys whose message certainly does not arrive
    delivered,  \* the keys whose message the receiving application has taken
    told        \* the answers that callers got about their message

vars == <<alive, phase, request, asks, result, messages, writes, wire, refused, delivered, told>>
transport == <<writes, wire, refused, delivered>>

TypeOK ==
    /\ alive \in [Server -> BOOLEAN]
    /\ phase \in [Server -> {"idle", "asked", "send", "written", "finish"}]
    /\ request \in [Server -> Request \cup {NoMessage}]
    /\ \A s \in Server : phase[s] # "idle" => request[s] \in Request
    /\ asks \in [Server -> 0..MaxAsks]
    /\ result \in [Server -> {"none", "submitted", "failed", "uncertain"}]
    /\ messages \in [Key -> Record \cup {NoMessage}]
    /\ writes \in [Key -> Nat]
    /\ wire \in [Key -> Text \cup {NoText}]
    /\ refused \in SUBSET Key
    /\ delivered \in SUBSET Key
    /\ told \in SUBSET [key : Key, text : Text, answer : {"submitted", "failed", "uncertain"}]

Init ==
    /\ alive = [s \in Server |-> TRUE]
    /\ phase = [s \in Server |-> "idle"]
    /\ request = [s \in Server |-> NoMessage]
    /\ asks = [s \in Server |-> 0]
    /\ result = [s \in Server |-> "none"]
    /\ messages = [k \in Key |-> NoMessage]
    /\ writes = [k \in Key |-> 0]
    /\ wire = [k \in Key |-> NoText]
    /\ refused = {}
    /\ delivered = {}
    /\ told = {}

------------------------------------------------------------------------------
(* Steps *)

Working(s, place) == alive[s] /\ phase[s] = place
Goto(s, place) == phase' = [phase EXCEPT ![s] = place]
KeyOf(s) == request[s].key

\* The call ends with an answer about its message, or with one about nothing.
End(s) ==
    /\ Goto(s, "idle")
    /\ request' = [request EXCEPT ![s] = NoMessage]
    /\ result' = [result EXCEPT ![s] = "none"]

Answer(s, answer) ==
    /\ End(s)
    /\ told' = told \cup {[key |-> KeyOf(s), text |-> request[s].text, answer |-> answer]}

AnswerError(s) == End(s) /\ UNCHANGED told

Ask(s) ==
    /\ Working(s, "idle")
    /\ asks[s] < MaxAsks
    /\ asks' = [asks EXCEPT ![s] = @ + 1]
    /\ \E r \in Request : request' = [request EXCEPT ![s] = r]
    /\ Goto(s, "asked")
    /\ UNCHANGED <<alive, result, messages, transport, told>>

\* Everything that can end a call before the ledger changes: the caller or the
\* recipient cannot be resolved, the route is refused, the call is cancelled,
\* the ledger is busy.
Refuse(s) ==
    /\ Working(s, "asked")
    /\ AnswerError(s)
    /\ UNCHANGED <<alive, asks, messages, transport>>

\* Mutant of Reserve: the record is saved only when the send is over.
ReserveLater(s) ==
    /\ Working(s, "asked")
    /\ messages[KeyOf(s)] = NoMessage
    /\ Goto(s, "send")
    /\ UNCHANGED <<alive, request, result, asks, messages, transport, told>>

\* recordMessage, no record under the key: the id is spent from here, also if
\* the ledger reports an error after it saved the record.
Reserve(s) ==
    /\ Working(s, "asked")
    /\ messages[KeyOf(s)] = NoMessage
    /\ messages' = [messages EXCEPT ![KeyOf(s)] =
                       [text |-> request[s].text, sender |-> s, status |-> "sending"]]
    /\ \/ Goto(s, "send") /\ UNCHANGED <<request, result, told>>
       \/ AnswerError(s)
    /\ UNCHANGED <<alive, asks, transport>>

\* recordMessage, a record with another text or another origin.
Conflict(s) ==
    /\ Working(s, "asked")
    /\ messages[KeyOf(s)] # NoMessage
    /\ messages[KeyOf(s)].text # request[s].text
    /\ AnswerError(s)
    /\ UNCHANGED <<alive, asks, messages, transport>>

\* interruptedSend: the sender died, or the record is a minute old.  Neither
\* shows in this model, so it may hold of every record in "sending".
MayBeInterrupted(record) == IF record.status = "sending" THEN BOOLEAN ELSE {FALSE}

\* Mutants of Repeat: the text is not compared; an interrupted send is sent
\* again; an unfinished send is recorded as failed; a finished one is reopened.
RepeatAnyText(s) ==
    /\ Working(s, "asked")
    /\ messages[KeyOf(s)] # NoMessage
    /\ LET status == messages[KeyOf(s)].status IN
       Answer(s, IF status = "sending" THEN "uncertain" ELSE status)
    /\ UNCHANGED <<alive, asks, messages, transport>>

RepeatResending(s) ==
    /\ Working(s, "asked")
    /\ messages[KeyOf(s)] # NoMessage
    /\ messages[KeyOf(s)].text = request[s].text
    /\ \/ /\ MayBeInterrupted(messages[KeyOf(s)]) = BOOLEAN
          /\ Goto(s, "send")
          /\ UNCHANGED <<request, result, told>>
       \/ Answer(s, IF messages[KeyOf(s)].status = "sending"
                    THEN "uncertain" ELSE messages[KeyOf(s)].status)
    /\ UNCHANGED <<alive, asks, messages, transport>>

RepeatGivingUp(s) ==
    /\ Working(s, "asked")
    /\ messages[KeyOf(s)] # NoMessage
    /\ messages[KeyOf(s)].text = request[s].text
    /\ \E interrupted \in MayBeInterrupted(messages[KeyOf(s)]) :
          LET status == IF interrupted THEN "failed" ELSE messages[KeyOf(s)].status IN
          /\ messages' = [messages EXCEPT ![KeyOf(s)].status = status]
          /\ \/ Answer(s, IF status = "sending" THEN "uncertain" ELSE status)
             \/ AnswerError(s)
    /\ UNCHANGED <<alive, asks, transport>>

RepeatByAge(s) ==
    /\ Working(s, "asked")
    /\ messages[KeyOf(s)] # NoMessage
    /\ messages[KeyOf(s)].text = request[s].text
    /\ \E old \in BOOLEAN :
          LET status == IF old THEN "uncertain" ELSE messages[KeyOf(s)].status IN
          /\ messages' = [messages EXCEPT ![KeyOf(s)].status = status]
          /\ \/ Answer(s, IF status = "sending" THEN "uncertain" ELSE status)
             \/ AnswerError(s)
    /\ UNCHANGED <<alive, asks, transport>>

\* recordMessage, the same message again: nothing is sent.
Repeat(s) ==
    /\ Working(s, "asked")
    /\ messages[KeyOf(s)] # NoMessage
    /\ messages[KeyOf(s)].text = request[s].text
    /\ \E interrupted \in MayBeInterrupted(messages[KeyOf(s)]) :
          LET status == IF interrupted THEN "uncertain" ELSE messages[KeyOf(s)].status IN
          /\ messages' = [messages EXCEPT ![KeyOf(s)].status = status]
          /\ \/ Answer(s, IF status = "sending" THEN "uncertain" ELSE status)
             \/ AnswerError(s)
    /\ UNCHANGED <<alive, asks, transport>>

\* The transport fails, or the call is cancelled, before anything is written.
NotWritten(s) ==
    /\ Working(s, "send")
    /\ refused' = refused \cup {KeyOf(s)}
    /\ result' = [result EXCEPT ![s] = "failed"]
    /\ Goto(s, "finish")
    /\ UNCHANGED <<alive, request, asks, messages, writes, wire, delivered, told>>

\* The message is written to the receiving application.
Write(s) ==
    /\ Working(s, "send")
    /\ writes' = [writes EXCEPT ![KeyOf(s)] = @ + 1]
    /\ wire' = [wire EXCEPT ![KeyOf(s)] = request[s].text]
    /\ Goto(s, "written")
    /\ UNCHANGED <<alive, request, asks, result, messages, refused, delivered, told>>

\* The application acknowledges, or its answer stays away: a timeout, a closed
\* connection, a cancellation after the write (deliveryUnknown).
Outcome(s) ==
    /\ Working(s, "written")
    /\ \E r \in {"submitted", "uncertain"} : result' = [result EXCEPT ![s] = r]
    /\ Goto(s, "finish")
    /\ UNCHANGED <<alive, request, asks, messages, transport, told>>

\* The application answers that it did not take the message.
Rejected(s) ==
    /\ Working(s, "written")
    /\ KeyOf(s) \notin delivered
    /\ refused' = refused \cup {KeyOf(s)}
    /\ result' = [result EXCEPT ![s] = "failed"]
    /\ Goto(s, "finish")
    /\ UNCHANGED <<alive, request, asks, messages, writes, wire, delivered, told>>

\* Mutant of Finish: every error of a transport is taken for a failure.
FinishAsFailed(s) ==
    /\ Working(s, "finish")
    /\ LET status == IF result[s] = "uncertain" THEN "failed" ELSE result[s] IN
       /\ messages' = [messages EXCEPT ![KeyOf(s)].status = status]
       /\ Answer(s, status)
    /\ UNCHANGED <<alive, asks, transport>>

\* finishMessage and the answer.  If the ledger reports an error, a success is
\* no longer claimed; a failure and an unknown outcome are reported as they are.
Finish(s) ==
    /\ Working(s, "finish")
    /\ \/ /\ messages' = [messages EXCEPT ![KeyOf(s)].status = result[s]]
          /\ Answer(s, result[s])
       \/ /\ \/ messages' = [messages EXCEPT ![KeyOf(s)].status = result[s]]
             \/ UNCHANGED messages
          /\ Answer(s, IF result[s] = "submitted" THEN "uncertain" ELSE result[s])
    /\ UNCHANGED <<alive, asks, transport>>

\* The receiving application takes a message that was written to it.
Deliver(k) ==
    /\ writes[k] > 0 /\ k \notin refused \cup delivered
    /\ delivered' = delivered \cup {k}
    /\ UNCHANGED <<alive, phase, request, asks, result, messages, writes, wire, refused, told>>

\* A server process ends; its record stays as it is.
Exit(s) ==
    /\ alive[s]
    /\ alive' = [alive EXCEPT ![s] = FALSE]
    /\ UNCHANGED <<phase, request, asks, result, messages, transport, told>>

Serve(s) ==
    \/ Ask(s) \/ Refuse(s) \/ Reserve(s) \/ Conflict(s) \/ Repeat(s)
    \/ NotWritten(s) \/ Write(s) \/ Outcome(s) \/ Rejected(s) \/ Finish(s)

Next ==
    \/ \E s \in Server : Serve(s) \/ Exit(s)
    \/ \E k \in Key : Deliver(k)

Spec == Init /\ [][Next]_vars

------------------------------------------------------------------------------
(* Properties *)

Recorded(k) == messages[k] # NoMessage
Status(k) == messages[k].status
ToldOf(k, answer) == {t \in told : t.key = k /\ t.answer = answer}

\* However often an id is repeated, at however many servers, around crashes and
\* ledger errors: its message is given to a transport at most once (executeBridgeTool).
AtMostOneWrite == \A k \in Key : writes[k] <= 1

\* The ledger knows a message, with the text that is sent, before the receiving
\* application can (recordMessage runs before every transport).
RecordedBeforeWritten ==
    \A k \in Key : writes[k] > 0 => Recorded(k) /\ messages[k].text = wire[k]

\* A message whose record or whose caller says "failed" is not delivered: it may
\* be sent again under another id (deliveryUnknown decides this).
FailedNeverArrives ==
    \A k \in delivered : ToldOf(k, "failed") = {} /\ Status(k) # "failed"

\* A success, in the ledger or told to anyone who repeats the id, stands for a
\* written message, and for the very text that this caller asked to send.
SuccessIsTrue ==
    /\ \A k \in Key : Recorded(k) /\ Status(k) = "submitted" => writes[k] = 1 /\ k \notin refused
    /\ \A t \in told : t.answer = "submitted" =>
          writes[t.key] = 1 /\ t.key \notin refused /\ wire[t.key] = t.text

\* A record keeps its text and its sender, and a saved success or failure is
\* final: no repeat, age check or late outcome changes it (recordMessage, finishMessage).
OutcomeIsFinal ==
    [][ \A k \in Key : Recorded(k) =>
          /\ Recorded(k)' /\ messages'[k].text = messages[k].text
          /\ messages'[k].sender = messages[k].sender
          /\ Status(k) \in {"submitted", "failed"} => messages'[k] = messages[k] ]_vars

(***************************************************************************)
(* Why this holds: a server past recordMessage owns the one open record    *)
(* under its key, and its phase says what the transport has been given.    *)
(***************************************************************************)
SenderOwnsRecord ==
    \A s \in Server : phase[s] \in {"send", "written", "finish"} =>
        /\ Recorded(KeyOf(s))
        /\ messages[KeyOf(s)].sender = s
        /\ messages[KeyOf(s)].text = request[s].text
        /\ Status(KeyOf(s)) \in {"sending", "uncertain"}

Handed(k) == writes[k] = 1 /\ k \notin refused

PhaseTellsTransport ==
    \A s \in Server :
        /\ phase[s] = "send" => writes[KeyOf(s)] = 0 /\ KeyOf(s) \notin refused
        /\ phase[s] = "written" => Handed(KeyOf(s))
        /\ phase[s] = "finish" =>
              \/ result[s] = "failed" /\ KeyOf(s) \in refused
              \/ result[s] \in {"submitted", "uncertain"} /\ Handed(KeyOf(s))

RecordTellsTransport ==
    \A k \in Key :
        /\ ~Recorded(k) => writes[k] = 0 /\ k \notin refused
        /\ Recorded(k) /\ Status(k) = "submitted" => Handed(k)
        /\ Recorded(k) /\ Status(k) = "failed" => k \in refused

AnswersAreRecorded ==
    \A t \in told :
        /\ Recorded(t.key) /\ messages[t.key].text = t.text
        /\ t.answer = "submitted" => Status(t.key) = "submitted"
        /\ t.answer = "failed" => t.key \in refused

DeliveryInv ==
    /\ SenderOwnsRecord /\ PhaseTellsTransport
    /\ RecordTellsTransport /\ AnswersAreRecorded
    /\ AtMostOneWrite /\ RecordedBeforeWritten
    /\ delivered \cap refused = {}
    /\ \A k \in delivered : writes[k] > 0

\* A send implements the delivery promise.
Promise == INSTANCE OneDelivery
    WITH taken <- delivered,
         text <- [k \in Key |-> IF messages[k] = NoMessage THEN NoText ELSE messages[k].text]
ImplementsOneDelivery == Promise!Spec

==============================================================================
