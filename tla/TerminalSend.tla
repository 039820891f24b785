---------------------------- MODULE TerminalSend -----------------------------
(***************************************************************************)
(* Messages to a Codex session in a terminal: openDaemon,                  *)
(* sendToTerminalThread and queueToTerminalThread of lib/codex-daemon.mjs, *)
(* with resolveTerminalTarget and the fallback from the daemon to the      *)
(* queue in executeBridgeTool.                                             *)
(*                                                                         *)
(* Several sends and the people at the terminal work on one thread.  A     *)
(* send opens a first connection only to choose its route, records the     *)
(* message, and delivers it over a second one.  Whatever it reads may have *)
(* changed when it acts on it; it looks before it writes, and what it may  *)
(* do after a failure depends on what the failure proves.                  *)
(***************************************************************************)
EXTENDS Naturals

CONSTANTS
    Send,       \* the sends to the thread, one message each
    MaxTurns    \* how many turns the thread has (a bound on runs)

ASSUME MaxTurnsAssumption == MaxTurns \in Nat
ASSUME SendAssumption == "none" \notin Send     \* it marks a message without a record

Status == {"idle", "active", "notLoaded", "systemError"}
Outcome == {"none", "submitted", "failed", "uncertain"}

\* A send ends unrecorded if its route cannot be chosen, or if it is left to
\* Codex Desktop; a recorded one ends with an outcome.
Ended == {"declined", "desktop", "done"}

\* What a reply says: to a read the thread's status or its latest running turn;
\* to input that it was taken, that the turn to steer is gone, that it was
\* refused before it was accepted (PRE_ACCEPTANCE); to both, any other error.
Reply == [kind : Status \cup {"none", "missing", "turn", "taken", "gone", "refused", "other"},
          turn : 0..MaxTurns]
Says(kind) == [kind |-> kind, turn |-> 0]

VARIABLES
    status,     \* of the thread, in the daemon
    turn,       \* the number of its latest turn
    at,         \* at[s]: the request the send is at
    wire,       \* wire[s]: that request is not sent, sent, or replied to
    reply,      \* reply[s]: the reply under way
    expected,   \* expected[s]: the turn the send saw running (expectedTurnId)
    explicit,   \* explicit[s]: transport "terminal" was asked for (allowQueue), not "auto"
    probing,    \* probing[s]: the connection only serves to choose the route
    queueOnly,  \* queueOnly[s]: there was no daemon when the route was chosen
    taken,      \* taken[s]: how often the thread took the message
    outcome     \* outcome[s]: submitted, failed, or an unknown delivery

vars == <<status, turn, at, wire, reply, expected, explicit, probing, queueOnly, taken, outcome>>
thread == <<status, turn>>
route == <<explicit, probing, queueOnly>>

TypeOK ==
    /\ status \in Status /\ turn \in 0..MaxTurns
    /\ at \in [Send -> {"new", "open", "read", "record", "recorded", "turns", "steer", "reread", "start", "queue"} \cup Ended]
    /\ wire \in [Send -> {"quiet", "sent", "replied"}]
    /\ reply \in [Send -> Reply]
    /\ expected \in [Send -> 0..MaxTurns]
    /\ explicit \in [Send -> BOOLEAN] /\ probing \in [Send -> BOOLEAN] /\ queueOnly \in [Send -> BOOLEAN]
    /\ taken \in [Send -> Nat]
    /\ outcome \in [Send -> Outcome]
    /\ \A s \in Send : outcome[s] # "none" <=> at[s] = "done"

Init ==
    /\ status \in Status /\ turn = 0
    /\ at = [s \in Send |-> "new"]
    /\ wire = [s \in Send |-> "quiet"]
    /\ reply = [s \in Send |-> Says("none")]
    /\ expected = [s \in Send |-> 0]
    /\ explicit \in [Send -> BOOLEAN]
    /\ probing = [s \in Send |-> TRUE]
    /\ queueOnly = [s \in Send |-> FALSE]
    /\ taken = [s \in Send |-> 0]
    /\ outcome = [s \in Send |-> "none"]

------------------------------------------------------------------------------
(* The thread *)

\* People start and end turns, open and close the session.
People ==
    /\ \/ status = "idle" /\ turn < MaxTurns /\ status' = "active" /\ turn' = turn + 1
       \/ status = "active" /\ status' \in {"idle", "systemError"} /\ UNCHANGED turn
       \/ status \in {"idle", "notLoaded"} /\ status' \in {"idle", "notLoaded"} \ {status} /\ UNCHANGED turn
    /\ UNCHANGED <<at, wire, reply, expected, route, taken, outcome>>

Reads == {"read", "turns", "reread"}
Inputs == {"steer", "start"}

\* The daemon answers a read from the state it is in.
AnswerRead(s) ==
    /\ wire[s] = "sent" /\ at[s] \in Reads
    /\ wire' = [wire EXCEPT ![s] = "replied"]
    /\ \E r \in {Says("other"), Says("missing"),
                 IF at[s] # "turns" THEN Says(status)
                 ELSE [kind |-> "turn", turn |-> IF status = "active" THEN turn ELSE 0]} :
          reply' = [reply EXCEPT ![s] = r]
    /\ UNCHANGED <<thread, at, expected, route, taken, outcome>>

\* It takes input for the running turn that the sender expects, or starts a turn
\* with it; a busy thread may do so later or not at all.
TakeInput(s) ==
    /\ taken' = [taken EXCEPT ![s] = @ + 1]
    /\ IF expected[s] > 0
       THEN status = "active" /\ turn = expected[s] /\ UNCHANGED thread
       ELSE /\ status \in {"idle", "active"} /\ turn < MaxTurns
            /\ status' = "active" /\ turn' = turn + 1

\* A steer whose turn is over is refused as gone.
Refusals(s) ==
    {"refused", "other"} \cup
    (IF expected[s] > 0 /\ (status # "active" \/ turn # expected[s]) THEN {"gone"} ELSE {})

AnswerInput(s) ==
    /\ wire[s] = "sent" /\ at[s] \in Inputs
    /\ wire' = [wire EXCEPT ![s] = "replied"]
    /\ \/ /\ TakeInput(s)
          /\ \E kind \in {"taken", "other"} : reply' = [reply EXCEPT ![s] = Says(kind)]
       \/ /\ \E kind \in Refusals(s) : reply' = [reply EXCEPT ![s] = Says(kind)]
          /\ UNCHANGED <<thread, taken>>
    /\ UNCHANGED <<at, expected, route, outcome>>

\* Input is taken although its sender has given up waiting.
TakeLate(s) ==
    /\ at[s] = "done" /\ wire[s] = "sent"
    /\ wire' = [wire EXCEPT ![s] = "replied"]
    /\ TakeInput(s)
    /\ UNCHANGED <<at, reply, expected, route, outcome>>

------------------------------------------------------------------------------
(* A send *)

Got(s, place) == at[s] = place /\ wire[s] = "replied"
Kind(s) == reply[s].kind

Goto(s, place) ==
    /\ at' = [at EXCEPT ![s] = place]
    /\ wire' = [wire EXCEPT ![s] = "quiet"]
    /\ reply' = [reply EXCEPT ![s] = Says("none")]
    /\ UNCHANGED outcome

Settle(s, o) ==
    /\ at' = [at EXCEPT ![s] = "done"]
    /\ wire' = [wire EXCEPT ![s] = "quiet"]
    /\ reply' = [reply EXCEPT ![s] = Says("none")]
    /\ outcome' = [outcome EXCEPT ![s] = o]

\* Without a daemon an explicit terminal route is left to the queue, and any
\* other to Codex Desktop.
NoDaemon(s) ==
    IF explicit[s]
    THEN Goto(s, "record") /\ queueOnly' = [queueOnly EXCEPT ![s] = TRUE]
    ELSE Goto(s, "desktop") /\ UNCHANGED queueOnly

\* The first connection is opened (resolveTerminalTarget, withDaemon), unless
\* there is no executable for it.
Begin(s) ==
    /\ at[s] = "new"
    /\ \/ Goto(s, "open") /\ UNCHANGED queueOnly
       \/ NoDaemon(s)
    /\ UNCHANGED <<thread, expected, explicit, probing, taken>>

\* The daemon agreed to the upgrade and answered initialize.
Opened(s) ==
    /\ at[s] = "open"
    /\ Goto(s, "read")
    /\ UNCHANGED <<thread, expected, route, taken>>

\* It cannot be reached: the child does not start or ends, or the connection is
\* not open in time (DaemonUnavailableError).  No second connection means failure.
Unreachable(s) ==
    /\ at[s] = "open"
    /\ IF probing[s] THEN NoDaemon(s) ELSE Settle(s, "failed") /\ UNCHANGED queueOnly
    /\ UNCHANGED <<thread, expected, explicit, probing, taken>>

\* A failure before the record leaves no trace of the message.
Fail(s) == IF probing[s] THEN Goto(s, "declined") ELSE Settle(s, "failed")

\* What the first read says of the thread decides the route.  A thread that is
\* not loaded may belong to any client, so only an explicit choice may queue it,
\* and only if its id and its text fit the queue.
GotRoute(s) ==
    /\ Got(s, "read") /\ probing[s]
    /\ CASE Kind(s) = "other" -> Fail(s)
         [] Kind(s) = "missing" /\ ~explicit[s] -> Goto(s, "desktop")
         [] Kind(s) = "missing" /\ explicit[s] -> Fail(s)
         [] Kind(s) = "notLoaded" -> Fail(s) \/ (explicit[s] /\ Goto(s, "record"))
         [] OTHER -> Goto(s, "record")
    /\ UNCHANGED <<thread, expected, route, taken>>

\* The message is recorded; or it is not, as it does not fit the queue, the
\* request is cancelled, or the ledger cannot be written.
Record(s) ==
    /\ at[s] = "record"
    /\ \/ Goto(s, "recorded") /\ probing' = [probing EXCEPT ![s] = FALSE]
       \/ Fail(s) /\ UNCHANGED probing
    /\ UNCHANGED <<thread, expected, explicit, queueOnly, taken>>

\* The delivery starts, or it is cancelled or has no executable.
Deliver(s) ==
    /\ at[s] = "recorded"
    /\ Fail(s) \/ Goto(s, IF queueOnly[s] THEN "queue" ELSE "open")
    /\ UNCHANGED <<thread, expected, route, taken>>

Ask(s) ==
    /\ at[s] \in Reads \cup Inputs /\ wire[s] = "quiet"
    /\ wire' = [wire EXCEPT ![s] = "sent"]
    /\ UNCHANGED <<thread, at, reply, expected, route, taken, outcome>>

\* Mutant of Lost: a written request is taken for a failure.
LostAsFailed(s) ==
    /\ at[s] \in Reads \cup Inputs
    /\ at' = [at EXCEPT ![s] = "done"]
    /\ outcome' = [outcome EXCEPT ![s] = "failed"]
    /\ UNCHANGED <<thread, wire, reply, expected, route, taken>>

\* The connection fails, times out or is cancelled (fail).  Only input that was
\* written makes the delivery unknown; it may still be taken.
Lost(s) ==
    /\ at[s] \in Reads \cup Inputs \cup {"open"}
    /\ IF at[s] \in Inputs /\ wire[s] # "quiet"
       THEN /\ at' = [at EXCEPT ![s] = "done"]
            /\ outcome' = [outcome EXCEPT ![s] = "uncertain"]
            /\ UNCHANGED <<wire, reply>>
       ELSE Fail(s)
    /\ UNCHANGED <<thread, expected, route, taken>>

\* Over the second connection, a new read decides how to write.
GotStatus(s) ==
    /\ Got(s, "read") /\ ~probing[s]
    /\ CASE Kind(s) = "idle" -> Goto(s, "start")
         [] Kind(s) = "active" -> Goto(s, "turns")
         [] Kind(s) = "notLoaded" /\ explicit[s] -> Goto(s, "queue")
         [] OTHER -> Settle(s, "failed")
    /\ UNCHANGED <<thread, expected, route, taken>>

GotTurn(s) ==
    /\ Got(s, "turns")
    /\ IF Kind(s) = "turn" /\ reply[s].turn > 0
       THEN Goto(s, "steer") /\ expected' = [expected EXCEPT ![s] = reply[s].turn]
       ELSE Settle(s, "failed") /\ UNCHANGED expected
    /\ UNCHANGED <<thread, route, taken>>

\* Mutant of GotInput: every refused steer gets a second attempt.
GotInputRetrying(s) ==
    /\ at[s] \in Inputs /\ wire[s] = "replied"
    /\ IF Kind(s) = "taken" THEN Settle(s, "submitted")
       ELSE IF at[s] = "steer" THEN Goto(s, "reread") ELSE Settle(s, "uncertain")
    /\ UNCHANGED <<thread, expected, route, taken>>

\* writeInput and the catch block around the steer.
GotInput(s) ==
    /\ at[s] \in Inputs /\ wire[s] = "replied"
    /\ CASE Kind(s) = "taken" -> Settle(s, "submitted")
         [] Kind(s) = "refused" -> Settle(s, "failed")
         [] Kind(s) = "gone" -> Goto(s, "reread")
         [] OTHER -> Settle(s, "uncertain")
    /\ UNCHANGED <<thread, expected, route, taken>>

\* Mutant of GotReread: a thread that is still busy is read until it is idle.
GotRereadWaiting(s) ==
    /\ Got(s, "reread")
    /\ IF Kind(s) = "idle"
       THEN Goto(s, "start") /\ expected' = [expected EXCEPT ![s] = 0]
       ELSE Goto(s, "reread") /\ UNCHANGED expected
    /\ UNCHANGED <<thread, route, taken>>

\* A steer that came too late proves that nothing was taken: an idle thread may
\* get one new turn.
GotReread(s) ==
    /\ Got(s, "reread")
    /\ IF Kind(s) = "idle"
       THEN Goto(s, "start") /\ expected' = [expected EXCEPT ![s] = 0]
       ELSE Settle(s, "failed") /\ UNCHANGED expected
    /\ UNCHANGED <<thread, route, taken>>

\* codex queue: a child process that cannot be started or finds no such session,
QueueRefuses(s) ==
    /\ at[s] = "queue" /\ wire[s] = "quiet"
    /\ Settle(s, "failed")
    /\ UNCHANGED <<thread, expected, route, taken>>

\* or takes the message and says so,
QueueTakes(s) ==
    /\ at[s] = "queue" /\ wire[s] = "quiet"
    /\ taken' = [taken EXCEPT ![s] = @ + 1]
    /\ wire' = [wire EXCEPT ![s] = "replied"]
    /\ reply' = [reply EXCEPT ![s] = Says("taken")]
    /\ UNCHANGED <<thread, at, expected, route, outcome>>

QueueConfirms(s) ==
    /\ Got(s, "queue")
    /\ Settle(s, "submitted")
    /\ UNCHANGED <<thread, expected, route, taken>>

\* or is killed, or says something else.
QueueBreaks(s) ==
    /\ at[s] = "queue"
    /\ Settle(s, "uncertain")
    /\ UNCHANGED <<thread, expected, route, taken>>

Daemon(s) == Opened(s) \/ AnswerRead(s) \/ AnswerInput(s) \/ TakeLate(s)

Proceed(s) ==
    \/ Begin(s) \/ GotRoute(s) \/ Record(s) \/ Deliver(s)
    \/ Ask(s) \/ GotStatus(s) \/ GotTurn(s) \/ GotInput(s) \/ GotReread(s)
    \/ QueueRefuses(s) \/ QueueTakes(s) \/ QueueConfirms(s) \/ QueueBreaks(s)

Next ==
    \/ People
    \/ \E s \in Send : Daemon(s) \/ Proceed(s) \/ Unreachable(s) \/ Lost(s)

Spec == Init /\ [][Next]_vars

\* Node runs what is ready; connecting and every request have a timeout, as has
\* the queue's child process.  The daemon and the people owe nothing.
Timeout(s) == Unreachable(s) \/ (wire[s] = "sent" /\ Lost(s))
FairSpec == Spec /\ \A s \in Send : WF_vars(Proceed(s)) /\ WF_vars(Timeout(s))

------------------------------------------------------------------------------
(* Properties *)

\* The promise of one delivery (OneDelivery): however reads, refusals, the second
\* attempt after a steer that came too late, the fallback to the queue, lost
\* connections and late answers mix, a message is taken at most once, a failure
\* means that it never is, and a success that it was.
Answers == {[key |-> s, text |-> s, answer |-> outcome[s]] :
               s \in {t \in Send : outcome[t] \in {"submitted", "uncertain"}}}
Promise == INSTANCE OneDelivery
    WITH Key <- Send, Text <- Send, NoText <- "none",
         text <- [s \in Send |-> IF probing[s] THEN "none" ELSE s],
         writes <- taken,
         taken <- {s \in Send : taken[s] > 0},
         refused <- {s \in Send : outcome[s] = "failed"},
         told <- Answers
ImplementsOneDelivery == Promise!Spec

\* Whenever a send is about to write its message, for the first time, after a
\* steer that came too late, or to the queue, nobody has taken it yet
\* (sendToTerminalThread; "so the queue fallback can never double-deliver").
AttemptsAreUntaken ==
    \A s \in Send :
        at[s] \in Reads \cup Inputs \cup {"queue"} /\ (at[s] \in Reads \/ wire[s] # "replied")
            => taken[s] = 0

\* Every send ends, although the daemon may stay silent.
EverySendEnds == \A s \in Send : at[s] # "new" ~> at[s] \in Ended

==============================================================================
