----------------------------- MODULE ClaudeInbox -----------------------------
(***************************************************************************)
(* A Claude Code session is found and gets a message: resolveClaudeSession *)
(* and sendToClaude of lib/claude-desktop.mjs; or the one that called the  *)
(* bridge is identified: resolveClaudeCaller.                              *)
(*                                                                         *)
(* The registry is a directory that the Claude processes keep: a record    *)
(* and a key file per process id.  It is read file by file, while          *)
(* processes start, end and change their conversation.  The session is     *)
(* resolved before the message is recorded, and again once the socket is   *)
(* connected; that second time nothing else of the bridge's process runs   *)
(* between two reads, while the other processes go on.                     *)
(***************************************************************************)
EXTENDS Naturals, FiniteSets

CONSTANTS
    Pid,        \* process ids, each with its own inbox socket
    Session,    \* conversations
    Chosen,     \* the one the message is for
    Parent,     \* the process id of the bridge's parent (process.ppid)
    MaxLives    \* how many processes are started (a bound on runs)

ASSUME ChosenAssumption == Chosen \in Session /\ Parent \in Pid
ASSUME MaxLivesAssumption == MaxLives \in Nat

\* A process that was started is a number, as its start time tells it from others.
Life == 0..MaxLives

VARIABLES
    lives,      \* how many processes were started
    life,       \* life[p]: the process that runs under the id, 0 if none
    conv,       \* conv[p]: its conversation
    record,     \* record[p]: <p>.json, its life 0 if there is none
    key,        \* key[p]: the process whose key file lies there, 0 if none
    phase,      \* where the call is
    caller,     \* the call identifies the caller, and sends nothing
    sought,     \* the conversation that is resolved
    scanned,    \* the ids whose record the scan has read
    found,      \* the records it found for the sought session
    token,      \* the process whose key was read last
    endpoint,   \* what the first resolution found, its life 0 before; or the parent's record
    peer,       \* the process at the other end of the connection, 0 if none
    written,    \* writeAttempted
    flushed,    \* the payload is out of the bridge's process
    finished,   \* writeFinished: "finish" was emitted
    ended,      \* "end" was emitted: the inbox closed its side
    takenIn,    \* the conversations that took the message
    late,       \* the receiver changed its conversation after the last check
    outcome     \* rejected before it was recorded, what the send reports, or identified

registry == <<lives, life, conv, record, key>>
asking == <<caller, sought>>
sending == <<asking, phase, scanned, found, token, endpoint, peer, written, flushed, finished, ended, outcome>>
vars == <<registry, sending, takenIn, late>>

Found == [pid : Pid, life : Life]

TypeOK ==
    /\ lives \in Life
    /\ life \in [Pid -> Life] /\ key \in [Pid -> Life]
    /\ conv \in [Pid -> Session]
    /\ record \in [Pid -> [life : Life, conv : Session]]
    /\ phase \in {"new", "scan", "probe", "key", "reread", "ready", "connect", "write", "wait", "done"}
    /\ scanned \subseteq Pid /\ found \subseteq Found
    /\ token \in Life /\ endpoint \in Found /\ peer \in Life
    /\ {caller, written, flushed, finished, ended, late} \subseteq BOOLEAN
    /\ sought \in Session
    /\ takenIn \subseteq Session
    /\ outcome \in {"none", "rejected", "written", "failed", "uncertain", "identified"}
    /\ outcome # "none" <=> phase = "done"

Init ==
    /\ lives = 0
    /\ life = [p \in Pid |-> 0] /\ key = [p \in Pid |-> 0]
    /\ conv = [p \in Pid |-> Chosen]
    /\ record = [p \in Pid |-> [life |-> 0, conv |-> Chosen]]
    /\ phase = "new"
    /\ caller = FALSE /\ sought = Chosen
    /\ scanned = {} /\ found = {}
    /\ token = 0 /\ peer = 0
    /\ endpoint = [pid |-> Parent, life |-> 0]
    /\ written = FALSE /\ flushed = FALSE /\ finished = FALSE
    /\ ended = FALSE /\ late = FALSE
    /\ takenIn = {}
    /\ outcome = "none"

------------------------------------------------------------------------------
(* Claude Code *)

Start(p) ==
    /\ life[p] = 0 /\ lives < MaxLives
    /\ lives' = lives + 1
    /\ life' = [life EXCEPT ![p] = lives']
    /\ \E s \in Session : conv' = [conv EXCEPT ![p] = s]
    /\ UNCHANGED <<record, key, sending, takenIn, late>>

WriteKey(p) ==
    /\ life[p] # 0 /\ key[p] # life[p]
    /\ key' = [key EXCEPT ![p] = life[p]]
    /\ UNCHANGED <<lives, life, conv, record, sending, takenIn, late>>

WriteRecord(p) ==
    /\ life[p] # 0 /\ record[p].life # life[p]
    /\ record' = [record EXCEPT ![p] = [life |-> life[p], conv |-> conv[p]]]
    /\ UNCHANGED <<lives, life, conv, key, sending, takenIn, late>>

\* /clear and /resume: another conversation in the same process, with the same
\* socket and key.  Its record is taken to change with it, in one step.
Switch(p) ==
    /\ record[p].life = life[p] /\ life[p] # 0
    /\ \E s \in Session \ {conv[p]} :
          /\ conv' = [conv EXCEPT ![p] = s]
          /\ record' = [record EXCEPT ![p].conv = s]
    /\ late' = (late \/ phase \in {"write", "wait", "done"})
    /\ UNCHANGED <<lives, life, key, sending, takenIn>>

\* The process ends and takes its files with it, or leaves them.
Exit(p) ==
    /\ life[p] # 0
    /\ life' = [life EXCEPT ![p] = 0]
    /\ \/ UNCHANGED <<record, key>>
       \/ /\ record' = [record EXCEPT ![p].life = 0]
          /\ key' = [key EXCEPT ![p] = 0]
    /\ UNCHANGED <<lives, conv, sending, takenIn, late>>

\* The receiver reads what was written to it and takes the message into the
\* conversation it has, if the token in front of it is its own.
Take(p) ==
    /\ written
    /\ life[p] = peer /\ token = peer /\ takenIn = {}
    /\ takenIn' = {conv[p]}
    /\ UNCHANGED <<registry, sending, late>>

Claude == \E p \in Pid :
    Start(p) \/ WriteKey(p) \/ WriteRecord(p) \/ Switch(p) \/ Exit(p) \/ Take(p)

------------------------------------------------------------------------------
(* resolveClaudeSession, the first time, from verifyResolvedSession and from *)
(* resolveClaudeCaller                                                       *)

Verifying == peer # 0
Settle(o) == phase' = "done" /\ outcome' = o
Goto(place) == phase' = place /\ UNCHANGED outcome

\* It throws: before the message is recorded, or before anything is written.
Throw == Settle(IF Verifying THEN "failed" ELSE "rejected")

Resolve ==
    /\ phase = "new"
    /\ Goto("scan")
    /\ UNCHANGED <<registry, asking, scanned, found, token, endpoint, peer, written, flushed, finished, ended, takenIn, late>>

\* There is no registry, or it is no directory.
NoRegistry ==
    /\ phase = "new"
    /\ \E c \in BOOLEAN : caller' = c
    /\ Throw
    /\ UNCHANGED <<registry, sought, scanned, found, token, endpoint, peer, written, flushed, finished, ended, takenIn, late>>

\* resolveClaudeCaller: the record of the bridge's parent names the conversation,
\* which is then resolved like any other.  It is refused if the process or the
\* socket that the bridge inherited is no valid one, or if there is no record of
\* the parent that can be read and names that socket.
Identify ==
    /\ phase = "new"
    /\ caller' = TRUE
    /\ \/ Throw /\ UNCHANGED <<sought, endpoint>>
       \/ /\ record[Parent].life # 0 /\ life[Parent] # 0
          /\ sought' = record[Parent].conv
          /\ endpoint' = [pid |-> Parent, life |-> record[Parent].life]
          /\ Goto("scan")
    /\ UNCHANGED <<registry, scanned, found, token, peer, written, flushed, finished, ended, takenIn, late>>

\* nativeRecords: one file after another; what cannot be read is passed over.
ReadRecord(p) ==
    /\ phase = "scan" /\ p \notin scanned
    /\ scanned' = scanned \cup {p}
    /\ \/ UNCHANGED found
       \/ /\ record[p].life # 0 /\ record[p].conv = sought /\ life[p] # 0
          /\ found' = found \cup {[pid |-> p, life |-> record[p].life]}
    /\ UNCHANGED <<registry, asking, phase, token, endpoint, peer, written, flushed, finished, ended, outcome, takenIn, late>>

\* One process, and only one, must have the session.
Select ==
    /\ phase = "scan" /\ scanned = Pid
    /\ IF Cardinality(found) = 1 THEN Goto("probe") ELSE Throw
    /\ UNCHANGED <<registry, asking, scanned, found, token, endpoint, peer, written, flushed, finished, ended, takenIn, late>>

Candidate == CHOOSE f \in found : TRUE

\* assertClaudeProcessIdentity: the process started when the record says.
Probe ==
    /\ phase = "probe"
    /\ IF life[Candidate.pid] = Candidate.life THEN Goto("key") ELSE Throw
    /\ UNCHANGED <<registry, asking, scanned, found, token, endpoint, peer, written, flushed, finished, ended, takenIn, late>>

\* The key must be of the same process.
ReadKey ==
    /\ phase = "key"
    /\ IF key[Candidate.pid] = Candidate.life
       THEN Goto("reread") /\ token' = key[Candidate.pid]
       ELSE Throw /\ UNCHANGED token
    /\ UNCHANGED <<registry, asking, scanned, found, endpoint, peer, written, flushed, finished, ended, takenIn, late>>

\* A caller must be what its own record said.
Resolved ==
    IF caller
    THEN /\ IF Candidate = endpoint THEN Settle("identified") ELSE Throw
         /\ UNCHANGED endpoint
    ELSE IF Verifying
    THEN /\ IF Candidate = endpoint /\ token = endpoint.life THEN Goto("write") ELSE Throw
         /\ UNCHANGED endpoint
    ELSE Goto("ready") /\ endpoint' = Candidate

\* The record is read again and must be the same, and its id in use.
Reread ==
    /\ phase = "reread"
    /\ LET now == record[Candidate.pid] IN
       IF now.life = Candidate.life /\ now.conv = sought /\ life[Candidate.pid] # 0
       THEN Resolved ELSE Throw /\ UNCHANGED endpoint
    /\ scanned' = {} /\ found' = {}
    /\ UNCHANGED <<registry, asking, token, peer, written, flushed, finished, ended, takenIn, late>>

------------------------------------------------------------------------------
(* sendToClaude *)

\* The message was recorded (executeBridgeTool) and the socket is opened.
Open ==
    /\ phase = "ready"
    /\ Goto("connect")
    /\ UNCHANGED <<registry, asking, scanned, found, token, endpoint, peer, written, flushed, finished, ended, takenIn, late>>

\* Mutant of Connected: the session is not resolved again.
ConnectedTrusting ==
    /\ phase = "connect" /\ life[endpoint.pid] # 0
    /\ peer' = life[endpoint.pid]
    /\ Goto("write")
    /\ UNCHANGED <<registry, asking, scanned, found, token, endpoint, written, flushed, finished, ended, takenIn, late>>

\* Whatever process serves the socket accepts the connection.
Connected ==
    /\ phase = "connect" /\ life[endpoint.pid] # 0
    /\ peer' = life[endpoint.pid]
    /\ Goto("scan")
    /\ UNCHANGED <<registry, asking, scanned, found, token, endpoint, written, flushed, finished, ended, takenIn, late>>

\* socket.end(payload), in the same turn of the event loop as the check.
Write ==
    /\ phase = "write"
    /\ written' = TRUE
    /\ Goto("wait")
    /\ UNCHANGED <<registry, asking, scanned, found, token, endpoint, peer, flushed, finished, ended, takenIn, late>>

Flush ==
    /\ phase = "wait" /\ ~flushed
    /\ flushed' = TRUE
    /\ UNCHANGED <<registry, asking, phase, scanned, found, token, endpoint, peer, written, finished, ended, outcome, takenIn, late>>

\* A success once the payload is out and the inbox has closed its side.
Finish ==
    /\ phase = "wait" /\ flushed /\ ~finished
    /\ finished' = TRUE
    /\ IF ended THEN Settle("written") ELSE UNCHANGED <<phase, outcome>>
    /\ UNCHANGED <<registry, asking, scanned, found, token, endpoint, peer, written, flushed, ended, takenIn, late>>

End ==
    /\ phase = "wait" /\ ~ended
    /\ ended' = TRUE
    /\ IF finished THEN Settle("written") ELSE UNCHANGED <<phase, outcome>>
    /\ UNCHANGED <<registry, asking, scanned, found, token, endpoint, peer, written, flushed, finished, takenIn, late>>

\* Mutants of Break: a written message is reported as failed; the timer is
\* cleared by the connection.
BreakAsFailed ==
    /\ phase \in {"connect", "wait"}
    /\ Settle("failed")
    /\ UNCHANGED <<registry, asking, scanned, found, token, endpoint, peer, written, flushed, finished, ended, takenIn, late>>

BreakUnconnected ==
    /\ phase = "connect"
    /\ Settle("failed")
    /\ UNCHANGED <<registry, asking, scanned, found, token, endpoint, peer, written, flushed, finished, ended, takenIn, late>>

\* The timer, a cancellation, an error of the socket or its close: a failure, or
\* an unknown delivery once writing was attempted.
Break ==
    /\ phase \in {"connect", "wait"}
    /\ Settle(IF written THEN "uncertain" ELSE "failed")
    /\ UNCHANGED <<registry, asking, scanned, found, token, endpoint, peer, written, flushed, finished, ended, takenIn, late>>

Bridge ==
    \/ Resolve \/ NoRegistry \/ Identify \/ (\E p \in Pid : ReadRecord(p)) \/ Select \/ Probe \/ ReadKey \/ Reread
    \/ Open \/ Connected \/ Write \/ Flush \/ Finish \/ End \/ Break

Next == Claude \/ Bridge

Spec == Init /\ [][Next]_vars

\* Synchronous code runs on, and the connection has a timer.  Neither the inbox
\* nor the socket owes anything.
Run == Bridge /\ phase \notin {"new", "connect", "wait"}
FairSpec == Spec /\ WF_vars(Run) /\ WF_vars(Break)

------------------------------------------------------------------------------
(* Properties *)

\* The promise of one delivery (OneDelivery): a success was written out, and a
\* message whose send failed is never taken, however late the receiver reads
\* (finish's deliveryUnknown, against what stays in the socket's buffers).
Promise == INSTANCE OneDelivery
    WITH Key <- {"message"}, Text <- {"message"}, NoText <- "none",
         text <- [k \in {"message"} |->
                     IF phase \in {"connect", "write", "wait"} \/ Verifying
                        \/ outcome \in {"written", "failed", "uncertain"}
                     THEN "message" ELSE "none"],
         writes <- [k \in {"message"} |-> IF flushed \/ takenIn # {} THEN 1 ELSE 0],
         taken <- IF takenIn # {} THEN {"message"} ELSE {},
         refused <- IF outcome = "failed" THEN {"message"} ELSE {},
         told <- {[key |-> "message", text |-> "message", answer |-> a] :
                     a \in (IF outcome = "written" THEN {"submitted"} ELSE {})
                           \cup (IF outcome = "uncertain" THEN {"uncertain"} ELSE {})}
ImplementsOneDelivery == Promise!Spec

\* The token and the message are written only to the process they were resolved
\* for, though processes end and start under its id between the reads, the
\* connection and the check (resolveClaudeSession, verifyResolvedSession).  Another
\* conversation of it gets the message only by a change after the last check
\* ("this cannot cover a switch after this check").  And the caller is the bridge's
\* parent in the conversation it has, by its own key (resolveClaudeCaller).
OnlyTheRightSession ==
    /\ phase \in {"write", "wait"} => peer = endpoint.life /\ token = peer
    /\ takenIn \subseteq {Chosen} \/ late
    /\ outcome = "identified" =>
           /\ endpoint.pid = Parent /\ token = endpoint.life
           /\ life[Parent] = endpoint.life => conv[Parent] = sought \/ late

\* A call that resolves or identifies a session ends with an outcome.
EverySendEnds == phase # "new" ~> phase = "done"

==============================================================================
