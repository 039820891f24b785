------------------------------ MODULE CodexSend -------------------------------
(***************************************************************************)
(* A message to a Codex task that is not in a terminal: the choice of the  *)
(* route in lib/desktop-service.mjs, the local Desktop pipe of             *)
(* lib/codex-desktop.mjs, and the remote host of lib/codex-ssh.mjs.        *)
(*                                                                         *)
(* The local route reads the registry, asks the endpoints in it one after  *)
(* another, and writes to the first that answers, each request on a        *)
(* connection of its own.  The remote route makes all its requests on one  *)
(* connection.  Only the last request can be taken by the application; it  *)
(* may be taken after the sender has given up.                             *)
(***************************************************************************)
EXTENDS HostRegistry

VARIABLES
    transport,  \* what the caller asks for; "ssh" if the bridge is pinned to it
    at,         \* the step the send is at
    wire,       \* the present request's connection
    file,       \* the registry file the send has looked at, then opened
    hosts,      \* the records read and not yet given up
    verdict,    \* what the application made of the message
    outcome     \* how the send ended

sendVars == <<transport, at, wire, file, hosts, verdict, outcome>>
vars == <<registryVars, sendVars>>

Search == {"catalog", "list"}
Local == {"tools", "post"}
Remote == {"upgrade", "initialize", "read", "start"}
Requests == Search \cup Local \cup Remote
Message == {"post", "start"}

TypeOK ==
    /\ RegistryTypeOK
    /\ transport \in {"auto", "desktop", "terminal", "ssh"}
    /\ at \in {"new", "stat", "open", "verify", "record", "done"} \cup Requests
    /\ wire \in {"quiet", "connecting", "written"}
    /\ file \in 0..MaxPublished
    /\ hosts \in Hosts
    /\ at \in Search \cup Local => hosts # <<>>
    /\ verdict \in {"none", "taken", "refused"}
    /\ outcome \in {"none", "elsewhere", "rejected", "submitted", "failed", "uncertain"}
    /\ at = "done" <=> outcome # "none"

Init ==
    /\ RegistryInit
    /\ transport \in {"auto", "desktop", "terminal", "ssh"}
    /\ at = "new" /\ wire = "quiet"
    /\ file = 0 /\ hosts = <<>>
    /\ verdict = "none" /\ outcome = "none"

------------------------------------------------------------------------------
Goto(place) == at' = place /\ wire' = "quiet" /\ UNCHANGED outcome

\* However the send ends, what it has written of the message stays with the
\* application.
End(o) ==
    /\ at' = "done" /\ outcome' = o
    /\ wire' = IF at \in Message /\ wire = "written" THEN wire ELSE "quiet"

\* resolveTerminalTarget: the daemon's answer decides between the terminal, which
\* is another transport's business (TerminalSend), and the local Desktop.  Only
\* an explicit choice routes a thread that no client has loaded.
Resolve ==
    /\ at = "new"
    /\ \/ transport = "ssh" /\ Goto("record")
       \/ transport = "desktop" /\ Goto("stat")
       \/ /\ transport \in {"auto", "terminal"}
          /\ \E thread \in {"loaded", "notLoaded", "absent", "unavailable", "error"} :
                CASE thread = "loaded" -> End("elsewhere")
                  [] thread \in {"notLoaded", "unavailable"} /\ transport = "terminal" -> End("elsewhere")
                  [] thread \in {"absent", "unavailable"} /\ transport = "auto" -> Goto("stat")
                  [] OTHER -> End("rejected")
    /\ UNCHANGED <<registryVars, transport, file, hosts, verdict>>

\* getCodexHosts: look at the file, open it, read it, look again.  A file that
\* was replaced in between is read again, for a second at most.
Stat ==
    /\ at = "stat"
    /\ file' = Len(published)
    /\ IF published = <<>> THEN End("rejected") ELSE Goto("open")
    /\ UNCHANGED <<registryVars, transport, hosts, verdict>>

Changed == Goto("stat") \/ End("rejected")

Open ==
    /\ at = "open"
    /\ IF Len(published) = file
       THEN Goto("verify") /\ hosts' = registry
       ELSE Changed /\ UNCHANGED hosts
    /\ UNCHANGED <<registryVars, transport, file, verdict>>

Verify ==
    /\ at = "verify"
    /\ IF Len(published) = file
       THEN Goto("catalog") /\ UNCHANGED hosts
       ELSE Changed /\ hosts' = <<>>
    /\ UNCHANGED <<registryVars, transport, file, verdict>>

\* recordMessage reserves the id, or refuses it.
Record ==
    /\ at = "record"
    /\ \/ Goto(IF transport = "ssh" THEN "upgrade" ELSE "tools")
       \/ End("rejected")
    /\ UNCHANGED <<registryVars, transport, file, hosts, verdict>>

------------------------------------------------------------------------------
(* Requests *)

\* A local request opens a connection first; the remote requests share one, from
\* the proxy's start on.
BeginLocal ==
    /\ at \in Search \cup Local /\ wire = "quiet"
    /\ wire' = "connecting"
    /\ UNCHANGED <<registryVars, transport, at, file, hosts, verdict, outcome>>

StartProxy ==
    /\ at = "upgrade" /\ wire = "quiet"
    /\ wire' = "written"
    /\ UNCHANGED <<registryVars, transport, at, file, hosts, verdict, outcome>>

BeginRemote ==
    /\ at \in Remote \ {"upgrade"} /\ wire = "quiet"
    /\ wire' = "written"
    /\ UNCHANGED <<registryVars, transport, at, file, hosts, verdict, outcome>>

\* A local Desktop answers while it runs; the remote host may at any time.
PeerRuns == transport = "ssh" \/ (hosts # <<>> /\ Head(hosts).pipe \in running)

\* The pipe of a Desktop that runs accepts the connection; the request is written.
Connect ==
    /\ wire = "connecting" /\ PeerRuns
    /\ wire' = "written"
    /\ UNCHANGED <<registryVars, transport, at, file, hosts, verdict, outcome>>

Answers == at \in Requests /\ wire = "written" /\ PeerRuns

\* An endpoint answers with its tools and, when it is looked for, with a list.
AnswerLocal ==
    /\ Answers /\ at \in {"catalog", "list", "tools"}
    /\ Goto([catalog |-> "list", list |-> "record", tools |-> "post"][at])
    /\ UNCHANGED <<registryVars, transport, file, hosts, verdict>>

\* The remote host answers the two handshakes,
AnswerHandshake ==
    /\ Answers /\ at \in {"upgrade", "initialize"}
    /\ Goto([upgrade |-> "initialize", initialize |-> "read"][at])
    /\ UNCHANGED <<registryVars, transport, file, hosts, verdict>>

\* and to the read that the thread is idle.
AnswerRead ==
    /\ Answers /\ at = "read"
    /\ Goto("start")
    /\ UNCHANGED <<registryVars, transport, file, hosts, verdict>>

AnswerRemote == AnswerHandshake \/ AnswerRead

\* The application takes the message, or refuses it, when it gets to it, whether
\* the sender still waits or has concluded anything.
Judge ==
    /\ verdict = "none" /\ wire = "written" /\ at \in Message \cup {"done"}
    /\ PeerRuns
    /\ verdict' \in {"taken", "refused"}
    /\ UNCHANGED <<registryVars, transport, at, wire, file, hosts, outcome>>

\* What may come in for the message, besides an error, an unsuccessful result or
\* one that cannot be read: a success, only if it was taken; "Invalid app tool
\* request", from a Desktop that refused it; and from the remote host a request of
\* its own, under an id that may be the same.
Incoming ==
    (IF verdict = "taken" THEN {"success"} ELSE {})
        \cup (IF at = "post" /\ verdict = "refused" THEN {"invalid"} ELSE {})
        \cup (IF at = "start" THEN {"request"} ELSE {})

\* Mutant of Acknowledges: only the id is compared.
AcknowledgesById(kind) == kind \in {"success", "request"}

\* The peer's own requests are not replies, whatever their id.
Acknowledges(kind) == kind = "success"

Delivered ==
    /\ Answers /\ at \in Message
    /\ \E kind \in Incoming : Acknowledges(kind)
    /\ End("submitted")
    /\ UNCHANGED <<registryVars, transport, file, hosts, verdict>>

\* A refusal is a failure only where it proves that nothing was taken.
RefusedLocal ==
    /\ Answers /\ at = "post"
    /\ \/ "invalid" \in Incoming /\ End("failed")
       \/ End("uncertain")
    /\ UNCHANGED <<registryVars, transport, file, hosts, verdict>>

RefusedRemote ==
    /\ Answers /\ at = "start"
    /\ End("uncertain")
    /\ UNCHANGED <<registryVars, transport, file, hosts, verdict>>

\* hostFor goes on to the next record; with none left nothing is sent.
NextHost ==
    /\ hosts' = Tail(hosts)
    /\ IF Len(hosts) > 1 THEN Goto("catalog") ELSE End("rejected")

\* A request of the search ends without a useful answer, or the call is cancelled.
LostSearch ==
    /\ at \in Search
    /\ NextHost \/ (End("rejected") /\ UNCHANGED hosts)
    /\ UNCHANGED <<registryVars, transport, file, verdict>>

\* Mutants of LostLocal: a message that was written is reported as failed; the
\* timer is cleared by the connection.
LostAsFailed ==
    /\ at \in Local
    /\ End("failed")
    /\ UNCHANGED <<registryVars, transport, file, hosts, verdict>>

LostConnecting ==
    /\ at \in Local /\ wire # "written"
    /\ End("failed")
    /\ UNCHANGED <<registryVars, transport, file, hosts, verdict>>

\* A request ends by its timer, a cancellation, an error, a close, or an answer that
\* is of no use, or is not begun: a failure, or unknown once the message was written.
LostLocal ==
    /\ at \in Local
    /\ IF at = "post" /\ wire = "written" THEN End("uncertain") ELSE End("failed")
    /\ UNCHANGED <<registryVars, transport, file, hosts, verdict>>

\* The connection, the proxy or the call ends, or the thread is not idle.
LostRemote ==
    /\ at \in Remote
    /\ IF at = "start" /\ wire = "written" THEN End("uncertain") ELSE End("failed")
    /\ UNCHANGED <<registryVars, transport, file, hosts, verdict>>

Begin == BeginLocal \/ StartProxy \/ BeginRemote
Lost == LostSearch \/ LostLocal \/ LostRemote
Proceed == Resolve \/ Stat \/ Open \/ Verify \/ Record \/ Begin
Peer == Connect \/ AnswerLocal \/ AnswerRemote \/ Judge \/ Delivered \/ RefusedLocal \/ RefusedRemote

Next ==
    \/ RegistryNext /\ UNCHANGED sendVars
    \/ Proceed \/ Peer \/ Lost

Spec == Init /\ [][Next]_vars

\* The process runs on, and every request has a timer: the local ones one each
\* from before they connect, the remote ones together.  Nobody else owes anything.
Fairness == WF_vars(Proceed) /\ WF_vars(Lost)
FairSpec == Spec /\ Fairness

------------------------------------------------------------------------------
(* Properties *)

\* The promise of one delivery (OneDelivery): whatever was read of an endpoint
\* that has gone since, refused, lost or answered late, a success was taken, and
\* what failed was not and never will be, though all that was written may still
\* be taken after the send has ended (request's and SshRpc's deliveryUnknown).
Reserved == at \in Local \cup Remote \/ outcome \in {"submitted", "failed", "uncertain"}
Promise == INSTANCE OneDelivery
    WITH Key <- {"message"}, Text <- {"message"}, NoText <- "none",
         text <- [k \in {"message"} |-> IF Reserved THEN "message" ELSE "none"],
         writes <- [k \in {"message"} |-> IF verdict = "taken" THEN 1 ELSE 0],
         taken <- {k \in {"message"} : verdict = "taken"},
         refused <- {k \in {"message"} : outcome = "failed"},
         told <- {[key |-> "message", text |-> "message", answer |-> a] :
                     a \in {outcome} \cap {"submitted", "uncertain"}}
ImplementsOneDelivery == Promise!Spec

\* A send ends, though endpoints may be gone, busy or silent, and the registry may
\* change whenever it is read.
EverySendEnds == at # "new" ~> at = "done"

==============================================================================
