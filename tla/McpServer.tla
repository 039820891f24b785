------------------------------ MODULE McpServer ------------------------------
(***************************************************************************)
(* runMcpServer of scripts/mcp.mjs: one client's connection over stdio.    *)
(*                                                                         *)
(* Lines are taken as they arrive.  Cancellations, pings and a repeated id *)
(* are dealt with at once; everything else joins a chain of promises and   *)
(* is handled one after another, also while a tool call waits for an       *)
(* application.  Code between two awaits is one step: nothing else of this *)
(* process runs in it.  A request is known by the number of its line,      *)
(* because a client may use an id again.                                   *)
(***************************************************************************)
EXTENDS Naturals, Sequences, SequencesExt

CONSTANTS
    Id,         \* request ids
    NoId,       \* of a message without an id
    MaxLines    \* how many lines the client writes (a bound on runs)

ASSUME NoIdAssumption == NoId \notin Id
ASSUME MaxLinesAssumption == MaxLines \in Nat

\* What a line asks for, as far as handling differs: "now" stands for the
\* requests that are answered at once (the lists, unknown methods and tools,
\* wrong arguments), "slow" for tool calls and the panel's resource.
Method == {"initialize", "now", "slow"}
Job == [line : Nat \ {0}, id : Id \cup {NoId}, method : Method \cup {"initialized"}]
Reply == [line : Nat \ {0}, id : Id, kind : {"result", "error"}]
NoJob == [line |-> 0, id |-> NoId, method |-> "now"]

VARIABLES
    lines,              \* how many lines came in
    ended,              \* the client closed its side
    stopped,            \* stop() ran
    initializeReceived, \* initialize was answered
    initialized,        \* the client's notification was handled
    requests,           \* requests[id]: the line of the outstanding request, or 0
    aborted,            \* the lines whose controller was aborted by a cancellation
    queue,              \* the jobs that wait
    running,            \* the job whose handler waits, or NoJob
    calls,              \* the lines whose executor was called
    replies             \* what was written to the client, in order

vars == <<lines, ended, stopped, initializeReceived, initialized,
          requests, aborted, queue, running, calls, replies>>

TypeOK ==
    /\ lines \in 0..MaxLines
    /\ {ended, stopped, initializeReceived, initialized} \subseteq BOOLEAN
    /\ requests \in [Id -> 0..MaxLines]
    /\ aborted \subseteq 1..MaxLines
    /\ queue \in Seq(Job)
    /\ running \in Job \cup {NoJob}
    /\ calls \subseteq 1..MaxLines
    /\ replies \in Seq(Reply)

Init ==
    /\ lines = 0
    /\ ended = FALSE /\ stopped = FALSE
    /\ initializeReceived = FALSE /\ initialized = FALSE
    /\ requests = [id \in Id |-> 0]
    /\ aborted = {}
    /\ queue = <<>> /\ running = NoJob
    /\ calls = {}
    /\ replies = <<>>

------------------------------------------------------------------------------
(* Lines (onData, enqueue) *)

Read ==
    /\ ~ended /\ ~stopped /\ lines < MaxLines
    /\ lines' = lines + 1

Write(line, id, kind) == replies' = Append(replies, [line |-> line, id |-> id, kind |-> kind])

\* Mutant of Duplicate: a repeated id takes the request's place.
DuplicateReplaces(id) ==
    /\ Read
    /\ requests[id] # 0
    /\ requests' = [requests EXCEPT ![id] = lines']
    /\ queue' = Append(queue, [line |-> lines', id |-> id, method |-> "now"])
    /\ UNCHANGED <<ended, stopped, initializeReceived, initialized, aborted, running, calls, replies>>

\* A request whose id is outstanding is refused, whatever it asks.
Duplicate(id) ==
    /\ Read
    /\ requests[id] # 0
    /\ Write(lines', id, "error")
    /\ UNCHANGED <<ended, stopped, initializeReceived, initialized, requests, aborted, queue, running, calls>>

Ping(id) ==
    /\ Read
    /\ requests[id] = 0
    /\ Write(lines', id, "result")
    /\ UNCHANGED <<ended, stopped, initializeReceived, initialized, requests, aborted, queue, running, calls>>

Accept(id, method) ==
    /\ Read
    /\ requests[id] = 0
    /\ requests' = [requests EXCEPT ![id] = lines']
    /\ queue' = Append(queue, [line |-> lines', id |-> id, method |-> method])
    /\ UNCHANGED <<ended, stopped, initializeReceived, initialized, aborted, running, calls, replies>>

Notify ==
    /\ Read
    /\ queue' = Append(queue, [line |-> lines', id |-> NoId, method |-> "initialized"])
    /\ UNCHANGED <<ended, stopped, initializeReceived, initialized, requests, aborted, running, calls, replies>>

\* An id is cancellable while its request is outstanding, unless it is initialize.
Cancellable(id) ==
    \E job \in Range(queue) \cup {running} :
        requests[id] # 0 /\ job.line = requests[id] /\ job.method # "initialize"

\* Only an outstanding request can be cancelled, and never initialize.  Its id
\* stays taken until its turn in the queue.
Cancel(id) ==
    /\ Read
    /\ aborted' = IF Cancellable(id) THEN aborted \cup {requests[id]} ELSE aborted
    /\ UNCHANGED <<ended, stopped, initializeReceived, initialized, requests, queue, running, calls, replies>>

------------------------------------------------------------------------------
(* The queue (handle) *)

\* Mutant of Release: the finally block frees the id only of an answered request.
ReleaseAnswered(job) ==
    requests' = IF job.id # NoId /\ job.line \notin aborted
                THEN [requests EXCEPT ![job.id] = 0] ELSE requests

\* complete() and the finally block.
Release(job) ==
    requests' = IF job.id # NoId /\ requests[job.id] = job.line
                THEN [requests EXCEPT ![job.id] = 0] ELSE requests

Turn == running = NoJob /\ queue # <<>>
Cancelled(job) == stopped \/ job.line \in aborted

\* A request that was cancelled while it waited is dropped unread.
Drop ==
    /\ Turn /\ Cancelled(Head(queue))
    /\ queue' = Tail(queue)
    /\ Release(Head(queue))
    /\ UNCHANGED <<lines, ended, stopped, initializeReceived, initialized, aborted, running, calls, replies>>

\* The client's notification counts only after its initialize.
Initialized ==
    /\ Turn /\ ~Cancelled(Head(queue)) /\ Head(queue).method = "initialized"
    /\ queue' = Tail(queue)
    /\ initialized' = (initialized \/ initializeReceived)
    /\ UNCHANGED <<lines, ended, stopped, initializeReceived, requests, aborted, running, calls, replies>>

\* initialize waits for the host registry's module and may be refused.
\* Everything but initialize is refused until the handshake is over.
Handle ==
    /\ Turn /\ ~Cancelled(Head(queue))
    /\ LET job == Head(queue) IN
       /\ job.method # "initialized"
       /\ queue' = Tail(queue)
       /\ \/ /\ job.method = "initialize" /\ ~initializeReceived
             /\ running' = job
             /\ UNCHANGED <<requests, calls, replies>>
          \/ /\ job.method = "slow" /\ initialized
             /\ running' = job
             /\ calls' = calls \cup {job.line}
             /\ UNCHANGED <<requests, replies>>
          \/ /\ \/ job.method = "initialize"
                \/ job.method # "initialize" /\ ~initialized
                \/ job.method = "now"
             /\ \E kind \in {"result", "error"} :
                   /\ kind = "result" => job.method = "now" /\ initialized
                   /\ Write(job.line, job.id, kind)
             /\ Release(job)
             /\ UNCHANGED <<running, calls>>
    /\ UNCHANGED <<lines, ended, stopped, initializeReceived, initialized, aborted>>

\* Mutant of Finish: the answer is written whatever the signal says.
FinishAnswering ==
    /\ running # NoJob
    /\ running' = NoJob
    /\ Release(running)
    /\ initializeReceived' = (initializeReceived \/ running.method = "initialize")
    /\ IF stopped THEN UNCHANGED replies ELSE Write(running.line, running.id, "error")
    /\ UNCHANGED <<lines, ended, stopped, initialized, aborted, queue, calls>>

\* The handler goes on after its await and ends: it answers, unless the request
\* was cancelled meanwhile or the connection is gone.
Finish ==
    /\ running # NoJob
    /\ running' = NoJob
    /\ Release(running)
    /\ \E kind \in {"result", "error"} :
          /\ initializeReceived' = (initializeReceived \/ (running.method = "initialize" /\ kind = "result"))
          /\ IF Cancelled(running) THEN UNCHANGED replies ELSE Write(running.line, running.id, kind)
    /\ UNCHANGED <<lines, ended, stopped, initialized, aborted, queue, calls>>

------------------------------------------------------------------------------
(* The end *)

\* onEnd: nothing more comes in; what is queued is still handled.
End ==
    /\ ~ended /\ ~stopped
    /\ ended' = TRUE
    /\ UNCHANGED <<lines, stopped, initializeReceived, initialized, requests, aborted, queue, running, calls, replies>>

StopNow ==
    /\ stopped' = TRUE
    /\ requests' = [id \in Id |-> 0]
    /\ UNCHANGED <<lines, ended, initializeReceived, initialized, aborted, queue, running, calls, replies>>

\* queue.finally(stop)
StopAtEnd == ended /\ ~stopped /\ running = NoJob /\ queue = <<>> /\ StopNow

\* A signal, a stream error, or a line beyond the size limit.
Break == ~stopped /\ StopNow

Client ==
    \/ \E id \in Id : Duplicate(id) \/ Ping(id) \/ Cancel(id)
    \/ \E id \in Id, method \in Method : Accept(id, method)
    \/ Notify \/ End

Server == Drop \/ Initialized \/ Handle \/ Finish \/ StopAtEnd

Next == Client \/ Server \/ Break

Spec == Init /\ [][Next]_vars

\* The process runs its promises, and every tool call ends: each transport has
\* a timeout.  The client owes nothing.
FairSpec == Spec /\ WF_vars(Server)

------------------------------------------------------------------------------
(* Properties *)

Answered(line) == \E i \in DOMAIN replies : replies[i].line = line
Outstanding(line) == \E id \in Id : requests[id] = line
Pending == Range(queue) \cup ({running} \ {NoJob})

\* Whatever the client repeats, cancels or reuses, a line is answered once at
\* most, and never if its request was cancelled in time, neither from the queue
\* nor by the tool call that was running (respond, fail).
OneReplyEach ==
    /\ \A i, j \in DOMAIN replies : replies[i].line = replies[j].line => i = j
    /\ \A line \in aborted : ~Answered(line)

\* While the connection lives, the outstanding requests are exactly those that
\* wait or run: no id is taken for a request that is gone, and no two requests
\* in the queue have the same id (the requests map against the promise chain).
OutstandingIsPending ==
    ~stopped => \A id \in Id :
        {job.line : job \in {j \in Pending : j.id = id}} =
        IF requests[id] = 0 THEN {} ELSE {requests[id]}

\* Every request is answered, or cancelled, or the connection ends; in each case
\* its id becomes free.  An input that ends stops the server, but only when the
\* requests that came before it are settled (queue.finally(stop)).
EveryRequestSettles ==
    /\ \A line \in 1..MaxLines :
          Outstanding(line) ~>
              ~Outstanding(line) /\ (Answered(line) \/ line \in aborted \/ stopped)
    /\ ended ~> stopped
    /\ [][StopAtEnd => \A id \in Id : requests[id] = 0]_vars

==============================================================================
