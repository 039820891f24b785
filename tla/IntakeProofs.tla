---------------------------- MODULE IntakeProofs ----------------------------
(***************************************************************************)
(* Proofs about what comes in: that the requests of one client are         *)
(* answered, for any number of lines and any set of ids, and that bytes    *)
(* become messages, for all frames, payloads, bounds and chunks.           *)
(***************************************************************************)
EXTENDS McpServer, Framing, SequenceTheorems, TLAPS

(***************************************************************************)
(* The connection of one client                                            *)
(***************************************************************************)

Ordered(q) == \A i, j \in 1..Len(q) : i < j => q[i].line < q[j].line

\* Jobs keep the order of their lines, the one that runs is before those that
\* wait, and only the client's notification has no id.
JobsAreInOrder ==
    /\ Ordered(queue)
    /\ \A job \in Pending :
          /\ job \in Job /\ job.line <= lines
          /\ job.id = NoId <=> job.method = "initialized"
    /\ running # NoJob =>
          /\ running.method # "initialized"
          /\ \A job \in Range(queue) : running.line < job.line

\* The requests map and the promise chain agree while the connection lives; after
\* it nothing is outstanding.
RequestsAreJobs ==
    /\ ~stopped => \A job \in Pending : job.id # NoId => requests[job.id] = job.line
    /\ \A id \in Id : requests[id] # 0 => \E job \in Pending : job.id = id /\ job.line = requests[id]

\* No line is answered twice, and none that still waits or runs, or was aborted,
\* is answered at all.
RepliesAreOver ==
    /\ aborted \subseteq 1..lines
    /\ \A i \in DOMAIN replies :
          /\ replies[i].line \in 1..lines
          /\ replies[i].line \notin aborted
          /\ \A job \in Pending : replies[i].line # job.line
    /\ \A i, j \in DOMAIN replies : replies[i].line = replies[j].line => i = j

ServerInv == JobsAreInOrder /\ RequestsAreJobs /\ RepliesAreOver

------------------------------------------------------------------------------
(* The queue and the replies as sequences *)

LEMMA HeadAndTail ==
  ASSUME NEW q \in Seq(Job), q # <<>>, Ordered(q)
  PROVE  /\ Head(q) \in Job /\ Tail(q) \in Seq(Job) /\ Ordered(Tail(q))
         /\ Range(q) = {Head(q)} \cup Range(Tail(q))
         /\ \A job \in Range(Tail(q)) : Head(q).line < job.line
<1>1. /\ Len(q) \in Nat /\ Len(q) > 0 /\ DOMAIN q = 1..Len(q)
      /\ Head(q) = q[1] /\ Head(q) \in Job
      /\ Tail(q) \in Seq(Job) /\ Len(Tail(q)) = Len(q) - 1 /\ DOMAIN Tail(q) = 1..(Len(q) - 1)
      /\ \A i \in 1..(Len(q) - 1) : Tail(q)[i] = q[i + 1]
  OBVIOUS
<1>2. Ordered(Tail(q))
  BY <1>1 DEF Ordered
<1>3. \A i \in 1..Len(q) : q[i] \in {Head(q)} \cup Range(Tail(q))
  <2> SUFFICES ASSUME NEW i \in 1..Len(q), i # 1 PROVE q[i] \in Range(Tail(q))
    BY <1>1
  <2>1. i - 1 \in 1..(Len(q) - 1) /\ q[i] = Tail(q)[i - 1]
    BY <1>1
  <2> QED BY <1>1, <2>1 DEF Range
<1>4. \A job \in Range(Tail(q)) : job \in Range(q) /\ Head(q).line < job.line
  <2> SUFFICES ASSUME NEW i \in 1..(Len(q) - 1)
               PROVE  Tail(q)[i] \in Range(q) /\ Head(q).line < Tail(q)[i].line
    BY <1>1 DEF Range
  <2>1. Tail(q)[i] = q[i + 1] /\ i + 1 \in 1..Len(q) /\ 1 \in 1..Len(q) /\ 1 < i + 1
    BY <1>1
  <2> QED BY <1>1, <2>1 DEF Range, Ordered
<1>5. Head(q) \in Range(q)
  BY <1>1 DEF Range
<1> QED
  BY <1>1, <1>2, <1>3, <1>4, <1>5 DEF Range

LEMMA AppendLast ==
  ASSUME NEW q \in Seq(Job), NEW job \in Job, Ordered(q),
         \A other \in Range(q) : other.line < job.line
  PROVE  /\ Append(q, job) \in Seq(Job) /\ Ordered(Append(q, job))
         /\ Range(Append(q, job)) = Range(q) \cup {job}
<1>1. /\ Len(q) \in Nat /\ DOMAIN q = 1..Len(q)
      /\ Append(q, job) \in Seq(Job) /\ Len(Append(q, job)) = Len(q) + 1
      /\ DOMAIN Append(q, job) = 1..(Len(q) + 1)
      /\ \A i \in 1..Len(q) : Append(q, job)[i] = q[i]
      /\ Append(q, job)[Len(q) + 1] = job
  OBVIOUS
<1>2. Ordered(Append(q, job))
  <2> SUFFICES ASSUME NEW i \in 1..(Len(q) + 1), NEW j \in 1..(Len(q) + 1), i < j
               PROVE  Append(q, job)[i].line < Append(q, job)[j].line
    BY <1>1 DEF Ordered
  <2>1. i \in 1..Len(q) /\ Append(q, job)[i] = q[i] /\ q[i] \in Range(q)
    BY <1>1 DEF Range
  <2>2. CASE j = Len(q) + 1
    BY <1>1, <2>1, <2>2
  <2>3. CASE j # Len(q) + 1
    BY <1>1, <2>1, <2>3 DEF Ordered
  <2> QED BY <2>2, <2>3
<1>3. Range(Append(q, job)) = Range(q) \cup {job}
  <2>1. \A i \in 1..(Len(q) + 1) : Append(q, job)[i] \in Range(q) \cup {job}
    BY <1>1 DEF Range
  <2>2. \A i \in 1..Len(q) : q[i] \in Range(Append(q, job))
    BY <1>1 DEF Range
  <2>3. job \in Range(Append(q, job))
    BY <1>1 DEF Range
  <2> QED BY <1>1, <2>1, <2>2, <2>3 DEF Range
<1> QED
  BY <1>1, <1>2, <1>3

------------------------------------------------------------------------------
(* What a line and a turn of the queue do *)

\* A line that came in may join the queue as a job that is later than all others.
LEMMA JoinKeepsOrder ==
  ASSUME TypeOK, JobsAreInOrder, Read, NEW id \in Id \cup {NoId}, NEW method \in Method \cup {"initialized"},
         id = NoId <=> method = "initialized",
         queue' = Append(queue, [line |-> lines', id |-> id, method |-> method]),
         UNCHANGED running
  PROVE  /\ JobsAreInOrder' /\ queue' \in Seq(Job)
         /\ Pending' = Pending \cup {[line |-> lines', id |-> id, method |-> method]}
<1> DEFINE job == [line |-> lines', id |-> id, method |-> method]
<1>1. lines \in Nat /\ lines' = lines + 1 /\ lines' \in Nat \ {0}
  BY MaxLinesAssumption DEF TypeOK, Read
<1>2. job \in Job /\ job.line = lines' /\ job.id = id /\ job.method = method
  BY <1>1 DEF Job
<1>3. \A other \in Range(queue) : other \in Job /\ other.line <= lines
  BY DEF JobsAreInOrder, Pending
<1>4. \A other \in Range(queue) : other.line \in Nat /\ other.line < job.line
  BY <1>1, <1>2, <1>3 DEF Job
<1> HIDE DEF job
<1>5. Append(queue, job) \in Seq(Job) /\ Ordered(Append(queue, job))
      /\ Range(Append(queue, job)) = Range(queue) \cup {job}
  BY <1>2, <1>4, AppendLast DEF TypeOK, JobsAreInOrder
<1>6. queue' = Append(queue, job)
  BY DEF job
<1>7. Pending' = Pending \cup {job}
  BY <1>5, <1>6 DEF Pending
<1>8. \A other \in Pending : other.line \in Nat /\ other.line <= lines'
  BY <1>1 DEF JobsAreInOrder, Job
<1>9. running # NoJob => running.line < job.line
  <2> SUFFICES ASSUME running # NoJob PROVE running.line < job.line
    OBVIOUS
  <2>1. running \in Pending
    BY DEF Pending
  <2>2. running \in Job /\ running.line <= lines
    BY <2>1 DEF JobsAreInOrder
  <2> QED BY <1>1, <1>2, <2>2 DEF Job
<1>10. JobsAreInOrder'
  BY <1>1, <1>2, <1>5, <1>6, <1>7, <1>8, <1>9 DEF JobsAreInOrder
<1> QED
  BY <1>5, <1>6, <1>7, <1>10 DEF job

\* The first job leaves the queue, to run or to be over.
LEMMA TurnKeepsOrder ==
  ASSUME TypeOK, JobsAreInOrder, Turn, queue' = Tail(queue), UNCHANGED lines,
         \/ running' = NoJob
         \/ running' = Head(queue) /\ Head(queue).method # "initialized"
  PROVE  /\ JobsAreInOrder' /\ queue' \in Seq(Job) /\ Head(queue) \in Pending /\ Head(queue) \in Job
         /\ Head(queue).line \in 1..lines
         /\ running' = NoJob => Pending' = Pending \ {Head(queue)}
         /\ running' = Head(queue) => Pending' = Pending
         /\ \A job \in Pending \ {Head(queue)} : job.line # Head(queue).line
<1>1. queue \in Seq(Job) /\ queue # <<>> /\ Ordered(queue) /\ running = NoJob
  BY DEF TypeOK, JobsAreInOrder, Turn
<1>2. /\ Head(queue) \in Job /\ Tail(queue) \in Seq(Job) /\ Ordered(Tail(queue))
      /\ Range(queue) = {Head(queue)} \cup Range(Tail(queue))
      /\ \A job \in Range(Tail(queue)) : Head(queue).line < job.line
  BY <1>1, HeadAndTail
<1>3. Pending = Range(queue) /\ NoJob \notin Job
  BY <1>1 DEF Pending, NoJob, Job
<1>4. \A job \in Pending : job.line \in Nat \ {0} /\ job.line <= lines
  BY DEF JobsAreInOrder, Job
<1>5. lines \in Nat
  BY MaxLinesAssumption DEF TypeOK
<1>6. Head(queue) \in Pending /\ Head(queue).line \in 1..lines
  BY <1>2, <1>3, <1>4, <1>5
<1>7. \A job \in Range(Tail(queue)) : job \in Pending /\ job.line # Head(queue).line
  BY <1>2, <1>3, <1>4
<1>8. Pending' = IF running' = NoJob THEN Pending \ {Head(queue)} ELSE Pending
  BY <1>2, <1>3, <1>7 DEF Pending
<1>9. \A job \in Pending \ {Head(queue)} : job.line # Head(queue).line
  BY <1>2, <1>3, <1>7
<1>10. JobsAreInOrder'
  BY <1>2, <1>3, <1>8 DEF JobsAreInOrder
<1> QED
  BY <1>2, <1>3, <1>6, <1>8, <1>9, <1>10

\* The running job is over.
LEMMA FinishKeepsOrder ==
  ASSUME TypeOK, JobsAreInOrder, running # NoJob, running' = NoJob, UNCHANGED <<queue, lines>>
  PROVE  /\ JobsAreInOrder' /\ running \in Pending /\ running \in Job /\ running.line \in 1..lines
         /\ Pending' = Pending \ {running}
         /\ \A job \in Pending \ {running} : job.line # running.line
<1>1. running \in Pending /\ running \in Job /\ running.line \in Nat \ {0} /\ lines \in Nat
  BY MaxLinesAssumption DEF Pending, TypeOK, Job
<1>2. running.line \in 1..lines
  BY <1>1 DEF JobsAreInOrder
<1>3. \A job \in Range(queue) : job \in Job /\ running.line < job.line
  BY DEF JobsAreInOrder, Pending
<1>4. \A job \in Range(queue) : job.line # running.line
  BY <1>1, <1>3 DEF Job
<1>5. Pending' = Range(queue) /\ Pending = Range(queue) \cup {running}
  BY DEF Pending
<1>6. running \notin Range(queue)
  BY <1>4
<1> QED
  BY <1>1, <1>2, <1>4, <1>5, <1>6 DEF JobsAreInOrder

------------------------------------------------------------------------------
(* What becomes of the requests map and of the replies *)

\* The id of a job that is over is free again, and no other is.
LEMMA ReleaseKeepsMap ==
  ASSUME TypeOK, JobsAreInOrder, RequestsAreJobs, NEW job \in Pending, Release(job),
         Pending' = Pending \ {job}, UNCHANGED stopped,
         \A other \in Pending \ {job} : other.line # job.line
  PROVE  RequestsAreJobs' /\ requests' \in [Id -> 0..MaxLines]
<1>1. requests' \in [Id -> 0..MaxLines]
      /\ \A id \in Id : requests'[id] = IF id = job.id /\ requests[id] = job.line THEN 0 ELSE requests[id]
  <2>1. job.id # NoId => job.id \in Id
    BY DEF JobsAreInOrder, Job
  <2>2. CASE job.id # NoId /\ requests[job.id] = job.line
    BY <2>1, <2>2, MaxLinesAssumption DEF Release, TypeOK
  <2>3. CASE ~(job.id # NoId /\ requests[job.id] = job.line)
    BY <2>3, NoIdAssumption DEF Release, TypeOK
  <2> QED BY <2>2, <2>3
<1>2. ASSUME ~stopped', NEW other \in Pending', other.id # NoId, other \in Job
      PROVE  requests'[other.id] = other.line
  <2>1. other \in Pending /\ other.line # job.line /\ other.id \in Id
    BY <1>2 DEF Job
  <2>2. requests[other.id] = other.line
    BY <1>2, <2>1 DEF RequestsAreJobs
  <2> QED BY <1>1, <2>1, <2>2
<1>3. ASSUME NEW id \in Id, requests'[id] # 0
      PROVE  \E other \in Pending' : other.id = id /\ other.line = requests'[id]
  BY <1>1, <1>3 DEF RequestsAreJobs
<1>4. \A other \in Pending' : other \in Job
  BY DEF JobsAreInOrder
<1> QED
  BY <1>1, <1>2, <1>3, <1>4 DEF RequestsAreJobs

\* A new job has an id that was free.
LEMMA AcceptKeepsMap ==
  ASSUME TypeOK, JobsAreInOrder, RequestsAreJobs, NEW id \in Id, requests[id] = 0,
         lines' = lines + 1, lines' \in 1..MaxLines, UNCHANGED stopped,
         requests' = [requests EXCEPT ![id] = lines'],
         NEW job \in Job, job.id = id, job.line = lines', Pending' = Pending \cup {job}
  PROVE  RequestsAreJobs' /\ requests' \in [Id -> 0..MaxLines]
<1>1. requests' \in [Id -> 0..MaxLines] /\ lines' # 0
      /\ \A i \in Id : requests'[i] = IF i = id THEN lines' ELSE requests[i]
  BY DEF TypeOK
<1>2. \A other \in Pending : other \in Job
  BY DEF JobsAreInOrder
<1>3. ASSUME ~stopped', NEW other \in Pending', other.id # NoId
      PROVE  requests'[other.id] = other.line
  <2>1. CASE other = job
    BY <1>1, <2>1
  <2>2. CASE other # job
    <3>1. other \in Pending /\ other \in Job /\ requests[other.id] = other.line
      BY <1>2, <1>3, <2>2 DEF RequestsAreJobs
    <3>2. other.id \in Id /\ other.line # 0
      BY <1>3, <3>1 DEF Job
    <3> QED BY <1>1, <3>1, <3>2
  <2> QED BY <2>1, <2>2
<1>4. ASSUME NEW i \in Id, requests'[i] # 0
      PROVE  \E other \in Pending' : other.id = i /\ other.line = requests'[i]
  BY <1>1, <1>4 DEF RequestsAreJobs
<1> QED
  BY <1>1, <1>3, <1>4 DEF RequestsAreJobs

\* A line may be answered if it was not yet, was not aborted, and does not wait.
LEMMA WriteKeepsReplies ==
  ASSUME TypeOK, RepliesAreOver, NEW line \in 1..lines', NEW id \in Id, NEW kind \in {"result", "error"},
         Write(line, id, kind), lines \in Nat, lines' \in Nat, lines <= lines', UNCHANGED aborted,
         line \notin aborted, ~Answered(line),
         \A job \in Pending' : job.line # line,
         \A job \in Pending' : job \in Pending \/ job.line > lines
  PROVE  RepliesAreOver' /\ replies' \in Seq(Reply)
<1> DEFINE reply == [line |-> line, id |-> id, kind |-> kind]
<1>1. reply \in Reply /\ reply.line = line
  BY DEF Reply
<1> HIDE DEF reply
<1>2. /\ replies' \in Seq(Reply) /\ Len(replies) \in Nat
      /\ DOMAIN replies = 1..Len(replies) /\ DOMAIN replies' = 1..(Len(replies) + 1)
      /\ \A i \in 1..Len(replies) : replies'[i] = replies[i]
      /\ replies'[Len(replies) + 1] = reply
  <2>1. replies' = Append(replies, reply) /\ replies \in Seq(Reply)
    BY DEF reply, Write, TypeOK
  <2> QED BY <1>1, <2>1
<1>3. \A i \in 1..Len(replies) : replies[i].line \in 1..lines /\ replies[i].line # line
  BY <1>2 DEF RepliesAreOver, Answered
<1>4. aborted' \subseteq 1..lines'
  BY DEF RepliesAreOver
<1>5. ASSUME NEW i \in DOMAIN replies'
      PROVE  /\ replies'[i].line \in 1..lines' /\ replies'[i].line \notin aborted'
             /\ \A job \in Pending' : replies'[i].line # job.line
  <2>1. CASE i = Len(replies) + 1
    BY <1>1, <1>2, <2>1
  <2>2. CASE i # Len(replies) + 1
    <3>1. i \in 1..Len(replies) /\ replies'[i] = replies[i]
      BY <1>2, <2>2
    <3> QED BY <1>2, <1>3, <3>1 DEF RepliesAreOver
  <2> QED BY <2>1, <2>2
<1>6. ASSUME NEW i \in DOMAIN replies', NEW j \in DOMAIN replies', replies'[i].line = replies'[j].line
      PROVE  i = j
  BY <1>1, <1>2, <1>3, <1>6 DEF RepliesAreOver
<1> QED
  BY <1>2, <1>4, <1>5, <1>6 DEF RepliesAreOver

\* Nothing is answered: the jobs may change, if no answered line waits again.
LEMMA SilenceKeepsReplies ==
  ASSUME RepliesAreOver, UNCHANGED <<replies, aborted>>, lines \in Nat, lines' \in Nat, lines <= lines',
         \A job \in Pending' : job \in Pending \/ job.line > lines
  PROVE  RepliesAreOver'
<1>1. \A i \in DOMAIN replies : replies[i].line \in 1..lines
  BY DEF RepliesAreOver
<1>2. \A i \in DOMAIN replies : \A job \in Pending' : replies[i].line # job.line
  BY <1>1 DEF RepliesAreOver
<1>3. aborted' \subseteq 1..lines'
  BY DEF RepliesAreOver
<1> QED
  BY <1>1, <1>2, <1>3 DEF RepliesAreOver

------------------------------------------------------------------------------
(* One step for each action *)

IInv == TypeOK /\ ServerInv

LEMMA LineStep ==
  ASSUME IInv, Client
  PROVE  IInv'
<1> USE DEF IInv, ServerInv
<1>1. lines \in Nat /\ NoJob \notin Job
  BY MaxLinesAssumption DEF TypeOK, NoJob, Job
<1>2. ASSUME Read PROVE lines' \in Nat /\ lines' = lines + 1 /\ lines' \in 1..MaxLines
                        /\ lines' \notin aborted /\ ~Answered(lines')
                        /\ \A job \in Pending : job.line # lines'
  <2>1. lines' \in Nat /\ lines' = lines + 1 /\ lines' \in 1..MaxLines /\ ~(lines' <= lines)
    BY <1>1, <1>2, MaxLinesAssumption DEF Read
  <2>2. lines' \notin aborted /\ ~Answered(lines')
    BY <1>1, <2>1 DEF RepliesAreOver, Answered
  <2>3. \A job \in Pending : job.line # lines'
    BY <2>1 DEF JobsAreInOrder
  <2> QED BY <2>1, <2>2, <2>3
<1>3. ASSUME NEW id \in Id, Duplicate(id) \/ Ping(id) PROVE IInv'
  <2>1. Read /\ UNCHANGED <<ended, stopped, initializeReceived, initialized, requests, aborted, queue, running, calls>>
    BY <1>3 DEF Duplicate, Ping
  <2>2. PICK kind \in {"result", "error"} : Write(lines', id, kind)
    BY <1>3 DEF Duplicate, Ping
  <2>3. lines' \in 1..lines' /\ lines <= lines' /\ Pending' = Pending
    BY <1>1, <1>2, <2>1 DEF Pending
  <2>4. RepliesAreOver' /\ replies' \in Seq(Reply)
    BY <1>1, <1>2, <2>1, <2>2, <2>3, WriteKeepsReplies
  <2>5. JobsAreInOrder'
    BY <1>1, <1>2, <2>1, <2>3 DEF JobsAreInOrder, Job
  <2>6. RequestsAreJobs'
    BY <2>1, <2>3 DEF RequestsAreJobs
  <2>7. TypeOK'
    BY <1>2, <2>1, <2>4, MaxLinesAssumption DEF TypeOK
  <2> QED BY <2>4, <2>5, <2>6, <2>7
<1>4. ASSUME NEW id \in Id, Cancel(id) PROVE IInv'
  <2>1. Read /\ UNCHANGED <<ended, stopped, initializeReceived, initialized, requests, queue, running, calls, replies>>
    BY <1>4 DEF Cancel
  <2>2. Pending' = Pending /\ lines <= lines'
    BY <1>1, <1>2, <2>1 DEF Pending
  <2>3. JobsAreInOrder'
    BY <1>1, <1>2, <2>1, <2>2 DEF JobsAreInOrder, Job
  <2>4. RequestsAreJobs'
    BY <2>1, <2>2 DEF RequestsAreJobs
  <2>5. CASE aborted' = aborted
    <3>1. RepliesAreOver'
      BY <1>1, <1>2, <2>1, <2>2, <2>5, SilenceKeepsReplies
    <3> QED BY <1>2, <2>1, <2>3, <2>4, <2>5, <3>1, MaxLinesAssumption DEF TypeOK
  <2>6. CASE requests[id] # 0 /\ aborted' = aborted \cup {requests[id]}
    <3>1. PICK job \in Pending : job.line = requests[id]
      BY <2>6 DEF RequestsAreJobs
    <3>2. job.line \in 1..lines /\ job.line \in 1..lines' /\ job.line \in 1..MaxLines
      <4>1. job.line \in Nat \ {0} /\ job.line <= lines
        BY DEF JobsAreInOrder, Job
      <4>2. lines' = lines + 1 /\ lines' <= MaxLines
        BY <1>2, <2>1
      <4> QED BY <1>1, <4>1, <4>2, MaxLinesAssumption
    <3>3. \A i \in DOMAIN replies : replies[i].line # requests[id]
      BY <3>1 DEF RepliesAreOver
    <3>4. RepliesAreOver'
      <4>1. aborted' \subseteq 1..lines'
        <5>1. aborted \subseteq 1..lines /\ lines' = lines + 1
          BY <1>2, <2>1 DEF RepliesAreOver
        <5>2. 1..lines \subseteq 1..lines'
          BY <1>1, <5>1
        <5>3. requests[id] \in 1..lines'
          BY <3>1, <3>2
        <5> QED BY <2>6, <5>1, <5>2, <5>3
      <4>2. \A i \in DOMAIN replies : replies[i].line \in 1..lines' /\ replies[i].line \notin aborted'
        BY <1>1, <1>2, <2>1, <2>6, <3>3 DEF RepliesAreOver
      <4> QED BY <2>1, <2>2, <4>1, <4>2 DEF RepliesAreOver
    <3>5. aborted' \subseteq 1..MaxLines
      BY <2>6, <3>1, <3>2 DEF TypeOK
    <3> QED BY <1>2, <2>1, <2>3, <2>4, <3>4, <3>5, MaxLinesAssumption DEF TypeOK
  <2> QED BY <1>4, <2>5, <2>6 DEF Cancel, Cancellable
<1>5. ASSUME NEW id \in Id, NEW method \in Method, Accept(id, method) PROVE IInv'
  <2> DEFINE job == [line |-> lines', id |-> id, method |-> method]
  <2>1. Read /\ requests[id] = 0 /\ requests' = [requests EXCEPT ![id] = lines'] /\ queue' = Append(queue, job)
        /\ UNCHANGED <<ended, stopped, initializeReceived, initialized, aborted, running, calls, replies>>
    BY <1>5 DEF Accept
  <2>2. id # NoId /\ method # "initialized"
    BY NoIdAssumption DEF Method
  <2>3. JobsAreInOrder' /\ queue' \in Seq(Job) /\ Pending' = Pending \cup {job}
    BY <2>1, <2>2, JoinKeepsOrder
  <2>4. job \in Job /\ job.id = id /\ job.line = lines'
    BY <1>2, <2>1 DEF Job
  <2> HIDE DEF job
  <2>5. RequestsAreJobs' /\ requests' \in [Id -> 0..MaxLines]
    BY <1>2, <2>1, <2>3, <2>4, AcceptKeepsMap
  <2>6. RepliesAreOver'
    BY <1>1, <1>2, <2>1, <2>3, <2>4, SilenceKeepsReplies
  <2>7. TypeOK'
    BY <1>2, <2>1, <2>3, <2>5, MaxLinesAssumption DEF TypeOK
  <2> QED BY <2>3, <2>5, <2>6, <2>7
<1>6. CASE Notify
  <2> DEFINE job == [line |-> lines', id |-> NoId, method |-> "initialized"]
  <2>1. Read /\ queue' = Append(queue, job)
        /\ UNCHANGED <<ended, stopped, initializeReceived, initialized, requests, aborted, running, calls, replies>>
    BY <1>6 DEF Notify
  <2>2. JobsAreInOrder' /\ queue' \in Seq(Job) /\ Pending' = Pending \cup {job}
    BY <2>1, JoinKeepsOrder
  <2>3. job.id = NoId /\ job.line = lines'
    OBVIOUS
  <2> HIDE DEF job
  <2>4. RequestsAreJobs'
    BY <2>1, <2>2, <2>3 DEF RequestsAreJobs
  <2>5. RepliesAreOver'
    BY <1>1, <1>2, <2>1, <2>2, <2>3, SilenceKeepsReplies
  <2>6. TypeOK'
    BY <1>2, <2>1, <2>2, MaxLinesAssumption DEF TypeOK
  <2> QED BY <2>2, <2>4, <2>5, <2>6
<1>7. CASE End
  <2>1. UNCHANGED <<lines, stopped, requests, aborted, queue, running, calls, replies>>
    BY <1>7 DEF End
  <2>2. Pending' = Pending
    BY <2>1 DEF Pending
  <2>3. TypeOK'
    BY <1>7 DEF End, TypeOK
  <2> QED BY <2>1, <2>2, <2>3 DEF JobsAreInOrder, RequestsAreJobs, RepliesAreOver
<1> QED
  BY <1>3, <1>4, <1>5, <1>6, <1>7 DEF Client

\* A turn of the queue that ends the first job.
LEMMA TurnEnds ==
  ASSUME IInv, Turn, queue' = Tail(queue), Release(Head(queue)),
         UNCHANGED <<lines, stopped, running, aborted>>
  PROVE  /\ JobsAreInOrder' /\ RequestsAreJobs' /\ queue' \in Seq(Job) /\ requests' \in [Id -> 0..MaxLines]
         /\ Head(queue) \in Pending /\ Head(queue) \in Job /\ Head(queue).line \in 1..lines
         /\ Pending' \subseteq Pending /\ \A job \in Pending' : job.line # Head(queue).line
<1> USE DEF IInv, ServerInv
<1>1. running' = NoJob
  BY DEF Turn
<1>2. /\ JobsAreInOrder' /\ queue' \in Seq(Job) /\ Head(queue) \in Pending /\ Head(queue) \in Job
      /\ Head(queue).line \in 1..lines /\ Pending' = Pending \ {Head(queue)}
      /\ \A job \in Pending \ {Head(queue)} : job.line # Head(queue).line
  BY <1>1, TurnKeepsOrder
<1>3. RequestsAreJobs' /\ requests' \in [Id -> 0..MaxLines]
  BY <1>2, ReleaseKeepsMap
<1> QED
  BY <1>2, <1>3

LEMMA TurnStep ==
  ASSUME IInv, Drop \/ Initialized \/ Handle
  PROVE  IInv'
<1> USE DEF IInv, ServerInv
<1> DEFINE job == Head(queue)
<1>1. lines \in Nat /\ lines <= lines /\ lines \in 0..MaxLines
  BY MaxLinesAssumption DEF TypeOK
<1>2. CASE Drop
  <2>1. Turn /\ queue' = Tail(queue) /\ Release(job)
        /\ UNCHANGED <<lines, ended, stopped, initializeReceived, initialized, aborted, running, calls, replies>>
    BY <1>2 DEF Drop
  <2>2. /\ JobsAreInOrder' /\ RequestsAreJobs' /\ queue' \in Seq(Job) /\ requests' \in [Id -> 0..MaxLines]
        /\ Pending' \subseteq Pending
    BY <2>1, TurnEnds
  <2>3. RepliesAreOver'
    BY <1>1, <2>1, <2>2, SilenceKeepsReplies
  <2> QED BY <2>1, <2>2, <2>3 DEF TypeOK
<1>3. CASE Initialized
  <2>1. Turn /\ queue' = Tail(queue) /\ job.method = "initialized"
        /\ UNCHANGED <<lines, ended, stopped, initializeReceived, requests, aborted, running, calls, replies>>
    BY <1>3 DEF Initialized
  <2>2. running' = NoJob
    BY <2>1 DEF Turn
  <2>3. /\ JobsAreInOrder' /\ queue' \in Seq(Job) /\ job \in Pending
        /\ Pending' = Pending \ {job}
    BY <2>1, <2>2, TurnKeepsOrder
  <2>4. job.id = NoId
    BY <2>1, <2>3 DEF JobsAreInOrder
  <2>5. RequestsAreJobs'
    BY <2>1, <2>3, <2>4, NoIdAssumption DEF RequestsAreJobs
  <2>6. RepliesAreOver'
    BY <1>1, <2>1, <2>3, SilenceKeepsReplies
  <2>7. initialized' \in BOOLEAN
    BY <1>3 DEF Initialized, TypeOK
  <2> QED BY <2>1, <2>3, <2>5, <2>6, <2>7 DEF TypeOK
<1>4. CASE Handle
  <2>1. /\ Turn /\ queue' = Tail(queue) /\ job.method # "initialized" /\ ~Cancelled(job)
        /\ UNCHANGED <<lines, ended, stopped, initializeReceived, initialized, aborted>>
    BY <1>4 DEF Handle
  <2>2. CASE running' = job /\ UNCHANGED <<requests, replies>>
             /\ (calls' = calls \/ calls' = calls \cup {job.line})
    <3>1. /\ JobsAreInOrder' /\ queue' \in Seq(Job) /\ job \in Job
          /\ job.line \in 1..lines /\ Pending' = Pending
      BY <2>1, <2>2, TurnKeepsOrder
    <3>2. RequestsAreJobs'
      BY <2>1, <2>2, <3>1 DEF RequestsAreJobs
    <3>3. RepliesAreOver'
      BY <1>1, <2>1, <2>2, <3>1, SilenceKeepsReplies
    <3>4. calls' \subseteq 1..MaxLines
      <4>1. job.line \in 1..MaxLines
        BY <1>1, <3>1, MaxLinesAssumption
      <4> HIDE DEF job
      <4> QED BY <2>2, <4>1 DEF TypeOK
    <3> QED BY <2>1, <2>2, <3>1, <3>2, <3>3, <3>4 DEF TypeOK
  <2>3. CASE /\ \E kind \in {"result", "error"} : Write(job.line, job.id, kind)
             /\ Release(job) /\ UNCHANGED <<running, calls>>
    <3>1. PICK kind \in {"result", "error"} : Write(job.line, job.id, kind)
      BY <2>3
    <3>2. /\ JobsAreInOrder' /\ RequestsAreJobs' /\ queue' \in Seq(Job) /\ requests' \in [Id -> 0..MaxLines]
          /\ job \in Pending /\ job \in Job /\ job.line \in 1..lines
          /\ Pending' \subseteq Pending /\ \A other \in Pending' : other.line # job.line
      BY <2>1, <2>3, TurnEnds
    <3>3. job.id \in Id
      BY <2>1, <3>2 DEF JobsAreInOrder, Job
    <3>4. job.line \notin aborted /\ ~Answered(job.line)
      BY <2>1, <3>2 DEF Cancelled, RepliesAreOver, Answered
    <3>5. RepliesAreOver' /\ replies' \in Seq(Reply)
      BY <1>1, <2>1, <3>1, <3>2, <3>3, <3>4, WriteKeepsReplies
    <3> QED BY <2>1, <2>3, <3>2, <3>5 DEF TypeOK
  <2> HIDE DEF job
  <2> QED BY <1>4, <2>2, <2>3 DEF Handle, job
<1> QED
  BY <1>2, <1>3, <1>4

LEMMA EndStep ==
  ASSUME IInv, Finish \/ StopAtEnd \/ Break
  PROVE  IInv'
<1> USE DEF IInv, ServerInv
<1>1. lines \in Nat /\ lines <= lines
  BY MaxLinesAssumption DEF TypeOK
<1>2. CASE Finish
  <2>1. /\ running # NoJob /\ running' = NoJob /\ Release(running)
        /\ UNCHANGED <<lines, ended, stopped, initialized, aborted, queue, calls>>
    BY <1>2 DEF Finish
  <2>2. /\ JobsAreInOrder' /\ running \in Pending /\ running \in Job /\ running.line \in 1..lines
        /\ Pending' = Pending \ {running}
        /\ \A job \in Pending \ {running} : job.line # running.line
    BY <2>1, FinishKeepsOrder
  <2>3. RequestsAreJobs' /\ requests' \in [Id -> 0..MaxLines]
    BY <2>1, <2>2, ReleaseKeepsMap
  <2>4. RepliesAreOver' /\ replies' \in Seq(Reply)
    <3>1. CASE UNCHANGED replies
      <4>1. RepliesAreOver'
        BY <1>1, <2>1, <2>2, <3>1, SilenceKeepsReplies
      <4> QED BY <3>1, <4>1 DEF TypeOK
    <3>2. CASE ~Cancelled(running) /\ \E kind \in {"result", "error"} : Write(running.line, running.id, kind)
      <4>1. PICK kind \in {"result", "error"} : Write(running.line, running.id, kind)
        BY <3>2
      <4>2. running.id \in Id
        BY <2>1, <2>2 DEF JobsAreInOrder, Job
      <4>3. running.line \notin aborted /\ ~Answered(running.line)
        BY <2>2, <3>2 DEF Cancelled, RepliesAreOver, Answered
      <4> QED BY <1>1, <2>1, <2>2, <4>1, <4>2, <4>3, WriteKeepsReplies
    <3> QED BY <1>2, <3>1, <3>2 DEF Finish
  <2>5. initializeReceived' \in BOOLEAN
    BY <1>2 DEF Finish, TypeOK
  <2> QED BY <2>1, <2>2, <2>3, <2>4, <2>5 DEF TypeOK
<1>3. CASE StopNow
  <2>1. Pending' = Pending
    BY <1>3 DEF StopNow, Pending
  <2>2. TypeOK'
    BY <1>3, MaxLinesAssumption DEF StopNow, TypeOK
  <2> QED BY <1>3, <2>1, <2>2 DEF StopNow, JobsAreInOrder, RequestsAreJobs, RepliesAreOver
<1> QED
  BY <1>2, <1>3 DEF StopAtEnd, Break

LEMMA IInvInit == Init => IInv
<1> SUFFICES ASSUME Init PROVE IInv
  OBVIOUS
<1>1. Range(queue) = {} /\ Pending = {}
  BY DEF Init, Pending, Range
<1>2. queue \in Seq(Job) /\ replies \in Seq(Reply) /\ Len(queue) = 0 /\ DOMAIN replies = {}
  BY DEF Init
<1>3. TypeOK
  <2>1. 0 \in 0..MaxLines
    BY MaxLinesAssumption
  <2>2. {ended, stopped, initializeReceived, initialized} \subseteq BOOLEAN
    BY DEF Init
  <2>3. requests \in [Id -> 0..MaxLines] /\ lines \in 0..MaxLines
    BY <2>1 DEF Init
  <2> QED BY <1>2, <2>2, <2>3 DEF Init, TypeOK
<1>4. JobsAreInOrder /\ RequestsAreJobs
  BY <1>1, <1>2 DEF Init, JobsAreInOrder, RequestsAreJobs, Ordered
<1>5. RepliesAreOver
  BY <1>1, <1>2 DEF Init, RepliesAreOver
<1> QED
  BY <1>3, <1>4, <1>5 DEF IInv, ServerInv

THEOREM ServerInvariant == Spec => []IInv
<1>1. IInv /\ [Next]_vars => IInv'
  <2>1. IInv /\ UNCHANGED vars => IInv'
    BY DEF vars, IInv, ServerInv, TypeOK, JobsAreInOrder, RequestsAreJobs, RepliesAreOver, Pending, Ordered
  <2> QED BY <2>1, LineStep, TurnStep, EndStep DEF Next, Server
<1> QED
  BY <1>1, IInvInit, PTL DEF Spec

------------------------------------------------------------------------------
\* Every variable of a connection keeps its type (runMcpServer).
THEOREM TypeCorrect == Spec => []TypeOK
  BY ServerInvariant, PTL DEF IInv

\* A line is answered at most once, and never after its request was cancelled, by
\* whatever the client repeats, cancels or reuses (respond, fail, complete).
THEOREM OneReply == Spec => []OneReplyEach
<1>1. IInv => OneReplyEach
  BY DEF IInv, ServerInv, RepliesAreOver, OneReplyEach, Answered
<1> QED
  BY <1>1, ServerInvariant, PTL

\* While the connection lives, the ids that are taken are exactly those of the
\* requests that wait or run (the requests map against the promise chain).
THEOREM TakenIdsAreAtWork == Spec => []OutstandingIsPending
<1>1. IInv => OutstandingIsPending
  <2> SUFFICES ASSUME IInv, ~stopped, NEW id \in Id
               PROVE  {job.line : job \in {j \in Pending : j.id = id}} =
                      IF requests[id] = 0 THEN {} ELSE {requests[id]}
    BY DEF OutstandingIsPending
  <2>1. \A job \in Pending : job.id = id => requests[id] = job.line /\ job.line # 0
    BY NoIdAssumption DEF IInv, ServerInv, RequestsAreJobs, JobsAreInOrder, Job
  <2>2. requests[id] # 0 => \E job \in Pending : job.id = id /\ job.line = requests[id]
    BY DEF IInv, ServerInv, RequestsAreJobs
  <2> QED BY <2>1, <2>2
<1> QED
  BY <1>1, ServerInvariant, PTL

(***************************************************************************)
(* Bytes into messages.  A turn of a receiver either waits, fails or does  *)
(* what the next frame means; that is shown for each kind of receiver.     *)
(* Then what is held is always the part of the stream that follows the     *)
(* frames whose messages were reported.                                    *)
(***************************************************************************)

EventType == [kind : {"open", "text", "ping", "close"}, data : Seq(Byte)]
IsState(st) == st \in [pc : {"idle", "busy", "failed", "overrun"}, open : BOOLEAN, held : Seq(Byte),
                       parts : Seq(Byte), pieces : Nat, events : Seq(EventType)]
SaidType == [at : Nat, parts : Seq(Byte), pieces : Nat, ok : BOOLEAN, events : Seq(EventType)]
IsSaid(s) == s \in SaidType

\* What is held are the next bytes of e, or all of them and more.
Agrees(b, e) == \A i \in 1..Len(b) : i <= Len(e) => b[i] = e[i]

------------------------------------------------------------------------------
(* Sequences of bytes *)

LEMMA RestOf ==
  ASSUME NEW S, NEW b \in Seq(S), NEW n \in Nat, n <= Len(b)
  PROVE  LET rest == SubSeq(b, n + 1, Len(b)) IN
         rest \in Seq(S) /\ Len(rest) = Len(b) - n /\ \A i \in 1..Len(rest) : rest[i] = b[n + i]
<1>1. Len(b) \in Nat /\ \A i \in n + 1..Len(b) : b[i] \in S
  OBVIOUS
<1> QED  BY <1>1, SubSeqProperties

\* The bytes between two places.
LEMMA PartOf ==
  ASSUME NEW S, NEW b \in Seq(S), NEW m \in Nat, NEW n \in Nat, m + n <= Len(b),
         NEW part, part = SubSeq(b, m + 1, m + n)
  PROVE  part \in Seq(S) /\ Len(part) = n /\ \A i \in 1..n : part[i] = b[m + i]
<1>1. \A i \in m + 1..m + n : b[i] \in S
  OBVIOUS
<1> QED  BY <1>1, SubSeqProperties

LEMMA Joined ==
  ASSUME NEW S, NEW a \in Seq(S), NEW b \in Seq(S), NEW m \in Nat, NEW n \in Nat, Len(a) = m, Len(b) = n
  PROVE  /\ a \o b \in Seq(S) /\ Len(a \o b) = m + n
         /\ \A i \in 1..m : (a \o b)[i] = a[i]
         /\ \A i \in 1..n : (a \o b)[m + i] = b[i]
<1>1. a \o b \in Seq(S) /\ Len(a \o b) = m + n
  BY ConcatProperties
<1>2. ASSUME NEW i \in 1..m PROVE (a \o b)[i] = a[i]
  <2>1. i \in 1..Len(a) + Len(b) /\ i <= Len(a)
    BY SMT
  <2> QED  BY <2>1, ConcatProperties
<1>3. ASSUME NEW i \in 1..n PROVE (a \o b)[m + i] = b[i]
  <2>1. m + i \in 1..Len(a) + Len(b) /\ ~(m + i <= Len(a)) /\ (m + i) - Len(a) = i
    BY SMT
  <2> QED  BY <2>1, ConcatProperties
<1> QED  BY <1>1, <1>2, <1>3

LEMMA OneBefore ==
  ASSUME NEW S, NEW h \in S, NEW l \in Seq(S), NEW k \in Nat, Len(l) = k
  PROVE  LET p == <<h>> \o l IN
         p \in Seq(S) /\ Len(p) = 1 + k /\ p[1] = h /\ \A i \in 1..k : p[1 + i] = l[i]
<1> DEFINE a == <<h>>
<1>1. a \in Seq(S) /\ Len(a) = 1 /\ a[1] = h
  OBVIOUS
<1> HIDE DEF a
<1>2. a \o l \in Seq(S) /\ Len(a \o l) = 1 + k
  BY <1>1, ConcatProperties, SMTT(30)
<1>3. ASSUME NEW i \in 1..k PROVE (a \o l)[1 + i] = l[i]
  <2> DEFINE j == 1 + i
  <2>1. j \in 1..Len(a) + Len(l) /\ ~(j <= Len(a)) /\ j - Len(a) = i
    BY <1>1, SMT
  <2> HIDE DEF j
  <2>2. (a \o l)[j] = l[j - Len(a)]
    BY <1>1, <2>1, ConcatProperties
  <2> QED  BY <2>1, <2>2, Zenon DEF j
<1>4. (a \o l)[1] = a[1]
  <2>1. 1 \in 1..Len(a) + Len(l) /\ 1 <= Len(a)
    BY <1>1, SMT
  <2> QED  BY <1>1, <2>1, ConcatProperties
<1> QED  BY <1>1, <1>2, <1>3, <1>4 DEF a

LEMMA FirstChanged ==
  ASSUME NEW S, NEW a \in Seq(S), NEW k \in Nat \ {0}, Len(a) = k, NEW v \in S
  PROVE  LET b == [a EXCEPT ![1] = v] IN
         b \in Seq(S) /\ Len(b) = k /\ b[1] = v /\ \A i \in 2..k : b[i] = a[i]
  OBVIOUS

LEMMA FourAreASequence ==
  ASSUME NEW S, NEW a \in [1..4 -> S]
  PROVE  a \in Seq(S) /\ Len(a) = 4
<1>1. 4 \in Nat /\ DOMAIN a = 1..4 /\ \A i \in 1..4 : a[i] \in S
  OBVIOUS
<1>2. a \in Seq(S)
  BY <1>1, SeqDef
<1> QED  BY <1>1, <1>2, LenProperties

LEMMA FirstIs ==
  ASSUME NEW places \in SUBSET Nat, NEW i \in places, \A j \in places : i <= j
  PROVE  First(places) = i
<1>1. \E k \in places : \A j \in places : k <= j
  OBVIOUS
<1>2. First(places) \in places /\ \A j \in places : First(places) <= j
  BY <1>1 DEF First
<1>3. First(places) \in Nat /\ i \in Nat
  BY <1>2
<1>4. First(places) <= i /\ i <= First(places)
  BY <1>2
<1> QED  BY <1>3, <1>4

------------------------------------------------------------------------------
(* What the peer writes *)

\* How a number is split into bytes.
LEMMA Division ==
  ASSUME NEW n \in Nat
  PROVE  n \div 256 \in Nat /\ n % 256 \in Byte /\ 256 * (n \div 256) + (n % 256) = n
<1>1. n \div 256 \in Nat /\ n % 256 \in Byte
  BY SMT DEF Byte
<1>2. n % 256 = n - 256 * (n \div 256)
  BY SMT
<1> QED  BY <1>1, <1>2, SMT DEF Byte

LEMMA Digits ==
  ASSUME NEW n \in Nat
  PROVE  LET q == n \div 256 IN
         /\ n < 126 => n \in 0..125
         /\ n < 256 * 256 => q \in Byte /\ n % 256 \in Byte /\ 256 * q + (n % 256) = n
         /\ n < 256 * 256 * 256 =>
               /\ q \div 256 \in Byte /\ q % 256 \in Byte /\ n % 256 \in Byte
               /\ 256 * (256 * (q \div 256) + (q % 256)) + (n % 256) = n
<1> DEFINE q == n \div 256
           x == n % 256
           z == q \div 256
           y == q % 256
<1>1. q \in Nat /\ x \in Byte /\ 256 * q + x = n
  BY Division
<1>2. z \in Nat /\ y \in Byte /\ 256 * z + y = q
  BY <1>1, Division
<1> HIDE DEF x, y, z, q
<1>3. n < 126 => n \in 0..125
  BY SMT
<1>4. n < 256 * 256 => q \in Byte
  BY <1>1, SMT DEF Byte
<1>5. n < 256 * 256 * 256 => z \in Byte
  BY <1>1, <1>2, SMT DEF Byte
<1>6. 256 * (256 * z + y) + x = n
  BY <1>1, <1>2, SMT DEF Byte
<1> QED  BY <1>1, <1>2, <1>3, <1>4, <1>5, <1>6, ZenonT(60) DEF x, y, z, q

\* How much data a length field can tell.
LEMMA RoomIs ==
  /\ Room(2) = 126
  /\ Room(4) = 256 * 256
  /\ Room(10) = 256 * 256 * 256
<1>1. 2 # 4 /\ 2 # 10 /\ 4 # 10
  OBVIOUS
<1> QED  BY <1>1, Zenon DEF Room, TooLong

LEMMA FrameHasItsKind ==
  ASSUME NEW f \in WebFrames
  PROVE  /\ f.op \in 0..15 /\ f.fin \in {0, 1} /\ f.reserved \in 0..7 /\ f.form \in {2, 4, 10}
         /\ f.data \in Seq(Byte) /\ Len(f.data) \in Nat /\ Len(f.data) < Room(f.form)
         /\ f.mask = <<>> \/ (f.mask \in [1..4 -> Byte] /\ f.mask # <<>>)
<1>1. f \in FrameType /\ Len(f.data) < Room(f.form)
  BY FramesAssumption
<1>2. Len(f.data) \in Nat /\ f.form \in {2, 4, 10} /\ f.data \in Seq(Byte)
  BY <1>1 DEF FrameType
<1>3. \A m \in [1..4 -> Byte] : m # <<>>
  OBVIOUS
<1>4. f.op \in 0..15 /\ f.fin \in {0, 1} /\ f.reserved \in 0..7 /\ (f.mask = <<>> \/ f.mask \in [1..4 -> Byte])
  BY <1>1 DEF FrameType
<1> QED  BY <1>1, <1>2, <1>3, <1>4

LEMMA LengthBytesAre ==
  ASSUME NEW f \in WebFrames
  PROVE  LET e == LengthBytes(f) IN
         /\ e \in Seq(Byte) /\ Len(e) = f.form - 1 /\ e[1] \in 0..127
         /\ f.form = 2 => e[1] = Len(f.data) /\ e[1] \in 0..125
         /\ f.form = 4 => e[1] = 126 /\ 256 * e[2] + e[3] = Len(f.data)
         /\ f.form = 10 => /\ e[1] = 127 /\ \A i \in 2..6 : e[i] = 0
                           /\ 256 * (256 * e[7] + e[8]) + e[9] = Len(f.data)
<1> DEFINE e == LengthBytes(f)
<1>0. 2 # 4 /\ 2 # 10 /\ 4 # 10
  OBVIOUS
<1>1. PICK n \in Nat : n = Len(f.data)
  BY FrameHasItsKind
<1>2. n < Room(f.form) /\ f.form \in {2, 4, 10}
  BY <1>1, FrameHasItsKind
<1>3. CASE f.form = 2
  <2>1. n < 126
    BY <1>2, <1>3, RoomIs, Zenon
  <2>2. n \in 0..125
    BY <2>1, Digits
  <2>3. e = <<n>>
    BY <1>0, <1>1, <1>3, Zenon DEF LengthBytes
  <2>4. <<n>> \in Seq(Byte) /\ Len(<<n>>) = 1 /\ <<n>>[1] = n
    BY <2>2, SMT DEF Byte
  <2>5. n \in 0..127
    BY <2>2
  <2> HIDE DEF e
  <2> QED  BY <1>1, <1>3, <2>2, <2>3, <2>4, <2>5, SMT DEF e
<1>4. CASE f.form = 4
  <2> DEFINE q == n \div 256
             x == n % 256
             t == <<126, q, x>>
  <2>1. n < 256 * 256
    BY <1>2, <1>4, RoomIs, Zenon
  <2>2. q \in Byte /\ x \in Byte /\ 256 * q + x = n
    BY <2>1, Digits, ZenonT(60)
  <2>3. e = t
    BY <1>0, <1>1, <1>4, Zenon DEF LengthBytes
  <2> HIDE DEF q, x
  <2>4. t \in Seq(Byte) /\ Len(t) = 3 /\ t[1] = 126 /\ t[2] = q /\ t[3] = x
    BY <2>2, SMT DEF Byte
  <2> HIDE DEF e, t
  <2> QED  BY <1>1, <1>4, <2>2, <2>3, <2>4, SMT DEF e
<1>5. CASE f.form = 10
  <2> DEFINE q == n \div 256
             x == n % 256
             y == q % 256
             z == q \div 256
             t == <<127, 0, 0, 0, 0, 0, z, y, x>>
  <2>1. n < 256 * 256 * 256
    BY <1>2, <1>5, RoomIs, Zenon
  <2>2. z \in Byte /\ y \in Byte /\ x \in Byte /\ 256 * (256 * z + y) + x = n
    BY <2>1, Digits, ZenonT(60)
  <2>3. e = t
    BY <1>0, <1>1, <1>5, ZenonT(60) DEF LengthBytes
  <2> HIDE DEF q, x, y, z
  <2>4. t \in Seq(Byte) /\ Len(t) = 9 /\ t[1] = 127 /\ t[7] = z /\ t[8] = y /\ t[9] = x
    BY <2>2, SMT DEF Byte
  <2>5. \A i \in 2..6 : t[i] = 0
    BY SMT
  <2> HIDE DEF e, t
  <2> QED  BY <1>1, <1>5, <2>2, <2>3, <2>4, <2>5, SMT DEF e
<1> QED  BY <1>2, <1>3, <1>4, <1>5

\* The parts of a web frame that a receiver looks for.
MaskOf(f) == IF f.mask = <<>> THEN 0 ELSE 4
Payload(f) == IF f.mask = <<>> THEN f.data ELSE Masked(f.data, f.mask)

LEMMA PayloadIs ==
  ASSUME NEW f \in WebFrames
  PROVE  Payload(f) \in Seq(Byte) /\ Len(Payload(f)) = Len(f.data)
<1>1. CASE f.mask = <<>>
  BY <1>1, FrameHasItsKind, Zenon DEF Payload
<1>2. CASE f.mask # <<>>
  <2>1. f.mask \in [1..4 -> Byte] /\ f.data \in Seq(Byte)
    BY <1>2, FrameHasItsKind
  <2>2. PICK n \in Nat : n = Len(f.data)
    BY <2>1
  <2>3. Payload(f) = [i \in 1..n |-> ByteXor(f.data[i], f.mask[((i - 1) % 4) + 1])]
    BY <1>2, <2>2, Zenon DEF Payload, Masked
  <2>4. ASSUME NEW i \in 1..n PROVE ByteXor(f.data[i], f.mask[((i - 1) % 4) + 1]) \in Byte
    <3>1. f.data[i] \in Byte
      BY <2>1, <2>2
    <3>2. ((i - 1) % 4) + 1 \in 1..4
      BY SMT
    <3> QED  BY <2>1, <3>1, <3>2, XorAssumption, Zenon
  <2>5. Payload(f) \in [1..n -> Byte]
    BY <2>3, <2>4, Zenon
  <2> QED  BY <2>2, <2>5
<1> QED  BY <1>1, <1>2

LEMMA WebBytesAre ==
  ASSUME NEW f \in WebFrames
  PROVE  LET e == WebBytes(f)
             m == MaskOf(f) IN
         /\ e \in Seq(Byte) /\ Len(e) = f.form + m + Len(f.data)
         /\ e[1] = 128 * f.fin + 16 * f.reserved + f.op
         /\ e[2] = LengthBytes(f)[1] + (IF f.mask = <<>> THEN 0 ELSE 128)
         /\ \A i \in 2..f.form - 1 : e[i + 1] = LengthBytes(f)[i]
         /\ \A i \in 1..m : e[f.form + i] = f.mask[i]
         /\ \A i \in 1..Len(f.data) : e[f.form + m + i] = Payload(f)[i]
<1> DEFINE h == 128 * f.fin + 16 * f.reserved + f.op
           flag == IF f.mask = <<>> THEN 0 ELSE 128
           a == <<h>>
           l == [LengthBytes(f) EXCEPT ![1] = @ + flag]
           k == f.form - 1
           m == MaskOf(f)
<1>1. PICK n \in Nat : n = Len(f.data)
  BY FrameHasItsKind
<1>2. h \in Byte
  <2>1. PICK x \in {0, 1}, y \in 0..7, z \in 0..15 : x = f.fin /\ y = f.reserved /\ z = f.op
    BY FrameHasItsKind
  <2>2. 128 * x + 16 * y + z \in Byte
    BY SMT DEF Byte
  <2> QED  BY <2>1, <2>2
<1>4. f.form \in {2, 4, 10} /\ k \in Nat \ {0} /\ f.form = 1 + k
  BY FrameHasItsKind
<1>5. flag \in {0, 128} /\ m \in {0, 4}
  BY DEF MaskOf
<1>6. l \in Seq(Byte) /\ Len(l) = k /\ l[1] = LengthBytes(f)[1] + flag /\ \A i \in 2..k : l[i] = LengthBytes(f)[i]
  <2> DEFINE e == LengthBytes(f)
  <2>1. e \in Seq(Byte) /\ Len(e) = k /\ e[1] \in 0..127
    BY LengthBytesAre
  <2> HIDE DEF e, flag, k
  <2>2. PICK x \in 0..127 : x = e[1]
    BY <2>1
  <2>3. x + flag \in Byte
    BY <1>5, SMT DEF Byte
  <2>4. l = [e EXCEPT ![1] = x + flag]
    BY <2>2 DEF e
  <2> HIDE DEF l
  <2> QED  BY <1>4, <2>1, <2>2, <2>3, <2>4, FirstChanged DEF e
<1>7. f.mask \in Seq(Byte) /\ Len(f.mask) = m
  <2>1. CASE f.mask = <<>>
    BY <2>1 DEF MaskOf
  <2>2. CASE f.mask # <<>>
    <3>1. f.mask \in [1..4 -> Byte] /\ m = 4
      BY <2>2, FrameHasItsKind, Zenon DEF MaskOf
    <3> HIDE DEF m
    <3> QED  BY <3>1, FourAreASequence, Zenon
  <2> QED  BY <2>1, <2>2
<1>8. PICK d \in Seq(Byte) : d = Payload(f) /\ Len(d) = n
  BY <1>1, PayloadIs
<1>9. WebBytes(f) = a \o l \o f.mask \o d
  BY <1>8, Zenon DEF WebBytes, Payload
<1> DEFINE p == a \o l
           q == p \o f.mask
           e == q \o d
<1> HIDE DEF a, l, h, flag, k, m
<1>n. 1 \in Nat /\ k \in Nat /\ m \in Nat /\ 1 + k \in Nat /\ 1 + k + m \in Nat /\ n \in Nat
  BY <1>4, <1>5
<1>10. p \in Seq(Byte) /\ Len(p) = 1 + k /\ p[1] = h /\ \A i \in 1..k : p[1 + i] = l[i]
  BY <1>2, <1>6, <1>n, OneBefore DEF a
<1> HIDE DEF p
<1>11. /\ q \in Seq(Byte) /\ Len(q) = 1 + k + m
       /\ \A i \in 1..1 + k : q[i] = p[i]
       /\ \A i \in 1..m : q[1 + k + i] = f.mask[i]
  <2>1. p \in Seq(Byte) /\ Len(p) = 1 + k
    BY <1>10
  <2> QED  BY <1>7, <1>n, <2>1, SMT
<1> HIDE DEF q
<1>12. /\ e \in Seq(Byte) /\ Len(e) = 1 + k + m + n
       /\ \A i \in 1..1 + k + m : e[i] = q[i]
       /\ \A i \in 1..n : e[1 + k + m + i] = d[i]
  <2>1. q \in Seq(Byte) /\ Len(q) = 1 + k + m
    BY <1>11
  <2> QED  BY <1>8, <1>n, <2>1, SMT
<1> HIDE DEF e
<1>13. e = WebBytes(f)
  BY <1>9 DEF e, q, p
<1>14. e[1] = h
  BY <1>4, <1>5, <1>10, <1>11, <1>12
<1>15. e[2] = LengthBytes(f)[1] + flag
  <2>1. e[1 + 1] = q[1 + 1] /\ q[1 + 1] = p[1 + 1] /\ p[1 + 1] = l[1]
    BY <1>4, <1>5, <1>10, <1>11, <1>12, SMTT(30)
  <2> QED  BY <1>6, <2>1
<1>16. \A i \in 2..f.form - 1 : e[i + 1] = LengthBytes(f)[i]
  <2> SUFFICES ASSUME NEW i \in 2..f.form - 1 PROVE e[i + 1] = LengthBytes(f)[i]
    OBVIOUS
  <2>1. i \in 2..k /\ i + 1 = 1 + i /\ 1 + i \in 1..1 + k /\ 1 + i \in 1..1 + k + m
    BY <1>4, <1>5
  <2> QED  BY <1>4, <1>6, <1>10, <1>11, <1>12, <2>1
<1>17. \A i \in 1..m : e[f.form + i] = f.mask[i]
  <2> SUFFICES ASSUME NEW i \in 1..m PROVE e[f.form + i] = f.mask[i]
    OBVIOUS
  <2>1. f.form + i = 1 + k + i /\ 1 + k + i \in 1..1 + k + m
    BY <1>4, <1>5
  <2> QED  BY <1>11, <1>12, <2>1
<1>18. f.form + m = 1 + k + m
  BY <1>4, <1>5
<1> QED  BY <1>1, <1>8, <1>12, <1>13, <1>14, <1>15, <1>16, <1>17, <1>18, Zenon DEF h, flag, m

------------------------------------------------------------------------------
(* What a receiver reads in the bytes that a peer wrote *)

LEMMA FirstByte ==
  ASSUME NEW fin \in {0, 1}, NEW reserved \in 0..7, NEW op \in 0..15
  PROVE  LET h == 128 * fin + 16 * reserved + op IN
         /\ h % 16 = op
         /\ h >= 128 <=> fin = 1
         /\ (h \div 16) % 8 # 0 <=> reserved # 0
  BY SMT

LEMMA SecondByte ==
  ASSUME NEW x \in 0..127
  PROVE  /\ x % 128 = x /\ ~(x >= 128)
         /\ (x + 128) % 128 = x /\ x + 128 >= 128
  BY SMT

\* The length field has three forms.
LEMMA LengthForms ==
  ASSUME NEW b
  PROVE  LET x == b[2] % 128 IN
         /\ x = 126 => HeaderLength(b) = 4 /\ Size(b) = 256 * b[3] + b[4]
         /\ x = 127 /\ (\A i \in 3..7 : b[i] = 0) =>
               Size(b) = 256 * (256 * b[8] + b[9]) + b[10]
         /\ x = 127 => HeaderLength(b) = 10
         /\ x # 126 /\ x # 127 => HeaderLength(b) = 2 /\ Size(b) = x
<1> DEFINE x == b[2] % 128
<1>1. 126 # 127
  OBVIOUS
<1>2. ASSUME x = 126 PROVE HeaderLength(b) = 4 /\ Size(b) = 256 * b[3] + b[4]
  BY <1>1, <1>2, ZenonT(60) DEF HeaderLength, Size
<1>3. ASSUME x = 127 PROVE HeaderLength(b) = 10
  BY <1>1, <1>3, Zenon DEF HeaderLength
<1>4. ASSUME x = 127, \A i \in 3..7 : b[i] = 0 PROVE Size(b) = 256 * (256 * b[8] + b[9]) + b[10]
  BY <1>1, <1>4, ZenonT(60) DEF Size
<1>5. ASSUME x # 126, x # 127 PROVE HeaderLength(b) = 2 /\ Size(b) = x
  BY <1>5, Zenon DEF HeaderLength, Size
<1> QED  BY <1>2, <1>3, <1>4, <1>5

LEMMA HeaderIsRead ==
  ASSUME NEW f \in WebFrames, NEW b \in Seq(Byte), NEW k \in Nat, Len(b) = k, k >= 2,
         Agrees(b, WebBytes(f))
  PROVE  /\ Opcode(b) = f.op
         /\ Fin(b) <=> f.fin = 1
         /\ Reserved(b) <=> f.reserved # 0
         /\ MaskLength(b) = MaskOf(f)
         /\ HeaderLength(b) = f.form
         /\ k >= f.form => Size(b) = Len(f.data)
<1> DEFINE e == WebBytes(f)
           l == LengthBytes(f)
<1>1. PICK n \in Nat : n = Len(f.data)
  BY FrameHasItsKind
<1>2. PICK form \in {2, 4, 10} : form = f.form
  BY FrameHasItsKind
<1>3. PICK m \in {0, 4} : m = MaskOf(f)
  BY DEF MaskOf
<1>4. PICK fin \in {0, 1}, reserved \in 0..7, op \in 0..15 : fin = f.fin /\ reserved = f.reserved /\ op = f.op
  BY FrameHasItsKind
<1>5. PICK x \in 0..127 : x = l[1]
  BY LengthBytesAre
<1> HIDE DEF e, l
<1>6. /\ Len(e) = form + m + n
      /\ e[1] = 128 * fin + 16 * reserved + op
      /\ e[2] = x + (IF m = 0 THEN 0 ELSE 128)
      /\ \A i \in 2..form - 1 : e[i + 1] = l[i]
  BY <1>1, <1>2, <1>3, <1>4, <1>5, WebBytesAre DEF e, l, MaskOf
<1>7. \A i \in 1..form : i <= k => b[i] = e[i]
  <2>1. \A i \in 1..k : i <= Len(e) => b[i] = e[i]
    BY DEF Agrees, e
  <2> QED  BY <1>6, <2>1, SMT
<1>8. b[1] = e[1] /\ b[2] = e[2]
  BY <1>7
<1>9. Opcode(b) = f.op /\ (Fin(b) <=> f.fin = 1) /\ (Reserved(b) <=> f.reserved # 0)
  <2> DEFINE h == 128 * fin + 16 * reserved + op
  <2>1. h % 16 = op /\ (h >= 128 <=> fin = 1) /\ ((h \div 16) % 8 # 0 <=> reserved # 0)
    BY FirstByte
  <2>2. b[1] = h
    BY <1>6, <1>8
  <2> HIDE DEF h
  <2> QED  BY <1>4, <2>1, <2>2, Zenon DEF Opcode, Fin, Reserved
<1>10. MaskLength(b) = MaskOf(f) /\ b[2] % 128 = x
  <2>1. CASE m = 0
    <3>1. b[2] = x /\ x % 128 = x /\ ~(x >= 128)
      BY <1>6, <1>8, <2>1, SecondByte
    <3> QED  BY <1>3, <2>1, <3>1, Zenon DEF MaskLength
  <2>2. CASE m = 4
    <3>1. b[2] = x + 128 /\ (x + 128) % 128 = x /\ x + 128 >= 128
      BY <1>6, <1>8, <2>2, SecondByte
    <3> QED  BY <1>3, <2>2, <3>1, Zenon DEF MaskLength
  <2> QED  BY <2>1, <2>2
<1>11. CASE form = 2
  <2>0. l[1] = Len(f.data) /\ l[1] \in 0..125
    BY <1>2, <1>11, LengthBytesAre, ZenonT(60) DEF l
  <2>1. n = x /\ x \in 0..125
    BY <1>1, <1>5, <2>0
  <2>2. x # 126 /\ x # 127
    BY <2>1, SMT
  <2>3. HeaderLength(b) = 2 /\ Size(b) = x
    BY <1>10, <2>2, LengthForms, Zenon
  <2> QED  BY <1>1, <1>2, <1>9, <1>10, <1>11, <2>1, <2>3, Zenon
<1>12. CASE form = 4
  <2>1. x = 126 /\ 256 * l[2] + l[3] = n
    BY <1>1, <1>2, <1>5, <1>12, LengthBytesAre, ZenonT(60) DEF l
  <2>2. k >= 4 => b[3] = l[2] /\ b[4] = l[3]
    BY <1>6, <1>7, <1>12, SMT
  <2>3. HeaderLength(b) = 4 /\ Size(b) = 256 * b[3] + b[4]
    BY <1>10, <2>1, LengthForms, ZenonT(60)
  <2> QED  BY <1>1, <1>2, <1>9, <1>10, <1>12, <2>1, <2>2, <2>3, ZenonT(60)
<1>13. CASE form = 10
  <2>1. x = 127 /\ (\A i \in 2..6 : l[i] = 0) /\ 256 * (256 * l[7] + l[8]) + l[9] = n
    BY <1>1, <1>2, <1>5, <1>13, LengthBytesAre, ZenonT(60) DEF l
  <2>2. k >= 10 => \A i \in 2..9 : b[i + 1] = l[i]
    BY <1>6, <1>7, <1>13, SMT
  <2>3. k >= 10 => b[8] = l[7] /\ b[9] = l[8] /\ b[10] = l[9] /\ \A i \in 3..7 : b[i] = 0
    BY <2>1, <2>2, SMT
  <2>4. HeaderLength(b) = 10
    <3>1. b[2] % 128 = 127
      BY <1>10, <2>1
    <3> QED  BY <3>1, LengthForms
  <2>5. ASSUME k >= 10 PROVE Size(b) = n
    <3>1. Size(b) = 256 * (256 * b[8] + b[9]) + b[10]
      BY <1>10, <2>1, <2>3, <2>5, LengthForms, ZenonT(60)
    <3> QED  BY <2>1, <2>3, <2>5, <3>1, Zenon
  <2> QED  BY <1>1, <1>2, <1>9, <1>10, <1>13, <2>4, <2>5, Zenon
<1> QED  BY <1>11, <1>12, <1>13

\* The data are where they should be, and a mask that is applied twice is gone.
LEMMA DataAreRead ==
  ASSUME NEW f \in WebFrames, NEW b \in Seq(Byte), NEW k \in Nat, Len(b) = k,
         Len(WebBytes(f)) <= k, Agrees(b, WebBytes(f))
  PROVE  LET start == f.form + MaskOf(f)
             mask == SubSeq(b, f.form + 1, start)
             payload == SubSeq(b, start + 1, start + Len(f.data)) IN
         (IF MaskOf(f) = 0 THEN payload ELSE Masked(payload, mask)) = f.data
<1> DEFINE e == WebBytes(f)
<1>1. PICK n \in Nat : n = Len(f.data)
  BY FrameHasItsKind
<1>2. PICK form \in {2, 4, 10} : form = f.form
  BY FrameHasItsKind
<1>3. PICK m \in {0, 4} : m = MaskOf(f)
  BY DEF MaskOf
<1> HIDE DEF e
<1>4. /\ Len(e) = form + m + n
      /\ \A i \in 1..m : e[form + i] = f.mask[i]
      /\ \A i \in 1..n : e[form + m + i] = Payload(f)[i]
  BY <1>1, <1>2, <1>3, WebBytesAre DEF e
<1> DEFINE start == form + m
           mask == SubSeq(b, form + 1, start)
           payload == SubSeq(b, start + 1, start + n)
<1>5. start \in Nat /\ form \in Nat /\ m \in Nat /\ start + n <= k /\ form + m <= k
  BY <1>4, SMT DEF e
<1>6. \A i \in 1..start + n : b[i] = e[i]
  BY <1>4, <1>5, SMT DEF Agrees, e
<1>7. payload \in Seq(Byte) /\ Len(payload) = n /\ \A i \in 1..n : payload[i] = Payload(f)[i]
  <2>1. payload \in Seq(Byte) /\ Len(payload) = n /\ \A i \in 1..n : payload[i] = b[start + i]
    <3>1. PICK at \in Nat : at = start /\ at + n <= Len(b)
      BY <1>5
    <3>2. payload = SubSeq(b, at + 1, at + n)
      BY <3>1, Zenon
    <3> HIDE DEF payload, start
    <3>3. payload \in Seq(Byte) /\ Len(payload) = n /\ \A i \in 1..n : payload[i] = b[at + i]
      BY <3>1, <3>2, PartOf
    <3> QED  BY <3>1, <3>3, Zenon
  <2>2. \A i \in 1..n : b[start + i] = e[start + i]
    BY <1>5, <1>6, SMTT(30)
  <2> HIDE DEF payload
  <2> QED  BY <1>4, <2>1, <2>2
<1>8. mask \in Seq(Byte) /\ Len(mask) = m /\ \A i \in 1..m : mask[i] = f.mask[i]
  <2>1. mask \in Seq(Byte) /\ Len(mask) = m /\ \A i \in 1..m : mask[i] = b[form + i]
    <3>1. PICK at \in Nat : at = form /\ at + m <= Len(b)
      BY <1>5
    <3>2. mask = SubSeq(b, at + 1, at + m) /\ m \in Nat
      BY <1>5, <3>1, Zenon
    <3> HIDE DEF mask
    <3>3. mask \in Seq(Byte) /\ Len(mask) = m /\ \A i \in 1..m : mask[i] = b[at + i]
      BY <3>1, <3>2, PartOf, SMTT(30)
    <3> QED  BY <3>1, <3>3, Zenon
  <2>2. \A i \in 1..m : b[form + i] = e[form + i]
    BY <1>5, <1>6, SMTT(30)
  <2> HIDE DEF mask
  <2> QED  BY <1>4, <2>1, <2>2
<1> HIDE DEF payload, mask, start
<1>9. CASE m = 0
  <2>0. f.mask = <<>> /\ MaskOf(f) = 0
    BY <1>3, <1>9 DEF MaskOf
  <2>1. Payload(f) = f.data
    BY <2>0, Zenon DEF Payload
  <2>2. payload = f.data
    BY <1>1, <1>7, <2>1, SeqEqual, FrameHasItsKind
  <2> QED  BY <1>1, <1>2, <1>3, <1>9, <2>0, <2>2, Zenon DEF payload, start
<1>10. CASE m = 4
  <2>0. f.mask # <<>> /\ MaskOf(f) # 0
    BY <1>3, <1>10 DEF MaskOf
  <2>1. f.mask \in [1..4 -> Byte] /\ f.data \in Seq(Byte) /\ Payload(f) = Masked(f.data, f.mask)
    BY <2>0, FrameHasItsKind, Zenon DEF Payload
  <2>2. ASSUME NEW i \in 1..n PROVE ByteXor(payload[i], mask[((i - 1) % 4) + 1]) = f.data[i]
    <3> DEFINE j == ((i - 1) % 4) + 1
    <3>1. j \in 1..4
      BY SMT
    <3>2. Payload(f)[i] = ByteXor(f.data[i], f.mask[j])
      BY <1>1, <2>1 DEF Masked
    <3> HIDE DEF j
    <3>3. f.data[i] \in Byte /\ f.mask[j] \in Byte
      BY <1>1, <2>1, <3>1
    <3>4. payload[i] = ByteXor(f.data[i], f.mask[j]) /\ mask[j] = f.mask[j]
      BY <1>7, <1>8, <1>10, <3>1, <3>2
    <3>5. ByteXor(payload[i], mask[j]) = f.data[i]
      BY <3>3, <3>4, XorAssumption, Zenon
    <3> QED  BY <3>5, Zenon DEF j
  <2>3. Masked(payload, mask) = [i \in 1..n |-> f.data[i]]
    BY <1>7, <2>2, Zenon DEF Masked
  <2>4. f.data = [i \in 1..n |-> f.data[i]]
    BY <1>1, <2>1
  <2>5. Masked(payload, mask) = f.data
    BY <2>3, <2>4, Zenon
  <2> QED  BY <1>1, <1>2, <1>3, <1>10, <2>0, <2>5, Zenon DEF payload, mask, start
<1> QED  BY <1>9, <1>10

\* What a frame adds to what was said before it.
LEMMA HeardIs ==
  ASSUME NEW s, IsSaid(s), NEW f, IsWeb => f.op \in 0..15
  PROVE  LET t == Heard(s, f) IN
         /\ t.at = s.at + Len(Encoded(f))
         /\ ~(s.ok /\ Valid(s, f)) =>
               ~t.ok /\ t.events = s.events /\ t.parts = s.parts /\ t.pieces = s.pieces
         /\ s.ok /\ Valid(s, f) =>
               /\ t.ok /\ t.events = s.events \o Meaning(s, f)
               /\ IsWeb /\ f.op < 8 /\ f.fin = 0 => t.parts = s.parts \o f.data /\ t.pieces = s.pieces + 1
               /\ IsWeb /\ f.op >= 8 => t.parts = s.parts /\ t.pieces = s.pieces
               /\ ~IsWeb \/ (f.op < 8 /\ f.fin # 0) => t.parts = <<>> /\ t.pieces = 0
<1> DEFINE after == [s EXCEPT !.at = @ + Len(Encoded(f))]
           c == Collected(after, f)
           t == Heard(s, f)
<1>1. CASE ~(s.ok /\ Valid(s, f))
  <2>1. t = [after EXCEPT !.ok = FALSE]
    BY <1>1, Zenon DEF Heard
  <2> HIDE DEF t
  <2> QED  BY <1>1, <2>1 DEF IsSaid, SaidType, t
<1>2. CASE s.ok /\ Valid(s, f)
  <2>1. t = [c EXCEPT !.events = @ \o Meaning(s, f)]
    BY <1>2, Zenon DEF Heard
  <2>2. /\ after.at = s.at + Len(Encoded(f)) /\ after.ok /\ after.events = s.events
        /\ after.parts = s.parts /\ after.pieces = s.pieces
        /\ after = [at |-> after.at, parts |-> after.parts, pieces |-> after.pieces, ok |-> after.ok, events |-> after.events]
    BY <1>2 DEF IsSaid, SaidType
  <2> HIDE DEF t, after
  <2>3. CASE IsWeb /\ f.op < 8 /\ f.fin = 0
    <3>1. c = [after EXCEPT !.parts = @ \o f.data, !.pieces = @ + 1]
      BY <2>3, Zenon DEF Collected
    <3>2. ~(f.op >= 8)
      BY <2>3, SMT
    <3> HIDE DEF c
    <3>3. t.at = s.at + Len(Encoded(f)) /\ t.ok /\ t.events = s.events \o Meaning(s, f)
          /\ t.parts = s.parts \o f.data /\ t.pieces = s.pieces + 1
      BY <2>1, <2>2, <3>1
    <3> QED  BY <1>2, <2>3, <3>2, <3>3, Zenon DEF t
  <2>4. CASE IsWeb /\ f.op >= 8
    <3>1. ~(f.op < 8)
      BY <2>4, SMT
    <3>2. c = after
      BY <2>4, <3>1, Zenon DEF Collected
    <3> HIDE DEF c
    <3>3. t.at = s.at + Len(Encoded(f)) /\ t.ok /\ t.events = s.events \o Meaning(s, f)
          /\ t.parts = s.parts /\ t.pieces = s.pieces
      BY <2>1, <2>2, <3>2
    <3> QED  BY <1>2, <2>4, <3>1, <3>3, Zenon DEF t
  <2>5. CASE ~IsWeb \/ (f.op < 8 /\ f.fin # 0)
    <3>1. ~(IsWeb /\ f.op >= 8)
      BY <2>5, SMT
    <3>2. c = [after EXCEPT !.parts = <<>>, !.pieces = 0]
      BY <2>5, <3>1, Zenon DEF Collected
    <3> HIDE DEF c
    <3>3. t.at = s.at + Len(Encoded(f)) /\ t.ok /\ t.events = s.events \o Meaning(s, f)
          /\ t.parts = <<>> /\ t.pieces = 0
      BY <2>1, <2>2, <3>2
    <3> QED  BY <1>2, <2>5, <3>1, <3>3, Zenon DEF t
  <2>6. IsWeb => f.op < 8 \/ f.op >= 8
    BY SMT
  <2> QED  BY <2>3, <2>4, <2>5, <2>6, Zenon
<1> QED  BY <1>1, <1>2

------------------------------------------------------------------------------
(* A receiver's turn does what the frame before it means *)

\* A receiver that has reported what was said so far, and holds what comes next.
Ready(st, s, f) ==
    /\ IsState(st) /\ st.open
    /\ IsSaid(s) /\ s.ok /\ Len(s.parts) <= MaxMessage
    /\ ~IsWeb => s.parts = <<>> /\ s.pieces = 0
    /\ st.parts = s.parts /\ st.pieces = s.pieces /\ st.events = s.events
    /\ f \in PeerFrame
    /\ Agrees(st.held, Encoded(f))

\* It waits for the rest of the frame, of which it holds no more than the limit;
\* or fails, and the frame is wrong; or takes the frame and reports its meaning.
Taken(st, e, t, r) ==
    /\ IsState(r) /\ r.pc = st.pc /\ r.open = st.open
    /\ r.held = SubSeq(st.held, Len(e) + 1, Len(st.held))
    /\ r.parts = t.parts /\ r.pieces = t.pieces /\ r.events = t.events
Right(st, s, f, limit, r) ==
    LET t == Heard(s, f) IN
    \/ r = Wait(st) /\ Len(st.held) < Len(Encoded(f)) /\ Len(st.held) <= limit
    \/ IsState(r) /\ r.pc = "failed" /\ r.events = st.events /\ ~t.ok
    \/ Taken(st, Encoded(f), t, r) /\ Len(Encoded(f)) <= Len(st.held) /\ t.ok

LEMMA BoundsAreNumbers == /\ MaxMessage \in Nat /\ MaxControl \in Nat /\ MaxHead \in Nat /\ MaxChunk \in Nat
                          /\ MaxMessage < TooLong
  BY BoundsAssumption

LEMMA FailureIsAState ==
  ASSUME NEW st, IsState(st)
  PROVE  IsState(Fail(st)) /\ Fail(st).pc = "failed" /\ Fail(st).events = st.events
  BY DEF IsState, Fail

LEMMA DesktopBytesAre ==
  ASSUME NEW data \in Payloads
  PROVE  LET e == DesktopBytes(data) IN
         /\ e \in Seq(Byte) /\ Len(e) = 4 + Len(data)
         /\ e[4] = 0 /\ e[1] + 256 * (e[2] + 256 * e[3]) = Len(data)
         /\ \A i \in 1..Len(data) : e[4 + i] = data[i]
<1>1. data \in Seq(Byte) /\ Len(data) < TooLong
  <2>1. data \in Seq(Byte \ {Newline}) /\ Byte \ {Newline} \subseteq Byte /\ Len(data) < TooLong
    BY PayloadsAssumption
  <2> QED  BY <2>1, SeqMonotonic
<1>2. PICK n \in Nat : n = Len(data)
  BY <1>1
<1> DEFINE q == n \div 256
           x == n % 256
           y == q % 256
           z == q \div 256
           a == <<x, y, z, 0>>
<1>3. n < 256 * 256 * 256
  BY <1>1, <1>2, Zenon DEF TooLong
<1>4. z \in Byte /\ y \in Byte /\ x \in Byte /\ 256 * (256 * z + y) + x = n
  BY <1>3, Digits, ZenonT(60)
<1>5. DesktopBytes(data) = a \o data
  BY <1>2, Zenon DEF DesktopBytes
<1> HIDE DEF q, x, y, z
<1>6. a \in Seq(Byte) /\ Len(a) = 4 /\ a[1] = x /\ a[2] = y /\ a[3] = z /\ a[4] = 0
  BY <1>4, SMT DEF Byte
<1>7. PICK k \in Nat : k = Len(a) /\ k = 4
  BY <1>6
<1> HIDE DEF a
<1>8. /\ a \o data \in Seq(Byte) /\ Len(a \o data) = k + n
      /\ \A i \in 1..k : (a \o data)[i] = a[i]
      /\ \A i \in 1..n : (a \o data)[k + i] = data[i]
  <2>1. a \in Seq(Byte) /\ Len(a) = k
    BY <1>6, <1>7
  <2>2. data \in Seq(Byte) /\ Len(data) = n
    BY <1>1, <1>2
  <2> QED  BY <2>1, <2>2, SMT
<1>9. x + 256 * (y + 256 * z) = n
  BY <1>4, SMT DEF Byte
<1> QED  BY <1>2, <1>5, <1>6, <1>7, <1>8, <1>9

\* What the steps of a turn change.
LEMMA HeldChanges ==
  ASSUME NEW st, IsState(st), NEW v \in Seq(Byte), NEW r, r = [st EXCEPT !.held = v]
  PROVE  /\ IsState(r)
         /\ r.pc = st.pc /\ r.open = st.open /\ r.held = v
         /\ r.parts = st.parts /\ r.pieces = st.pieces /\ r.events = st.events
<1>1. st = [pc |-> st.pc, open |-> st.open, held |-> st.held,
             parts |-> st.parts, pieces |-> st.pieces, events |-> st.events]
  BY SMT DEF IsState
<1>2. r = [pc |-> st.pc, open |-> st.open, held |-> v,
             parts |-> st.parts, pieces |-> st.pieces, events |-> st.events]
  BY <1>1, SMT
<1>3. /\ st.pc \in {"idle", "busy", "failed", "overrun"} /\ st.open \in BOOLEAN /\ st.held \in Seq(Byte)
      /\ st.parts \in Seq(Byte) /\ st.pieces \in Nat /\ st.events \in Seq(EventType)
  BY SMT DEF IsState
<1>4. IsState(r)
  BY <1>2, <1>3, Zenon DEF IsState
<1> QED  BY <1>2, <1>4, SMT

LEMMA EventsChange ==
  ASSUME NEW st, IsState(st), NEW v \in Seq(EventType), NEW r, r = [st EXCEPT !.events = v]
  PROVE  /\ IsState(r)
         /\ r.pc = st.pc /\ r.open = st.open /\ r.held = st.held
         /\ r.parts = st.parts /\ r.pieces = st.pieces /\ r.events = v
<1>1. st = [pc |-> st.pc, open |-> st.open, held |-> st.held,
             parts |-> st.parts, pieces |-> st.pieces, events |-> st.events]
  BY SMT DEF IsState
<1>2. r = [pc |-> st.pc, open |-> st.open, held |-> st.held,
             parts |-> st.parts, pieces |-> st.pieces, events |-> v]
  BY <1>1, SMT
<1>3. /\ st.pc \in {"idle", "busy", "failed", "overrun"} /\ st.open \in BOOLEAN /\ st.held \in Seq(Byte)
      /\ st.parts \in Seq(Byte) /\ st.pieces \in Nat /\ st.events \in Seq(EventType)
  BY SMT DEF IsState
<1>4. IsState(r)
  BY <1>2, <1>3, Zenon DEF IsState
<1> QED  BY <1>2, <1>4, SMT

LEMMA OpenChanges ==
  ASSUME NEW st, IsState(st), NEW v \in BOOLEAN, NEW r, r = [st EXCEPT !.open = v]
  PROVE  /\ IsState(r)
         /\ r.pc = st.pc /\ r.open = v /\ r.held = st.held
         /\ r.parts = st.parts /\ r.pieces = st.pieces /\ r.events = st.events
<1>1. st = [pc |-> st.pc, open |-> st.open, held |-> st.held,
             parts |-> st.parts, pieces |-> st.pieces, events |-> st.events]
  BY SMT DEF IsState
<1>2. r = [pc |-> st.pc, open |-> v, held |-> st.held,
             parts |-> st.parts, pieces |-> st.pieces, events |-> st.events]
  BY <1>1, SMT
<1>3. /\ st.pc \in {"idle", "busy", "failed", "overrun"} /\ st.held \in Seq(Byte)
      /\ st.parts \in Seq(Byte) /\ st.pieces \in Nat /\ st.events \in Seq(EventType)
  BY SMT DEF IsState
<1>4. IsState(r)
  BY <1>2, <1>3, Zenon DEF IsState
<1> QED  BY <1>2, <1>4, SMT

LEMMA DroppedIs ==
  ASSUME NEW st, IsState(st), NEW n \in Nat, n <= Len(st.held)
  PROVE  LET r == Dropped(st, n) IN
         /\ IsState(r) /\ r.pc = st.pc /\ r.open = st.open
         /\ r.held = SubSeq(st.held, n + 1, Len(st.held))
         /\ r.parts = st.parts /\ r.pieces = st.pieces /\ r.events = st.events
<1> DEFINE rest == SubSeq(st.held, n + 1, Len(st.held))
<1>1. rest \in Seq(Byte)
  BY RestOf DEF IsState
<1> DEFINE d == Dropped(st, n)
<1>2. d = [st EXCEPT !.held = rest]
  BY DEF Dropped
<1> HIDE DEF rest, d
<1>3. /\ IsState(d) /\ d.pc = st.pc /\ d.open = st.open /\ d.held = rest
      /\ d.parts = st.parts /\ d.pieces = st.pieces /\ d.events = st.events
  BY <1>1, <1>2, HeldChanges
<1> QED  BY <1>3, Zenon DEF rest, d

LEMMA EventIs ==
  ASSUME NEW st, IsState(st), NEW kind \in {"open", "text", "ping", "close"}, NEW data \in Seq(Byte)
  PROVE  LET r == Event(st, kind, data) IN
         /\ IsState(r) /\ r.pc = st.pc /\ r.open = st.open /\ r.held = st.held
         /\ r.parts = st.parts /\ r.pieces = st.pieces
         /\ r.events = st.events \o Events(kind, data)
<1> DEFINE v == st.events \o Events(kind, data)
<1>1. [kind |-> kind, data |-> data] \in EventType
  BY DEF EventType
<1>2. Events(kind, data) \in Seq(EventType)
  BY <1>1, SMT DEF Events
<1>3. v \in Seq(EventType)
  BY <1>2, ConcatProperties DEF IsState
<1> DEFINE d == Event(st, kind, data)
<1>4. d = [st EXCEPT !.events = v]
  BY DEF Event
<1> HIDE DEF v, d
<1>5. /\ IsState(d) /\ d.pc = st.pc /\ d.open = st.open /\ d.held = st.held
      /\ d.parts = st.parts /\ d.pieces = st.pieces /\ d.events = v
  BY <1>3, <1>4, EventsChange
<1> QED  BY <1>5, Zenon DEF v, d

LEMMA EventIsTaken ==
  ASSUME NEW st, IsState(st), NEW e, NEW t, NEW n \in Nat, Len(e) = n, n <= Len(st.held),
         NEW kind \in {"open", "text", "ping", "close"}, NEW data \in Seq(Byte),
         st.parts = t.parts, st.pieces = t.pieces, t.events = st.events \o Events(kind, data)
  PROVE  Taken(st, e, t, Event(Dropped(st, n), kind, data))
<1> DEFINE d == Dropped(st, n)
           r == Event(d, kind, data)
<1>1. /\ IsState(d) /\ d.pc = st.pc /\ d.open = st.open
      /\ d.held = SubSeq(st.held, n + 1, Len(st.held))
      /\ d.parts = st.parts /\ d.pieces = st.pieces /\ d.events = st.events
  BY DroppedIs
<1> HIDE DEF d
<1>2. /\ IsState(r) /\ r.pc = d.pc /\ r.open = d.open /\ r.held = d.held
      /\ r.parts = d.parts /\ r.pieces = d.pieces
      /\ r.events = d.events \o Events(kind, data)
  BY <1>1, EventIs
<1> HIDE DEF r
<1>3. Taken(st, e, t, r)
  BY <1>1, <1>2, Zenon DEF Taken
<1> QED  BY <1>3, Zenon DEF r, d

LEMMA DesktopTurn ==
  ASSUME receiver = "desktop", NEW st, NEW s, NEW f, Ready(st, s, f)
  PROVE  Right(st, s, f, MaxMessage + 3, DesktopFrame(st))
<1> DEFINE b == st.held
           e == Encoded(f)
           t == Heard(s, f)
           size == IF b[4] # 0 THEN TooLong ELSE b[1] + 256 * (b[2] + 256 * b[3])
           r == DesktopFrame(st)
<1>1. ~IsWeb /\ receiver # "daemon" /\ receiver # "ssh" /\ receiver # "lines"
  BY DEF IsWeb
<1>2. f.data \in Payloads /\ e = DesktopBytes(f.data)
  <2>1. f \in [data : Payloads]
    BY <1>1, Zenon DEF Ready, PeerFrame
  <2> QED  BY <1>1, <2>1, Zenon DEF Encoded
<1>3. PICK data \in Payloads : data = f.data
  BY <1>2
<1>4. PICK n \in Nat : n = Len(data) /\ (data # <<>> <=> n # 0)
  <2>1. data \in Seq(Byte \ {Newline})
    BY PayloadsAssumption
  <2> QED  BY <2>1, EmptySeq
<1> HIDE DEF e
<1>5. /\ e \in Seq(Byte) /\ Len(e) = 4 + n
      /\ e[4] = 0 /\ e[1] + 256 * (e[2] + 256 * e[3]) = n
      /\ \A i \in 1..n : e[4 + i] = data[i]
  BY <1>2, <1>3, <1>4, DesktopBytesAre, SMTT(30)
<1>6. PICK k \in Nat : k = Len(b)
  BY DEF Ready, IsState
<1>7. b \in Seq(Byte) /\ \A i \in 1..k : i <= 4 + n => b[i] = e[i]
  BY <1>5, <1>6 DEF Ready, IsState, Agrees, e
<1>8. Valid(s, f) <=> n <= MaxMessage /\ n # 0
  BY <1>1, <1>3, <1>4, Zenon DEF Valid
<1>9. CASE k < 4
  <2>1. r = Wait(st)
    BY <1>6, <1>9, Zenon DEF DesktopFrame
  <2>2. Len(b) < Len(e) /\ Len(b) <= MaxMessage + 3
    BY <1>5, <1>6, <1>9, BoundsAreNumbers, SMT
  <2> QED  BY <2>1, <2>2, Zenon DEF Right, e
<1>10. CASE ~(k < 4)
  <2>1. size = n
    <3>1. b[1] = e[1] /\ b[2] = e[2] /\ b[3] = e[3] /\ b[4] = e[4]
      BY <1>7, <1>10, SMT
    <3> QED  BY <1>5, <3>1, Zenon
  <2>2. CASE n = 0 \/ n > MaxMessage
    <3>1. r = Fail(st)
      BY <1>6, <1>10, <2>1, <2>2, Zenon DEF DesktopFrame
    <3>2. ~Valid(s, f)
      BY <1>8, <2>2, BoundsAreNumbers, SMT
    <3>3. ~t.ok
      BY <1>1, <3>2, HeardIs DEF Ready
    <3> QED  BY <3>1, <3>3, FailureIsAState, Zenon DEF Right, Ready
  <2>3. CASE n # 0 /\ ~(n > MaxMessage) /\ k < 4 + n
    <3>1. r = Wait(st)
      BY <1>6, <1>10, <2>1, <2>3, Zenon DEF DesktopFrame
    <3>2. Len(b) < Len(e) /\ Len(b) <= MaxMessage + 3
      BY <1>5, <1>6, <2>3, BoundsAreNumbers, SMT
    <3> QED  BY <3>1, <3>2, Zenon DEF Right, e
  <2>4. CASE n # 0 /\ ~(n > MaxMessage) /\ ~(k < 4 + n)
    <3>1. r = Event(Dropped(st, 4 + n), "text", SubSeq(b, 5, 4 + n))
      BY <1>6, <1>10, <2>1, <2>4, ZenonT(60) DEF DesktopFrame
    <3>2. SubSeq(b, 5, 4 + n) = data
      <4> DEFINE part == SubSeq(b, 4 + 1, 4 + n)
      <4>1. 4 \in Nat /\ 4 + n <= Len(b)
        BY <1>6, <2>4, SMT
      <4>2. part \in Seq(Byte) /\ Len(part) = n /\ \A i \in 1..n : part[i] = b[4 + i]
        BY <1>7, <4>1, PartOf
      <4>3. \A i \in 1..n : b[4 + i] = data[i]
        BY <1>5, <1>7, <2>4, SMT
      <4>4. data \in Seq(Byte \ {Newline}) /\ Byte \ {Newline} \subseteq Byte
        BY PayloadsAssumption
      <4>5. data \in Seq(Byte)
        BY <4>4, SeqMonotonic
      <4> HIDE DEF part
      <4>6. part = data
        BY <1>4, <4>2, <4>3, <4>5, SeqEqual
      <4> QED  BY <4>6 DEF part
    <3>3. Valid(s, f)
      BY <1>8, <2>4, BoundsAreNumbers, SMT
    <3>4. t.ok /\ t.events = s.events \o Events("text", data) /\ t.parts = <<>> /\ t.pieces = 0
      <4>1. Meaning(s, f) = Events("text", data)
        BY <1>1, <1>3, Zenon DEF Meaning
      <4> QED  BY <1>1, <3>3, <4>1, HeardIs DEF Ready
    <3>5. Taken(st, e, t, r)
      <4>1. st.parts = t.parts /\ st.pieces = t.pieces /\ t.events = st.events \o Events("text", data)
        BY <1>1, <3>4 DEF Ready
      <4>2. IsState(st) /\ 4 + n \in Nat /\ Len(e) = 4 + n /\ 4 + n <= Len(st.held) /\ data \in Seq(Byte)
        <5>1. data \in Seq(Byte \ {Newline}) /\ Byte \ {Newline} \subseteq Byte
          BY PayloadsAssumption
        <5> QED  BY <1>5, <1>6, <2>4, <5>1, SeqMonotonic DEF Ready
      <4> HIDE DEF r, t
      <4>3. Taken(st, e, t, Event(Dropped(st, 4 + n), "text", data))
        BY <4>1, <4>2, EventIsTaken
      <4> QED  BY <3>1, <3>2, <4>3, Zenon
    <3>6. Len(e) <= Len(b)
      BY <1>5, <1>6, <2>4, SMT
    <3> QED  BY <3>4, <3>5, <3>6, Zenon DEF Right, e
  <2> QED  BY <2>2, <2>3, <2>4
<1> QED  BY <1>9, <1>10

LEMMA LineTurn ==
  ASSUME receiver = "lines", NEW st, NEW s, NEW f, Ready(st, s, f)
  PROVE  Right(st, s, f, MaxMessage, Line(st))
<1> DEFINE b == st.held
           e == Encoded(f)
           t == Heard(s, f)
           places == Newlines(b)
           r == Line(st)
<1>1. ~IsWeb /\ receiver # "daemon" /\ receiver # "ssh" /\ receiver # "desktop"
  BY DEF IsWeb
<1>2. f.data \in Payloads /\ e = Append(f.data, Newline)
  <2>1. f \in [data : Payloads]
    BY <1>1, Zenon DEF Ready, PeerFrame
  <2> QED  BY <1>1, <2>1, Zenon DEF Encoded
<1>3. PICK data \in Payloads : data = f.data
  BY <1>2
<1>4. data \in Seq(Byte \ {Newline}) /\ data \in Seq(Byte) /\ Newline \in Byte
  <2>1. data \in Seq(Byte \ {Newline}) /\ Byte \ {Newline} \subseteq Byte
    BY PayloadsAssumption
  <2> QED  BY <2>1, SeqMonotonic DEF Byte, Newline
<1>5. PICK n \in Nat : n = Len(data)
  BY <1>4
<1>6. \A i \in 1..n : data[i] # Newline
  BY <1>4, <1>5
<1> HIDE DEF e
<1>7. Len(e) = n + 1 /\ e[n + 1] = Newline /\ \A i \in 1..n : e[i] = data[i]
  BY <1>2, <1>3, <1>4, <1>5
<1>8. PICK k \in Nat : k = Len(b)
  BY DEF Ready, IsState
<1>9. b \in Seq(Byte) /\ \A i \in 1..k : i <= n + 1 => b[i] = e[i]
  BY <1>7, <1>8 DEF Ready, IsState, Agrees, e
<1>10. Valid(s, f) <=> n <= MaxMessage
  BY <1>1, <1>3, <1>5, Zenon DEF Valid
<1>11. places = {i \in 1..k : b[i] = Newline}
  BY <1>8, Zenon DEF Newlines
<1>12. CASE k <= n
  <2>1. places = {}
    <3>1. ASSUME NEW i \in 1..k PROVE b[i] # Newline
      BY <1>6, <1>7, <1>9, <1>12, SMT
    <3> QED  BY <1>11, <3>1, Zenon
  <2>2. CASE k > MaxMessage
    <3>1. r = Fail(st)
      BY <1>8, <2>1, <2>2, Zenon DEF Line
    <3>2. ~Valid(s, f)
      BY <1>10, <1>12, <2>2, BoundsAreNumbers, SMT
    <3>3. ~t.ok
      BY <1>1, <3>2, HeardIs DEF Ready
    <3> QED  BY <3>1, <3>3, FailureIsAState, Zenon DEF Right, Ready
  <2>3. CASE ~(k > MaxMessage)
    <3>1. r = Wait(st)
      BY <1>8, <2>1, <2>3, Zenon DEF Line
    <3>2. Len(b) < Len(e) /\ Len(b) <= MaxMessage
      BY <1>7, <1>8, <1>12, <2>3, BoundsAreNumbers, SMT
    <3> QED  BY <3>1, <3>2, Zenon DEF Right, e
  <2> QED  BY <2>2, <2>3
<1>13. CASE ~(k <= n)
  <2>1. n + 1 \in places /\ places \in SUBSET Nat /\ \A j \in places : n + 1 <= j
    <3>1. n + 1 \in 1..k /\ b[n + 1] = Newline
      BY <1>7, <1>9, <1>13, SMT
    <3>2. ASSUME NEW j \in 1..k, b[j] = Newline PROVE n + 1 <= j
      BY <1>6, <1>7, <1>9, <3>2, SMT
    <3>3. 1..k \subseteq Nat
      OBVIOUS
    <3> HIDE DEF places
    <3>4. places \in SUBSET Nat
      BY <1>11, <3>3, Zenon
    <3>5. n + 1 \in places
      BY <1>11, <3>1, Zenon
    <3> QED  BY <1>11, <3>2, <3>4, <3>5, Zenon
  <2>2. First(places) = n + 1 /\ places # {} /\ First(places) - 1 = n
    <3> HIDE DEF places
    <3>1. First(places) = n + 1
      BY <2>1, FirstIs
    <3> QED  BY <2>1, <3>1
  <2>3. CASE n > MaxMessage
    <3>1. r = Fail(st)
      BY <2>2, <2>3, Zenon DEF Line
    <3>2. ~Valid(s, f)
      BY <1>10, <2>3, BoundsAreNumbers, SMT
    <3>3. ~t.ok
      BY <1>1, <3>2, HeardIs DEF Ready
    <3> QED  BY <3>1, <3>3, FailureIsAState, Zenon DEF Right, Ready
  <2>4. CASE ~(n > MaxMessage)
    <3>1. r = Event(Dropped(st, n + 1), "text", SubSeq(b, 1, n))
      BY <2>2, <2>4, Zenon DEF Line
    <3>2. SubSeq(b, 1, n) = data
      <4> DEFINE part == SubSeq(b, 0 + 1, 0 + n)
      <4>1. 0 \in Nat /\ 0 + n <= Len(b)
        BY <1>8, <1>13, SMT
      <4>2. part \in Seq(Byte) /\ Len(part) = n /\ \A i \in 1..n : part[i] = b[0 + i]
        BY <1>9, <4>1, PartOf
      <4>3. \A i \in 1..n : b[0 + i] = data[i]
        BY <1>7, <1>9, <1>13, SMT
      <4> HIDE DEF part
      <4>4. part = data
        BY <1>4, <1>5, <4>2, <4>3, SeqEqual
      <4> QED  BY <4>4 DEF part
    <3>3. Valid(s, f)
      BY <1>10, <2>4, BoundsAreNumbers, SMT
    <3>4. t.ok /\ t.events = s.events \o Events("text", data) /\ t.parts = <<>> /\ t.pieces = 0
      <4>1. Meaning(s, f) = Events("text", data)
        BY <1>1, <1>3, Zenon DEF Meaning
      <4> QED  BY <1>1, <3>3, <4>1, HeardIs DEF Ready
    <3>5. Taken(st, e, t, r)
      <4>1. st.parts = t.parts /\ st.pieces = t.pieces /\ t.events = st.events \o Events("text", data)
        BY <1>1, <3>4 DEF Ready
      <4>2. IsState(st) /\ n + 1 \in Nat /\ Len(e) = n + 1 /\ n + 1 <= Len(st.held)
        BY <1>7, <1>8, <1>13 DEF Ready
      <4> HIDE DEF r, t
      <4>3. Taken(st, e, t, Event(Dropped(st, n + 1), "text", data))
        BY <1>4, <4>1, <4>2, EventIsTaken
      <4> QED  BY <3>1, <3>2, <4>3, Zenon
    <3>6. Len(e) <= Len(b)
      BY <1>7, <1>8, <1>13, SMT
    <3> QED  BY <3>4, <3>5, <3>6, Zenon DEF Right, e
  <2> QED  BY <2>3, <2>4
<1> QED  BY <1>12, <1>13

LEMMA WebFrameIsHeld ==
  ASSUME IsWeb, NEW st, NEW s, NEW f, Ready(st, s, f)
  PROVE  /\ f \in WebFrames /\ Encoded(f) = WebBytes(f)
         /\ st.held \in Seq(Byte) /\ Len(st.held) \in Nat /\ Agrees(st.held, WebBytes(f))
         /\ f.data \in Seq(Byte) /\ f.op \in 0..15 /\ f.fin \in {0, 1}
         /\ IsState(st) /\ IsSaid(s)
         /\ st.parts = s.parts /\ st.pieces = s.pieces /\ st.events = s.events
<1>1. f \in WebFrames /\ Encoded(f) = WebBytes(f)
  <2>1. receiver # "desktop"
    BY DEF IsWeb
  <2> QED  BY <2>1, Zenon DEF Ready, PeerFrame, Encoded
<1>2. f.data \in Seq(Byte) /\ f.op \in 0..15 /\ f.fin \in {0, 1}
  BY <1>1, FrameHasItsKind
<1>3. IsState(st) /\ IsSaid(s) /\ st.parts = s.parts /\ st.pieces = s.pieces /\ st.events = s.events
  BY DEF Ready
<1>4. st.held \in Seq(Byte) /\ Len(st.held) \in Nat
  BY <1>3 DEF IsState
<1>5. Agrees(st.held, WebBytes(f))
  BY <1>1 DEF Ready
<1> QED  BY <1>1, <1>2, <1>3, <1>4, <1>5

\* A frame that is wrong makes its receiver fail.
LEMMA WrongFrame ==
  ASSUME NEW st, NEW s, NEW f, Ready(st, s, f), IsWeb => f.op \in 0..15, ~Valid(s, f), NEW limit,
         NEW d, IsState(d), d.events = st.events
  PROVE  Right(st, s, f, limit, Fail(d))
<1>1. IsState(Fail(d)) /\ Fail(d).pc = "failed" /\ Fail(d).events = d.events
  BY FailureIsAState
<1>2. ~Heard(s, f).ok
  BY HeardIs DEF Ready
<1> QED  BY <1>1, <1>2, Zenon DEF Right

LEMMA FragmentIsRight ==
  ASSUME IsWeb, NEW st, NEW s, NEW f, Ready(st, s, f), NEW limit,
         NEW k \in Nat, Len(st.held) = k, NEW l \in Nat, Len(Encoded(f)) = l, l <= k,
         Valid(s, f) <=> Continues(s, f)
  PROVE  Right(st, s, f, limit, Fragment(Dropped(st, l), f.op, f.fin = 1, f.data))
<1> DEFINE d == Dropped(st, l)
           data == f.data
           parts == d.parts \o data
           r == Fragment(d, f.op, f.fin = 1, data)
           t == Heard(s, f)
<1>1. /\ data \in Seq(Byte) /\ f.op \in 0..15 /\ f.fin \in {0, 1} /\ IsState(st) /\ IsSaid(s)
      /\ st.parts = s.parts /\ st.pieces = s.pieces /\ st.events = s.events
  BY WebFrameIsHeld
<1>2. /\ IsState(d) /\ d.pc = st.pc /\ d.open = st.open
      /\ d.held = SubSeq(st.held, l + 1, Len(st.held))
      /\ d.parts = st.parts /\ d.pieces = st.pieces /\ d.events = st.events
  BY <1>1, DroppedIs
<1> HIDE DEF d
<1>3. d.parts \in Seq(Byte) /\ d.pieces \in Nat
  BY <1>2 DEF IsState
<1>4. PICK m, n \in Nat : m = Len(d.parts) /\ n = Len(data)
  BY <1>1, <1>3
<1>5. parts \in Seq(Byte) /\ Len(parts) = m + n
  BY <1>1, <1>3, <1>4, ConcatProperties
<1> HIDE DEF parts
<1>7. PICK op \in 0..15, z \in Nat : op = f.op /\ z = d.pieces
  BY <1>1, <1>3
<1>6. Continues(s, f) <=> op = (IF z = 0 THEN 1 ELSE 0) /\ m + n <= MaxMessage
  BY <1>1, <1>2, <1>4, <1>7, Zenon DEF Continues
<1> DEFINE Wrong == op \notin {0, 1} \/ (op = 0 <=> z = 0) \/ m + n > MaxMessage
<1>8. CASE Wrong
  <2>1. r = Fail(d)
    BY <1>5, <1>7, <1>8, Zenon DEF Fragment, parts
  <2>2. ~Continues(s, f)
    BY <1>6, <1>8, BoundsAreNumbers, SMT
  <2>3. Right(st, s, f, limit, Fail(d))
    BY <1>1, <1>2, <2>2, WrongFrame
  <2> QED  BY <2>1, <2>3, Zenon DEF r, d
<1>9. CASE ~Wrong
  <2>1. s.ok /\ Valid(s, f) /\ f.op < 8
    <3>1. op \in {0, 1} /\ Continues(s, f)
      BY <1>6, <1>9, BoundsAreNumbers, SMT
    <3> QED  BY <1>7, <3>1, SMT DEF Ready
  <2>0. f.op # 8 /\ f.op # 9 /\ ~(f.op > 9)
    BY <1>7, <2>1, SMT
  <2>2. CASE f.fin = 1
    <3> DEFINE c == [d EXCEPT !.parts = <<>>, !.pieces = 0]
    <3>1. r = Event(c, "text", parts)
      BY <1>5, <1>7, <1>9, <2>2, Zenon DEF Fragment, parts
    <3>0. c = [d EXCEPT !.parts = <<>>, !.pieces = 0] /\ <<>> \in Seq(Byte) /\ 0 \in Nat
      OBVIOUS
    <3> HIDE DEF c
    <3>2. /\ IsState(c) /\ c.pc = d.pc /\ c.open = d.open /\ c.held = d.held
          /\ c.parts = <<>> /\ c.pieces = 0 /\ c.events = d.events
      <4>1. IsState(d)
        BY <1>2
      <4>2. IsState(c)
        BY <3>0, <4>1, Zenon DEF IsState
      <4>3. /\ c.pc = d.pc /\ c.open = d.open /\ c.held = d.held
            /\ c.parts = <<>> /\ c.pieces = 0 /\ c.events = d.events
        BY <3>0, <4>1, SMT DEF IsState
      <4> QED  BY <4>2, <4>3
    <3> HIDE DEF c, r
    <3>3. /\ IsState(r) /\ r.pc = c.pc /\ r.open = c.open /\ r.held = c.held
          /\ r.parts = c.parts /\ r.pieces = c.pieces
          /\ r.events = c.events \o Events("text", parts)
      BY <1>5, <3>1, <3>2, EventIs
    <3>4. t.ok /\ t.parts = <<>> /\ t.pieces = 0 /\ t.events = s.events \o Events("text", parts)
      <4>1. Meaning(s, f) = Events("text", parts)
        BY <1>1, <1>2, <2>0, <2>1, <2>2, Zenon DEF Meaning, parts
      <4>2. f.fin # 0
        BY <2>2
      <4> QED  BY <1>1, <2>1, <4>1, <4>2, HeardIs
    <3> HIDE DEF t
    <3>5. Taken(st, Encoded(f), t, r)
      BY <1>1, <1>2, <3>2, <3>3, <3>4, Zenon DEF Taken
    <3> QED  BY <3>4, <3>5, Zenon DEF Right, r, t, d
  <2>3. CASE f.fin = 0
    <3>1. r = [d EXCEPT !.parts = parts, !.pieces = d.pieces + 1]
      <4>1. f.fin # 1
        BY <2>3
      <4> QED  BY <1>5, <1>7, <1>9, <4>1, Zenon DEF Fragment, parts
    <3> HIDE DEF r
    <3>2. /\ IsState(r) /\ r.pc = d.pc /\ r.open = d.open /\ r.held = d.held
          /\ r.parts = parts /\ r.pieces = d.pieces + 1 /\ r.events = d.events
      <4>1. PICK q \in Nat : q = d.pieces + 1
        BY <1>3
      <4>2. r = [d EXCEPT !.parts = parts, !.pieces = q]
        BY <3>1, <4>1
      <4>3. IsState(d) /\ parts \in Seq(Byte)
        BY <1>2, <1>5
      <4> HIDE DEF parts
      <4>4. IsState(r)
        BY <4>2, <4>3, Zenon DEF IsState
      <4>5. /\ r.pc = d.pc /\ r.open = d.open /\ r.held = d.held
            /\ r.parts = parts /\ r.pieces = q /\ r.events = d.events
        BY <4>2, <4>3, SMT DEF IsState
      <4> QED  BY <4>1, <4>4, <4>5
    <3>3. t.ok /\ t.parts = parts /\ t.pieces = d.pieces + 1 /\ t.events = s.events
      <4>0. f.fin # 1
        BY <2>3
      <4>1. Meaning(s, f) = <<>>
        BY <1>1, <2>0, <2>1, <4>0, Zenon DEF Meaning
      <4>2. s.events \o <<>> = s.events
        BY <1>1, ConcatEmptySeq DEF IsSaid, SaidType
      <4>3. /\ t.ok /\ t.events = s.events \o Meaning(s, f)
            /\ t.parts = s.parts \o f.data /\ t.pieces = s.pieces + 1
        BY <1>1, <2>1, <2>3, HeardIs
      <4> HIDE DEF t
      <4> QED  BY <1>1, <1>2, <4>1, <4>2, <4>3, Zenon DEF parts
    <3> HIDE DEF t
    <3>4. Taken(st, Encoded(f), t, r)
      BY <1>1, <1>2, <3>2, <3>3, Zenon DEF Taken
    <3> QED  BY <3>3, <3>4, Zenon DEF Right, r, t, d
  <2> QED  BY <1>1, <2>2, <2>3
<1> QED  BY <1>8, <1>9

LEMMA ControlIsRight ==
  ASSUME IsWeb, NEW st, NEW s, NEW f, Ready(st, s, f), NEW limit,
         NEW k \in Nat, Len(st.held) = k, NEW l \in Nat, Len(Encoded(f)) = l, l <= k,
         Valid(s, f), f.op \in 8..10
  PROVE  LET d == Dropped(st, l) IN
         /\ f.op = 8 => Right(st, s, f, limit, Event(d, "close", <<>>))
         /\ f.op = 9 => Right(st, s, f, limit, Event(d, "ping", f.data))
         /\ f.op = 10 => Right(st, s, f, limit, d)
<1> DEFINE d == Dropped(st, l)
           e == Encoded(f)
           t == Heard(s, f)
<1>1. /\ f.data \in Seq(Byte) /\ f.op \in 0..15 /\ IsState(st) /\ IsSaid(s)
      /\ st.parts = s.parts /\ st.pieces = s.pieces /\ st.events = s.events
  BY WebFrameIsHeld
<1>2. PICK op \in 8..10 : op = f.op
  OBVIOUS
<1>3. f.op >= 8 /\ ~(f.op < 8) /\ s.ok
  BY <1>2 DEF Ready
<1>4. t.ok /\ t.events = s.events \o Meaning(s, f) /\ t.parts = s.parts /\ t.pieces = s.pieces
  BY <1>1, <1>3, HeardIs
<1> HIDE DEF t
<1>5. ASSUME NEW kind \in {"open", "text", "ping", "close"}, NEW data \in Seq(Byte),
             Meaning(s, f) = Events(kind, data)
      PROVE  Right(st, s, f, limit, Event(d, kind, data))
  <2>1. st.parts = t.parts /\ st.pieces = t.pieces /\ t.events = st.events \o Events(kind, data)
    BY <1>1, <1>4, <1>5
  <2>2. Taken(st, e, t, Event(d, kind, data))
    BY <1>1, <2>1, EventIsTaken
  <2> QED  BY <1>4, <2>2, Zenon DEF Right, t
<1>6. ASSUME f.op = 8 PROVE Right(st, s, f, limit, Event(d, "close", <<>>))
  <2>1. Meaning(s, f) = Events("close", <<>>) /\ <<>> \in Seq(Byte)
    <3>1. f.op # 9 /\ ~(f.op > 9)
      BY <1>6
    <3> QED  BY <1>3, <1>6, <3>1, EmptySeq, Zenon DEF Meaning
  <2> QED  BY <1>5, <2>1
<1>7. ASSUME f.op = 9 PROVE Right(st, s, f, limit, Event(d, "ping", f.data))
  <2>1. Meaning(s, f) = Events("ping", f.data)
    <3>1. f.op # 8 /\ ~(f.op > 9)
      BY <1>7
    <3> QED  BY <1>3, <1>7, <3>1, Zenon DEF Meaning
  <2> QED  BY <1>1, <1>5, <2>1
<1>8. ASSUME f.op = 10 PROVE Right(st, s, f, limit, d)
  <2>1. Meaning(s, f) = <<>>
    <3>1. f.op # 8 /\ f.op # 9
      BY <1>8
    <3> QED  BY <1>3, <1>8, <3>1, Zenon DEF Meaning
  <2>2. s.events \o <<>> = s.events
    BY <1>1, ConcatEmptySeq DEF IsSaid, SaidType
  <2>3. /\ IsState(d) /\ d.pc = st.pc /\ d.open = st.open
        /\ d.held = SubSeq(st.held, l + 1, Len(st.held))
        /\ d.parts = st.parts /\ d.pieces = st.pieces /\ d.events = st.events
    BY <1>1, DroppedIs
  <2> HIDE DEF d
  <2>4. Taken(st, e, t, d)
    BY <1>1, <1>4, <2>1, <2>2, <2>3, Zenon DEF Taken
  <2> QED  BY <1>4, <2>4, Zenon DEF Right, t
<1> QED  BY <1>6, <1>7, <1>8, Zenon

LEMMA DaemonTurn ==
  ASSUME receiver = "daemon", NEW st, NEW s, NEW f, Ready(st, s, f)
  PROVE  Right(st, s, f, MaxMessage + 13, DaemonFrame(st))
<1> DEFINE b == st.held
           e == WebBytes(f)
           r == DaemonFrame(st)
<1>1. /\ f \in WebFrames /\ Encoded(f) = e
      /\ b \in Seq(Byte) /\ Len(b) \in Nat /\ Agrees(b, e)
      /\ f.data \in Seq(Byte) /\ f.op \in 0..15 /\ f.fin \in {0, 1} /\ IsState(st)
  BY WebFrameIsHeld DEF IsWeb
<1>2. IsWeb /\ receiver # "ssh" /\ receiver # "desktop"
  BY DEF IsWeb
<1>3. PICK k, n \in Nat, op \in 0..15 : k = Len(b) /\ n = Len(f.data) /\ op = f.op
  BY <1>1
<1>4. PICK form \in {2, 4, 10}, m \in {0, 4} : form = f.form /\ m = MaskOf(f)
  BY <1>1, FrameHasItsKind DEF MaskOf
<1> HIDE DEF e
<1>5. Len(Encoded(f)) = form + m + n
  BY <1>1, <1>3, <1>4, WebBytesAre DEF e
<1>6. Valid(s, f) <=> n <= MaxMessage /\ f.reserved = 0 /\ (Continues(s, f) \/ IsControl(f))
  BY <1>2, <1>3, Zenon DEF Valid
<1>7. ASSUME r = Wait(st), k < form + m + n, k <= MaxMessage + 13
      PROVE  Right(st, s, f, MaxMessage + 13, r)
  BY <1>3, <1>5, <1>7, Zenon DEF Right
<1>8. ASSUME NEW d, IsState(d), d.events = st.events, r = Fail(d), ~Valid(s, f)
      PROVE  Right(st, s, f, MaxMessage + 13, r)
  BY <1>1, <1>8, WrongFrame
<1>9. CASE k < 2
  <2>1. r = Wait(st)
    BY <1>3, <1>9, Zenon DEF DaemonFrame
  <2>2. k < form + m + n /\ k <= MaxMessage + 13
    BY <1>9, BoundsAreNumbers, SMT
  <2> QED  BY <1>7, <2>1, <2>2, Zenon
<1>10. CASE ~(k < 2)
  <2>1. /\ Opcode(b) = op /\ (Fin(b) <=> f.fin = 1) /\ (Reserved(b) <=> f.reserved # 0)
        /\ MaskLength(b) = m /\ HeaderLength(b) = form
        /\ k >= form => Size(b) = n
    <3>1. k >= 2
      BY <1>10
    <3>2. Len(b) = k /\ b \in Seq(Byte) /\ Agrees(b, WebBytes(f)) /\ f \in WebFrames
      BY <1>1, <1>3 DEF e
    <3> HIDE DEF b
    <3>3. /\ Opcode(b) = f.op /\ (Fin(b) <=> f.fin = 1) /\ (Reserved(b) <=> f.reserved # 0)
          /\ MaskLength(b) = MaskOf(f) /\ HeaderLength(b) = f.form
          /\ k >= f.form => Size(b) = Len(f.data)
      BY <3>1, <3>2, HeaderIsRead
    <3> QED  BY <1>3, <1>4, <3>3, Zenon
  <2>2. CASE Reserved(b)
    <3>1. r = Fail(st)
      BY <1>3, <1>10, <2>2, Zenon DEF DaemonFrame
    <3> QED  BY <1>1, <1>6, <1>8, <2>1, <2>2, <3>1, Zenon
  <2>3. CASE ~Reserved(b) /\ k < form
    <3>1. r = Wait(st)
      BY <1>3, <1>10, <2>1, <2>3, Zenon DEF DaemonFrame
    <3>2. k < form + m + n /\ k <= MaxMessage + 13
      BY <2>3, BoundsAreNumbers, SMT
    <3> QED  BY <1>7, <3>1, <3>2, Zenon
  <2>4. CASE ~Reserved(b) /\ ~(k < form)
    <3>1. Size(b) = n
      BY <2>1, <2>4
    <3>2. CASE n > MaxMessage
      <4>1. r = Fail(st)
        BY <1>3, <1>10, <2>1, <2>4, <3>1, <3>2, Zenon DEF DaemonFrame
      <4>2. ~(n <= MaxMessage)
        BY <3>2, BoundsAreNumbers, SMT
      <4> QED  BY <1>1, <1>6, <1>8, <4>1, <4>2, Zenon
    <3>3. CASE ~(n > MaxMessage) /\ k < form + m + n
      <4>1. r = Wait(st)
        BY <1>3, <1>10, <2>1, <2>4, <3>1, <3>3, Zenon DEF DaemonFrame
      <4>2. k <= MaxMessage + 13
        BY <3>3, BoundsAreNumbers, SMT
      <4> QED  BY <1>7, <3>3, <4>1, <4>2, Zenon
    <3>4. CASE ~(n > MaxMessage) /\ ~(k < form + m + n)
      <4> DEFINE l == form + m + n
                 d == Dropped(st, l)
      <4>1. l \in Nat /\ l <= k /\ n <= MaxMessage
        BY <3>4, BoundsAreNumbers, SMT
      <4>2. r = IF op >= 8 THEN Control(d, op, f.fin = 1, f.data) ELSE Fragment(d, op, f.fin = 1, f.data)
        <5> DEFINE payload == SubSeq(b, form + m + 1, form + m + n)
                   mask == SubSeq(b, form + 1, form + m)
                   data == IF m = 0 THEN payload ELSE Masked(payload, mask)
        <5>1. data = f.data
          BY <1>1, <1>3, <1>4, <1>5, <4>1, DataAreRead, Zenon DEF e
        <5>2. Fin(b) = (f.fin = 1)
          BY <2>1 DEF Fin
        <5>3. r = IF op >= 8 THEN Control(d, op, Fin(b), data) ELSE Fragment(d, op, Fin(b), data)
          BY <1>3, <1>10, <2>1, <2>4, <3>1, <3>4, Zenon DEF DaemonFrame
        <5> HIDE DEF data, r, d, l
        <5> QED  BY <5>1, <5>2, <5>3, Zenon
      <4> HIDE DEF l, r
      <4>3. /\ IsState(d) /\ d.events = st.events
        BY <1>1, <1>3, <4>1, DroppedIs
      <4>4. Len(Encoded(f)) = l
        BY <1>5 DEF l
      <4>5. f.reserved = 0
        BY <2>1, <2>4
      <4>6. CASE op >= 8
        <5>1. ~Continues(s, f) /\ (Valid(s, f) <=> IsControl(f))
          <6>1. f.op # 0 /\ f.op # 1
            BY <1>3, <4>6, SMT
          <6>2. ~Continues(s, f)
            BY <6>1 DEF Continues
          <6> QED  BY <1>6, <4>1, <4>5, <6>2, Zenon
        <5>2. IsControl(f) <=> f.fin = 1 /\ n <= MaxControl /\ ~(op > 10)
          <6>1. f.op \in 8..10 <=> ~(op > 10)
            BY <1>3, <4>6, SMTT(30)
          <6> QED  BY <1>3, <6>1, Zenon DEF IsControl
        <5>3. n > MaxControl <=> ~(n <= MaxControl)
          BY BoundsAreNumbers, SMT
        <5>4. CASE ~IsControl(f)
          <6>1. r = Fail(d)
            BY <1>3, <4>2, <4>6, <5>2, <5>3, <5>4, Zenon DEF Control
          <6> QED  BY <1>8, <4>3, <5>1, <5>4, <6>1, Zenon DEF r
        <5>5. CASE IsControl(f)
          <6>1. op \in 8..10
            BY <4>6, <5>2, <5>5, SMT
          <6>2. /\ op = 8 => r = Event(d, "close", <<>>)
                /\ op = 9 => r = Event(d, "ping", f.data)
                /\ op = 10 => r = d
            <7>1. 8 # 9 /\ 8 # 10 /\ 9 # 10
              OBVIOUS
            <7> QED  BY <1>3, <4>2, <4>6, <5>2, <5>3, <5>5, <7>1, Zenon DEF Control
          <6>3. /\ f.op = 8 => Right(st, s, f, MaxMessage + 13, Event(d, "close", <<>>))
                /\ f.op = 9 => Right(st, s, f, MaxMessage + 13, Event(d, "ping", f.data))
                /\ f.op = 10 => Right(st, s, f, MaxMessage + 13, d)
            BY <1>2, <1>3, <4>1, <4>4, <5>1, <5>5, <6>1, ControlIsRight
          <6>4. op = 8 \/ op = 9 \/ op = 10
            BY <6>1
          <6> HIDE DEF d
          <6> QED  BY <1>3, <6>2, <6>3, <6>4, Zenon DEF r
        <5> QED  BY <5>4, <5>5
      <4>7. CASE ~(op >= 8)
        <5>1. Valid(s, f) <=> Continues(s, f)
          <6>1. f.op \notin 8..10
            BY <1>3, <4>7, SMT
          <6> QED  BY <1>6, <4>1, <4>5, <6>1, Zenon DEF IsControl
        <5>2. r = Fragment(d, f.op, f.fin = 1, f.data)
          BY <1>3, <4>2, <4>7, Zenon
        <5>3. Right(st, s, f, MaxMessage + 13, Fragment(d, f.op, f.fin = 1, f.data))
          BY <1>2, <1>3, <4>1, <4>4, <5>1, FragmentIsRight
        <5> HIDE DEF d
        <5> QED  BY <5>2, <5>3, Zenon DEF r
      <4> QED  BY <4>6, <4>7
    <3> QED  BY <3>2, <3>3, <3>4
  <2> QED  BY <2>2, <2>3, <2>4
<1> QED  BY <1>9, <1>10

LEMMA SshTurn ==
  ASSUME receiver = "ssh", NEW st, NEW s, NEW f, Ready(st, s, f)
  PROVE  Right(st, s, f, MaxMessage + 9, SshFrame(st))
<1> DEFINE b == st.held
           e == WebBytes(f)
           r == SshFrame(st)
<1>1. /\ f \in WebFrames /\ Encoded(f) = e
      /\ b \in Seq(Byte) /\ Len(b) \in Nat /\ Agrees(b, e)
      /\ f.data \in Seq(Byte) /\ f.op \in 0..15 /\ f.fin \in {0, 1} /\ IsState(st)
  BY WebFrameIsHeld DEF IsWeb
<1>2. IsWeb /\ receiver # "desktop"
  BY DEF IsWeb
<1>3. PICK k, n \in Nat, op \in 0..15 : k = Len(b) /\ n = Len(f.data) /\ op = f.op
  BY <1>1
<1>4. PICK form \in {2, 4, 10}, m \in {0, 4} : form = f.form /\ m = MaskOf(f) /\ (m = 0 <=> f.mask = <<>>)
  BY <1>1, FrameHasItsKind DEF MaskOf
<1> HIDE DEF e
<1>5. Len(Encoded(f)) = form + m + n
  BY <1>1, <1>3, <1>4, WebBytesAre DEF e
<1>6. Valid(s, f) <=> /\ n <= MaxMessage /\ f.reserved = 0 /\ (Continues(s, f) \/ IsControl(f))
                      /\ m = 0 /\ f.op # 8
  BY <1>2, <1>3, <1>4, Zenon DEF Valid
<1>7. ASSUME r = Wait(st), k < form + m + n, k <= MaxMessage + 9
      PROVE  Right(st, s, f, MaxMessage + 9, r)
  BY <1>3, <1>5, <1>7, Zenon DEF Right
<1>8. ASSUME r = Fail(st), ~Valid(s, f)
      PROVE  Right(st, s, f, MaxMessage + 9, r)
  BY <1>1, <1>8, WrongFrame
<1>9. CASE k < 2
  <2>1. r = Wait(st)
    BY <1>3, <1>9, Zenon DEF SshFrame
  <2>2. k < form + m + n /\ k <= MaxMessage + 9
    BY <1>9, BoundsAreNumbers, SMT
  <2> QED  BY <1>7, <2>1, <2>2, Zenon
<1>10. CASE ~(k < 2)
  <2>1. /\ Opcode(b) = op /\ (Fin(b) <=> f.fin = 1) /\ (Reserved(b) <=> f.reserved # 0)
        /\ MaskLength(b) = m /\ HeaderLength(b) = form
        /\ k >= form => Size(b) = n
    <3>1. k >= 2
      BY <1>10
    <3>2. Len(b) = k /\ b \in Seq(Byte) /\ Agrees(b, WebBytes(f)) /\ f \in WebFrames
      BY <1>1, <1>3 DEF e
    <3> HIDE DEF b
    <3>3. /\ Opcode(b) = f.op /\ (Fin(b) <=> f.fin = 1) /\ (Reserved(b) <=> f.reserved # 0)
          /\ MaskLength(b) = MaskOf(f) /\ HeaderLength(b) = f.form
          /\ k >= f.form => Size(b) = Len(f.data)
      BY <3>1, <3>2, HeaderIsRead
    <3> QED  BY <1>3, <1>4, <3>3, Zenon
  <2>2. CASE Reserved(b) \/ m # 0
    <3>1. r = Fail(st)
      BY <1>3, <1>10, <2>1, <2>2, Zenon DEF SshFrame
    <3> QED  BY <1>6, <1>8, <2>1, <2>2, <3>1, Zenon
  <2>3. CASE ~(Reserved(b) \/ m # 0) /\ k < form
    <3>1. r = Wait(st)
      BY <1>3, <1>10, <2>1, <2>3, Zenon DEF SshFrame
    <3>2. k < form + m + n /\ k <= MaxMessage + 9
      BY <2>3, BoundsAreNumbers, SMT
    <3> QED  BY <1>7, <3>1, <3>2, Zenon
  <2>4. CASE ~(Reserved(b) \/ m # 0) /\ ~(k < form)
    <3> DEFINE Refused == n > MaxMessage \/ (op >= 8 /\ (~(f.fin = 1) \/ n > MaxControl))
    <3>1. Size(b) = n /\ f.reserved = 0 /\ m = 0 /\ form + m + n = form + n
      BY <2>1, <2>4
    <3>2. Refused <=> n > MaxMessage \/ (op >= 8 /\ (~Fin(b) \/ n > MaxControl))
      BY <2>1, Zenon
    <3>3. op >= 8 => ~Continues(s, f)
      <4>1. ASSUME op >= 8 PROVE f.op # 0 /\ f.op # 1
        BY <1>3, <4>1, SMT
      <4> QED  BY <4>1 DEF Continues
    <3>4. IsControl(f) <=> op \in 8..10 /\ f.fin = 1 /\ n <= MaxControl
      BY <1>3, Zenon DEF IsControl
    <3>5. CASE Refused
      <4>1. r = Fail(st)
        BY <1>3, <1>10, <2>1, <2>4, <3>1, <3>2, <3>5, Zenon DEF SshFrame
      <4>2. n > MaxMessage => ~(n <= MaxMessage)
        BY BoundsAreNumbers, SMT
      <4>3. n > MaxControl => ~(n <= MaxControl)
        BY BoundsAreNumbers, SMT
      <4>4. ~Valid(s, f)
        BY <1>6, <3>3, <3>4, <3>5, <4>2, <4>3, Zenon
      <4> QED  BY <1>8, <4>1, <4>4, Zenon
    <3>6. CASE ~Refused /\ k < form + n
      <4>1. r = Wait(st)
        BY <1>3, <1>10, <2>1, <2>4, <3>1, <3>2, <3>6, Zenon DEF SshFrame
      <4>2. k < form + m + n /\ k <= MaxMessage + 9
        BY <3>1, <3>6, BoundsAreNumbers, SMT
      <4> QED  BY <1>7, <4>1, <4>2, Zenon
    <3>7. CASE ~Refused /\ ~(k < form + n)
      <4> DEFINE l == form + n
                 d == Dropped(st, l)
      <4>1. l \in Nat /\ l <= k /\ n <= MaxMessage /\ (op >= 8 => f.fin = 1 /\ n <= MaxControl)
        BY <3>7, BoundsAreNumbers, SMT
      <4>2. SubSeq(b, form + 1, form + n) = f.data
        <5>1. /\ MaskOf(f) = 0 /\ f.form + MaskOf(f) = form /\ Len(e) <= k
              /\ form = f.form /\ n = Len(f.data)
          BY <1>1, <1>3, <1>4, <1>5, <3>1, <4>1
        <5> QED  BY <1>1, <1>3, <5>1, DataAreRead, Zenon DEF e
      <4>3. /\ op = 9 => r = Event(d, "ping", f.data)
            /\ op = 10 => r = d
            /\ op # 9 /\ op # 10 => r = Fragment(d, op, f.fin = 1, f.data)
        <5> DEFINE data == SubSeq(b, form + 1, form + n)
        <5>1. /\ op = 9 => r = Event(d, "ping", data)
              /\ op = 10 => r = d
              /\ op # 9 /\ op # 10 => r = Fragment(d, op, Fin(b), data)
          <6>1. 9 # 10
            OBVIOUS
          <6> QED  BY <1>3, <1>10, <2>1, <2>4, <3>1, <3>2, <3>7, <6>1, Zenon DEF SshFrame
        <5>2. Fin(b) = (f.fin = 1)
          BY <2>1 DEF Fin
        <5> HIDE DEF r, d, l
        <5> QED  BY <4>2, <5>1, <5>2, Zenon
      <4> HIDE DEF l, r
      <4>4. Len(Encoded(f)) = l
        BY <1>5, <3>1 DEF l
      <4>5. CASE op = 9 \/ op = 10
        <5>1. op \in 8..10 /\ f.op # 8 /\ op >= 8
          BY <1>3, <4>5, SMT
        <5>2. Valid(s, f)
          BY <1>6, <3>1, <3>4, <4>1, <5>1, Zenon
        <5>3. /\ f.op = 9 => Right(st, s, f, MaxMessage + 9, Event(d, "ping", f.data))
              /\ f.op = 10 => Right(st, s, f, MaxMessage + 9, d)
          BY <1>2, <1>3, <4>1, <4>4, <5>1, <5>2, ControlIsRight
        <5> HIDE DEF d
        <5> QED  BY <1>3, <4>3, <4>5, <5>3, Zenon DEF r
      <4>6. CASE op # 9 /\ op # 10
        <5>1. Valid(s, f) <=> Continues(s, f)
          <6>1. op \in 8..10 => op = 8
            BY <4>6, SMT
          <6>2. op = 8 => ~Continues(s, f)
            BY <3>3, SMT
          <6> QED  BY <1>3, <1>6, <3>1, <3>4, <4>1, <6>1, <6>2, Zenon
        <5>2. r = Fragment(d, f.op, f.fin = 1, f.data)
          BY <1>3, <4>3, <4>6, Zenon
        <5>3. Right(st, s, f, MaxMessage + 9, Fragment(d, f.op, f.fin = 1, f.data))
          BY <1>2, <1>3, <4>1, <4>4, <5>1, FragmentIsRight
        <5> HIDE DEF d
        <5> QED  BY <5>2, <5>3, Zenon DEF r
      <4> QED  BY <4>5, <4>6
    <3> QED  BY <3>5, <3>6, <3>7
  <2> QED  BY <2>2, <2>3, <2>4
<1> QED  BY <1>9, <1>10

\* The most that a receiver holds when it waits for the rest of a frame.
Limit == CASE receiver = "lines" -> MaxMessage
           [] receiver = "desktop" -> MaxMessage + 3
           [] receiver = "ssh" -> MaxMessage + 9
           [] OTHER -> MaxMessage + 13

IsReceiver == receiver \in {"daemon", "ssh", "desktop", "lines"}

LEMMA LimitIs ==
  /\ receiver = "lines" => Limit = MaxMessage
  /\ receiver = "desktop" => Limit = MaxMessage + 3
  /\ receiver = "ssh" => Limit = MaxMessage + 9
  /\ receiver = "daemon" => Limit = MaxMessage + 13
  BY Zenon DEF Limit

LEMMA OneTurnIs ==
  ASSUME NEW st
  PROVE  /\ receiver = "lines" => OneTurn(st) = Line(st)
         /\ receiver = "desktop" => OneTurn(st) = DesktopFrame(st)
         /\ receiver = "ssh" => OneTurn(st) = IF st.open THEN SshFrame(st) ELSE Upgrade(st)
         /\ receiver = "daemon" => OneTurn(st) = IF st.open THEN DaemonFrame(st) ELSE Upgrade(st)
  BY Zenon DEF OneTurn

LEMMA OneTurnIsRight ==
  ASSUME IsReceiver, NEW st, NEW s, NEW f, Ready(st, s, f)
  PROVE  Right(st, s, f, Limit, OneTurn(st))
<1>1. st.open
  BY DEF Ready
<1>2. CASE receiver = "lines"
  BY <1>2, LimitIs, OneTurnIs, LineTurn, Zenon
<1>3. CASE receiver = "desktop"
  BY <1>3, LimitIs, OneTurnIs, DesktopTurn, Zenon
<1>4. CASE receiver = "ssh"
  BY <1>1, <1>4, LimitIs, OneTurnIs, SshTurn, Zenon
<1>5. CASE receiver = "daemon"
  BY <1>1, <1>5, LimitIs, OneTurnIs, DaemonTurn, Zenon
<1> QED  BY <1>2, <1>3, <1>4, <1>5 DEF IsReceiver

LEMMA NothingToDo ==
  ASSUME IsReceiver, NEW st, st.open, st.held = <<>>
  PROVE  OneTurn(st) = Wait(st)
<1>1. Len(st.held) = 0
  OBVIOUS
<1>2. 0 < 2 /\ 0 < 4 /\ ~(0 > MaxMessage)
  BY BoundsAreNumbers
<1>3. Newlines(st.held) = {}
  BY <1>1, SMT DEF Newlines
<1>4. CASE receiver = "lines"
  BY <1>1, <1>2, <1>3, <1>4, OneTurnIs, Zenon DEF Line
<1>5. CASE receiver = "desktop"
  BY <1>1, <1>2, <1>5, OneTurnIs, Zenon DEF DesktopFrame
<1>6. CASE receiver = "ssh"
  BY <1>1, <1>2, <1>6, OneTurnIs, Zenon DEF SshFrame
<1>7. CASE receiver = "daemon"
  BY <1>1, <1>2, <1>7, OneTurnIs, Zenon DEF DaemonFrame
<1> QED  BY <1>4, <1>5, <1>6, <1>7 DEF IsReceiver

------------------------------------------------------------------------------
(* The invariant *)

FramingTypeOK ==
    /\ receiver \in Receivers
    /\ head \in Seq(Byte) /\ (IF IsWeb THEN head \in Heads ELSE head = <<>>)
    /\ stream \in Seq(Byte)
    /\ frames \in Seq(PeerFrame)
    /\ Len(said) = Len(frames) + 1
    /\ said \in Seq(SaidType)
    /\ received \in Nat /\ received <= Len(stream)
    /\ IsState(state)

\* What was said is what the frames mean, and what was wrong stays wrong.
SaidIsMeant ==
    /\ said[1] = Opening
    /\ \A i \in 1..Len(frames) : said[i + 1] = Heard(said[i], frames[i])
    /\ \A i \in 1..Len(said) :
          /\ Len(said[i].parts) <= MaxMessage
          /\ ~IsWeb => said[i].parts = <<>> /\ said[i].pieces = 0
    /\ \A i, j \in 1..Len(said) : i < j =>
          /\ said[i].at < said[j].at
          /\ ~said[i].ok => ~said[j].ok /\ said[j].events = said[i].events

\* The stream is the head and then the frames; nothing follows an endless head.
StreamIsFrames ==
    /\ IF IsWeb /\ Blanks(head) = {} THEN frames = <<>> /\ stream = head
       ELSE said[Len(said)].at = Len(stream)
    /\ Len(head) <= Len(stream) /\ \A i \in 1..Len(head) : stream[i] = head[i]
    /\ \A i \in 1..Len(frames) : \A j \in 1..Len(Encoded(frames[i])) :
          stream[said[i].at + j] = Encoded(frames[i])[j]

\* A receiver has reported the first c - 1 frames and holds what follows them.
Tracks(c) ==
    /\ said[c].ok
    /\ state.parts = said[c].parts /\ state.pieces = said[c].pieces /\ state.events = said[c].events
    /\ received = said[c].at + Len(state.held)
    /\ \A i \in 1..Len(state.held) : state.held[i] = stream[said[c].at + i]
    /\ state.pc = "idle" =>
          Len(state.held) <= Limit /\ (c < Len(said) => received < said[c + 1].at)

\* It has not opened, and holds all that came.
Opens ==
    /\ IsWeb /\ state.parts = <<>> /\ state.pieces = 0 /\ state.events = <<>>
    /\ received = Len(state.held)
    /\ \A i \in 1..Len(state.held) : state.held[i] = stream[i]
    /\ state.pc = "idle" => Len(state.held) <= MaxHead /\ received < said[1].at

\* It has failed at the first frame that is wrong, or at the head.
FailedAt(c) ==
    /\ said[c].ok /\ ~said[c + 1].ok
    /\ said[c].at < received
    /\ state.events = said[c].events
Refused == ~said[1].ok /\ said[1].at <= received /\ state.events = <<>>
GivenUp == MaxHead < received /\ received < said[1].at /\ state.events = <<>>

\* Too much has come after the first c - 1 frames, or before it has opened.
OverrunAt(c) == /\ said[c].ok /\ state.events = said[c].events
                /\ received > said[c].at + MaxMessage + MaxHead
Unread == ~state.open /\ state.events = <<>> /\ received > MaxMessage + MaxHead

ReceiverIsRight ==
    /\ state.pc # "failed" /\ state.pc # "overrun" /\ state.open => \E c \in 1..Len(said) : Tracks(c)
    /\ state.pc # "failed" /\ state.pc # "overrun" /\ ~state.open => Opens
    /\ state.pc = "failed" => Refused \/ GivenUp \/ \E c \in 1..Len(frames) : FailedAt(c)
    /\ state.pc = "overrun" => Unread \/ \E c \in 1..Len(said) : OverrunAt(c)

FramingInv == FramingTypeOK /\ SaidIsMeant /\ StreamIsFrames /\ ReceiverIsRight

LEMMA EventsAre ==
  ASSUME NEW kind \in {"open", "text", "ping", "close"}, NEW data \in Seq(Byte)
  PROVE  Events(kind, data) \in Seq(EventType)
<1>1. [kind |-> kind, data |-> data] \in EventType
  BY DEF EventType
<1> QED  BY <1>1, SMT DEF Events

LEMMA OpeningIs ==
  ASSUME head \in Seq(Byte), ~IsWeb => head = <<>>
  PROVE  LET o == Opening IN
         /\ IsSaid(o) /\ o.parts = <<>> /\ o.pieces = 0
         /\ ~IsWeb => o.ok /\ o.at = 0
         /\ IsWeb /\ Blanks(head) = {} => ~o.ok /\ o.at = MaxHead + 1
         /\ IsWeb /\ Blanks(head) # {} => o.at = Len(head) /\ (o.ok <=> head[1] = 101 /\ (receiver = "ssh" => Len(head) <= MaxHead + 4))
         /\ o.events = IF IsWeb /\ o.ok THEN Events("open", <<>>) ELSE <<>>
<1> DEFINE near == receiver = "ssh" => Len(head) <= MaxHead + 4
           ok == IsWeb => Blanks(head) # {} /\ head[1] = 101 /\ near
           at == IF IsWeb /\ Blanks(head) = {} THEN MaxHead + 1 ELSE Len(head)
           said1 == IF IsWeb /\ ok THEN Events("open", <<>>) ELSE <<>>
           o == Opening
<1>1. o = [at |-> at, parts |-> <<>>, pieces |-> 0, ok |-> ok, events |-> said1]
  BY Zenon DEF Opening
<1>2. at \in Nat
  BY BoundsAreNumbers, SMT
<1>3. <<>> \in Seq(Byte) /\ <<>> \in Seq(EventType) /\ "open" \in {"open", "text", "ping", "close"}
  OBVIOUS
<1>4. said1 \in Seq(EventType)
  BY <1>3, EventsAre, Zenon
<1>5. ok \in BOOLEAN
  OBVIOUS
<1>6. ~IsWeb => at = 0
  OBVIOUS
<1>7. /\ IsWeb /\ Blanks(head) = {} => ~ok /\ at = MaxHead + 1
      /\ IsWeb /\ Blanks(head) # {} => at = Len(head) /\ (ok <=> head[1] = 101 /\ near)
      /\ ~IsWeb => ok
      /\ said1 = IF IsWeb /\ ok THEN Events("open", <<>>) ELSE <<>>
  BY Zenon
<1> HIDE DEF ok, at, said1, o
<1>8. IsSaid(o) /\ o.at = at /\ o.parts = <<>> /\ o.pieces = 0 /\ o.ok = ok /\ o.events = said1
  BY <1>1, <1>2, <1>3, <1>4, <1>5, SMT DEF IsSaid, SaidType
<1> QED  BY <1>6, <1>7, <1>8, Zenon DEF o

\* What the head is, by what is assumed of it.
LEMMA HeadIs ==
  ASSUME IsWeb, head \in Heads
  PROVE  /\ head \in Seq(Byte)
         /\ Blanks(head) = {Len(head) - 3} \/ Blanks(head) = {}
  BY HeadsAssumption, Zenon

\* A blank line of what came first is one of the head, if it is all of the head.
LEMMA BlanksAre ==
  ASSUME NEW S, NEW b \in Seq(S), NEW h \in Seq(S), NEW i \in Nat
  PROVE  /\ i \in Blanks(b) <=> /\ i >= 1 /\ i + 3 <= Len(b)
                                /\ b[i] = 13 /\ b[i + 1] = 10 /\ b[i + 2] = 13 /\ b[i + 3] = 10
         /\ Agrees(b, h) /\ i + 3 <= Len(b) /\ i + 3 <= Len(h) => (i \in Blanks(b) <=> i \in Blanks(h))
<1>1. \A a \in Seq(S) : i \in Blanks(a) <=> /\ i >= 1 /\ i + 3 <= Len(a)
                                /\ a[i] = 13 /\ a[i + 1] = 10 /\ a[i + 2] = 13 /\ a[i + 3] = 10
  <2> TAKE a \in Seq(S)
  <2>1. PICK k \in Nat : k = Len(a)
    OBVIOUS
  <2> QED  BY <2>1, SMT DEF Blanks
<1>2. ASSUME Agrees(b, h), i + 3 <= Len(b), i + 3 <= Len(h), i >= 1
      PROVE  b[i] = h[i] /\ b[i + 1] = h[i + 1] /\ b[i + 2] = h[i + 2] /\ b[i + 3] = h[i + 3]
  BY <1>2 DEF Agrees
<1> QED  BY <1>1, <1>2

\* The upgrade is answered as soon as all of the head has come.
LEMMA UpgradeTurn ==
  ASSUME IsWeb, receiver \in Receivers, head \in Heads,
         NEW st, IsState(st), st.parts = <<>>, st.pieces = 0, st.events = <<>>,
         Agrees(st.held, head), Blanks(head) = {} => Len(st.held) <= Len(head)
  PROVE  LET r == Upgrade(st)
             o == Opening IN
         \/ r = Wait(st) /\ Len(st.held) <= MaxHead /\ Len(st.held) < o.at
         \/ IsState(r) /\ r.pc = "failed" /\ r.events = <<>> /\ ~o.ok /\ o.at <= Len(st.held)
         \/ IsState(r) /\ r.pc = "failed" /\ r.events = <<>> /\ MaxHead < Len(st.held) /\ Len(st.held) < o.at
         \/ /\ IsState(r) /\ r.pc = st.pc /\ r.open
            /\ r.held = SubSeq(st.held, Len(head) + 1, Len(st.held))
            /\ r.parts = <<>> /\ r.pieces = 0 /\ r.events = o.events
            /\ o.ok /\ o.at = Len(head) /\ o.at <= Len(st.held)
<1> DEFINE b == st.held
           r == Upgrade(st)
           o == Opening
           Result == \/ r = Wait(st) /\ Len(b) <= MaxHead /\ Len(b) < o.at
                     \/ IsState(r) /\ r.pc = "failed" /\ r.events = <<>> /\ ~o.ok /\ o.at <= Len(b)
                     \/ IsState(r) /\ r.pc = "failed" /\ r.events = <<>> /\ MaxHead < Len(b) /\ Len(b) < o.at
                     \/ /\ IsState(r) /\ r.pc = st.pc /\ r.open
                        /\ r.held = SubSeq(b, Len(head) + 1, Len(b))
                        /\ r.parts = <<>> /\ r.pieces = 0 /\ r.events = o.events
                        /\ o.ok /\ o.at = Len(head) /\ o.at <= Len(b)
<1>1. b \in Seq(Byte) /\ head \in Seq(Byte)
  BY HeadIs DEF IsState
<1>2. PICK k, h \in Nat : k = Len(b) /\ h = Len(head)
  BY <1>1
<1>3. /\ IsWeb /\ Blanks(head) = {} => ~o.ok /\ o.at = MaxHead + 1
      /\ IsWeb /\ Blanks(head) # {} => o.at = Len(head) /\ (o.ok <=> head[1] = 101 /\ (receiver = "ssh" => Len(head) <= MaxHead + 4))
      /\ o.events = IF IsWeb /\ o.ok THEN Events("open", <<>>) ELSE <<>>
  BY <1>1, OpeningIs
<1>4. IsState(Fail(st)) /\ Fail(st).pc = "failed" /\ Fail(st).events = <<>>
  BY FailureIsAState
<1> HIDE DEF b, r, o
<1>5. ASSUME NEW i \in Nat, i + 3 <= k, i + 3 <= h PROVE i \in Blanks(b) <=> i \in Blanks(head)
  <2>1. Agrees(b, head)
    BY DEF b
  <2> QED  BY <1>1, <1>2, <1>5, <2>1, BlanksAre, Zenon
<1>6. \A i \in Blanks(b) : i \in Nat /\ i + 3 <= k
  BY <1>2, SMT DEF Blanks
<1>7. CASE Blanks(head) = {}
  <2>1. k <= h
    BY <1>2, <1>7 DEF b
  <2>2. Blanks(b) = {}
    <3>1. ASSUME NEW i \in Blanks(b) PROVE FALSE
      <4>1. i \in Nat /\ i + 3 <= k
        BY <1>6
      <4>2. i + 3 <= h
        BY <2>1, <4>1
      <4> QED  BY <1>5, <1>7, <4>1, <4>2
    <3> QED  BY <3>1
  <2>3. CASE k > MaxHead
    <3>1. r = Fail(st)
      BY <1>2, <2>2, <2>3, Zenon DEF Upgrade, r, b
    <3>2. ~o.ok /\ o.at = MaxHead + 1 /\ MaxHead + 1 <= k
      BY <1>3, <1>7, <2>3, BoundsAreNumbers, SMT
    <3> QED  BY <1>2, <1>4, <3>1, <3>2, Zenon DEF b, r, o
  <2>4. CASE ~(k > MaxHead)
    <3>1. r = Wait(st)
      BY <1>2, <2>2, <2>4, Zenon DEF Upgrade, r, b
    <3>2. o.at = MaxHead + 1 /\ k <= MaxHead /\ k < MaxHead + 1
      BY <1>3, <1>7, <2>4, BoundsAreNumbers, SMT
    <3> QED  BY <1>2, <3>1, <3>2, Zenon DEF b, r, o
  <2> QED  BY <2>3, <2>4
<1>8. CASE Blanks(head) = {h - 3}
  <2>1. PICK p \in Nat : p + 3 = h /\ p >= 1 /\ Blanks(head) = {p}
    <3>1. h - 3 \in Blanks(head)
      BY <1>8
    <3>2. h - 3 \in 1..h
      BY <1>2, <3>1, Zenon DEF Blanks
    <3>3. h - 3 \in Nat /\ (h - 3) + 3 = h /\ h - 3 >= 1
      BY <3>2
    <3> QED  BY <1>8, <3>3
  <2>2. o.at = h /\ (o.ok <=> head[1] = 101 /\ (receiver = "ssh" => h <= MaxHead + 4))
    BY <1>2, <1>3, <2>1
  <2>3. ASSUME NEW i \in Blanks(b), i + 3 <= h PROVE i = p
    BY <1>5, <1>6, <2>1, <2>3
  <2>4. CASE k < h
    <3>1. Blanks(b) = {}
      <4>1. ASSUME NEW i \in Blanks(b) PROVE FALSE
        <5>1. i \in Nat /\ i + 3 <= k
          BY <1>6
        <5>2. i + 3 <= h
          BY <2>4, <5>1
        <5>3. i = p
          BY <2>3, <5>2
        <5> QED  BY <2>1, <2>4, <5>1, <5>3
      <4> QED  BY <4>1
    <3>2. CASE k > MaxHead
      <4>1. r = Fail(st)
        BY <1>2, <3>1, <3>2, Zenon DEF Upgrade, r, b
      <4>2. MaxHead < k
        BY <3>2, BoundsAreNumbers, SMT
      <4> QED  BY <1>2, <1>4, <2>2, <2>4, <4>1, <4>2, Zenon DEF b, r, o
    <3>3. CASE ~(k > MaxHead)
      <4>1. r = Wait(st)
        BY <1>2, <3>1, <3>3, Zenon DEF Upgrade, r, b
      <4>2. k <= MaxHead
        BY <3>3, BoundsAreNumbers, SMT
      <4> QED  BY <1>2, <2>2, <2>4, <4>1, <4>2, Zenon DEF b, r, o
    <3> QED  BY <3>2, <3>3
  <2>5. CASE h <= k
    <3>1. p \in Blanks(b)
      <4>1. p + 3 <= k /\ p + 3 <= h
        BY <2>1, <2>5
      <4> QED  BY <1>5, <2>1, <4>1
    <3>2. First(Blanks(b)) = p
      <4>1. ASSUME NEW i \in Blanks(b) PROVE p <= i
        <5>1. i \in Nat
          BY <1>6
        <5>2. i < p => i + 3 <= h
          BY <2>1, <5>1
        <5>3. i < p => i = p
          BY <2>3, <5>2
        <5> QED  BY <2>1, <5>1, <5>3
      <4>2. Blanks(b) \in SUBSET Nat
        BY <1>6
      <4> QED  BY <3>1, <4>1, <4>2, FirstIs
    <3>3. b[1] = head[1]
      <4>1. 1 \in 1..Len(b) /\ 1 <= Len(head)
        BY <1>2, <2>1, <2>5, SMT
      <4> QED  BY <4>1, Zenon DEF Agrees, b
    <3>4. (p - 1 > MaxHead <=> ~(h <= MaxHead + 4)) /\ p + 3 \in Nat /\ p + 3 <= k
      BY <2>1, <2>5, BoundsAreNumbers, SMT
    <3>5. Blanks(b) # {}
      BY <3>1
    <3>6. CASE head[1] # 101 \/ (receiver = "ssh" /\ ~(h <= MaxHead + 4))
      <4>1. r = Fail(st)
        BY <3>2, <3>3, <3>4, <3>5, <3>6, Zenon DEF Upgrade, r, b
      <4> QED  BY <1>2, <1>4, <2>2, <2>5, <3>6, <4>1, Zenon DEF b, r, o
    <3>7. CASE head[1] = 101 /\ (receiver = "ssh" => h <= MaxHead + 4)
      <4> DEFINE d == Dropped(st, p + 3)
                 d2 == [d EXCEPT !.open = TRUE]
      <4>1. r = Event(d2, "open", <<>>)
        BY <3>2, <3>3, <3>4, <3>5, <3>7, Zenon DEF Upgrade, r, b
      <4>2. /\ IsState(d) /\ d.pc = st.pc /\ d.held = SubSeq(b, (p + 3) + 1, Len(b))
            /\ d.parts = <<>> /\ d.pieces = 0 /\ d.events = <<>>
        BY <1>2, <3>4, DroppedIs DEF b
      <4> HIDE DEF d
      <4>3. /\ IsState(d2) /\ d2.pc = d.pc /\ d2.open /\ d2.held = d.held
            /\ d2.parts = <<>> /\ d2.pieces = 0 /\ d2.events = <<>>
        <5>1. TRUE \in BOOLEAN /\ d2 = [d EXCEPT !.open = TRUE]
          OBVIOUS
        <5> HIDE DEF d2
        <5>2. /\ IsState(d2) /\ d2.pc = d.pc /\ d2.open = TRUE /\ d2.held = d.held
              /\ d2.parts = d.parts /\ d2.pieces = d.pieces /\ d2.events = d.events
          BY <4>2, <5>1, OpenChanges, ZenonT(60)
        <5> QED  BY <4>2, <5>2, Zenon
      <4> HIDE DEF d2
      <4>4. <<>> \in Seq(Byte)
        OBVIOUS
      <4>5. /\ IsState(r) /\ r.pc = d2.pc /\ r.open = d2.open /\ r.held = d2.held
            /\ r.parts = d2.parts /\ r.pieces = d2.pieces
            /\ r.events = d2.events \o Events("open", <<>>)
        <5>1. "open" \in {"open", "text", "ping", "close"} /\ IsState(d2)
          BY <4>3
        <5> DEFINE v == Event(d2, "open", <<>>)
        <5>2. /\ IsState(v) /\ v.pc = d2.pc /\ v.open = d2.open /\ v.held = d2.held
              /\ v.parts = d2.parts /\ v.pieces = d2.pieces
              /\ v.events = d2.events \o Events("open", <<>>)
          BY <4>4, <5>1, EventIs, Zenon
        <5> QED  BY <4>1, <5>2, Zenon
      <4>6. d2.events \o Events("open", <<>>) = Events("open", <<>>)
        <5>1. Events("open", <<>>) \in Seq(EventType)
          BY <4>4, EventsAre
        <5> QED  BY <4>3, <5>1, ConcatEmptySeq
      <4>7. o.ok /\ o.events = Events("open", <<>>)
        BY <1>3, <2>2, <3>7
      <4>8. r.held = SubSeq(b, Len(head) + 1, Len(b))
        BY <1>2, <2>1, <4>2, <4>3, <4>5, Zenon
      <4>9. o.at = Len(head) /\ o.at <= Len(b)
        BY <1>2, <2>2, <2>5
      <4>10. /\ IsState(r) /\ r.pc = st.pc /\ r.open
             /\ r.parts = <<>> /\ r.pieces = 0 /\ r.events = o.events
        BY <4>2, <4>3, <4>5, <4>6, <4>7, Zenon
      <4> QED  BY <4>7, <4>8, <4>9, <4>10, Zenon DEF b, r, o
    <3> QED  BY <3>6, <3>7
  <2> QED  BY <1>2, <2>4, <2>5
<1> QED  BY <1>2, <1>7, <1>8, HeadIs

------------------------------------------------------------------------------
(* What is said of the frames *)

\* A frame is some bytes, and at least one.
LEMMA EncodedIs ==
  ASSUME IsReceiver, NEW f \in PeerFrame
  PROVE  /\ Encoded(f) \in Seq(Byte) /\ Len(Encoded(f)) \in Nat \ {0}
         /\ f.data \in Seq(Byte)
         /\ IsWeb => f.op \in 0..15 /\ f.fin \in {0, 1}
<1>1. CASE IsWeb
  <2>1. receiver # "desktop"
    BY <1>1 DEF IsWeb
  <2>2. f \in WebFrames /\ Encoded(f) = WebBytes(f)
    BY <1>1, <2>1, Zenon DEF PeerFrame, Encoded
  <2>3. f.data \in Seq(Byte) /\ f.op \in 0..15 /\ f.fin \in {0, 1} /\ f.form \in {2, 4, 10}
    BY <2>2, FrameHasItsKind, Zenon
  <2>4. PICK n \in Nat, form \in {2, 4, 10}, m \in {0, 4} :
           n = Len(f.data) /\ form = f.form /\ m = MaskOf(f)
    BY <2>3 DEF MaskOf
  <2>5. WebBytes(f) \in Seq(Byte) /\ Len(WebBytes(f)) = form + m + n
    BY <2>2, <2>4, WebBytesAre, Zenon
  <2>6. form + m + n \in Nat \ {0}
    BY SMT
  <2> QED  BY <2>2, <2>3, <2>5, <2>6, Zenon
<1>2. CASE ~IsWeb
  <2>1. f \in [data : Payloads]
    BY <1>2, Zenon DEF PeerFrame
  <2>2. PICK data \in Payloads : data = f.data
    BY <2>1
  <2>3. data \in Seq(Byte) /\ Newline \in Byte
    <3>1. data \in Seq(Byte \ {Newline}) /\ Byte \ {Newline} \subseteq Byte
      BY PayloadsAssumption
    <3> QED  BY <3>1, SeqMonotonic DEF Byte, Newline
  <2>4. PICK n \in Nat : n = Len(data)
    BY <2>3
  <2>5. CASE receiver = "desktop"
    <3>1. Encoded(f) = DesktopBytes(data)
      BY <1>2, <2>2, <2>5, Zenon DEF Encoded
    <3>2. DesktopBytes(data) \in Seq(Byte) /\ Len(DesktopBytes(data)) = 4 + n
      BY <2>4, DesktopBytesAre, Zenon
    <3>3. 4 + n \in Nat \ {0}
      BY SMT
    <3> QED  BY <1>2, <2>2, <2>3, <3>1, <3>2, <3>3, Zenon
  <2>6. CASE receiver # "desktop"
    <3>1. Encoded(f) = Append(data, Newline)
      BY <1>2, <2>2, <2>6, Zenon DEF Encoded
    <3>2. Append(data, Newline) \in Seq(Byte) /\ Len(Append(data, Newline)) = n + 1
      BY <2>3, <2>4
    <3>3. n + 1 \in Nat \ {0}
      BY SMT
    <3> QED  BY <1>2, <2>2, <2>3, <3>1, <3>2, <3>3, Zenon
  <2> QED  BY <2>5, <2>6
<1> QED  BY <1>1, <1>2

LEMMA MeaningIs ==
  ASSUME IsReceiver, NEW s, IsSaid(s), NEW f \in PeerFrame
  PROVE  Meaning(s, f) \in Seq(EventType)
<1>1. f.data \in Seq(Byte) /\ (IsWeb => f.op \in 0..15 /\ f.fin \in {0, 1})
  BY EncodedIs
<1>2. s.parts \in Seq(Byte) /\ s.parts \o f.data \in Seq(Byte)
  BY <1>1, ConcatProperties DEF IsSaid, SaidType
<1>3. <<>> \in Seq(Byte) /\ <<>> \in Seq(EventType)
  OBVIOUS
<1>4. /\ Events("text", f.data) \in Seq(EventType)
      /\ Events("text", s.parts \o f.data) \in Seq(EventType)
      /\ Events("close", <<>>) \in Seq(EventType)
      /\ Events("ping", f.data) \in Seq(EventType)
  BY <1>1, <1>2, <1>3, EventsAre
<1>5. CASE ~IsWeb
  BY <1>4, <1>5, Zenon DEF Meaning
<1>6. CASE IsWeb
  <2>1. PICK op \in 0..15 : op = f.op
    BY <1>1, <1>6
  <2>2. CASE op < 8
    <3>1. f.op # 8 /\ f.op # 9 /\ f.op < 8
      BY <2>1, <2>2
    <3> QED  BY <1>3, <1>4, <1>6, <3>1, Zenon DEF Meaning
  <2>3. CASE op = 8
    <3>1. f.op = 8 /\ ~(f.op < 8) /\ f.op # 9
      BY <2>1, <2>3
    <3> QED  BY <1>4, <1>6, <3>1, Zenon DEF Meaning
  <2>4. CASE op = 9
    <3>1. f.op = 9 /\ ~(f.op < 8) /\ f.op # 8
      BY <2>1, <2>4
    <3> QED  BY <1>4, <1>6, <3>1, Zenon DEF Meaning
  <2>5. CASE op > 9
    <3>1. ~(f.op < 8) /\ f.op # 8 /\ f.op # 9
      BY <2>1, <2>5
    <3> QED  BY <1>3, <1>6, <3>1, Zenon DEF Meaning
  <2> QED  BY <2>2, <2>3, <2>4, <2>5
<1> QED  BY <1>5, <1>6

LEMMA SaidChanges ==
  ASSUME NEW s, IsSaid(s), NEW at \in Nat, NEW parts \in Seq(Byte), NEW pieces \in Nat,
         NEW ok \in BOOLEAN, NEW events \in Seq(EventType)
  PROVE  /\ IsSaid([s EXCEPT !.at = at])
         /\ IsSaid([s EXCEPT !.parts = parts, !.pieces = pieces])
         /\ IsSaid([s EXCEPT !.ok = ok])
         /\ IsSaid([s EXCEPT !.events = events])
  BY Zenon DEF IsSaid, SaidType

\* What was said after a frame has the form of what was said before it.
LEMMA HeardHasItsForm ==
  ASSUME IsReceiver, NEW s, IsSaid(s), NEW f \in PeerFrame
  PROVE  IsSaid(Heard(s, f))
<1> DEFINE after == [s EXCEPT !.at = @ + Len(Encoded(f))]
           c == Collected(after, f)
           t == Heard(s, f)
<1>1. Len(Encoded(f)) \in Nat /\ f.data \in Seq(Byte) /\ Meaning(s, f) \in Seq(EventType)
  BY EncodedIs, MeaningIs
<1>2. PICK n \in Nat : n = Len(Encoded(f))
  BY <1>1
<1>3. PICK m \in Seq(EventType) : m = Meaning(s, f)
  BY <1>1
<1>4. PICK parts \in Seq(Byte) : parts = s.parts \o f.data
  BY <1>1, ConcatProperties DEF IsSaid, SaidType
<1>5. after = [s EXCEPT !.at = @ + n]
  BY <1>2
<1> HIDE DEF after
<1>6. IsSaid(after) /\ after.parts = s.parts
  <2>1. PICK at \in Nat : at = s.at + n
    BY DEF IsSaid, SaidType
  <2>2. after = [s EXCEPT !.at = at]
    BY <1>5, <2>1, Zenon
  <2>3. IsSaid(after)
    BY <2>1, <2>2, SaidChanges, Zenon
  <2> QED  BY <2>2, <2>3, SMT DEF IsSaid, SaidType
<1>7. c \in {[after EXCEPT !.parts = parts, !.pieces = @ + 1], after, [after EXCEPT !.parts = <<>>, !.pieces = 0]}
  BY <1>4, <1>6, Zenon DEF Collected
<1> HIDE DEF c
<1>8. IsSaid(c)
  <2>1. PICK pieces \in Nat : pieces = after.pieces + 1
    BY <1>6 DEF IsSaid, SaidType
  <2>2. <<>> \in Seq(Byte) /\ 0 \in Nat
    OBVIOUS
  <2>3. CASE c = [after EXCEPT !.parts = parts, !.pieces = @ + 1]
    <3>1. c = [after EXCEPT !.parts = parts, !.pieces = pieces]
      BY <2>1, <2>3, Zenon
    <3> QED  BY <1>6, <3>1, SaidChanges, Zenon
  <2>4. CASE c = [after EXCEPT !.parts = <<>>, !.pieces = 0]
    BY <1>6, <2>2, <2>4, SaidChanges, Zenon
  <2> QED  BY <1>6, <1>7, <2>3, <2>4
<1>9. t \in {[c EXCEPT !.events = @ \o m], [after EXCEPT !.ok = FALSE]}
  BY <1>3, Zenon DEF Heard, c, after
<1> HIDE DEF t
<1>10. PICK v \in Seq(EventType) : v = c.events \o m
  BY <1>8, ConcatProperties DEF IsSaid, SaidType
<1>11. t \in {[c EXCEPT !.events = v], [after EXCEPT !.ok = FALSE]}
  BY <1>9, <1>10, Zenon
<1>12. IsSaid(t)
  <2>1. FALSE \in BOOLEAN
    OBVIOUS
  <2>2. CASE t = [c EXCEPT !.events = v]
    BY <1>8, <2>2, SaidChanges, Zenon
  <2>3. CASE t = [after EXCEPT !.ok = FALSE]
    BY <1>6, <2>1, <2>3, SaidChanges, Zenon
  <2> QED  BY <1>11, <2>2, <2>3, Zenon
<1> QED  BY <1>12 DEF t

LEMMA HeardStaysBounded ==
  ASSUME IsReceiver, NEW s, IsSaid(s), NEW f \in PeerFrame,
         Len(s.parts) <= MaxMessage, ~IsWeb => s.parts = <<>> /\ s.pieces = 0
  PROVE  LET t == Heard(s, f) IN
         /\ Len(t.parts) <= MaxMessage
         /\ ~IsWeb => t.parts = <<>> /\ t.pieces = 0
         /\ s.at < t.at
         /\ ~t.ok => t.events = s.events
         /\ ~s.ok => ~t.ok
<1> DEFINE t == Heard(s, f)
<1>1. f.data \in Seq(Byte) /\ Len(Encoded(f)) \in Nat \ {0} /\ (IsWeb => f.op \in 0..15 /\ f.fin \in {0, 1})
  BY EncodedIs
<1>2. /\ t.at = s.at + Len(Encoded(f))
      /\ ~(s.ok /\ Valid(s, f)) =>
            ~t.ok /\ t.events = s.events /\ t.parts = s.parts /\ t.pieces = s.pieces
      /\ s.ok /\ Valid(s, f) =>
            /\ t.ok /\ t.events = s.events \o Meaning(s, f)
            /\ IsWeb /\ f.op < 8 /\ f.fin = 0 => t.parts = s.parts \o f.data /\ t.pieces = s.pieces + 1
            /\ IsWeb /\ f.op >= 8 => t.parts = s.parts /\ t.pieces = s.pieces
            /\ ~IsWeb \/ (f.op < 8 /\ f.fin # 0) => t.parts = <<>> /\ t.pieces = 0
  BY <1>1, HeardIs
<1> HIDE DEF t
<1>3. s.at \in Nat /\ s.at < t.at
  BY <1>1, <1>2 DEF IsSaid, SaidType
<1>4. ASSUME Valid(s, f), IsWeb, f.op < 8 PROVE Len(s.parts \o f.data) <= MaxMessage
  <2>1. ~IsControl(f)
    <3>1. ~(f.op \in 8..10)
      BY <1>1, <1>4
    <3> QED  BY <3>1, Zenon DEF IsControl
  <2>2. Len(s.parts) + Len(f.data) <= MaxMessage
    BY <1>4, <2>1, Zenon DEF Valid, Continues
  <2>3. Len(s.parts \o f.data) = Len(s.parts) + Len(f.data)
    BY <1>1, ConcatProperties DEF IsSaid, SaidType
  <2> QED  BY <2>2, <2>3
<1>5. Len(<<>>) <= MaxMessage
  BY BoundsAreNumbers
<1>6. IsWeb => f.op < 8 \/ f.op >= 8
  BY <1>1, SMTT(30)
<1>7. Len(t.parts) <= MaxMessage
  BY <1>2, <1>4, <1>5, <1>6, Zenon
<1> QED  BY <1>2, <1>3, <1>7 DEF t

------------------------------------------------------------------------------
(* The steps *)

\* The receiver and the head stay, and so does what they decide.
LEMMA SameReceiver ==
  ASSUME receiver' = receiver
  PROVE  /\ IsWeb' = IsWeb /\ PeerFrame' = PeerFrame /\ Limit' = Limit
         /\ \A f : Encoded(f)' = Encoded(f)
         /\ \A s, f : Heard(s, f)' = Heard(s, f)
<1>1. IsWeb' = IsWeb
  BY Zenon DEF IsWeb
<1>2. PeerFrame' = PeerFrame
  BY <1>1, Zenon DEF PeerFrame
<1>3. Limit' = Limit
  BY Zenon DEF Limit
<1>4. \A f : Encoded(f)' = Encoded(f)
  BY <1>1, Zenon DEF Encoded
<1>5. \A s, f : Valid(s, f)' = Valid(s, f)
  BY <1>1, Zenon DEF Valid
<1>6. \A s, f : Collected(s, f)' = Collected(s, f)
  BY <1>1, Zenon DEF Collected
<1>7. \A s, f : Meaning(s, f)' = Meaning(s, f)
  BY <1>1, Zenon DEF Meaning
<1>8. \A s, f : Heard(s, f)' = Heard(s, f)
  BY <1>4, <1>5, <1>6, <1>7, Zenon DEF Heard
<1> QED  BY <1>1, <1>2, <1>3, <1>4, <1>8

LEMMA InitIsRight ==
  ASSUME FramingInit
  PROVE  FramingInv
<1>1. /\ receiver \in Receivers /\ IsReceiver
      /\ head \in IF IsWeb THEN Heads ELSE {<<>>}
      /\ stream = head /\ frames = <<>> /\ said = <<Opening>> /\ received = 0 /\ state = Start
  BY ReceiversAssumption DEF FramingInit, IsReceiver
<1>2. head \in Seq(Byte) /\ (IF IsWeb THEN head \in Heads ELSE head = <<>>)
  <2>1. CASE IsWeb
    BY <1>1, <2>1, HeadIs
  <2>2. CASE ~IsWeb
    <3>1. head = <<>>
      BY <1>1, <2>2
    <3> QED  BY <2>2, <3>1
  <2> QED  BY <2>1, <2>2
<1>3. /\ IsSaid(Opening) /\ Opening.parts = <<>> /\ Opening.pieces = 0
      /\ ~IsWeb => Opening.ok /\ Opening.at = 0
      /\ IsWeb /\ Blanks(head) = {} => ~Opening.ok /\ Opening.at = MaxHead + 1
      /\ IsWeb /\ Blanks(head) # {} => Opening.at = Len(head) /\ (Opening.ok <=> head[1] = 101 /\ (receiver = "ssh" => Len(head) <= MaxHead + 4))
      /\ Opening.events = IF IsWeb /\ Opening.ok THEN Events("open", <<>>) ELSE <<>>
  BY <1>2, OpeningIs
<1>4. Len(said) = 1 /\ said[1] = Opening /\ Len(frames) = 0
  BY <1>1
<1>5. /\ IsState(state) /\ state.pc = "idle" /\ (state.open <=> ~IsWeb) /\ state.held = <<>>
      /\ state.parts = <<>> /\ state.pieces = 0 /\ state.events = <<>>
  <2>1. IsWeb \in BOOLEAN /\ <<>> \in Seq(Byte) /\ <<>> \in Seq(EventType)
    BY DEF IsWeb
  <2>2. state = [pc |-> "idle", open |-> ~IsWeb, held |-> <<>>, parts |-> <<>>, pieces |-> 0, events |-> <<>>]
    BY <1>1 DEF Start
  <2>3. PICK v \in BOOLEAN : v <=> ~IsWeb
    OBVIOUS
  <2>4. state = [pc |-> "idle", open |-> v, held |-> <<>>, parts |-> <<>>, pieces |-> 0, events |-> <<>>]
    <3>1. v = ~IsWeb
      BY <2>3, Zenon DEF IsWeb
    <3> QED  BY <2>2, <3>1, Zenon
  <2>5. "idle" \in {"idle", "busy", "failed", "overrun"} /\ 0 \in Nat
    OBVIOUS
  <2>6. IsState(state)
    BY <2>1, <2>4, <2>5, Zenon DEF IsState
  <2>7. /\ state.pc = "idle" /\ state.open = v /\ state.held = <<>>
        /\ state.parts = <<>> /\ state.pieces = 0 /\ state.events = <<>>
    BY <2>4, Zenon
  <2> QED  BY <2>3, <2>6, <2>7, Zenon
<1>6. FramingTypeOK
  <2>1. said \in Seq(SaidType)
    BY <1>1, <1>3 DEF IsSaid
  <2>2. frames \in Seq(PeerFrame) /\ received \in Nat /\ received <= Len(stream) /\ stream \in Seq(Byte)
    BY <1>1, <1>2
  <2> QED  BY <1>1, <1>2, <1>4, <1>5, <2>1, <2>2 DEF FramingTypeOK
<1>7. SaidIsMeant
  <2>1. \A i \in 1..Len(said) : i = 1
    BY <1>4
  <2>2. \A i \in 1..Len(said) : Len(said[i].parts) <= MaxMessage /\ (~IsWeb => said[i].parts = <<>> /\ said[i].pieces = 0)
    BY <1>3, <1>4, <2>1, BoundsAreNumbers
  <2>3. \A i, j \in 1..Len(said) : ~(i < j)
    BY <2>1
  <2>4. \A i \in 1..Len(frames) : FALSE
    BY <1>4
  <2> QED  BY <1>4, <2>2, <2>3, <2>4, Zenon DEF SaidIsMeant
<1>8. StreamIsFrames
  <2>1. ~(IsWeb /\ Blanks(head) = {}) => said[Len(said)].at = Len(stream)
    BY <1>1, <1>2, <1>3, <1>4
  <2>2. \A i \in 1..Len(frames) : FALSE
    BY <1>4
  <2>3. Len(head) <= Len(stream)
    BY <1>1, <1>2
  <2> QED  BY <1>1, <2>1, <2>2, <2>3, Zenon DEF StreamIsFrames
<1>9. ReceiverIsRight
  <2>1. Len(state.held) = 0 /\ \A i \in 1..Len(state.held) : FALSE
    BY <1>5
  <2>2. ASSUME state.open PROVE Tracks(1)
    <3>1. said[1].ok /\ said[1].at = 0 /\ said[1].events = <<>>
      BY <1>3, <1>4, <1>5, <2>2
    <3>2. received = said[1].at + Len(state.held)
      BY <1>1, <2>1, <3>1
    <3>3. Len(state.held) <= Limit /\ ~(1 < Len(said))
      <4>1. Limit \in {MaxMessage, MaxMessage + 3, MaxMessage + 9, MaxMessage + 13}
        BY <1>1, LimitIs DEF IsReceiver
      <4> QED  BY <1>4, <2>1, <4>1, BoundsAreNumbers
    <3> QED  BY <1>3, <1>4, <1>5, <2>1, <3>1, <3>2, <3>3, Zenon DEF Tracks
  <2>3. ASSUME ~state.open PROVE Opens
    <3>1. IsWeb /\ received = Len(state.held)
      BY <1>1, <1>5, <2>1, <2>3
    <3>2. said[1].at \in Nat \ {0}
      <4>1. CASE Blanks(head) = {}
        BY <1>3, <1>4, <3>1, <4>1, BoundsAreNumbers
      <4>2. CASE Blanks(head) # {}
        BY <1>2, <1>3, <1>4, <3>1, <4>2, SMT DEF Blanks
      <4> QED  BY <4>1, <4>2
    <3>3. Len(state.held) <= MaxHead /\ received < said[1].at
      BY <1>1, <2>1, <3>2, BoundsAreNumbers
    <3> QED  BY <1>5, <2>1, <3>1, <3>3, Zenon DEF Opens
  <2>4. 1 \in 1..Len(said)
    BY <1>4
  <2> QED  BY <1>5, <2>2, <2>3, <2>4, Zenon DEF ReceiverIsRight
<1> QED  BY <1>6, <1>7, <1>8, <1>9 DEF FramingInv

\* What the invariant says of the types.
LEMMA TypesAre ==
  ASSUME FramingTypeOK
  PROVE  /\ IsReceiver
         /\ head \in Seq(Byte) /\ Len(head) \in Nat /\ stream \in Seq(Byte) /\ Len(stream) \in Nat
         /\ Len(frames) \in Nat /\ Len(said) = Len(frames) + 1
         /\ \A i \in 1..Len(said) : IsSaid(said[i]) /\ said[i].at \in Nat
         /\ \A i \in 1..Len(frames) : frames[i] \in PeerFrame
         /\ IsState(state) /\ state.held \in Seq(Byte) /\ Len(state.held) \in Nat
<1>1. /\ receiver \in Receivers /\ head \in Seq(Byte) /\ stream \in Seq(Byte) /\ frames \in Seq(PeerFrame)
      /\ Len(said) = Len(frames) + 1 /\ said \in Seq(SaidType) /\ IsState(state)
  BY DEF FramingTypeOK
<1>2. \A i \in 1..Len(said) : IsSaid(said[i]) /\ said[i].at \in Nat
  <2>1. \A i \in 1..Len(said) : said[i] \in SaidType
    BY <1>1
  <2>2. \A s \in SaidType : IsSaid(s) /\ s.at \in Nat
    BY SMT DEF IsSaid, SaidType
  <2> QED  BY <2>1, <2>2
<1>3. state.held \in Seq(Byte) /\ Len(state.held) \in Nat
  BY <1>1 DEF IsState
<1>4. IsReceiver
  BY <1>1, ReceiversAssumption DEF IsReceiver
<1>5. \A i \in 1..Len(frames) : frames[i] \in PeerFrame
  BY <1>1
<1> QED  BY <1>1, <1>2, <1>3, <1>4, <1>5

\* How a sequence and its first elements stay when one is appended.
LEMMA AppendIs ==
  ASSUME NEW S, NEW a \in Seq(S), NEW x \in S, NEW n \in Nat, Len(a) = n
  PROVE  LET b == Append(a, x) IN
         b \in Seq(S) /\ Len(b) = n + 1 /\ b[n + 1] = x /\ \A i \in 1..n : b[i] = a[i]
  OBVIOUS

LEMMA SayKeepsSaid ==
  ASSUME FramingTypeOK, SaidIsMeant, Say
  PROVE  FramingTypeOK' /\ SaidIsMeant'
<1>1. PICK f \in PeerFrame : /\ frames' = Append(frames, f)
                             /\ stream' = stream \o Encoded(f)
                             /\ said' = Append(said, Heard(said[Len(said)], f))
  BY DEF Say
<1>2. receiver' = receiver /\ head' = head /\ received' = received /\ state' = state
  BY DEF Say
<1>3. /\ IsWeb' = IsWeb /\ PeerFrame' = PeerFrame
      /\ \A s, g : Heard(s, g)' = Heard(s, g)
  BY <1>2, SameReceiver
<1>4. /\ IsReceiver /\ stream \in Seq(Byte) /\ Len(stream) \in Nat
      /\ \A i \in 1..Len(said) : IsSaid(said[i]) /\ said[i].at \in Nat
  BY TypesAre
<1>5. PICK n \in Nat : n = Len(frames) /\ Len(said) = n + 1
  BY TypesAre
<1> DEFINE s == said[n + 1]
           t == Heard(s, f)
<1>6. IsSaid(s) /\ n + 1 \in 1..Len(said)
  BY <1>4, <1>5
<1>7. Len(s.parts) <= MaxMessage /\ (~IsWeb => s.parts = <<>> /\ s.pieces = 0)
  BY <1>6 DEF SaidIsMeant
<1>8. IsSaid(t)
  BY <1>4, <1>6, HeardHasItsForm
<1>9. /\ Len(t.parts) <= MaxMessage /\ (~IsWeb => t.parts = <<>> /\ t.pieces = 0)
      /\ s.at < t.at /\ (~t.ok => t.events = s.events) /\ (~s.ok => ~t.ok)
  BY <1>4, <1>6, <1>7, HeardStaysBounded
<1>10. /\ said' \in Seq(SaidType) /\ Len(said') = n + 2 /\ said'[n + 2] = t
       /\ \A i \in 1..n + 1 : said'[i] = said[i]
  <2>1. said' = Append(said, t) /\ t \in SaidType /\ said \in Seq(SaidType) /\ n + 1 \in Nat
    BY <1>1, <1>5, <1>8 DEF IsSaid, FramingTypeOK
  <2> HIDE DEF t
  <2>2. /\ said' \in Seq(SaidType) /\ Len(said') = (n + 1) + 1 /\ said'[(n + 1) + 1] = t
        /\ \A i \in 1..n + 1 : said'[i] = said[i]
    BY <1>5, <2>1, AppendIs
  <2>3. (n + 1) + 1 = n + 2
    BY SMT
  <2> QED  BY <2>2, <2>3
<1>11. /\ frames' \in Seq(PeerFrame) /\ Len(frames') = n + 1 /\ frames'[n + 1] = f
       /\ \A i \in 1..n : frames'[i] = frames[i]
  BY <1>1, <1>5, AppendIs DEF FramingTypeOK
<1>12. stream' \in Seq(Byte) /\ Len(stream) <= Len(stream')
  <2>1. Encoded(f) \in Seq(Byte) /\ Len(Encoded(f)) \in Nat
    BY <1>4, EncodedIs
  <2> QED  BY <1>1, <1>4, <2>1, ConcatProperties
<1> HIDE DEF s, t
<1>13. FramingTypeOK'
  <2>1. received' <= Len(stream')
    <3>1. received \in Nat /\ received <= Len(stream) /\ Len(stream') \in Nat
      BY <1>12 DEF FramingTypeOK
    <3> QED  BY <1>2, <1>4, <1>12, <3>1
  <2>2. Len(said') = Len(frames') + 1
    BY <1>10, <1>11
  <2> QED  BY <1>2, <1>3, <1>10, <1>11, <1>12, <2>1, <2>2, Zenon DEF FramingTypeOK, IsState
<1>14. said'[1] = Opening'
  <2>1. Opening' = Opening
    BY <1>2, <1>3, Zenon DEF Opening
  <2>2. said[1] = Opening /\ 1 \in 1..n + 1
    BY DEF SaidIsMeant
  <2> QED  BY <1>10, <2>1, <2>2
<1>15. ASSUME NEW i \in 1..n + 1 PROVE (said[i + 1] = Heard(said[i], frames[i]))'
  <2>1. CASE i = n + 1
    <3>1. said'[i] = s /\ said'[i + 1] = t /\ frames'[i] = f
      BY <1>10, <1>11, <2>1 DEF s
    <3> QED  BY <1>3, <3>1, Zenon DEF t
  <2>2. CASE i # n + 1
    <3>1. i \in 1..n /\ i + 1 \in 1..n + 1
      BY <2>2
    <3>2. said[i + 1] = Heard(said[i], frames[i])
      BY <1>5, <3>1 DEF SaidIsMeant
    <3>3. said'[i] = said[i] /\ said'[i + 1] = said[i + 1] /\ frames'[i] = frames[i]
      BY <1>10, <1>11, <3>1
    <3> QED  BY <1>3, <3>2, <3>3, Zenon
  <2> QED  BY <2>1, <2>2
<1>16. ASSUME NEW i \in 1..n + 2
       PROVE  Len(said'[i].parts) <= MaxMessage /\ (~IsWeb => said'[i].parts = <<>> /\ said'[i].pieces = 0)
  <2>1. CASE i = n + 2
    BY <1>9, <1>10, <2>1
  <2>2. CASE i # n + 2
    <3>1. i \in 1..n + 1
      BY <2>2
    <3>2. Len(said[i].parts) <= MaxMessage /\ (~IsWeb => said[i].parts = <<>> /\ said[i].pieces = 0)
      BY <1>5, <3>1 DEF SaidIsMeant
    <3> QED  BY <1>10, <3>1, <3>2
  <2> QED  BY <2>1, <2>2
<1>17. ASSUME NEW i \in 1..n + 1, NEW j \in 1..n + 1, i < j
       PROVE  said[i].at < said[j].at /\ (~said[i].ok => ~said[j].ok /\ said[j].events = said[i].events)
  BY <1>5, <1>17 DEF SaidIsMeant
<1>18. ASSUME NEW i \in 1..n + 2, NEW j \in 1..n + 2, i < j
       PROVE  said'[i].at < said'[j].at /\ (~said'[i].ok => ~said'[j].ok /\ said'[j].events = said'[i].events)
  <2>1. i \in 1..n + 1 /\ said'[i] = said[i] /\ said[i].at \in Nat
    BY <1>4, <1>5, <1>10, <1>18
  <2>2. CASE j = n + 2
    <3>1. i = n + 1 \/ i < n + 1
      BY <2>1
    <3>2. said[i] = s \/ (said[i].at < s.at /\ (~said[i].ok => ~s.ok /\ s.events = said[i].events))
      BY <1>17, <2>1, <3>1 DEF s
    <3>3. s.at \in Nat /\ t.at \in Nat
      BY <1>6, <1>8, SMT DEF IsSaid, SaidType
    <3>4. said[i].at < t.at
      BY <1>9, <2>1, <3>2, <3>3
    <3>5. ~said[i].ok => ~t.ok /\ t.events = said[i].events
      BY <1>9, <3>2
    <3> QED  BY <1>10, <2>1, <2>2, <3>4, <3>5
  <2>3. CASE j # n + 2
    <3>1. j \in 1..n + 1
      BY <2>3
    <3> QED  BY <1>10, <1>17, <1>18, <2>1, <3>1
  <2> QED  BY <2>2, <2>3
<1>19. SaidIsMeant'
  <2>1. Len(said') = n + 2 /\ Len(frames') = n + 1
    BY <1>10, <1>11
  <2> QED  BY <1>3, <1>14, <1>15, <1>16, <1>18, <2>1, Zenon DEF SaidIsMeant
<1> QED  BY <1>13, <1>19

\* What the first frames take does not exceed what all of them take.
LEMMA PlacesAre ==
  ASSUME FramingTypeOK, SaidIsMeant, NEW i \in 1..Len(said), NEW j \in 1..Len(said), i <= j
  PROVE  said[i].at \in Nat /\ said[j].at \in Nat /\ said[i].at <= said[j].at
<1>1. said[i].at \in Nat /\ said[j].at \in Nat /\ Len(said) \in Nat
  BY TypesAre
<1>2. i = j \/ i < j
  BY <1>1
<1>3. i < j => said[i].at < said[j].at
  BY DEF SaidIsMeant
<1> QED  BY <1>1, <1>2, <1>3

\* Where a frame's bytes are in the stream.
LEMMA FramesFit ==
  ASSUME FramingTypeOK, SaidIsMeant, NEW i \in 1..Len(frames)
  PROVE  /\ i \in 1..Len(said) /\ i + 1 \in 1..Len(said)
         /\ IsSaid(said[i]) /\ frames[i] \in PeerFrame /\ said[i + 1] = Heard(said[i], frames[i])
         /\ Len(Encoded(frames[i])) \in Nat /\ said[i].at \in Nat
         /\ said[i + 1].at = said[i].at + Len(Encoded(frames[i]))
<1>1. i \in 1..Len(said) /\ i + 1 \in 1..Len(said) /\ IsReceiver
  BY TypesAre
<1>2. IsSaid(said[i]) /\ frames[i] \in PeerFrame /\ said[i].at \in Nat
  BY <1>1, TypesAre
<1>3. said[i + 1] = Heard(said[i], frames[i])
  BY DEF SaidIsMeant
<1>4. Len(Encoded(frames[i])) \in Nat /\ (IsWeb => frames[i].op \in 0..15)
  BY <1>1, <1>2, EncodedIs
<1>5. Heard(said[i], frames[i]).at = said[i].at + Len(Encoded(frames[i]))
  BY <1>2, <1>4, HeardIs, Zenon
<1> QED  BY <1>1, <1>2, <1>3, <1>4, <1>5, Zenon

LEMMA SayKeepsTheRest ==
  ASSUME FramingInv, Say
  PROVE  StreamIsFrames' /\ ReceiverIsRight'
<1>1. PICK f \in PeerFrame : /\ frames' = Append(frames, f)
                             /\ stream' = stream \o Encoded(f)
                             /\ said' = Append(said, Heard(said[Len(said)], f))
  BY DEF Say
<1>2. /\ receiver' = receiver /\ head' = head /\ received' = received /\ state' = state
      /\ IsWeb => Blanks(head) # {}
  BY DEF Say
<1>3. IsWeb' = IsWeb /\ Limit' = Limit /\ \A g : Encoded(g)' = Encoded(g)
  BY <1>2, SameReceiver
<1>4. FramingTypeOK /\ SaidIsMeant /\ StreamIsFrames /\ ReceiverIsRight
  BY DEF FramingInv
<1>5. PICK n, l, r \in Nat : n = Len(frames) /\ Len(said) = n + 1 /\ l = Len(stream) /\ r = received /\ r <= l
  BY <1>4, TypesAre DEF FramingTypeOK
<1> DEFINE s == said[n + 1]
           t == Heard(s, f)
           e == Encoded(f)
<1>6. IsSaid(s) /\ n + 1 \in 1..Len(said) /\ s.at \in Nat /\ IsReceiver
  BY <1>4, <1>5, TypesAre
<1>7. e \in Seq(Byte) /\ (IsWeb => f.op \in 0..15) /\ Len(e) \in Nat \ {0}
  BY <1>6, EncodedIs
<1>8. PICK k \in Nat \ {0} : k = Len(e)
  BY <1>7
<1>9. t.at = s.at + k
  BY <1>6, <1>7, <1>8, HeardIs
<1>10. s.at = l
  BY <1>2, <1>4, <1>5 DEF StreamIsFrames
<1>11. Len(said') = n + 2 /\ said'[n + 2] = t /\ \A i \in 1..n + 1 : said'[i] = said[i]
  BY <1>1, <1>4, <1>5 DEF FramingTypeOK
<1>12. Len(frames') = n + 1 /\ frames'[n + 1] = f /\ \A i \in 1..n : frames'[i] = frames[i]
  BY <1>1, <1>4, <1>5 DEF FramingTypeOK
<1> HIDE DEF e, s, t
<1>13. /\ Len(stream') = l + k
       /\ \A i \in 1..l : stream'[i] = stream[i]
       /\ \A i \in 1..k : stream'[l + i] = e[i]
  <2>1. stream \in Seq(Byte) /\ stream' = stream \o e
    BY <1>1, <1>4 DEF FramingTypeOK, e
  <2> QED  BY <1>5, <1>7, <1>8, <2>1, Joined
<1>14. StreamIsFrames'
  <2>1. said'[Len(said')].at = Len(stream')
    BY <1>9, <1>10, <1>11, <1>13
  <2>2. Len(head') <= Len(stream') /\ \A i \in 1..Len(head') : stream'[i] = head'[i]
    <3>1. Len(head) <= l /\ Len(head) \in Nat /\ \A i \in 1..Len(head) : stream[i] = head[i]
      BY <1>4, <1>5, TypesAre DEF StreamIsFrames
    <3> QED  BY <1>2, <1>13, <3>1
  <2>3. ASSUME NEW i \in 1..n + 1, NEW j \in 1..Len(Encoded(frames'[i]))
        PROVE  stream'[said'[i].at + j] = Encoded(frames'[i])[j]
    <3>1. CASE i = n + 1
      <4>1. said'[i] = s /\ frames'[i] = f
        BY <1>11, <1>12, <3>1 DEF s
      <4>2. j \in 1..k /\ Encoded(frames'[i]) = e
        BY <1>8, <4>1 DEF e
      <4> QED  BY <1>10, <1>13, <4>1, <4>2
    <3>2. CASE i # n + 1
      <4>1. i \in 1..n /\ said'[i] = said[i] /\ frames'[i] = frames[i] /\ i \in 1..Len(frames)
        BY <1>5, <1>11, <1>12, <3>2
      <4>2. /\ i + 1 \in 1..Len(said) /\ Len(Encoded(frames[i])) \in Nat /\ said[i].at \in Nat
            /\ said[i + 1].at = said[i].at + Len(Encoded(frames[i]))
        BY <1>4, <4>1, FramesFit
      <4>3. said[i + 1].at <= s.at
        <5>1. i + 1 <= n + 1
          BY <4>1
        <5> QED  BY <1>4, <1>6, <4>2, <5>1, PlacesAre DEF s
      <4>4. said[i].at + j \in 1..l /\ j \in 1..Len(Encoded(frames[i]))
        BY <1>10, <4>1, <4>2, <4>3
      <4>5. stream[said[i].at + j] = Encoded(frames[i])[j]
        BY <1>4, <4>1, <4>4 DEF StreamIsFrames
      <4> QED  BY <1>13, <4>1, <4>4, <4>5
    <3> QED  BY <3>1, <3>2
  <2>4. Blanks(head') = Blanks(head)
    BY <1>2
  <2> QED  BY <1>2, <1>3, <1>12, <2>1, <2>2, <2>3, <2>4, Zenon DEF StreamIsFrames
<1>15. ReceiverIsRight'
  <2>1. ASSUME NEW c \in 1..n + 1, Tracks(c) PROVE Tracks(c)'
    <3>1. said'[c] = said[c] /\ said[c].at \in Nat /\ c \in 1..Len(said)
      BY <1>4, <1>5, <1>11, TypesAre
    <3>2. Len(state.held) \in Nat /\ received = said[c].at + Len(state.held)
      BY <1>4, <2>1, TypesAre DEF Tracks
    <3>3. ASSUME NEW i \in 1..Len(state.held) PROVE state.held[i] = stream'[said[c].at + i]
      <4>1. said[c].at + i \in 1..l
        BY <1>5, <3>1, <3>2
      <4>2. state.held[i] = stream[said[c].at + i]
        BY <2>1 DEF Tracks
      <4> QED  BY <1>13, <4>1, <4>2
    <3>4. ASSUME state.pc = "idle", c < n + 2 PROVE received < said'[c + 1].at
      <4>1. CASE c = n + 1
        <5>1. said'[c + 1] = t
          BY <1>11, <4>1
        <5>2. r < t.at
          BY <1>5, <1>9, <1>10
        <5> QED  BY <1>5, <5>1, <5>2
      <4>2. CASE c # n + 1
        <5>1. c < Len(said) /\ c + 1 \in 1..n + 1
          BY <1>5, <4>2
        <5> QED  BY <1>11, <2>1, <3>4, <5>1 DEF Tracks
      <4> QED  BY <4>1, <4>2
    <3>5. /\ said[c].ok /\ state.parts = said[c].parts /\ state.pieces = said[c].pieces /\ state.events = said[c].events
          /\ state.pc = "idle" => Len(state.held) <= Limit
      BY <2>1, Zenon DEF Tracks
    <3> QED  BY <1>2, <1>3, <1>11, <3>1, <3>2, <3>3, <3>4, <3>5, Zenon DEF Tracks
  <2>2. ASSUME Opens PROVE Opens'
    <3>1. Len(state.held) \in Nat /\ received = Len(state.held)
      BY <1>4, <2>2, TypesAre DEF Opens
    <3>2. \A i \in 1..Len(state.held) : state.held[i] = stream'[i]
      BY <1>5, <1>13, <2>2, <3>1 DEF Opens
    <3>3. said'[1] = said[1]
      BY <1>11
    <3> QED  BY <1>2, <1>3, <2>2, <3>2, <3>3, Zenon DEF Opens
  <2>3. (Refused => Refused') /\ (GivenUp => GivenUp') /\ (Unread => Unread')
    <3>1. said'[1] = said[1]
      BY <1>11
    <3> QED  BY <1>2, <3>1, Zenon DEF Refused, GivenUp, Unread
  <2>4. ASSUME NEW c \in 1..n, FailedAt(c) PROVE FailedAt(c)'
    <3>1. said'[c] = said[c] /\ said'[c + 1] = said[c + 1]
      BY <1>11
    <3> QED  BY <1>2, <2>4, <3>1, Zenon DEF FailedAt
  <2>7. ASSUME NEW c \in 1..n + 1, OverrunAt(c) PROVE OverrunAt(c)'
    <3>1. said'[c] = said[c]
      BY <1>11
    <3> QED  BY <1>2, <2>7, <3>1, Zenon DEF OverrunAt
  <2>5. \A c \in 1..Len(said) : c \in 1..n + 1 /\ c \in 1..Len(said')
    BY <1>5, <1>11
  <2>6. \A c \in 1..Len(frames) : c \in 1..n /\ c \in 1..Len(frames')
    BY <1>5, <1>12
  <2> QED  BY <1>2, <1>4, <2>1, <2>2, <2>3, <2>4, <2>5, <2>6, <2>7, Zenon DEF ReceiverIsRight
<1> QED  BY <1>14, <1>15

\* The receiver's steps leave what the peer wrote as it is.
LEMMA PeerStays ==
  ASSUME SaidIsMeant, StreamIsFrames, UNCHANGED <<receiver, head, stream, frames, said>>
  PROVE  SaidIsMeant' /\ StreamIsFrames'
<1>1. receiver' = receiver /\ head' = head /\ stream' = stream /\ frames' = frames /\ said' = said
  OBVIOUS
<1>2. /\ IsWeb' = IsWeb /\ \A g : Encoded(g)' = Encoded(g)
      /\ \A s, g : Heard(s, g)' = Heard(s, g)
  BY <1>1, SameReceiver
<1>3. Opening' = Opening
  BY <1>1, <1>2, Zenon DEF Opening
<1>4. SaidIsMeant'
  <2>1. \A i \in 1..Len(frames') : (said[i + 1] = Heard(said[i], frames[i]))'
    BY <1>1, <1>2 DEF SaidIsMeant
  <2> QED  BY <1>1, <1>2, <1>3, <2>1, Zenon DEF SaidIsMeant
<1>5. StreamIsFrames'
  <2>1. ASSUME NEW i \in 1..Len(frames'), NEW j \in 1..Len(Encoded(frames'[i]))
        PROVE  stream'[said'[i].at + j] = Encoded(frames'[i])[j]
    BY <1>1 DEF StreamIsFrames
  <2> QED  BY <1>1, <1>2, <2>1, Zenon DEF StreamIsFrames
<1> QED  BY <1>4, <1>5

\* What is held after a chunk: what was held, and the next bytes of the stream.
LEMMA ChunkIsHeld ==
  ASSUME NEW a \in Seq(Byte), NEW b \in Seq(Byte), NEW r \in Nat, NEW n \in Nat, r + n <= Len(b),
         NEW v, v = a \o SubSeq(b, r + 1, r + n)
  PROVE  /\ v \in Seq(Byte) /\ Len(v) = Len(a) + n
         /\ \A i \in 1..Len(a) : v[i] = a[i]
         /\ \A i \in 1..n : v[Len(a) + i] = b[r + i]
<1> DEFINE part == SubSeq(b, r + 1, r + n)
<1>1. v = a \o part /\ part = SubSeq(b, r + 1, r + n)
  OBVIOUS
<1> HIDE DEF part
<1>2. part \in Seq(Byte) /\ Len(part) = n /\ \A i \in 1..n : part[i] = b[r + i]
  BY <1>1, PartOf
<1>3. PICK c \in Seq(Byte) : c = part
  BY <1>2
<1>4. Len(c) = n /\ v = a \o c /\ \A i \in 1..n : c[i] = b[r + i]
  BY <1>2, <1>1, <1>3, Zenon
<1>5. PICK k \in Nat : Len(a) = k
  OBVIOUS
<1>6. v \in Seq(Byte) /\ Len(v) = Len(a) + Len(c)
  BY <1>4, ConcatProperties, Zenon
<1>7. \A i \in 1..k : v[i] = a[i]
  <2>1. TAKE i \in 1..k
  <2>2. i \in 1..Len(a) + Len(c) /\ i <= Len(a)
    BY <1>4, <1>5, SMT
  <2> QED  BY <1>4, <2>2, ConcatProperties
<1>8. \A i \in 1..n : v[k + i] = b[r + i]
  <2>1. TAKE i \in 1..n
  <2>2. PICK j : j = k + i
    OBVIOUS
  <2>3. j \in 1..Len(a) + Len(c) /\ ~(j <= Len(a)) /\ j - Len(a) = i
    BY <1>4, <1>5, <2>2, SMT
  <2>4. (a \o c)[j] = c[j - Len(a)]
    BY <2>3, ConcatProperties
  <2> QED  BY <1>4, <2>2, <2>3, <2>4, Zenon
<1> QED  BY <1>4, <1>5, <1>6, <1>7, <1>8, Zenon

LEMMA ChunkKeepsIt ==
  ASSUME FramingInv, Chunk
  PROVE  FramingInv'
<1>1. FramingTypeOK /\ SaidIsMeant /\ StreamIsFrames /\ ReceiverIsRight
  BY DEF FramingInv
<1>2. UNCHANGED <<receiver, head, stream, frames, said>> /\ state.pc = "idle"
  BY DEF Chunk
<1>3. SaidIsMeant' /\ StreamIsFrames'
  BY <1>1, <1>2, PeerStays
<1> DEFINE more(x) == SubSeq(stream, received + 1, received + x)
           full(x) == receiver = "ssh" /\ Len(state.held \o more(x)) > MaxMessage + MaxHead
<1>4. PICK n \in 1..MaxChunk :
         /\ received + n <= Len(stream) /\ received' = received + n
         /\ state' = IF full(n) THEN [state EXCEPT !.pc = "overrun"]
                     ELSE [state EXCEPT !.pc = "busy", !.held = state.held \o more(n)]
  BY Zenon DEF Chunk
<1>5. PICK k, l, r \in Nat : k = Len(state.held) /\ l = Len(stream) /\ r = received
  BY <1>1, TypesAre DEF FramingTypeOK
<1>6. n \in Nat /\ r + n \in Nat /\ r + n <= l
  <2>1. n \in Nat
    BY BoundsAreNumbers
  <2>2. r + n <= l
    BY <1>4, <1>5, Zenon
  <2> QED  BY <2>1, <2>2
<1> DEFINE held == state.held \o more(n)
<1>7. /\ held \in Seq(Byte) /\ Len(held) = k + n
      /\ \A i \in 1..k : held[i] = state.held[i]
      /\ \A i \in 1..n : held[k + i] = stream[r + i]
  <2>1. state.held \in Seq(Byte) /\ stream \in Seq(Byte) /\ Len(state.held) = k /\ r + n <= Len(stream)
    BY <1>1, <1>5, <1>6, TypesAre
  <2>2. held = state.held \o SubSeq(stream, r + 1, r + n)
    BY <1>5
  <2>3. PICK m \in Nat : m = n /\ r + m <= Len(stream)
    BY <1>6, <2>1
  <2>4. PICK b \in Seq(Byte) : b = state.held /\ Len(b) = k
    BY <2>1
  <2> HIDE DEF held
  <2>5. PICK w \in Seq(Byte) : w = stream /\ r + m <= Len(w)
    BY <2>1, <2>3
  <2>6. PICK v : v = held
    OBVIOUS
  <2>7. v = b \o SubSeq(w, r + 1, r + m)
    BY <2>2, <2>3, <2>4, <2>5, <2>6, Zenon
  <2>8. Len(b) = k /\ r + m <= Len(w)
    BY <2>4, <2>5
  <2>9. /\ v \in Seq(Byte) /\ Len(v) = k + m
        /\ \A i \in 1..k : v[i] = b[i]
        /\ \A i \in 1..m : v[k + i] = w[r + i]
    <3>1. /\ v \in Seq(Byte) /\ Len(v) = Len(b) + m
          /\ \A i \in 1..Len(b) : v[i] = b[i]
          /\ \A i \in 1..m : v[Len(b) + i] = w[r + i]
      <4>1. v \in Seq(Byte)
        BY <2>7, <2>8, ChunkIsHeld
      <4>2. Len(v) = Len(b) + m
        BY <2>7, <2>8, ChunkIsHeld
      <4>3. \A i \in 1..Len(b) : v[i] = b[i]
        BY <2>7, <2>8, ChunkIsHeld
      <4>4. \A i \in 1..m : v[Len(b) + i] = w[r + i]
        BY <2>7, <2>8, ChunkIsHeld
      <4> QED  BY <4>1, <4>2, <4>3, <4>4, Zenon
    <3> QED  BY <2>8, <3>1, Zenon
  <2> QED  BY <2>3, <2>4, <2>5, <2>6, <2>9, Zenon
<1> HIDE DEF more, held
<1>8. IsState(state) /\ IsReceiver /\ receiver \in Receivers /\ (IF IsWeb THEN head \in Heads ELSE head = <<>>)
  BY <1>1, TypesAre DEF FramingTypeOK
<1>9. full(n) <=> receiver = "ssh" /\ k + n > MaxMessage + MaxHead
  BY <1>7, Zenon DEF held
<1> HIDE DEF full
<1>10. IsWeb' = IsWeb /\ Limit' = Limit
  BY <1>2, SameReceiver
<1>11. said' = said /\ stream' = stream /\ frames' = frames /\ head' = head /\ receiver' = receiver
  BY <1>2
<1>12. CASE full(n)
  <2>1. IsState(state') /\ state'.pc = "overrun" /\ state'.open = state.open /\ state'.events = state.events
    <3>1. state' = [state EXCEPT !.pc = "overrun"]
      BY <1>4, <1>12, Zenon
    <3> QED  BY <1>8, <3>1 DEF IsState
  <2>2. received' = r + n /\ k + n > MaxMessage + MaxHead
    BY <1>4, <1>5, <1>9, <1>12
  <2>3. ASSUME NEW c \in 1..Len(said), Tracks(c) PROVE OverrunAt(c)'
    <3>1. PICK at \in Nat : at = said[c].at
      BY <1>1, TypesAre
    <3>2. r = at + k /\ said[c].ok /\ state.events = said[c].events
      BY <1>5, <2>3, <3>1, Zenon DEF Tracks
    <3>3. r + n > at + MaxMessage + MaxHead
      BY <1>6, <2>2, <3>2, BoundsAreNumbers, SMT
    <3> QED  BY <1>11, <2>1, <2>2, <3>1, <3>2, <3>3, Zenon DEF OverrunAt
  <2>4. ASSUME Opens, ~state.open PROVE Unread'
    <3>1. r = k /\ state.events = <<>>
      BY <1>5, <2>4, Zenon DEF Opens
    <3> QED  BY <2>1, <2>2, <2>4, <3>1, Zenon DEF Unread
  <2>7. ReceiverIsRight'
    <3>1. (state.open => \E c \in 1..Len(said) : Tracks(c)) /\ (~state.open => Opens)
      BY <1>1, <1>2 DEF ReceiverIsRight
    <3> QED  BY <1>11, <2>1, <2>3, <2>4, <3>1, Zenon DEF ReceiverIsRight
  <2>8. FramingTypeOK'
    BY <1>1, <1>4, <1>5, <1>6, <1>10, <1>11, <2>1, SameReceiver DEF FramingTypeOK, IsState
  <2> QED  BY <1>3, <2>7, <2>8 DEF FramingInv
<1>13. CASE ~full(n)
  <2>1. state' = [state EXCEPT !.pc = "busy", !.held = held]
    BY <1>4, <1>13, Zenon DEF held
  <2>2. IsState(state')
    <3>1. "busy" \in {"idle", "busy", "failed", "overrun"}
      OBVIOUS
    <3> QED  BY <1>7, <1>8, <2>1, <3>1, Zenon DEF IsState
  <2>3. /\ state'.pc = "busy" /\ state'.open = state.open /\ state'.held = held
        /\ state'.parts = state.parts /\ state'.pieces = state.pieces /\ state'.events = state.events
    BY <1>7, <1>8, <2>1, SMT DEF IsState
  <2>4. Len(state'.held) = k + n /\ received' = r + n
    BY <1>4, <1>5, <1>7, <2>3
  <2>5. ASSUME NEW at \in Nat, r = at + k, \A i \in 1..k : state.held[i] = stream[at + i]
        PROVE  \A i \in 1..k + n : held[i] = stream[at + i]
    <3>1. TAKE i \in 1..k + n
    <3>2. CASE i <= k
      BY <1>7, <2>5, <3>2
    <3>3. CASE ~(i <= k)
      <4>1. PICK j \in 1..n : i = k + j
        BY <1>6, <3>3
      <4>2. r + j = at + i
        BY <2>5, <4>1
      <4>3. held[k + j] = stream[r + j]
        BY <1>7, <4>1
      <4> QED  BY <4>1, <4>2, <4>3, Zenon
    <3> QED  BY <3>2, <3>3
  <2>6. ASSUME NEW c \in 1..Len(said), Tracks(c) PROVE Tracks(c)'
    <3>1. said[c].at \in Nat /\ r = said[c].at + k /\ \A i \in 1..k : state.held[i] = stream[said[c].at + i]
      BY <1>1, <1>5, <2>6, TypesAre DEF Tracks
    <3>2. \A i \in 1..k + n : held[i] = stream[said[c].at + i]
      BY <2>5, <3>1, ZenonT(60)
    <3>3. received' = said[c].at + Len(state'.held)
      BY <1>6, <2>4, <3>1, SMTT(30)
    <3>4. /\ said[c].ok /\ state.parts = said[c].parts /\ state.pieces = said[c].pieces /\ state.events = said[c].events
      BY <2>6, Zenon DEF Tracks
    <3>5. state'.pc # "idle"
      BY <2>3
    <3> QED  BY <1>11, <2>3, <2>4, <3>2, <3>3, <3>4, <3>5, Zenon DEF Tracks
  <2>7. ASSUME Opens PROVE Opens'
    <3>1. /\ IsWeb /\ state.parts = <<>> /\ state.pieces = 0 /\ state.events = <<>>
          /\ r = k /\ \A i \in 1..k : state.held[i] = stream[i]
      BY <1>5, <2>7, Zenon DEF Opens
    <3>2. \A i \in 1..k + n : held[i] = stream[i]
      <4>1. 0 \in Nat /\ r = 0 + k /\ \A i \in 1..k : state.held[i] = stream[0 + i]
        BY <3>1
      <4>2. \A i \in 1..k + n : held[i] = stream[0 + i]
        BY <2>5, <4>1
      <4> QED  BY <1>6, <4>2
    <3>3. received' = Len(state'.held) /\ state'.pc # "idle"
      BY <2>3, <2>4, <3>1
    <3> QED  BY <1>10, <1>11, <2>3, <2>4, <3>1, <3>2, <3>3, Zenon DEF Opens
  <2>8. ReceiverIsRight'
    <3>1. state.open => \E c \in 1..Len(said) : Tracks(c)
      BY <1>1, <1>2 DEF ReceiverIsRight
    <3>2. ~state.open => Opens
      BY <1>1, <1>2 DEF ReceiverIsRight
    <3>3. state'.pc # "failed" /\ state'.pc # "overrun"
      BY <2>3
    <3> QED  BY <1>11, <2>3, <2>6, <2>7, <3>1, <3>2, <3>3, Zenon DEF ReceiverIsRight
  <2>9. FramingTypeOK'
    BY <1>1, <1>4, <1>5, <1>6, <1>10, <1>11, <2>2, SameReceiver DEF FramingTypeOK, IsState
  <2> QED  BY <1>3, <2>8, <2>9 DEF FramingInv
<1> QED  BY <1>12, <1>13

LEMMA WaitingIsAState ==
  ASSUME NEW st, IsState(st)
  PROVE  LET r == Wait(st) IN
         /\ IsState(r) /\ r.pc = "idle" /\ r.open = st.open /\ r.held = st.held
         /\ r.parts = st.parts /\ r.pieces = st.pieces /\ r.events = st.events
<1>1. "idle" \in {"idle", "busy", "failed", "overrun"}
  OBVIOUS
<1>2. IsState(Wait(st))
  BY <1>1, Zenon DEF IsState, Wait
<1>3. /\ Wait(st).pc = "idle" /\ Wait(st).open = st.open /\ Wait(st).held = st.held
      /\ Wait(st).parts = st.parts /\ Wait(st).pieces = st.pieces /\ Wait(st).events = st.events
  BY SMT DEF IsState, Wait
<1> QED  BY <1>2, <1>3

\* What is left of the bytes after a frame, or the head, are the bytes that follow it.
LEMMA WhatFollows ==
  ASSUME NEW b \in Seq(Byte), NEW w, NEW at \in Nat, NEW n \in Nat, n <= Len(b),
         \A i \in 1..Len(b) : b[i] = w[at + i],
         NEW v, v = SubSeq(b, n + 1, Len(b))
  PROVE  /\ Len(v) \in Nat /\ Len(v) = Len(b) - n
         /\ \A i \in 1..Len(v) : v[i] = w[(at + n) + i]
<1>1. v \in Seq(Byte) /\ Len(v) = Len(b) - n /\ \A i \in 1..Len(v) : v[i] = b[n + i]
  BY RestOf
<1>2. PICK k, m \in Nat : k = Len(b) /\ m = Len(v) /\ m = k - n
  BY <1>1
<1>3. ASSUME NEW i \in 1..m PROVE v[i] = w[(at + n) + i]
  <2>1. n + i \in 1..k /\ at + (n + i) = (at + n) + i
    BY <1>2
  <2>2. b[n + i] = w[at + (n + i)]
    BY <1>2, <2>1, Zenon
  <2>3. v[i] = b[n + i]
    BY <1>1, <1>2
  <2> QED  BY <2>1, <2>2, <2>3, Zenon
<1> QED  BY <1>1, <1>2, <1>3, Zenon

LEMMA TurnOfAnOpenReceiver ==
  ASSUME FramingInv, Work, state.open, UNCHANGED <<receiver, head, stream, frames, said, received>>
  PROVE  IsState(state') /\ ReceiverIsRight'
<1>1. FramingTypeOK /\ SaidIsMeant /\ StreamIsFrames /\ ReceiverIsRight
  BY DEF FramingInv
<1>2. state.pc = "busy" /\ state' = OneTurn(state)
  BY DEF Work
<1>3. receiver' = receiver /\ head' = head /\ stream' = stream /\ frames' = frames /\ said' = said /\ received' = received
  OBVIOUS
<1>4. IsWeb' = IsWeb /\ Limit' = Limit
  BY <1>3, SameReceiver
<1>5. IsReceiver /\ IsState(state) /\ state.held \in Seq(Byte)
  BY <1>1, TypesAre
<1>6. PICK c \in 1..Len(said) : Tracks(c)
  BY <1>1, <1>2 DEF ReceiverIsRight
<1>7. PICK n, l, at, k \in Nat : n = Len(frames) /\ Len(said) = n + 1 /\ l = Len(stream) /\ at = said[c].at
                                 /\ k = Len(state.held)
  BY <1>1, <1>6, TypesAre
<1>8. /\ said[c].ok
      /\ state.parts = said[c].parts /\ state.pieces = said[c].pieces /\ state.events = said[c].events
      /\ received = at + k /\ at + k <= l /\ \A i \in 1..k : state.held[i] = stream[at + i]
  <2>1. received <= l
    BY <1>1, <1>7 DEF FramingTypeOK
  <2>2. /\ said[c].ok
        /\ state.parts = said[c].parts /\ state.pieces = said[c].pieces /\ state.events = said[c].events
        /\ received = at + k /\ \A i \in 1..k : state.held[i] = stream[at + i]
    BY <1>6, <1>7, Zenon DEF Tracks
  <2> QED  BY <2>1, <2>2
<1>9. ASSUME state' = Wait(state), k <= Limit, c < Len(said) => at + k < said[c + 1].at
      PROVE  IsState(state') /\ ReceiverIsRight'
  <2>1. /\ IsState(state') /\ state'.pc = "idle" /\ state'.open = state.open /\ state'.held = state.held
        /\ state'.parts = state.parts /\ state'.pieces = state.pieces /\ state'.events = state.events
    BY <1>5, <1>9, WaitingIsAState
  <2>2. Tracks(c)'
    BY <1>3, <1>4, <1>7, <1>8, <1>9, <2>1, Zenon DEF Tracks
  <2>3. state'.open /\ state'.pc # "failed" /\ state'.pc # "overrun"
    BY <2>1
  <2> QED  BY <1>3, <2>1, <2>2, <2>3, Zenon DEF ReceiverIsRight
<1>10. ASSUME k = 0 PROVE state' = Wait(state)
  <2>1. state.held = <<>>
    <3>1. PICK b \in Seq(Byte) : b = state.held
      BY <1>5
    <3>2. Len(b) = 0
      BY <1>7, <1>10, <3>1
    <3>3. b = <<>>
      BY <3>2, EmptySeq
    <3> QED  BY <3>1, <3>3
  <2> QED  BY <1>2, <1>5, <2>1, NothingToDo
<1>11. CASE c = Len(said)
  <2>1. said[c].at = l
    <3>1. ~(IsWeb /\ Blanks(head) = {})
      <4>1. ASSUME IsWeb, Blanks(head) = {} PROVE FALSE
        <5>1. frames = <<>>
          BY <1>1, <4>1 DEF StreamIsFrames
        <5>2. c = 1
          BY <1>7, <1>11, <5>1
        <5>3. said[1] = Opening /\ head \in Seq(Byte)
          BY <1>1 DEF SaidIsMeant, FramingTypeOK
        <5>4. ~Opening.ok
          BY <4>1, <5>3, OpeningIs
        <5> QED  BY <1>8, <5>2, <5>3, <5>4
      <4> QED  BY <4>1
    <3> QED  BY <1>1, <1>7, <1>11, <3>1 DEF StreamIsFrames
  <2>2. k = 0
    BY <1>7, <1>8, <2>1
  <2>3. state' = Wait(state)
    BY <1>10, <2>2
  <2>4. k <= Limit /\ ~(c < Len(said))
    <3>1. Limit \in {MaxMessage, MaxMessage + 3, MaxMessage + 9, MaxMessage + 13}
      BY <1>5, LimitIs DEF IsReceiver
    <3> QED  BY <1>7, <1>11, <2>2, <3>1, BoundsAreNumbers
  <2> QED  BY <1>9, <2>3, <2>4, Zenon
<1>12. CASE c # Len(said)
  <2>1. c \in 1..Len(frames) /\ c < Len(said) /\ c + 1 \in 1..Len(said)
    BY <1>7, <1>12
  <2> DEFINE f == frames[c]
             s == said[c]
             t == Heard(s, f)
             e == Encoded(f)
             r == OneTurn(state)
  <2>2. IsSaid(s) /\ f \in PeerFrame /\ said[c + 1] = t
    BY <1>1, <2>1, FramesFit
  <2>3. PICK m \in Nat : m = Len(e) /\ said[c + 1].at = at + m
    BY <1>1, <1>7, <2>1, FramesFit
  <2>4. Agrees(state.held, e)
    <3>1. ASSUME NEW i \in 1..k, i <= m PROVE state.held[i] = e[i]
      <4>1. i \in 1..Len(Encoded(frames[c]))
        BY <2>3, <3>1
      <4>2. stream[said[c].at + i] = Encoded(frames[c])[i]
        BY <1>1, <2>1, <4>1 DEF StreamIsFrames
      <4> QED  BY <1>7, <1>8, <4>2
    <3> QED  BY <1>7, <2>3, <3>1, Zenon DEF Agrees
  <2>5. Ready(state, s, f)
    <3>1. Len(s.parts) <= MaxMessage /\ (~IsWeb => s.parts = <<>> /\ s.pieces = 0)
      BY <1>1 DEF SaidIsMeant
    <3> QED  BY <1>5, <1>8, <2>2, <2>4, <3>1, Zenon DEF Ready
  <2>6. Right(state, s, f, Limit, r)
    BY <1>5, <2>5, OneTurnIsRight
  <2> HIDE DEF f, s, r
  <2>7. CASE r = Wait(state) /\ k < m /\ k <= Limit
    <3>1. at + k < said[c + 1].at
      BY <2>3, <2>7
    <3>2. state' = Wait(state)
      BY <1>2, <2>7 DEF r
    <3> QED  BY <1>9, <2>7, <3>1, <3>2, Zenon
  <2>8. CASE IsState(r) /\ r.pc = "failed" /\ r.events = state.events /\ ~t.ok
    <3>1. state' = r
      BY <1>2 DEF r
    <3>2. k # 0
      <4>1. ASSUME k = 0 PROVE FALSE
        <5>1. state' = Wait(state)
          BY <1>10, <4>1
        <5>2. state'.pc = "idle"
          BY <1>5, <5>1, WaitingIsAState
        <5> QED  BY <2>8, <3>1, <5>2
      <4> QED  BY <4>1
    <3>3. said[c].at < received
      BY <1>7, <1>8, <3>2
    <3>4. FailedAt(c)'
      BY <1>3, <1>8, <2>2, <2>8, <3>1, <3>3, Zenon DEF FailedAt, s
    <3>5. state'.pc = "failed"
      BY <2>8, <3>1
    <3> QED  BY <1>3, <2>1, <2>8, <3>1, <3>4, <3>5, Zenon DEF ReceiverIsRight
  <2>9. CASE Taken(state, e, t, r) /\ m <= k /\ t.ok
    <3>1. state' = r
      BY <1>2 DEF r
    <3>2. /\ IsState(r) /\ r.pc = "busy" /\ r.open
          /\ r.held = SubSeq(state.held, m + 1, Len(state.held))
          /\ r.parts = t.parts /\ r.pieces = t.pieces /\ r.events = t.events
      BY <1>2, <2>3, <2>9, Zenon DEF Taken
    <3>3. PICK w : w = stream
      OBVIOUS
    <3>4. \A i \in 1..Len(state.held) : state.held[i] = w[at + i]
      BY <1>7, <1>8, <3>3, Zenon
    <3>5. m <= Len(state.held)
      BY <1>7, <2>9
    <3>6. /\ Len(r.held) \in Nat /\ Len(r.held) = Len(state.held) - m
          /\ \A i \in 1..Len(r.held) : r.held[i] = w[(at + m) + i]
      BY <1>5, <3>2, <3>4, <3>5, WhatFollows
    <3>7. received = said[c + 1].at + Len(r.held)
      <4>1. PICK p \in Nat : p = Len(r.held) /\ p = k - m
        BY <1>7, <3>6
      <4>2. at + k = (at + m) + p
        BY <4>1
      <4> QED  BY <1>8, <2>3, <4>1, <4>2, Zenon
    <3>8. \A i \in 1..Len(r.held) : r.held[i] = stream[said[c + 1].at + i]
      BY <2>3, <3>3, <3>6, Zenon
    <3>9. state'.pc # "idle" /\ state'.pc # "failed" /\ state'.pc # "overrun" /\ state'.open
      BY <3>1, <3>2
    <3>10. Tracks(c + 1)'
      BY <1>3, <2>2, <2>9, <3>1, <3>2, <3>7, <3>8, <3>9, Zenon DEF Tracks
    <3> QED  BY <1>3, <2>1, <3>1, <3>2, <3>9, <3>10, Zenon DEF ReceiverIsRight
  <2> QED  BY <1>7, <2>3, <2>6, <2>7, <2>8, <2>9, Zenon DEF Right
<1> QED  BY <1>11, <1>12

LEMMA TurnBeforeItOpens ==
  ASSUME FramingInv, Work, ~state.open, UNCHANGED <<receiver, head, stream, frames, said, received>>
  PROVE  IsState(state') /\ ReceiverIsRight'
<1>1. FramingTypeOK /\ SaidIsMeant /\ StreamIsFrames /\ ReceiverIsRight
  BY DEF FramingInv
<1>2. state.pc = "busy" /\ state' = OneTurn(state)
  BY DEF Work
<1>3. receiver' = receiver /\ head' = head /\ stream' = stream /\ frames' = frames /\ said' = said /\ received' = received
  OBVIOUS
<1>4. IsWeb' = IsWeb /\ Limit' = Limit
  BY <1>3, SameReceiver
<1>5. IsReceiver /\ receiver \in Receivers /\ IsState(state) /\ state.held \in Seq(Byte)
  BY <1>1, TypesAre DEF FramingTypeOK
<1>6. Opens
  BY <1>1, <1>2 DEF ReceiverIsRight
<1>7. IsWeb /\ head \in Heads /\ head \in Seq(Byte) /\ said[1] = Opening /\ Len(said) >= 1
  BY <1>1, <1>6, TypesAre DEF FramingTypeOK, Opens, SaidIsMeant
<1>8. PICK k, l, h \in Nat : k = Len(state.held) /\ l = Len(stream) /\ h = Len(head)
  BY <1>1, TypesAre
<1>9. /\ state.parts = <<>> /\ state.pieces = 0 /\ state.events = <<>>
      /\ received = k /\ k <= l /\ \A i \in 1..k : state.held[i] = stream[i]
  <2>1. received <= l
    BY <1>1, <1>8 DEF FramingTypeOK
  <2>2. /\ state.parts = <<>> /\ state.pieces = 0 /\ state.events = <<>>
        /\ received = k /\ \A i \in 1..k : state.held[i] = stream[i]
    BY <1>6, <1>8, Zenon DEF Opens
  <2> QED  BY <2>1, <2>2
<1>10. Agrees(state.held, head)
  <2>1. ASSUME NEW i \in 1..k, i <= h PROVE state.held[i] = head[i]
    <3>1. i \in 1..Len(head)
      BY <1>8, <2>1
    <3>2. stream[i] = head[i]
      BY <1>1, <3>1 DEF StreamIsFrames
    <3> QED  BY <1>9, <3>2
  <2> QED  BY <1>8, <2>1, Zenon DEF Agrees
<1>11. Blanks(head) = {} => k <= h
  <2>1. Blanks(head) = {} => stream = head
    BY <1>1, <1>7 DEF StreamIsFrames
  <2> QED  BY <1>8, <1>9, <2>1
<1>12. OneTurn(state) = Upgrade(state)
  <2>1. receiver = "daemon" \/ receiver = "ssh"
    BY <1>7 DEF IsWeb
  <2> QED  BY <2>1, OneTurnIs, Zenon
<1> DEFINE r == Upgrade(state)
           o == Opening
<1>13. \/ r = Wait(state) /\ k <= MaxHead /\ k < o.at
       \/ IsState(r) /\ r.pc = "failed" /\ r.events = <<>> /\ ~o.ok /\ o.at <= k
       \/ IsState(r) /\ r.pc = "failed" /\ r.events = <<>> /\ MaxHead < k /\ k < o.at
       \/ /\ IsState(r) /\ r.pc = state.pc /\ r.open
          /\ r.held = SubSeq(state.held, h + 1, Len(state.held))
          /\ r.parts = <<>> /\ r.pieces = 0 /\ r.events = o.events
          /\ o.ok /\ o.at = h /\ o.at <= k
  <2>1. Blanks(head) = {} => Len(state.held) <= Len(head)
    BY <1>8, <1>11
  <2>2. \/ r = Wait(state) /\ Len(state.held) <= MaxHead /\ Len(state.held) < o.at
        \/ IsState(r) /\ r.pc = "failed" /\ r.events = <<>> /\ ~o.ok /\ o.at <= Len(state.held)
        \/ IsState(r) /\ r.pc = "failed" /\ r.events = <<>> /\ MaxHead < Len(state.held) /\ Len(state.held) < o.at
        \/ /\ IsState(r) /\ r.pc = state.pc /\ r.open
           /\ r.held = SubSeq(state.held, Len(head) + 1, Len(state.held))
           /\ r.parts = <<>> /\ r.pieces = 0 /\ r.events = o.events
           /\ o.ok /\ o.at = Len(head) /\ o.at <= Len(state.held)
    BY <1>5, <1>7, <1>9, <1>10, <2>1, UpgradeTurn, Zenon
  <2> HIDE DEF r, o
  <2> QED  BY <1>8, <2>2, Zenon
<1>14. state' = r
  BY <1>2, <1>12
<1> HIDE DEF r
<1>15. CASE r = Wait(state) /\ k <= MaxHead /\ k < o.at
  <2>1. /\ IsState(state') /\ state'.pc = "idle" /\ state'.open = state.open /\ state'.held = state.held
        /\ state'.parts = state.parts /\ state'.pieces = state.pieces /\ state'.events = state.events
    BY <1>5, <1>14, <1>15, WaitingIsAState
  <2>2. Opens'
    BY <1>3, <1>4, <1>7, <1>8, <1>9, <1>15, <2>1, Zenon DEF Opens
  <2>3. state'.pc # "failed" /\ state'.pc # "overrun"
    BY <2>1
  <2> QED  BY <2>1, <2>2, <2>3, Zenon DEF ReceiverIsRight
<1>16. CASE IsState(r) /\ r.pc = "failed" /\ r.events = <<>> /\ ~o.ok /\ o.at <= k
  <2>1. Refused'
    BY <1>3, <1>7, <1>9, <1>14, <1>16, Zenon DEF Refused
  <2> QED  BY <1>14, <1>16, <2>1, Zenon DEF ReceiverIsRight
<1>18. CASE IsState(r) /\ r.pc = "failed" /\ r.events = <<>> /\ MaxHead < k /\ k < o.at
  <2>1. GivenUp'
    BY <1>3, <1>7, <1>9, <1>14, <1>18, Zenon DEF GivenUp
  <2> QED  BY <1>14, <1>18, <2>1, Zenon DEF ReceiverIsRight
<1>17. CASE /\ IsState(r) /\ r.pc = state.pc /\ r.open
            /\ r.held = SubSeq(state.held, h + 1, Len(state.held))
            /\ r.parts = <<>> /\ r.pieces = 0 /\ r.events = o.events
            /\ o.ok /\ o.at = h /\ o.at <= k
  <2>1. PICK w : w = stream
    OBVIOUS
  <2>2. \A i \in 1..Len(state.held) : state.held[i] = w[0 + i]
    <3>1. \A i \in 1..k : state.held[i] = w[i] /\ 0 + i = i
      BY <1>9, <2>1
    <3> QED  BY <1>8, <3>1, Zenon
  <2>3. h <= Len(state.held) /\ 0 \in Nat
    BY <1>8, <1>17
  <2>4. /\ Len(r.held) \in Nat /\ Len(r.held) = Len(state.held) - h
        /\ \A i \in 1..Len(r.held) : r.held[i] = w[(0 + h) + i]
    BY <1>5, <1>17, <2>2, <2>3, WhatFollows
  <2>5. received = said[1].at + Len(r.held)
    <3>1. PICK p \in Nat : p = Len(r.held) /\ p = k - h
      BY <1>8, <2>4
    <3>2. k = h + p
      BY <3>1
    <3> QED  BY <1>7, <1>9, <1>17, <3>1, <3>2, Zenon
  <2>6. \A i \in 1..Len(r.held) : r.held[i] = stream[said[1].at + i]
    <3>1. 0 + h = h
      OBVIOUS
    <3> QED  BY <1>7, <1>17, <2>1, <2>4, <3>1, Zenon
  <2>7. said[1].parts = <<>> /\ said[1].pieces = 0
    BY <1>7, OpeningIs
  <2>8. r.pc # "idle" /\ r.pc # "failed" /\ r.pc # "overrun"
    BY <1>2, <1>17
  <2>9. Tracks(1)'
    BY <1>3, <1>7, <1>14, <1>17, <2>5, <2>6, <2>7, <2>8, Zenon DEF Tracks
  <2>10. 1 \in 1..Len(said)
    BY <1>1, TypesAre
  <2> QED  BY <1>3, <1>14, <1>17, <2>8, <2>9, <2>10, Zenon DEF ReceiverIsRight
<1> QED  BY <1>13, <1>15, <1>16, <1>17, <1>18, Zenon

LEMMA WorkKeepsIt ==
  ASSUME FramingInv, Work
  PROVE  FramingInv'
<1>1. FramingTypeOK /\ SaidIsMeant /\ StreamIsFrames /\ ReceiverIsRight
  BY DEF FramingInv
<1>2. UNCHANGED <<receiver, head, stream, frames, said, received>>
  BY DEF Work
<1>3. SaidIsMeant' /\ StreamIsFrames'
  BY <1>1, <1>2, PeerStays
<1>4. IsState(state') /\ ReceiverIsRight'
  BY <1>2, TurnOfAnOpenReceiver, TurnBeforeItOpens
<1>5. FramingTypeOK'
  BY <1>1, <1>2, <1>4, SameReceiver DEF FramingTypeOK, IsState
<1> QED  BY <1>3, <1>4, <1>5 DEF FramingInv

\* Every receiver keeps its state's type, and holds what the peer's frames leave of
\* the bytes that have come, having reported the ones before them, or has failed at
\* the first that is wrong (FrameDecoder, receive, the data handlers).
THEOREM FramingInvariant == FramingSpec => []FramingInv
<1>1. FramingInit => FramingInv
  BY InitIsRight
<1>2. FramingInv /\ [FramingNext]_framingVars => FramingInv'
  <2> SUFFICES ASSUME FramingInv, [FramingNext]_framingVars PROVE FramingInv'
    OBVIOUS
  <2>1. CASE Say
    <3>1. FramingTypeOK' /\ SaidIsMeant'
      BY <2>1, SayKeepsSaid DEF FramingInv
    <3>2. StreamIsFrames' /\ ReceiverIsRight'
      BY <2>1, SayKeepsTheRest
    <3> QED  BY <3>1, <3>2 DEF FramingInv
  <2>2. CASE Chunk
    BY <2>2, ChunkKeepsIt
  <2>3. CASE Work
    BY <2>3, WorkKeepsIt
  <2>4. CASE UNCHANGED framingVars
    <3>1. UNCHANGED <<receiver, head, stream, frames, said>> /\ received' = received /\ state' = state
      BY <2>4 DEF framingVars
    <3>2. SaidIsMeant' /\ StreamIsFrames'
      BY <3>1, PeerStays DEF FramingInv
    <3>3. IsWeb' = IsWeb /\ PeerFrame' = PeerFrame /\ Limit' = Limit
      BY <3>1, SameReceiver
    <3>4. FramingTypeOK'
      BY <3>1, <3>3 DEF FramingInv, FramingTypeOK, IsState
    <3>5. ReceiverIsRight'
      BY <3>1, <3>3, Zenon DEF FramingInv, ReceiverIsRight, Tracks, Opens, Refused, GivenUp, FailedAt, OverrunAt, Unread
    <3> QED  BY <3>2, <3>4, <3>5 DEF FramingInv
  <2> QED  BY <2>1, <2>2, <2>3, <2>4 DEF FramingNext
<1> QED  BY <1>1, <1>2, PTL DEF FramingSpec

\* A receiver that waits for more holds less than one head, or one frame or line of
\* the greatest length with its header, and one message (the limits that are checked
\* in push, receive and the data handlers).
THEOREM FramingHoldsLittle == FramingSpec => []HeldIsBounded
<1>1. FramingInv => HeldIsBounded
  <2> SUFFICES ASSUME FramingInv, state.pc = "idle"
               PROVE  /\ Len(state.held) <= CASE receiver = "lines" -> MaxMessage
                                              [] receiver = "desktop" -> MaxMessage + 3
                                              [] OTHER -> IF state.open THEN MaxMessage + 13 ELSE MaxHead
                      /\ Len(state.parts) <= MaxMessage
    BY Zenon DEF HeldIsBounded
  <2>1. FramingTypeOK /\ SaidIsMeant /\ ReceiverIsRight /\ IsReceiver
    BY TypesAre DEF FramingInv
  <2>2. PICK k \in Nat : k = Len(state.held)
    BY <2>1, TypesAre
  <2>3. CASE state.open
    <3>1. PICK c \in 1..Len(said) : Tracks(c)
      BY <2>1, <2>3 DEF ReceiverIsRight
    <3>2. state.parts = said[c].parts /\ k <= Limit
      BY <2>2, <3>1, Zenon DEF Tracks
    <3>3. Len(said[c].parts) <= MaxMessage
      BY <2>1 DEF SaidIsMeant
    <3>4. /\ receiver = "lines" => k <= MaxMessage
          /\ receiver = "desktop" => k <= MaxMessage + 3
          /\ receiver # "lines" /\ receiver # "desktop" => k <= MaxMessage + 13
      BY <2>1, <3>2, LimitIs, BoundsAreNumbers DEF IsReceiver
    <3>5. receiver = "lines" => receiver # "desktop"
      OBVIOUS
    <3> QED  BY <2>2, <2>3, <3>2, <3>3, <3>4, <3>5, Zenon
  <2>4. CASE ~state.open
    <3>1. Opens
      BY <2>1, <2>4 DEF ReceiverIsRight
    <3>2. receiver # "lines" /\ receiver # "desktop" /\ k <= MaxHead /\ state.parts = <<>>
      BY <2>2, <3>1 DEF Opens, IsWeb
    <3>3. Len(<<>>) <= MaxMessage
      BY BoundsAreNumbers
    <3> QED  BY <2>2, <2>4, <3>2, <3>3, Zenon
  <2> QED  BY <2>3, <2>4
<1> QED  BY <1>1, FramingInvariant, PTL

LEMMA OnlyOneHasArrived ==
  ASSUME FramingTypeOK, SaidIsMeant, NEW c \in 1..Len(said), NEW i \in 1..Len(said),
         said[c].at <= received, Arrived(i)
  PROVE  c <= i
<1>1. PICK n, r \in Nat : n = Len(frames) /\ Len(said) = n + 1 /\ r = received
  BY TypesAre DEF FramingTypeOK
<1>2. ASSUME i < c PROVE FALSE
  <2>1. i + 1 \in 1..Len(said) /\ i < Len(said) /\ i + 1 <= c
    BY <1>1, <1>2
  <2>2. said[i + 1].at \in Nat /\ said[c].at \in Nat /\ said[i + 1].at <= said[c].at
    BY <2>1, PlacesAre
  <2>3. r < said[i + 1].at /\ said[c].at <= r
    BY <1>1, <2>1 DEF Arrived
  <2> QED  BY <2>2, <2>3
<1> QED  BY <1>1, <1>2

\* A receiver that waits has reported exactly the messages of the frames that have
\* wholly arrived, up to the first wrong one, and fails at that and at no other; only
\* an answer over the limit may be given up early, and only the remote receiver may
\* be overrun by a chunk (FrameDecoder, receive, the data handlers).
THEOREM FramingReportsFrames == FramingSpec => []FramesAreReported
<1>1. FramingInv => FramesAreReported
  <2> DEFINE AsSaid ==
         /\ received < said[1].at => state.events = <<>> /\ (state.pc = "failed" => received > MaxHead)
         /\ \A i \in 1..Len(said) : Arrived(i) =>
               /\ state.events = said[i].events
               /\ ~said[i].ok => state.pc = "failed"
               /\ state.pc = "failed" /\ said[i].ok =>
                     i < Len(said) /\ ~said[i + 1].ok /\ said[i].at < received
  <2> SUFFICES ASSUME FramingInv
               PROVE  /\ state.pc = "idle" => AsSaid
                      /\ state.pc = "failed" => AsSaid
                      /\ state.pc = "overrun" => Unread \/ \E c \in 1..Len(said) : OverrunAt(c)
    BY Zenon DEF FramesAreReported, Unread, OverrunAt
  <2>1. FramingTypeOK /\ SaidIsMeant /\ ReceiverIsRight
    BY DEF FramingInv
  <2>2. PICK n, r \in Nat : n = Len(frames) /\ Len(said) = n + 1 /\ r = received
    BY <2>1, TypesAre DEF FramingTypeOK
  <2>3. 1 \in 1..Len(said) /\ said[1] = Opening /\ said[1].at \in Nat
    BY <2>1, <2>2, TypesAre DEF SaidIsMeant
  <2>4. state.pc = "overrun" => Unread \/ \E c \in 1..Len(said) : OverrunAt(c)
    BY <2>1, Zenon DEF ReceiverIsRight
  <2>5. ASSUME state.pc = "idle" /\ state.open PROVE AsSaid
    <3>1. PICK c \in 1..Len(said) : Tracks(c)
      BY <2>1, <2>5 DEF ReceiverIsRight
    <3>2. said[c].ok /\ state.events = said[c].events /\ (c < Len(said) => received < said[c + 1].at)
      BY <2>5, <3>1, Zenon DEF Tracks
    <3>3. said[c].at \in Nat /\ said[c].at <= received
      <4>1. PICK at, k \in Nat : at = said[c].at /\ k = Len(state.held)
        BY <2>1, TypesAre
      <4>2. received = at + k
        BY <3>1, <4>1, Zenon DEF Tracks
      <4> QED  BY <4>1, <4>2
    <3>4. ~(received < said[1].at)
      <4>1. said[1].at <= said[c].at
        BY <2>1, <2>2, <2>3, PlacesAre
      <4> QED  BY <2>2, <2>3, <3>3, <4>1
    <3>5. ASSUME NEW i \in 1..Len(said), Arrived(i) PROVE i = c
      <4>1. c <= i
        BY <2>1, <3>3, <3>5, OnlyOneHasArrived
      <4>2. ASSUME c < i PROVE FALSE
        <5>1. c < Len(said) /\ c + 1 \in 1..Len(said) /\ c + 1 <= i
          BY <2>2, <4>2
        <5>2. said[c + 1].at \in Nat /\ said[i].at \in Nat /\ said[c + 1].at <= said[i].at
          BY <2>1, <5>1, PlacesAre
        <5>3. said[i].at <= r /\ r < said[c + 1].at
          BY <2>2, <3>2, <3>5, <5>1 DEF Arrived
        <5> QED  BY <5>2, <5>3
      <4> QED  BY <2>2, <4>1, <4>2
    <3>6. state.pc # "failed"
      BY <2>5
    <3>7. ASSUME NEW i \in 1..Len(said), Arrived(i) PROVE state.events = said[i].events /\ said[i].ok
      BY <3>2, <3>5, <3>7
    <3> QED  BY <3>4, <3>6, <3>7, Zenon
  <2>6. ASSUME state.pc = "idle" /\ ~state.open PROVE AsSaid
    <3>1. state.events = <<>> /\ r < said[1].at
      BY <2>1, <2>2, <2>6 DEF ReceiverIsRight, Opens
    <3>2. ASSUME NEW i \in 1..Len(said), Arrived(i) PROVE FALSE
      <4>1. said[i].at \in Nat /\ said[1].at <= said[i].at
        BY <2>1, <2>2, <2>3, PlacesAre
      <4>2. said[i].at <= r
        BY <2>2, <3>2 DEF Arrived
      <4> QED  BY <2>3, <3>1, <4>1, <4>2
    <3> QED  BY <2>6, <3>1, <3>2
  <2>7. ASSUME state.pc = "failed" /\ Refused PROVE AsSaid
    <3>1. ~said[1].ok /\ said[1].at <= r /\ state.events = <<>>
      BY <2>2, <2>7 DEF Refused
    <3>2. said[1].events = <<>>
      <4>1. head \in Seq(Byte) /\ (~IsWeb => head = <<>>)
        BY <2>1 DEF FramingTypeOK
      <4>2. Opening.events = IF IsWeb /\ Opening.ok THEN Events("open", <<>>) ELSE <<>>
        BY <4>1, OpeningIs
      <4> QED  BY <2>3, <3>1, <4>2
    <3>3. ASSUME NEW i \in 1..Len(said) PROVE ~said[i].ok /\ said[i].events = <<>>
      <4>1. CASE i = 1
        BY <3>1, <3>2, <4>1
      <4>2. CASE i # 1
        <5>1. 1 < i
          BY <2>2, <4>2
        <5> QED  BY <2>1, <2>3, <3>1, <3>2, <5>1 DEF SaidIsMeant
      <4> QED  BY <4>1, <4>2
    <3>4. ~(received < said[1].at)
      BY <2>2, <2>3, <3>1
    <3> QED  BY <2>7, <3>1, <3>3, <3>4
  <2>8. ASSUME state.pc = "failed" /\ GivenUp PROVE AsSaid
    <3>1. r < said[1].at /\ state.events = <<>> /\ received > MaxHead
      <4>1. PICK m \in Nat : m = MaxHead
        BY BoundsAreNumbers
      <4> QED  BY <2>2, <2>8, <4>1 DEF GivenUp
    <3>2. ASSUME NEW i \in 1..Len(said), Arrived(i) PROVE FALSE
      <4>1. said[i].at \in Nat /\ said[1].at <= said[i].at
        BY <2>1, <2>2, <2>3, PlacesAre
      <4>2. said[i].at <= r
        BY <2>2, <3>2 DEF Arrived
      <4> QED  BY <2>3, <3>1, <4>1, <4>2
    <3> QED  BY <3>1, <3>2
  <2>9. ASSUME state.pc = "failed" /\ ~Refused /\ ~GivenUp PROVE AsSaid
    <3>1. PICK c \in 1..Len(frames) : FailedAt(c)
      BY <2>1, <2>9 DEF ReceiverIsRight
    <3>2. c \in 1..Len(said) /\ c + 1 \in 1..Len(said) /\ c < Len(said)
      BY <2>2
    <3>3. /\ said[c].ok /\ ~said[c + 1].ok /\ state.events = said[c].events
          /\ said[c].at < r /\ said[c].at \in Nat
      BY <2>1, <2>2, <3>1, <3>2, TypesAre DEF FailedAt
    <3>4. ~(received < said[1].at)
      <4>1. said[1].at <= said[c].at
        BY <2>1, <2>2, <2>3, <3>2, PlacesAre
      <4> QED  BY <2>2, <2>3, <3>3, <4>1
    <3>5. said[c + 1].events = said[c].events
      <4>1. /\ IsSaid(said[c]) /\ frames[c] \in PeerFrame /\ said[c + 1] = Heard(said[c], frames[c])
        BY <2>1, FramesFit
      <4>2. Len(said[c].parts) <= MaxMessage /\ (~IsWeb => said[c].parts = <<>> /\ said[c].pieces = 0)
        BY <2>1, <3>2 DEF SaidIsMeant
      <4>3. IsReceiver
        BY <2>1, TypesAre
      <4> QED  BY <3>3, <4>1, <4>2, <4>3, HeardStaysBounded
    <3>6. ASSUME NEW i \in 1..Len(said), Arrived(i)
          PROVE  i = c \/ (~said[i].ok /\ said[i].events = said[c].events)
      <4>1. c <= i
        <5>1. said[c].at <= received
          BY <2>2, <3>3
        <5> QED  BY <2>1, <3>2, <3>6, <5>1, OnlyOneHasArrived
      <4>2. CASE i = c
        BY <4>2
      <4>3. CASE i = c + 1
        BY <3>3, <3>5, <4>3
      <4>4. CASE c + 1 < i
        <5>1. ~said[c + 1].ok => ~said[i].ok /\ said[i].events = said[c + 1].events
          BY <2>1, <3>2, <4>4 DEF SaidIsMeant
        <5> QED  BY <3>3, <3>5, <5>1
      <4> QED  BY <2>2, <4>1, <4>2, <4>3, <4>4
    <3>7. said[c].at < received
      BY <2>2, <3>3
    <3> QED  BY <2>9, <3>2, <3>3, <3>4, <3>6, <3>7
  <2>10. state.pc = "idle" => AsSaid
    BY <2>5, <2>6, Zenon
  <2>11. state.pc = "failed" => AsSaid
    BY <2>7, <2>8, <2>9, Zenon
  <2> QED  BY <2>4, <2>10, <2>11, Zenon
<1> QED  BY <1>1, FramingInvariant, PTL

==============================================================================
