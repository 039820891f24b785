-------------------------- MODULE ClaudeInboxProofs ---------------------------
(***************************************************************************)
(* Proofs about the resolution of a Claude session and the message that is *)
(* written to it, for any processes, conversations and number of starts.   *)
(***************************************************************************)
EXTENDS ClaudeInbox, FiniteSetTheorems, TLAPS

\* Processes are told apart by their lives, which are never given twice; what the
\* bridge has read of one was given before.
LivesAreUnique ==
    /\ \A p \in Pid : life[p] <= lives /\ key[p] <= lives /\ record[p].life <= lives
    /\ \A p, q \in Pid : life[p] = life[q] /\ life[p] # 0 => p = q
    /\ \A f \in found : f.life <= lives /\ f.life # 0
    /\ token <= lives /\ peer <= lives /\ endpoint.life <= lives

\* A record that its own process wrote names the conversation it has.
RecordsAreTrue ==
    \A p \in Pid : life[p] # 0 /\ record[p].life = life[p] => record[p].conv = conv[p]

\* Past the scan there is one candidate, whose key is read before its record again.
OneCandidate ==
    /\ IsFiniteSet(found)
    /\ phase \in {"probe", "key", "reread"} => \E f \in found : found = {f}
    /\ phase = "reread" => token = Candidate.life

\* A send sends to the chosen session, what it resolved is a process, and the
\* connection, which is to that process's id, is to that process if it ran on.
Resolving == {"scan", "probe", "key", "reread"}
Connection ==
    /\ phase \in {"ready", "connect", "write", "wait"} => ~caller /\ endpoint.life # 0
    /\ Verifying => endpoint.life # 0
    /\ ~caller => sought = Chosen
    /\ Verifying => \A p \in Pid : life[p] = peer => p = endpoint.pid
    /\ Verifying /\ life[endpoint.pid] = endpoint.life => peer = endpoint.life
    /\ Verifying /\ phase \in {"key", "reread"} /\ Candidate = endpoint => peer = endpoint.life
    /\ phase = "new" => ~caller
    /\ phase \in {"new", "ready", "connect"} => ~Verifying
    /\ phase = "new" \/ caller => endpoint.pid = Parent
    /\ outcome = "identified" \/ (caller /\ phase \in Resolving) => endpoint.life # 0
    /\ phase \in {"write", "wait"} => peer = endpoint.life /\ token = peer /\ Verifying

\* What was written is out of the checks; who runs under the life of the peer has
\* the chosen conversation, or had it at the last check.
Written ==
    /\ written => phase \in {"wait", "done"} /\ Verifying /\ outcome \in {"none", "written", "uncertain"}
    /\ phase = "wait" => written
    /\ outcome \in {"written", "uncertain"} => Verifying
    /\ flushed => written
    /\ finished \/ outcome = "written" => flushed
    /\ takenIn # {} => written
    /\ phase = "write" \/ written => \A p \in Pid : life[p] = peer => conv[p] = Chosen \/ late

InboxInv ==
    /\ TypeOK /\ LivesAreUnique /\ RecordsAreTrue
    /\ OneCandidate /\ Connection /\ Written /\ OnlyTheRightSession

------------------------------------------------------------------------------
(***************************************************************************)
(* Types, and the candidate.                                               *)
(***************************************************************************)
LEMMA CandidateIsFound ==
  ASSUME TypeOK, OneCandidate, phase \in {"probe", "key", "reread"}
  PROVE  Candidate \in found /\ Candidate \in Found
<1>1. Candidate \in found
  BY DEF OneCandidate, Candidate
<1> QED
  BY <1>1 DEF TypeOK

LEMMA CandidateStays ==
  ASSUME found' = found
  PROVE  Candidate' = Candidate
  BY DEF Candidate

LEMMA TypeStep ==
  ASSUME TypeOK, OneCandidate, [Next]_vars
  PROVE  TypeOK'
<1> USE DEF TypeOK, Settle, Goto, Throw, registry, asking, sending
<1>1. ASSUME NEW p \in Pid, Start(p) \/ WriteKey(p) \/ WriteRecord(p) \/ Switch(p) \/ Exit(p) \/ Take(p)
      PROVE  TypeOK'
  <2>1. CASE Start(p)
    <3>1. lives + 1 \in Life
      BY <2>1, MaxLivesAssumption DEF Start, Life
    <3> QED
      BY <2>1, <3>1 DEF Start
  <2>2. CASE WriteKey(p) \/ WriteRecord(p)
    <3>1. CASE WriteKey(p)
      BY <3>1 DEF WriteKey
    <3>2. CASE WriteRecord(p)
      <4>1. [life |-> life[p], conv |-> conv[p]] \in [life : Life, conv : Session]
        OBVIOUS
      <4> QED
        BY <3>2, <4>1 DEF WriteRecord
    <3> QED
      BY <2>2, <3>1, <3>2
  <2>3. CASE Switch(p)
    BY <2>3 DEF Switch
  <2>4. CASE Exit(p)
    <3>1. 0 \in Life
      BY MaxLivesAssumption DEF Life
    <3> QED
      BY <2>4, <3>1 DEF Exit
  <2>5. CASE Take(p)
    BY <2>5 DEF Take
  <2> QED
    BY <1>1, <2>1, <2>2, <2>3, <2>4, <2>5
<1>2. CASE Resolve \/ NoRegistry \/ Select \/ Probe
  BY <1>2 DEF Resolve, NoRegistry, Select, Probe
<1>3. CASE Identify
  BY <1>3, ChosenAssumption DEF Identify, Found
<1>4. ASSUME NEW p \in Pid, ReadRecord(p) PROVE TypeOK'
  BY <1>4 DEF ReadRecord, Found
<1>5. CASE ReadKey
  BY <1>5, CandidateIsFound DEF ReadKey, Found
<1>6. CASE Reread
  BY <1>6, CandidateIsFound DEF Reread, Resolved
<1>7. CASE Open \/ Write \/ Flush \/ Finish \/ End \/ Break
  BY <1>7 DEF Open, Write, Flush, Finish, End, Break
<1>8. CASE Connected
  BY <1>8 DEF Connected, Found
<1>9. CASE UNCHANGED vars
  BY <1>9 DEF vars
<1> QED
  BY <1>1, <1>2, <1>3, <1>4, <1>5, <1>6, <1>7, <1>8, <1>9 DEF Next, Claude, Bridge

------------------------------------------------------------------------------
(***************************************************************************)
(* The processes: lives and records, and the candidate of the scan.        *)
(***************************************************************************)
LEMMA LivesStep ==
  ASSUME TypeOK, LivesAreUnique, OneCandidate, [Next]_vars
  PROVE  LivesAreUnique'
<1> USE DEF TypeOK, LivesAreUnique, Settle, Goto, Throw, registry, asking, sending
<1>1. ASSUME NEW p \in Pid, Start(p) \/ WriteKey(p) \/ WriteRecord(p) \/ Switch(p) \/ Exit(p) \/ Take(p)
      PROVE  LivesAreUnique'
  <2>1. CASE Start(p)
    BY <2>1 DEF Start, Life, Found
  <2>2. CASE WriteKey(p) \/ WriteRecord(p)
    BY <2>2 DEF WriteKey, WriteRecord
  <2>3. CASE Switch(p)
    BY <2>3 DEF Switch
  <2>4. CASE Exit(p)
    BY <2>4 DEF Exit, Life
  <2>5. CASE Take(p)
    BY <2>5 DEF Take
  <2> QED
    BY <1>1, <2>1, <2>2, <2>3, <2>4, <2>5
<1>2. CASE Resolve \/ NoRegistry \/ Select \/ Probe
  BY <1>2 DEF Resolve, NoRegistry, Select, Probe
<1>3. CASE Identify
  BY <1>3, ChosenAssumption DEF Identify
<1>4. ASSUME NEW p \in Pid, ReadRecord(p) PROVE LivesAreUnique'
  BY <1>4 DEF ReadRecord
<1>5. CASE ReadKey
  BY <1>5, CandidateIsFound DEF ReadKey
<1>6. CASE Reread
  BY <1>6, CandidateIsFound DEF Reread, Resolved
<1>7. CASE Open \/ Write \/ Flush \/ Finish \/ End \/ Break
  BY <1>7 DEF Open, Write, Flush, Finish, End, Break
<1>8. CASE Connected
  BY <1>8 DEF Connected, Found
<1>9. CASE UNCHANGED vars
  BY <1>9 DEF vars
<1> QED
  BY <1>1, <1>2, <1>3, <1>4, <1>5, <1>6, <1>7, <1>8, <1>9 DEF Next, Claude, Bridge

LEMMA RecordsStep ==
  ASSUME TypeOK, LivesAreUnique, RecordsAreTrue, [Next]_vars
  PROVE  RecordsAreTrue'
<1> USE DEF TypeOK, RecordsAreTrue
<1>1. ASSUME NEW p \in Pid, Start(p) PROVE RecordsAreTrue'
  BY <1>1 DEF Start, LivesAreUnique, Life
<1>2. ASSUME NEW p \in Pid, WriteKey(p) \/ WriteRecord(p) \/ Switch(p) PROVE RecordsAreTrue'
  BY <1>2 DEF WriteKey, WriteRecord, Switch
<1>3. ASSUME NEW p \in Pid, Exit(p) PROVE RecordsAreTrue'
  BY <1>3 DEF Exit
<1>4. CASE UNCHANGED registry
  BY <1>4 DEF registry
<1>5. ASSUME NEW p \in Pid, Take(p) \/ ReadRecord(p) PROVE UNCHANGED registry
  BY <1>5 DEF Take, ReadRecord
<1>6. Bridge => UNCHANGED registry
  BY <1>5 DEF Bridge, Resolve, NoRegistry, Identify, Select, Probe, ReadKey, Reread, Open,
              Connected, Write, Flush, Finish, End, Break
<1>7. UNCHANGED vars => UNCHANGED registry
  BY DEF vars
<1> QED
  BY <1>1, <1>2, <1>3, <1>4, <1>5, <1>6, <1>7 DEF Next, Claude

\* The registry stays as it is: a step of the bridge, or a receiver that reads.
LEMMA RegistryStays ==
  ASSUME Bridge \/ UNCHANGED vars \/ \E p \in Pid : Take(p)
  PROVE  UNCHANGED registry
  BY DEF Bridge, Resolve, NoRegistry, Identify, ReadRecord, Select, Probe, ReadKey, Reread, Open,
         Connected, Write, Flush, Finish, End, Break, Take, vars, registry

LEMMA CandidateStep ==
  ASSUME TypeOK, OneCandidate, [Next]_vars
  PROVE  OneCandidate'
<1> USE DEF OneCandidate, Settle, Goto, Throw, sending
<1>1. CASE Claude
  <2>1. UNCHANGED sending
    BY <1>1 DEF Claude, Start, WriteKey, WriteRecord, Switch, Exit, Take
  <2> QED
    BY <2>1, CandidateStays
<1>2. CASE Resolve \/ NoRegistry \/ Identify
  BY <1>2 DEF Resolve, NoRegistry, Identify
<1>3. ASSUME NEW p \in Pid, ReadRecord(p) PROVE OneCandidate'
  <2>1. CASE found' = found
    BY <1>3, <2>1 DEF ReadRecord
  <2>2. CASE found' = found \cup {[pid |-> p, life |-> record[p].life]}
    <3>1. IsFiniteSet(found')
      BY <2>2, FS_AddElement
    <3> QED
      BY <1>3, <3>1 DEF ReadRecord
  <2> QED
    BY <1>3, <2>1, <2>2 DEF ReadRecord
<1>4. CASE Select
  BY <1>4, FS_Singleton DEF Select
<1>5. CASE Probe
  BY <1>5 DEF Probe
<1>6. CASE ReadKey
  BY <1>6, CandidateStays DEF ReadKey
<1>7. CASE Reread
  BY <1>7, FS_EmptySet DEF Reread, Resolved
<1>8. CASE Open \/ Connected \/ Write \/ Flush \/ Finish \/ End \/ Break
  BY <1>8 DEF Open, Connected, Write, Flush, Finish, End, Break
<1>9. CASE UNCHANGED vars
  BY <1>9, CandidateStays DEF vars
<1> QED
  BY <1>1, <1>2, <1>3, <1>4, <1>5, <1>6, <1>7, <1>8, <1>9 DEF Next, Bridge

------------------------------------------------------------------------------
(***************************************************************************)
(* The connection is to the process that was resolved.                     *)
(***************************************************************************)
LEMMA ConnectionStep ==
  ASSUME TypeOK, LivesAreUnique, OneCandidate, Connection, [Next]_vars
  PROVE  Connection'
<1> USE DEF TypeOK, Connection, Resolving, Verifying, Settle, Goto, Throw, asking, sending
\* The processes: a life that has ended is not given again.
<1>1. ASSUME UNCHANGED sending,
             \A p \in Pid : life'[p] = life[p] \/ life'[p] = 0 \/ life'[p] > lives
      PROVE  Connection'
  <2>1. Candidate' = Candidate
    BY <1>1, CandidateStays
  <2>2. peer <= lives /\ endpoint.life <= lives /\ peer \in Nat /\ endpoint.life \in Nat /\ lives \in Nat
    BY DEF LivesAreUnique, Life, Found
  <2>3. ASSUME Verifying, NEW p \in Pid, life'[p] = peer PROVE p = endpoint.pid
    BY <1>1, <2>2, <2>3
  <2>4. ASSUME Verifying, life'[endpoint.pid] = endpoint.life PROVE peer = endpoint.life
    <3>1. endpoint.pid \in Pid
      BY DEF Found
    <3> QED
      BY <1>1, <2>2, <2>4, <3>1
  <2> QED
    BY <1>1, <2>1, <2>3, <2>4
<1>2. CASE Claude
  <2>1. UNCHANGED sending
    BY <1>2 DEF Claude, Start, WriteKey, WriteRecord, Switch, Exit, Take
  <2>2. PICK p \in Pid : Start(p) \/ Exit(p) \/ UNCHANGED life
    BY <1>2 DEF Claude, WriteKey, WriteRecord, Switch, Take, registry
  <2>3. \A q \in Pid : life'[q] = life[q] \/ life'[q] = 0 \/ life'[q] > lives
    BY <2>2 DEF Start, Exit, Life
  <2> QED
    BY <1>1, <2>1, <2>3
<1>3. CASE Resolve \/ NoRegistry
  BY <1>3 DEF Resolve, NoRegistry, registry
<1>4. CASE Identify
  BY <1>4 DEF Identify, registry
<1>5. ASSUME NEW p \in Pid, ReadRecord(p) PROVE Connection'
  BY <1>5 DEF ReadRecord, registry
<1>6. CASE Select
  BY <1>6 DEF Select, registry
<1>7. CASE Probe
  BY <1>7, CandidateStays DEF Probe, registry
<1>8. CASE ReadKey
  BY <1>8, CandidateStays DEF ReadKey, registry
<1>9. CASE Reread
  <2>1. /\ UNCHANGED <<lives, life, peer, caller, sought, token>>
        /\ phase = "reread" /\ Candidate \in found /\ Candidate.life # 0
    BY <1>9, CandidateIsFound DEF Reread, registry, LivesAreUnique
  <2>2. \/ Throw /\ UNCHANGED endpoint
        \/ Resolved
    BY <1>9 DEF Reread
  <2>3. CASE UNCHANGED endpoint /\ (Throw \/ (caller /\ Settle("identified")))
    BY <2>1, <2>3
  <2>4. CASE ~caller /\ Verifying /\ Candidate = endpoint /\ token = endpoint.life /\ Goto("write") /\ UNCHANGED endpoint
    BY <2>1, <2>4
  <2>5. CASE ~caller /\ ~Verifying /\ Goto("ready") /\ endpoint' = Candidate
    BY <2>1, <2>5
  <2> QED
    BY <2>2, <2>3, <2>4, <2>5 DEF Resolved
<1>10. CASE Connected
  <2>1. endpoint.pid \in Pid
    BY DEF Found
  <2> QED
    BY <1>10, <2>1 DEF Connected, registry, LivesAreUnique
<1>11. CASE Open \/ Write \/ Flush \/ Finish \/ End \/ Break
  BY <1>11 DEF Open, Write, Flush, Finish, End, Break, registry
<1>12. CASE UNCHANGED vars
  BY <1>1, <1>12 DEF vars, registry
<1> QED
  BY <1>2, <1>3, <1>4, <1>5, <1>6, <1>7, <1>8, <1>9, <1>10, <1>11, <1>12 DEF Next, Bridge

------------------------------------------------------------------------------
(***************************************************************************)
(* What is written reaches the chosen conversation.                        *)
(***************************************************************************)
LEMMA WrittenStep ==
  ASSUME TypeOK, LivesAreUnique, RecordsAreTrue, OneCandidate, Connection, Written, [Next]_vars
  PROVE  Written'
<1> USE DEF TypeOK, Written, Verifying, Settle, Goto, Throw, registry, asking, sending
<1>1. ASSUME NEW p \in Pid, Start(p) PROVE Written'
  BY <1>1 DEF Start, LivesAreUnique, Life
<1>2. ASSUME NEW p \in Pid, WriteKey(p) \/ WriteRecord(p) PROVE Written'
  BY <1>2 DEF WriteKey, WriteRecord
<1>3. ASSUME NEW p \in Pid, Switch(p) PROVE Written'
  BY <1>3 DEF Switch
<1>4. ASSUME NEW p \in Pid, Exit(p) PROVE Written'
  BY <1>4 DEF Exit, Connection
<1>5. ASSUME NEW p \in Pid, Take(p) PROVE Written'
  BY <1>5 DEF Take
<1>6. CASE Resolve \/ NoRegistry \/ Identify
  BY <1>6 DEF Resolve, NoRegistry, Identify, Connection
<1>7. ASSUME NEW p \in Pid, ReadRecord(p) PROVE Written'
  BY <1>7 DEF ReadRecord
<1>8. CASE Select \/ Probe \/ ReadKey
  BY <1>8 DEF Select, Probe, ReadKey
<1>9. CASE Reread
  <2>1. ASSUME phase' = "write", NEW p \in Pid, life[p] = peer PROVE conv[p] = Chosen
    <3>1. /\ Verifying /\ Candidate = endpoint /\ ~caller
          /\ record[Candidate.pid].life = Candidate.life
          /\ record[Candidate.pid].conv = sought
      BY <1>9, <2>1 DEF Reread, Resolved
    <3>2. peer = endpoint.life /\ p = endpoint.pid /\ sought = Chosen /\ phase = "reread"
      BY <1>9, <2>1, <3>1 DEF Connection, Reread
    <3> QED
      BY <2>1, <3>1, <3>2 DEF RecordsAreTrue
  <2>2. /\ ~written /\ ~flushed /\ ~finished /\ takenIn = {}
        /\ UNCHANGED <<life, conv, late, peer, written, flushed, finished, takenIn>>
    BY <1>9 DEF Reread
  <2>3. \/ Throw
        \/ Settle("identified")
        \/ Goto("write")
        \/ Goto("ready")
    BY <1>9 DEF Reread, Resolved
  <2>4. phase' # "wait" /\ outcome' # "uncertain" /\ outcome' # "written"
    BY <1>9, <2>3 DEF Reread
  <2> QED
    BY <2>1, <2>2, <2>4
<1>10. CASE Connected
  BY <1>10 DEF Connected, Connection
<1>11. CASE Write
  BY <1>11 DEF Write, Connection
<1>12. CASE Open \/ Flush \/ Finish \/ End \/ Break
  BY <1>12 DEF Open, Flush, Finish, End, Break, Connection
<1>13. CASE UNCHANGED vars
  BY <1>13 DEF vars
<1> QED
  BY <1>1, <1>2, <1>3, <1>4, <1>5, <1>6, <1>7, <1>8, <1>9, <1>10, <1>11, <1>12, <1>13
  DEF Next, Claude, Bridge

LEMMA SessionStep ==
  ASSUME InboxInv, Connection', Written', [Next]_vars
  PROVE  OnlyTheRightSession'
<1> USE DEF InboxInv, OnlyTheRightSession
<1>1. phase' \in {"write", "wait"} => peer' = endpoint'.life /\ token' = peer'
  BY DEF Connection
\* Who takes the message runs under the life of the peer.
<1>2. (takenIn \subseteq {Chosen} \/ late)'
  <2>1. ASSUME NEW p \in Pid, Take(p) PROVE (takenIn \subseteq {Chosen} \/ late)'
    BY <2>1 DEF Take, Written
  <2>2. UNCHANGED takenIn \/ \E p \in Pid : Take(p)
    BY DEF Next, Claude, Start, WriteKey, WriteRecord, Switch, Exit, Bridge, Resolve, NoRegistry,
           Identify, ReadRecord, Select, Probe, ReadKey, Reread, Open, Connected, Write, Flush,
           Finish, End, Break, vars
  <2>3. late => late'
    BY DEF Next, Claude, Start, WriteKey, WriteRecord, Switch, Exit, Take, Bridge, Resolve, NoRegistry,
           Identify, ReadRecord, Select, Probe, ReadKey, Reread, Open, Connected, Write, Flush,
           Finish, End, Break, vars
  <2> QED
    BY <2>1, <2>2, <2>3
<1> DEFINE Caller ==
      outcome = "identified" =>
          /\ endpoint.pid = Parent /\ token = endpoint.life
          /\ life[Parent] = endpoint.life => conv[Parent] = sought \/ late
<1>3. Caller'
  <2> USE DEF TypeOK, Settle, Goto, Throw, registry, asking, sending
  <2>1. ASSUME NEW p \in Pid, Start(p) PROVE Caller'
    BY <2>1 DEF Start, LivesAreUnique, Life, Found
  <2>2. ASSUME NEW p \in Pid, WriteKey(p) \/ WriteRecord(p) \/ Switch(p) \/ Take(p) PROVE Caller'
    BY <2>2 DEF WriteKey, WriteRecord, Switch, Take
  <2>3. ASSUME NEW p \in Pid, Exit(p) PROVE Caller'
    <3>1. outcome = "identified" => endpoint.life # 0
      BY <2>3 DEF Connection
    <3> QED
      BY <2>3, <3>1, ChosenAssumption DEF Exit
  <2>4. CASE Reread
    <3>1. CASE outcome' = "identified"
      <4>1. /\ phase = "reread" /\ caller /\ Candidate = endpoint /\ Candidate \in found
            /\ record[Candidate.pid].life = Candidate.life
            /\ record[Candidate.pid].conv = sought
            /\ UNCHANGED <<registry, endpoint, sought, token>>
        BY <2>4, <3>1, CandidateIsFound DEF Reread, Resolved
      <4>2. endpoint.pid = Parent /\ token = endpoint.life /\ endpoint.life # 0
        BY <4>1 DEF Connection, OneCandidate, Resolving
      <4> QED
        BY <4>1, <4>2, ChosenAssumption DEF RecordsAreTrue
    <3> QED
      BY <3>1
  <2>5. ASSUME phase # "done", outcome' # "identified" PROVE Caller'
    BY <2>5
  <2>6. (Bridge /\ ~Reread) => phase # "done" /\ outcome' # "identified"
    BY DEF Bridge, Resolve, NoRegistry, Identify, ReadRecord, Select, Probe, ReadKey, Open, Connected,
           Write, Flush, Finish, End, Break
  <2>7. CASE UNCHANGED vars
    BY <2>7 DEF vars
  <2> QED
    BY <2>1, <2>2, <2>3, <2>4, <2>5, <2>6, <2>7 DEF Next, Claude
<1> QED
  BY <1>1, <1>2, <1>3

THEOREM InboxInvariant == Spec => []InboxInv
<1>1. Init => InboxInv
  <2> SUFFICES ASSUME Init PROVE InboxInv
    OBVIOUS
  <2>1. TypeOK
    <3>1. 0 \in Life
      BY MaxLivesAssumption DEF Life
    <3>2. [life |-> 0, conv |-> Chosen] \in [life : Life, conv : Session] /\ [pid |-> Parent, life |-> 0] \in Found
      BY <3>1, ChosenAssumption DEF Found
    <3> QED
      BY <3>1, <3>2, ChosenAssumption DEF Init, TypeOK
  <2>2. LivesAreUnique /\ RecordsAreTrue
    BY DEF Init, LivesAreUnique, RecordsAreTrue
  <2>3. OneCandidate
    BY FS_EmptySet DEF Init, OneCandidate
  <2>4. Connection /\ Written /\ OnlyTheRightSession
    BY DEF Init, Connection, Written, OnlyTheRightSession, Verifying, Resolving
  <2> QED
    BY <2>1, <2>2, <2>3, <2>4 DEF InboxInv
<1>2. InboxInv /\ [Next]_vars => InboxInv'
  <2> SUFFICES ASSUME InboxInv, [Next]_vars PROVE InboxInv'
    OBVIOUS
  <2> USE DEF InboxInv
  <2>1. TypeOK' /\ LivesAreUnique' /\ RecordsAreTrue' /\ OneCandidate'
    BY TypeStep, LivesStep, RecordsStep, CandidateStep
  <2>2. Connection' /\ Written'
    BY ConnectionStep, WrittenStep
  <2>3. OnlyTheRightSession'
    BY <2>2, SessionStep
  <2> QED
    BY <2>1, <2>2, <2>3
<1> QED
  BY <1>1, <1>2, PTL DEF Spec

\* Type correctness of the registry and of a call that resolves, sends or identifies.
THEOREM TypeCorrect == Spec => []TypeOK
<1>1. InboxInv => TypeOK
  BY DEF InboxInv
<1> QED
  BY <1>1, InboxInvariant, PTL

\* The token and the message go only to the process they were resolved for, the
\* message reaches another conversation only by a change after the last check, and
\* an identified caller is the bridge's parent (resolveClaudeSession,
\* verifyResolvedSession, resolveClaudeCaller).
THEOREM RightSession == Spec => []OnlyTheRightSession
<1>1. InboxInv => OnlyTheRightSession
  BY DEF InboxInv
<1> QED
  BY <1>1, InboxInvariant, PTL

------------------------------------------------------------------------------
(***************************************************************************)
(* The promise of one delivery.                                            *)
(***************************************************************************)
Fixed ==
    phase \in {"connect", "write", "wait"} \/ Verifying \/ outcome \in {"written", "failed", "uncertain"}
HandedOver == flushed \/ takenIn # {}

LEMMA RefinementInit == Init => Promise!Init
  BY DEF Init, Promise!Init, Verifying

LEMMA RefinementStep ==
  ASSUME InboxInv, [Next]_vars
  PROVE  [Promise!Next]_(Promise!vars)
<1> USE DEF InboxInv, TypeOK, Settle, Goto, Throw, Fixed, HandedOver, sending, asking, Verifying
\* Unseen: nothing is fixed, handed over or answered.
<1>1. ASSUME Fixed' <=> Fixed, HandedOver' <=> HandedOver, UNCHANGED takenIn,
             \/ UNCHANGED outcome
             \/ {outcome, outcome'} \cap {"written", "failed", "uncertain"} = {}
      PROVE  UNCHANGED Promise!vars
  BY <1>1 DEF Promise!vars
\* The message is recorded.
<1>2. ASSUME ~Fixed, Fixed', HandedOver' <=> HandedOver, UNCHANGED <<outcome, takenIn>>
      PROVE  Promise!Next
  <2>1. Promise!Accept("message", "message")
    BY <1>2 DEF Promise!Accept
  <2> QED
    BY <2>1 DEF Promise!Next
\* The payload leaves the bridge, and the receiver may take it at once,
<1>3. ASSUME Fixed, Fixed', ~HandedOver, HandedOver', UNCHANGED outcome, outcome # "failed"
      PROVE  Promise!Next
  <2>1. Promise!HandOver("message")
    BY <1>3 DEF Promise!HandOver
  <2> QED
    BY <2>1 DEF Promise!Next
\* or later.
<1>4. ASSUME Fixed, Fixed', HandedOver, HandedOver', takenIn' # {}, UNCHANGED outcome, outcome # "failed"
      PROVE  Promise!Next
  <2>1. Promise!Take("message")
    BY <1>4 DEF Promise!Take
  <2> QED
    BY <2>1 DEF Promise!Next
\* The caller gets an outcome.
<1>5. ASSUME Fixed, outcome = "none", outcome' \in {"written", "failed", "uncertain"},
             HandedOver' <=> HandedOver, UNCHANGED takenIn,
             outcome' = "written" => HandedOver, outcome' = "failed" => takenIn = {}
      PROVE  Promise!Next
  <2>1. CASE outcome' = "failed"
    <3>1. Promise!Refuse("message")
      BY <1>5, <2>1 DEF Promise!Refuse
    <3> QED
      BY <3>1 DEF Promise!Next
  <2>2. CASE outcome' = "written"
    <3>1. Promise!Tell("message", "submitted")
      BY <1>5, <2>2 DEF Promise!Tell, Promise!TrueOf
    <3> QED
      BY <3>1 DEF Promise!Next
  <2>3. CASE outcome' = "uncertain"
    <3>1. Promise!Tell("message", "uncertain")
      BY <1>5, <2>3 DEF Promise!Tell, Promise!TrueOf
    <3> QED
      BY <3>1 DEF Promise!Next
  <2> QED
    BY <1>5, <2>1, <2>2, <2>3
<1>6. ASSUME NEW p \in Pid, Take(p) PROVE Promise!Next \/ UNCHANGED Promise!vars
  <2>1. Fixed /\ Fixed' /\ HandedOver' /\ takenIn' # {} /\ UNCHANGED outcome /\ outcome # "failed"
    BY <1>6 DEF Take, Written
  <2> QED
    BY <1>3, <1>4, <2>1
<1>7. ASSUME NEW p \in Pid, Start(p) \/ WriteKey(p) \/ WriteRecord(p) \/ Switch(p) \/ Exit(p)
      PROVE  UNCHANGED Promise!vars
  <2>1. UNCHANGED <<sending, takenIn>>
    BY <1>7 DEF Start, WriteKey, WriteRecord, Switch, Exit
  <2> QED
    BY <1>1, <2>1
<1>8. ASSUME UNCHANGED <<peer, flushed, takenIn>>, phase \notin {"connect", "write", "wait", "done"},
             \/ UNCHANGED outcome /\ (phase' \notin {"connect", "write", "wait"} \/ Verifying)
             \/ Throw
             \/ Settle("identified")
      PROVE  Promise!Next \/ UNCHANGED Promise!vars
  <2>1. outcome = "none" /\ takenIn = {}
    BY <1>8 DEF Written
  <2>2. CASE outcome' = "failed"
    BY <1>5, <1>8, <2>1, <2>2
  <2>3. CASE outcome' # "failed"
    BY <1>1, <1>8, <2>1, <2>3
  <2> QED
    BY <2>2, <2>3
<1>9. CASE Resolve \/ NoRegistry \/ Identify
  BY <1>8, <1>9 DEF Resolve, NoRegistry, Identify
<1>10. ASSUME NEW p \in Pid, ReadRecord(p) PROVE Promise!Next \/ UNCHANGED Promise!vars
  BY <1>8, <1>10 DEF ReadRecord
<1>11. CASE Select \/ Probe \/ ReadKey
  BY <1>8, <1>11 DEF Select, Probe, ReadKey
<1>12. CASE Reread
  BY <1>8, <1>12 DEF Reread, Resolved
<1>13. CASE Open
  BY <1>2, <1>13 DEF Open, Connection
<1>14. CASE Connected \/ Write
  BY <1>1, <1>14 DEF Connected, Write, Connection
<1>15. CASE Flush
  BY <1>1, <1>3, <1>15 DEF Flush
<1>16. CASE Finish \/ End
  <2>1. CASE UNCHANGED outcome
    BY <1>1, <1>16, <2>1 DEF Finish, End
  <2>2. CASE outcome' = "written"
    BY <1>5, <1>16, <2>2 DEF Finish, End, Written
  <2> QED
    BY <1>16, <2>1, <2>2 DEF Finish, End
<1>17. CASE Break
  BY <1>5, <1>17 DEF Break, Written
<1>18. CASE UNCHANGED vars
  BY <1>1, <1>18 DEF vars
<1> QED
  BY <1>6, <1>7, <1>9, <1>10, <1>11, <1>12, <1>13, <1>14, <1>15, <1>16, <1>17, <1>18
  DEF Next, Claude, Bridge

\* A message to a Claude session keeps the promise of one delivery, however late the
\* receiver reads (finish's deliveryUnknown).
THEOREM Refinement == Spec => ImplementsOneDelivery
  BY RefinementInit, RefinementStep, InboxInvariant, PTL
     DEF Spec, Promise!Spec, ImplementsOneDelivery

==============================================================================
