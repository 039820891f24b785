----------------------------- MODULE SenderLedger -----------------------------
(***************************************************************************)
(* The ledger of one sender: senderLedger of lib/desktop-service.mjs makes *)
(* it at the first send (createSession of lib/store.mjs), sends add their  *)
(* records, and bridge_status lists the last of them (getMessages).        *)
(*                                                                         *)
(* Several servers of one sender may find the ledger missing at the same   *)
(* time.  It is read without the lock and changed under it: a change is    *)
(* one step (AtomicUpdates), a reading sees the file before or after one.  *)
(* Repeated ids are the business of Delivery: here each send has its own.  *)
(***************************************************************************)
EXTENDS SequencesExt

CONSTANTS
    Server,     \* the server processes of one sender
    MaxAsks,    \* how many calls one server gets (a bound on runs)
    MaxListed,      \* how many records bridge_status shows (20)
    NoLedger    \* the state file does not exist

ASSUME SenderBoundsAssumption == MaxAsks \in Nat /\ MaxListed \in Nat \ {0}

Sending == Server \X 1..MaxAsks \* the n-th call of a server

VARIABLES
    alive,      \* alive[s]: the server process runs
    reused,     \* the servers that have exited and whose process ids others have
    phase,      \* phase[s]: where its present call is
    asks,       \* asks[s]: calls so far
    records,     \* the records, in the order in which they were made
    answered,   \* the messages whose callers have an answer about them
    earlier,    \* earlier[s]: what was answered, and who had exited, when it was asked for a list
    listed      \* listed[s]: the list it gives

senderVars == <<alive, reused, phase, asks, records, answered, earlier, listed>>

NothingAsked == [answered |-> {}, exited |-> {}]

SenderInit ==
    /\ alive = [s \in Server |-> TRUE]
    /\ reused = {}
    /\ phase = [s \in Server |-> "idle"]
    /\ asks = [s \in Server |-> 0]
    /\ records = NoLedger
    /\ answered = {}
    /\ earlier = [s \in Server |-> NothingAsked]
    /\ listed = [s \in Server |-> <<>>]

Working(s, step) == alive[s] /\ phase[s] = step
Goto(s, step) == phase' = [phase EXCEPT ![s] = step]
Mine(s) == <<s, asks[s]>>

------------------------------------------------------------------------------
(* Sends *)

Count(s) ==
    /\ Working(s, "idle") /\ asks[s] < MaxAsks
    /\ asks' = [asks EXCEPT ![s] = @ + 1]

AskSend(s) ==
    /\ Count(s)
    /\ Goto(s, "open")
    /\ UNCHANGED <<alive, reused, records, answered, earlier, listed>>

\* getSession: the state file is there.
Exists == records # NoLedger

\* senderLedger looks without the lock, and makes the ledger if it was missing.
OpenLedger(s) ==
    /\ Working(s, "open")
    /\ Goto(s, IF Exists THEN "reserve" ELSE "create")
    /\ UNCHANGED <<alive, reused, asks, records, answered, earlier, listed>>

\* Mutant of CreateLedger: the lock is not the time to look again.
CreateUnseen(s) ==
    /\ Working(s, "create")
    /\ records' = <<>>
    /\ Goto(s, "reserve") \/ Goto(s, "idle")
    /\ UNCHANGED <<alive, reused, asks, answered, earlier, listed>>

\* createSession looks again under the lock.  The call may end with an error after it.
CreateLedger(s) ==
    /\ Working(s, "create")
    /\ records' = IF Exists THEN records ELSE <<>>
    /\ Goto(s, "reserve") \/ Goto(s, "idle")
    /\ UNCHANGED <<alive, reused, asks, answered, earlier, listed>>

\* recordMessage; an error after it leaves the record in "sending".
Reserve(s) ==
    /\ Working(s, "reserve")
    /\ records' = Append(records, [message |-> Mine(s), status |-> "sending"])
    /\ Goto(s, "send") \/ Goto(s, "idle")
    /\ UNCHANGED <<alive, reused, asks, answered, earlier, listed>>

\* finishMessage, which may fail, and the answer.  Submitted and failed are both "settled".
Finish(s) ==
    /\ Working(s, "send")
    /\ \/ \E status \in {"settled", "uncertain"} :
             records' = [i \in DOMAIN records |->
                           IF records[i].message = Mine(s) THEN [records[i] EXCEPT !.status = status] ELSE records[i]]
       \/ UNCHANGED records
    /\ answered' = answered \cup {Mine(s)}
    /\ Goto(s, "idle")
    /\ UNCHANGED <<alive, reused, asks, earlier, listed>>

------------------------------------------------------------------------------
(* bridge_status *)

AskList(s) ==
    /\ Count(s)
    /\ earlier' = [earlier EXCEPT ![s] = [answered |-> answered, exited |-> {q \in Server : ~alive[q]}]]
    /\ Goto(s, "list")
    /\ UNCHANGED <<alive, reused, records, answered, listed>>

\* interruptedSend: nobody has the process id of its server, or it is a minute old.
MayBeInterrupted(record) ==
    CASE record.status # "sending" -> {FALSE}
      [] ~alive[record.message[1]] /\ record.message[1] \notin reused -> {TRUE}
      [] OTHER -> BOOLEAN

\* Mutant of Shown: the record as it was saved.
ShownAsSaved(record) == {record}
Shown(record) == {IF old THEN [record EXCEPT !.status = "uncertain"] ELSE record : old \in MayBeInterrupted(record)}

\* getMessages: the latest records first.
Latest == LET all == Reverse(records) IN SubSeq(all, 1, IF Len(all) < MaxListed THEN Len(all) ELSE MaxListed)

GetMessages(s) ==
    /\ Working(s, "list")
    /\ IF ~Exists THEN UNCHANGED listed
       ELSE \E list \in [DOMAIN Latest -> UNION {Shown(Latest[i]) : i \in DOMAIN Latest}] :
               /\ \A i \in DOMAIN Latest : list[i] \in Shown(Latest[i])
               /\ listed' = [listed EXCEPT ![s] = list]
    /\ Goto(s, "listed")
    /\ UNCHANGED <<alive, reused, asks, records, answered, earlier>>

\* The caller has the list.
GiveList(s) ==
    /\ Working(s, "listed")
    /\ Goto(s, "idle")
    /\ earlier' = [earlier EXCEPT ![s] = NothingAsked]
    /\ listed' = [listed EXCEPT ![s] = <<>>]
    /\ UNCHANGED <<alive, reused, asks, records, answered>>

Exit(s) ==
    /\ alive[s]
    /\ alive' = [alive EXCEPT ![s] = FALSE]
    /\ UNCHANGED <<reused, phase, asks, records, answered, earlier, listed>>

\* The system gives the process id of a server that has exited to another process.
ReuseId(s) ==
    /\ ~alive[s] /\ s \notin reused
    /\ reused' = reused \cup {s}
    /\ UNCHANGED <<alive, phase, asks, records, answered, earlier, listed>>

SenderNext == \E s \in Server :
    \/ AskSend(s) \/ OpenLedger(s) \/ CreateLedger(s) \/ Reserve(s) \/ Finish(s)
    \/ AskList(s) \/ GetMessages(s) \/ GiveList(s) \/ Exit(s) \/ ReuseId(s)

SenderSpec == SenderInit /\ [][SenderNext]_senderVars

------------------------------------------------------------------------------
(* Properties *)

ShownAt(s) == {listed[s][i].message : i \in DOMAIN listed[s]}

\* A list shows what its callers had an answer about before they asked for it,
\* although several servers may make the ledger at once (senderLedger,
\* createSession), unless it is full; and then what it shows is later.
ListsAreComplete ==
    \A s \in Server : phase[s] = "listed" =>
        \A m \in earlier[s].answered \ ShownAt(s) :
            /\ Len(listed[s]) = MaxListed
            /\ \A i \in DOMAIN records, j \in DOMAIN records :
                  records[i].message = m /\ records[j].message \in ShownAt(s) => i < j

\* A list does not show a message as being sent by a process that had exited
\* before the list was asked for, unless another has its process id: a minute
\* later the record's age tells, which has no place here (interruptedSend).
NothingIsSentByTheDead ==
    \A s \in Server : phase[s] = "listed" =>
        \A i \in DOMAIN listed[s] :
            listed[s][i].status = "sending" => listed[s][i].message[1] \notin earlier[s].exited \ reused

==============================================================================
