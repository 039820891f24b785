----------------------------- MODULE OneDelivery -----------------------------
(***************************************************************************)
(* What the bridge promises about a message id: the first request fixes    *)
(* its text, the text is handed to the receiving application at most once, *)
(* and what a caller is told about the id is true then and later: what was *)
(* reported as failed was not taken and never will be.                     *)
(* Delivery, TerminalSend, ClaudeInbox and CodexSend implement this        *)
(* specification.                                                          *)
(***************************************************************************)
EXTENDS Naturals

CONSTANTS
    Key,        \* a message id together with its sender and its recipient
    Text,       \* what messages say
    NoText      \* no request has fixed the text yet

VARIABLES
    text,       \* text[k]: the text the id stands for
    writes,     \* writes[k]: how often it was handed to the application
    taken,      \* the ids whose message the application took
    refused,    \* the ids whose message certainly never arrives
    told        \* the answers callers got: [key, text, answer]

vars == <<text, writes, taken, refused, told>>

Init ==
    /\ text = [k \in Key |-> NoText]
    /\ writes = [k \in Key |-> 0]
    /\ taken = {} /\ refused = {}
    /\ told = {}

Accept(k, t) ==
    /\ text[k] = NoText
    /\ text' = [text EXCEPT ![k] = t]
    /\ UNCHANGED <<writes, taken, refused, told>>

\* The application may take the message as it gets it,
HandOver(k) ==
    /\ text[k] # NoText /\ writes[k] = 0 /\ k \notin refused
    /\ writes' = [writes EXCEPT ![k] = 1]
    /\ taken' \in {taken, taken \cup {k}}
    /\ UNCHANGED <<text, refused, told>>

\* or later, or never.
Take(k) ==
    /\ writes[k] = 1 /\ k \notin refused
    /\ taken' = taken \cup {k}
    /\ UNCHANGED <<text, writes, refused, told>>

\* Nothing was written, or the application took nothing of it.
Refuse(k) ==
    /\ text[k] # NoText /\ k \notin refused /\ k \notin taken
    /\ refused' = refused \cup {k}
    /\ UNCHANGED <<text, writes, taken, told>>

TrueOf(k, answer) ==
    CASE answer = "submitted" -> writes[k] = 1 /\ k \notin refused
      [] answer = "failed"    -> k \in refused
      [] answer = "uncertain" -> TRUE

Tell(k, answer) ==
    /\ text[k] # NoText
    /\ TrueOf(k, answer)
    /\ told' = told \cup {[key |-> k, text |-> text[k], answer |-> answer]}
    /\ UNCHANGED <<text, writes, taken, refused>>

Next == \E k \in Key :
    \/ \E t \in Text : Accept(k, t)
    \/ HandOver(k)
    \/ Take(k)
    \/ Refuse(k)
    \/ \E answer \in {"submitted", "failed", "uncertain"} : Tell(k, answer)

Spec == Init /\ [][Next]_vars

==============================================================================
