---------------------------- MODULE AtomicUpdates ----------------------------
(***************************************************************************)
(* What lib/store.mjs promises the rest of the bridge: every process may   *)
(* ask for an update of the one state file, the file changes by exactly    *)
(* one update at a time, an update reported as saved is in the file, and   *)
(* nothing ever leaves the file.  A call that reports an error may or may  *)
(* not have been saved.  StateLock implements this specification.          *)
(***************************************************************************)
EXTENDS Naturals

CONSTANTS
    Proc,       \* the bridge processes that share one state directory
    MaxCalls    \* how many updates one process asks for (a bound on runs)

VARIABLES
    alive,      \* alive[p]: p has not exited
    calls,      \* calls[p]: how many updates p has asked for
    busy,       \* the processes whose current call has not returned
    file,       \* the updates the state file holds
    acked       \* the updates whose callers were told that they are saved

vars == <<alive, calls, busy, file, acked>>

\* An update is identified by its caller and the caller's call count.
Update(p) == [owner |-> p, call |-> calls[p]]

Init ==
    /\ alive \in [Proc -> BOOLEAN]
    /\ calls = [p \in Proc |-> 0]
    /\ busy = {}
    /\ file = {}
    /\ acked = {}

Begin(p) ==
    /\ alive[p] /\ p \notin busy
    /\ calls[p] < MaxCalls
    /\ calls' = [calls EXCEPT ![p] = @ + 1]
    /\ busy' = busy \cup {p}
    /\ UNCHANGED <<alive, file, acked>>

\* The update takes effect, once.
Apply(p) ==
    /\ alive[p] /\ p \in busy
    /\ Update(p) \notin file
    /\ file' = file \cup {Update(p)}
    /\ UNCHANGED <<alive, calls, busy, acked>>

ReturnSaved(p) ==
    /\ alive[p] /\ p \in busy
    /\ Update(p) \in file
    /\ acked' = acked \cup {Update(p)}
    /\ busy' = busy \ {p}
    /\ UNCHANGED <<alive, calls, file>>

ReturnError(p) ==
    /\ alive[p] /\ p \in busy
    /\ busy' = busy \ {p}
    /\ UNCHANGED <<alive, calls, file, acked>>

Exit(p) ==
    /\ alive[p]
    /\ alive' = [alive EXCEPT ![p] = FALSE]
    /\ UNCHANGED <<calls, busy, file, acked>>

Next == \E p \in Proc :
    Begin(p) \/ Apply(p) \/ ReturnSaved(p) \/ ReturnError(p) \/ Exit(p)

Spec == Init /\ [][Next]_vars

==============================================================================
