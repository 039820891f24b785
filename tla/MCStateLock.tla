----------------------------- MODULE MCStateLock -----------------------------
(* Instances of StateLock for TLC. *)
EXTENDS StateLock, TLC

\* Processes are interchangeable: used where no liveness is checked.
ProcSymmetry == Permutations(Proc)

\* One process is gone from the start and may have left a lock and a guard
\* behind; the others run, one of them for a single call.
Departed == CHOOSE p \in Proc : TRUE
Brief == CHOOSE p \in Proc \ {Departed} : TRUE

DepartedInit == Init /\ ~alive[Departed]
BriefNext == Next /\ calls'[Brief] <= 1
DepartedSpec == DepartedInit /\ [][BriefNext]_vars /\ Fairness

\* One process has died holding the lock, the others run.
RaceInit ==
    /\ Init
    /\ \E p \in Proc :
          /\ alive = [q \in Proc |-> q # p]
          /\ lock = [owner |-> p, call |-> 0]
    /\ guard = NoFile

RaceSpec == RaceInit /\ [][Next]_vars
==============================================================================
