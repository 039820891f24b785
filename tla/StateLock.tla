------------------------------ MODULE StateLock ------------------------------
(***************************************************************************)
(* withLock and update of lib/store.mjs: the file lock that serialises     *)
(* every change of the bridge's state files, one step per file-system      *)
(* call.  A process is one operating-system process of the bridge; its     *)
(* calls are synchronous, so it runs one at a time.  It may exit between   *)
(* any two steps, never comes back, and leaves its files behind.           *)
(*                                                                         *)
(* state.lock holds the identity of its owner, one token per call.  A lock *)
(* whose owner is dead may be removed, but only by the process that holds  *)
(* the recovery guard (state.lock.recovery) and has read the lock again.   *)
(***************************************************************************)
EXTENDS Naturals

CONSTANTS
    Proc,               \* the bridge processes that share one state directory
    MaxCalls,           \* how many updates one process asks for (a bound on runs)
    NoFile,             \* the file does not exist
    Legacy,             \* a lock file without a verifiable owner (older builds)
    ExitsDuringProbe    \* may the owner of a lock exit after a recovering
                        \* process has read the lock, before it is probed?

Token == [owner : Proc, call : 0..MaxCalls]

ASSUME MaxCallsAssumption == MaxCalls \in Nat
ASSUME MarkersAssumption == NoFile \notin Token /\ Legacy \notin Token /\ NoFile # Legacy
ASSUME ProbeAssumption == ExitsDuringProbe \in BOOLEAN

VARIABLES
    alive,      \* alive[p]: p has not exited
    pc,         \* pc[p]: the next step of p's call
    calls,      \* calls[p]: p's calls so far
    expired,    \* expired[p]: the deadline of p's present loop has passed
    lock,       \* the content of state.lock
    guard,      \* the content of state.lock.recovery
    seen,       \* seen[p]: the owner record p has read and is about to judge
    snap,       \* snap[p]: the state p has read and is changing
    outcome,    \* outcome[p]: how p's call is going to end
    file,       \* the state file: the updates it contains
    acked       \* the updates whose callers were told that they are saved

vars == <<alive, pc, calls, expired, lock, guard, seen, snap, outcome, file, acked>>
files == <<lock, guard, file>>

Waiting == {"create", "inspect", "probe", "guard", "guardread", "guardprobe", "wait"}
Recovering == {"recheck", "reprobe", "unlink", "dropguard"}
Critical == {"read", "replace", "release", "unlock"}

Mine(p) == [owner |-> p, call |-> calls[p]]

Content == Token \cup {NoFile, Legacy}

TypeOK ==
    /\ alive \in [Proc -> BOOLEAN]
    /\ pc \in [Proc -> {"idle"} \cup Waiting \cup Recovering \cup Critical]
    /\ calls \in [Proc -> 0..MaxCalls]
    /\ expired \in [Proc -> BOOLEAN]
    /\ lock \in Content
    /\ guard \in Content
    /\ seen \in [Proc -> Content]
    /\ snap \in [Proc -> SUBSET Token]
    /\ outcome \in [Proc -> {"none", "ok", "error"}]
    /\ file \in SUBSET Token
    /\ acked \in SUBSET Token

(***************************************************************************)
(* The state directory as earlier processes may have left it: a lock or a  *)
(* guard of a process that exited (call 0 of a process that is no longer   *)
(* alive), or a lock written by an older build.                            *)
(***************************************************************************)
Leftover == {[owner |-> p, call |-> 0] : p \in {q \in Proc : ~alive[q]}}

Init ==
    /\ alive \in [Proc -> BOOLEAN]
    /\ pc = [p \in Proc |-> "idle"]
    /\ calls = [p \in Proc |-> 0]
    /\ expired = [p \in Proc |-> FALSE]
    /\ lock \in {NoFile, Legacy} \cup Leftover
    /\ guard \in {NoFile} \cup Leftover
    /\ seen = [p \in Proc |-> NoFile]
    /\ snap = [p \in Proc |-> {}]
    /\ outcome = [p \in Proc |-> "none"]
    /\ file = {}
    /\ acked = {}

------------------------------------------------------------------------------
(* Steps *)

At(p, place) == alive[p] /\ pc[p] = place
Goto(p, place) == pc' = [pc EXCEPT ![p] = place]

\* The call ends: an "ok" is what the caller relies on from here.
Return(p, result) ==
    /\ Goto(p, "idle")
    /\ acked' = IF result = "ok" THEN acked \cup {Mine(p)} ELSE acked

Begin(p) ==
    /\ At(p, "idle")
    /\ calls[p] < MaxCalls
    /\ Goto(p, "create")
    /\ calls' = [calls EXCEPT ![p] = @ + 1]
    /\ expired' = [expired EXCEPT ![p] = FALSE]
    /\ outcome' = [outcome EXCEPT ![p] = "none"]
    /\ seen' = [seen EXCEPT ![p] = NoFile]
    /\ snap' = [snap EXCEPT ![p] = {}]
    /\ UNCHANGED <<alive, files, acked>>

\* Mutant of CreateLock: the lock is created although it exists.
CreateLockOverwriting(p) ==
    /\ At(p, "create")
    /\ lock' = Mine(p)
    /\ Goto(p, "read")
    /\ UNCHANGED <<alive, calls, expired, guard, seen, snap, outcome, file, acked>>

\* createExclusiveJson(lockPath, owner): a complete file appears, or EEXIST.
CreateLock(p) ==
    /\ At(p, "create")
    /\ IF lock = NoFile
       THEN lock' = Mine(p) /\ Goto(p, "read")
       ELSE Goto(p, "inspect") /\ UNCHANGED lock
    /\ UNCHANGED <<alive, calls, expired, guard, seen, snap, outcome, file, acked>>

\* Read the lock another process holds.  Gone: try again.  No owner: wait.
InspectLock(p) ==
    /\ At(p, "inspect")
    /\ seen' = [seen EXCEPT ![p] = lock]
    /\ \/ lock = NoFile /\ Goto(p, "create")
       \/ lock = Legacy /\ Goto(p, "wait")
       \/ lock \in Token /\ Goto(p, "probe")
    /\ UNCHANGED <<alive, calls, expired, files, snap, outcome, acked>>

(***************************************************************************)
(* lockOwnerAlive.  A live owner is judged alive.  A dead one is judged    *)
(* dead, unless its process id is in use again and nothing tells the two   *)
(* processes apart: an unanswered probe counts as alive.                   *)
(***************************************************************************)
Verdicts(q) == IF alive[q] THEN {"alive"} ELSE {"alive", "dead"}

ProbeLock(p) ==
    /\ At(p, "probe")
    /\ \E verdict \in Verdicts(seen[p].owner) :
          Goto(p, IF verdict = "dead" THEN "guard" ELSE "wait")
    /\ UNCHANGED <<alive, calls, expired, files, seen, snap, outcome, acked>>

\* Mutant of CreateGuard: a guard that exists does not stop a second recovery.
CreateGuardAnyway(p) ==
    /\ At(p, "guard")
    /\ guard' = Mine(p)
    /\ Goto(p, "recheck")
    /\ UNCHANGED <<alive, calls, expired, lock, seen, snap, outcome, file, acked>>

\* createExclusiveJson(recoveryPath, owner), by a process that saw a stale lock.
CreateGuard(p) ==
    /\ At(p, "guard")
    /\ IF guard = NoFile
       THEN guard' = Mine(p) /\ Goto(p, "recheck")
       ELSE Goto(p, "guardread") /\ UNCHANGED guard
    /\ UNCHANGED <<alive, calls, expired, lock, seen, snap, outcome, file, acked>>

ReadGuard(p) ==
    /\ At(p, "guardread")
    /\ seen' = [seen EXCEPT ![p] = guard]
    /\ Goto(p, IF guard = NoFile THEN "create" ELSE "guardprobe")
    /\ UNCHANGED <<alive, calls, expired, files, snap, outcome, acked>>

\* Mutant of ProbeGuard: the guard of a dead process is taken over.
ProbeGuardReclaiming(p) ==
    /\ At(p, "guardprobe")
    /\ \E verdict \in Verdicts(seen[p].owner) :
          IF verdict = "dead"
          THEN guard' = Mine(p) /\ Goto(p, "recheck")
          ELSE Goto(p, "wait") /\ UNCHANGED guard
    /\ UNCHANGED <<alive, calls, expired, lock, file, seen, snap, outcome, acked>>

\* The guard of a dead process is never removed: the call is refused.
ProbeGuard(p) ==
    /\ At(p, "guardprobe")
    /\ \E verdict \in Verdicts(seen[p].owner) :
          IF verdict = "dead"
          THEN Return(p, "error")
          ELSE Goto(p, "wait") /\ UNCHANGED acked
    /\ UNCHANGED <<alive, calls, expired, files, seen, snap, outcome>>

\* Mutant of RecheckLock: the first observation of the lock is trusted.
RecheckLockNot(p) ==
    /\ At(p, "recheck")
    /\ Goto(p, "unlink")
    /\ UNCHANGED <<alive, calls, expired, files, seen, snap, outcome, acked>>

\* Under the guard the lock is read again ...
RecheckLock(p) ==
    /\ At(p, "recheck")
    /\ seen' = [seen EXCEPT ![p] = lock]
    /\ Goto(p, IF lock \in {NoFile, Legacy} THEN "dropguard" ELSE "reprobe")
    /\ UNCHANGED <<alive, calls, expired, files, snap, outcome, acked>>

\* ... and its owner probed again ...
ReprobeDead(p) ==
    /\ At(p, "reprobe")
    /\ "dead" \in Verdicts(seen[p].owner)
    /\ Goto(p, "unlink")
    /\ UNCHANGED <<alive, calls, expired, files, seen, snap, outcome, acked>>

ReprobeAlive(p) ==
    /\ At(p, "reprobe")
    /\ "alive" \in Verdicts(seen[p].owner)
    /\ Goto(p, "dropguard")
    /\ UNCHANGED <<alive, calls, expired, files, seen, snap, outcome, acked>>

\* ... before whatever is at the lock's path is removed.
UnlinkStale(p) ==
    /\ At(p, "unlink")
    /\ lock' = NoFile
    /\ Goto(p, "dropguard")
    /\ UNCHANGED <<alive, calls, expired, guard, seen, snap, outcome, file, acked>>

\* The guard is removed, then the call tries again or throws what it met.
DropGuard(p) ==
    /\ At(p, "dropguard")
    /\ guard' = NoFile
    /\ IF outcome[p] = "error"
       THEN Return(p, "error")
       ELSE Goto(p, "create") /\ UNCHANGED acked
    /\ UNCHANGED <<alive, calls, expired, lock, seen, snap, outcome, file>>

\* Mutant of Wait: no deadline.
WaitOn(p) ==
    /\ At(p, "wait")
    /\ Goto(p, "create")
    /\ UNCHANGED <<alive, calls, expired, files, seen, snap, outcome, acked>>

\* The deadline is looked at here only; the paths that "continue" skip it.
Wait(p) ==
    /\ At(p, "wait")
    /\ IF expired[p]
       THEN Return(p, "error")
       ELSE Goto(p, "create") /\ UNCHANGED acked
    /\ UNCHANGED <<alive, calls, expired, files, seen, snap, outcome>>

\* update: read the state file, change the copy, replace the file.
ReadState(p) ==
    /\ At(p, "read")
    /\ snap' = [snap EXCEPT ![p] = file]
    /\ Goto(p, "replace")
    /\ UNCHANGED <<alive, calls, expired, files, seen, outcome, acked>>

\* The release loop has a deadline of its own.
EnterRelease(p, result) ==
    /\ outcome' = [outcome EXCEPT ![p] = result]
    /\ expired' = [expired EXCEPT ![p] = FALSE]
    /\ Goto(p, "release")

ReplaceState(p) ==
    /\ At(p, "replace")
    /\ file' = snap[p] \cup {Mine(p)}
    /\ EnterRelease(p, "ok")
    /\ UNCHANGED <<alive, calls, lock, guard, seen, snap, acked>>

\* Mutant of UpdateFails: the error of a failed replacement is swallowed.
UpdateFailsSilently(p) ==
    /\ At(p, "read") \/ At(p, "replace")
    /\ EnterRelease(p, "ok")
    /\ UNCHANGED <<alive, calls, files, seen, snap, acked>>

\* An unreadable file, a refused change or a failed replacement: release, throw.
UpdateFails(p) ==
    /\ At(p, "read") \/ At(p, "replace")
    /\ EnterRelease(p, "error")
    /\ UNCHANGED <<alive, calls, files, seen, snap, acked>>

\* Release: compare the token in the lock with this call's own ...
CompareToken(p) ==
    /\ At(p, "release")
    /\ IF lock = Mine(p)
       THEN Goto(p, "unlock") /\ UNCHANGED acked
       ELSE Return(p, outcome[p])
    /\ UNCHANGED <<alive, calls, expired, files, seen, snap, outcome>>

\* ... and remove it.
Unlock(p) ==
    /\ At(p, "unlock")
    /\ lock' = NoFile
    /\ Return(p, outcome[p])
    /\ UNCHANGED <<alive, calls, expired, guard, file, seen, snap, outcome>>

(***************************************************************************)
(* A file operation fails.  Under the guard the guard is still dropped;    *)
(* a lock or a guard that cannot be removed stays where it is, and an      *)
(* update already in the file stays there although the caller is told of   *)
(* an error.  (A sharing violation that is retried changes nothing.)       *)
(***************************************************************************)
FileError(p) ==
    /\ alive[p]
    /\ \/ /\ pc[p] \in {"create", "inspect", "guard", "guardread", "dropguard", "release", "unlock"}
          /\ Return(p, "error")
          /\ UNCHANGED outcome
       \/ /\ pc[p] \in {"recheck", "unlink"}
          /\ outcome' = [outcome EXCEPT ![p] = "error"]
          /\ Goto(p, "dropguard")
          /\ UNCHANGED acked
    /\ UNCHANGED <<alive, calls, expired, files, seen, snap>>

\* A sharing violation before the deadline: the attempt starts over.
Contention(p) ==
    /\ alive[p] /\ ~expired[p]
    /\ \/ pc[p] \in {"inspect", "guard", "guardread"} /\ Goto(p, "create")
       \/ pc[p] = "unlink" /\ Goto(p, "recheck")
       \/ pc[p] = "unlock" /\ Goto(p, "release")
    /\ UNCHANGED <<alive, calls, expired, files, seen, snap, outcome, acked>>

\* Five seconds since the call began, or one since its release began.
Expire(p) ==
    /\ alive[p] /\ pc[p] \in Waiting \cup Recovering \cup {"release", "unlock"}
    /\ ~expired[p]
    /\ expired' = [expired EXCEPT ![p] = TRUE]
    /\ UNCHANGED <<alive, pc, calls, files, seen, snap, outcome, acked>>

\* The process exits or is killed; what it wrote stays.
Exit(p) ==
    /\ alive[p]
    /\ ExitsDuringProbe \/ ~\E q \in Proc : At(q, "reprobe") /\ seen[q].owner = p
    /\ alive' = [alive EXCEPT ![p] = FALSE]
    /\ UNCHANGED <<pc, calls, expired, files, seen, snap, outcome, acked>>

Acquire(p) == CreateLock(p) \/ InspectLock(p) \/ ProbeLock(p) \/ Wait(p)
Recover(p) ==
    \/ CreateGuard(p) \/ ReadGuard(p) \/ ProbeGuard(p)
    \/ RecheckLock(p) \/ ReprobeDead(p) \/ ReprobeAlive(p)
    \/ UnlinkStale(p) \/ DropGuard(p)
UpdateState(p) ==
    ReadState(p) \/ ReplaceState(p) \/ UpdateFails(p) \/ CompareToken(p) \/ Unlock(p)

Step(p) == Acquire(p) \/ Recover(p) \/ UpdateState(p) \/ FileError(p)

Next == \E p \in Proc :
    Begin(p) \/ Step(p) \/ Contention(p) \/ Expire(p) \/ Exit(p)

(***************************************************************************)
(* A live process runs on and its clock advances.  Nobody has to begin a   *)
(* call or to exit, and contention, being retried for a bounded time, is   *)
(* not fair.  The recovery path does not look at the deadline, so it ends  *)
(* only because probes do not disagree for ever: an owner found dead again *)
(* and again before the guard is once found dead under the guard.          *)
(***************************************************************************)
Fairness == \A p \in Proc :
    WF_vars(Step(p)) /\ WF_vars(Expire(p)) /\ SF_vars(ReprobeDead(p))

Spec == Init /\ [][Next]_vars
FairSpec == Spec /\ Fairness

------------------------------------------------------------------------------
(* Properties *)

\* No two live processes are between acquiring and releasing state.lock at the
\* same time, whoever crashed before and whoever recovers (withLock).
MutualExclusion ==
    \A p, q \in Proc :
        /\ alive[p] /\ pc[p] \in Critical
        /\ alive[q] /\ pc[q] \in Critical
        => p = q

(***************************************************************************)
(* Why the lock excludes: a live process in its critical section owns the  *)
(* lock, a live process that recovers owns the guard, and what a recovering *)
(* process is about to remove is still the lock of a dead process.         *)
(***************************************************************************)
OwnersHoldLock == \A p \in Proc : alive[p] /\ pc[p] \in Critical => lock = Mine(p)

RecoverersHoldGuard == \A p \in Proc : alive[p] /\ pc[p] \in Recovering => guard = Mine(p)

Condemned(p) == pc[p] = "unlink" \/ (pc[p] = "reprobe" /\ ~alive[seen[p].owner])

OnlyStaleIsCondemned ==
    \A p \in Proc : alive[p] /\ Condemned(p) =>
        lock = seen[p] /\ seen[p] \in Token /\ ~alive[seen[p].owner]

ProbesAnOwner ==
    /\ guard # Legacy
    /\ \A p \in Proc : pc[p] \in {"probe", "guardprobe", "reprobe"} => seen[p] \in Token

LockInv == OwnersHoldLock /\ RecoverersHoldGuard /\ OnlyStaleIsCondemned /\ ProbesAnOwner

(***************************************************************************)
(* Why an update is atomic: nobody else writes between a live process's    *)
(* reading and its replacement, and an update enters the file only once.   *)
(***************************************************************************)
SnapshotIsCurrent == \A p \in Proc : alive[p] /\ pc[p] = "replace" => snap[p] = file

SavedOnce ==
    /\ \A u \in file : u.call <= calls[u.owner]
    /\ \A p \in Proc :
          /\ pc[p] \in Waiting \cup Recovering \cup {"read", "replace"} => Mine(p) \notin file
          /\ pc[p] \in {"release", "unlock"} /\ outcome[p] = "ok" => Mine(p) \in file

UpdateInv == SnapshotIsCurrent /\ SavedOnce

\* An update whose caller was told that it is saved is in the state file,
\* however many processes crashed, recovered or overwrote the file since (update).
AcknowledgedIsSaved == acked \subseteq file

\* state.lock disappears only when its owner releases it or its owner is dead:
\* a legacy lock and a live owner's lock, a replacement of a stale lock
\* included, are never taken away (withLock, recovery).
LockRemovedRightly ==
    [][ lock \notin {NoFile, lock'}
        => /\ lock # Legacy
           /\ ~alive[lock.owner] \/ (pc[lock.owner] = "unlock" /\ pc'[lock.owner] = "idle") ]_vars

\* Once a process has died holding the recovery guard, the guard stays, and no
\* lock of a dead process is removed any more: a person has to look (withLock).
InterruptedRecoveryStays ==
    [][ guard # NoFile /\ ~alive[guard.owner]
        => /\ guard' = guard
           /\ lock \notin {NoFile, Legacy} /\ ~alive[lock.owner] => lock' = lock ]_vars

\* Every call of a process that does not exit returns, with a result or an
\* error: crashed owners, legacy locks and interrupted recoveries included.
EveryCallReturns ==
    \A p \in Proc : pc[p] # "idle" ~> pc[p] = "idle" \/ ~alive[p]

\* The lock makes the three steps read, change and replace one atomic update.
Abstract == INSTANCE AtomicUpdates WITH busy <- {p \in Proc : pc[p] # "idle"}
ImplementsAtomicUpdates == Abstract!Spec

==============================================================================
