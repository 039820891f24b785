--------------------------- MODULE StateLockProofs ---------------------------
(***************************************************************************)
(* Proofs about the state lock, for any number of processes and calls,     *)
(* under the assumption that no owner exits between the second reading of  *)
(* its lock and the probe that follows (ExitsDuringProbe = FALSE), and     *)
(* about whom its probes judge dead (LockOwner).                           *)
(***************************************************************************)
EXTENDS StateLock, LockOwner, TLAPS

\* Type correctness of withLock and update: whatever the processes do, every
\* variable keeps the values its declaration describes.
THEOREM TypeCorrect == Spec => []TypeOK
<1> USE MaxCallsAssumption, MarkersAssumption
    DEF TypeOK, Content, Waiting, Recovering, Critical
<1>1. Init => TypeOK
  BY DEF Init, Leftover, Token
<1>2. TypeOK /\ [Next]_vars => TypeOK'
  <2> SUFFICES ASSUME TypeOK, [Next]_vars PROVE TypeOK'
    OBVIOUS
  <2> USE DEF files, At, Goto, Return, Mine, Token
  <2>1. ASSUME NEW p \in Proc, Begin(p) PROVE TypeOK'
    BY <2>1 DEF Begin
  <2>2. ASSUME NEW p \in Proc, Acquire(p) PROVE TypeOK'
    <3>1. CASE CreateLock(p) BY <3>1 DEF CreateLock
    <3>2. CASE InspectLock(p) BY <3>2 DEF InspectLock
    <3>3. CASE ProbeLock(p) BY <3>3 DEF ProbeLock
    <3>4. CASE Wait(p) BY <3>4 DEF Wait
    <3> QED BY <2>2, <3>1, <3>2, <3>3, <3>4 DEF Acquire
  <2>3. ASSUME NEW p \in Proc, Recover(p) PROVE TypeOK'
    <3>1. CASE CreateGuard(p) BY <3>1 DEF CreateGuard
    <3>2. CASE ReadGuard(p) BY <3>2 DEF ReadGuard
    <3>3. CASE ProbeGuard(p) BY <3>3 DEF ProbeGuard
    <3>4. CASE RecheckLock(p) BY <3>4 DEF RecheckLock
    <3>5. CASE ReprobeDead(p) BY <3>5 DEF ReprobeDead
    <3>6. CASE ReprobeAlive(p) BY <3>6 DEF ReprobeAlive
    <3>7. CASE UnlinkStale(p) BY <3>7 DEF UnlinkStale
    <3>8. CASE DropGuard(p) BY <3>8 DEF DropGuard
    <3> QED BY <2>3, <3>1, <3>2, <3>3, <3>4, <3>5, <3>6, <3>7, <3>8 DEF Recover
  <2>4. ASSUME NEW p \in Proc, UpdateState(p) PROVE TypeOK'
    <3>1. CASE ReadState(p) BY <3>1 DEF ReadState
    <3>2. CASE ReplaceState(p) BY <3>2 DEF ReplaceState, EnterRelease
    <3>3. CASE UpdateFails(p) BY <3>3 DEF UpdateFails, EnterRelease
    <3>4. CASE CompareToken(p) BY <3>4 DEF CompareToken
    <3>5. CASE Unlock(p) BY <3>5 DEF Unlock
    <3> QED BY <2>4, <3>1, <3>2, <3>3, <3>4, <3>5 DEF UpdateState
  <2>5. ASSUME NEW p \in Proc, FileError(p) PROVE TypeOK'
    BY <2>5 DEF FileError
  <2>6. ASSUME NEW p \in Proc, Contention(p) PROVE TypeOK'
    BY <2>6 DEF Contention
  <2>7. ASSUME NEW p \in Proc, Expire(p) PROVE TypeOK'
    BY <2>7 DEF Expire
  <2>8. ASSUME NEW p \in Proc, Exit(p) PROVE TypeOK'
    BY <2>8 DEF Exit
  <2>9. CASE UNCHANGED vars
    BY <2>9 DEF vars
  <2> QED
    BY <2>1, <2>2, <2>3, <2>4, <2>5, <2>6, <2>7, <2>8, <2>9 DEF Next, Step
<1> QED
  BY <1>1, <1>2, PTL DEF Spec

------------------------------------------------------------------------------
\* The assumption about the environment under which the lock excludes.
OwnersSurviveProbes == ExitsDuringProbe = FALSE

LEMMA LockInvInit == Init => LockInv
  BY MarkersAssumption, MaxCallsAssumption
  DEF Init, LockInv, OwnersHoldLock, RecoverersHoldGuard, OnlyStaleIsCondemned,
      Condemned, ProbesAnOwner, Leftover, Token, Waiting, Recovering, Critical

\* No step of withLock disturbs the invariant: one case per action.
LEMMA LockInvStep ==
  ASSUME OwnersSurviveProbes, TypeOK, LockInv, [Next]_vars
  PROVE  LockInv'
<1> USE MarkersAssumption
    DEF LockInv, OwnersHoldLock, RecoverersHoldGuard, OnlyStaleIsCondemned, Condemned,
        ProbesAnOwner, TypeOK, Content, Token, Mine, At, Goto, Return, files,
        Waiting, Recovering, Critical, OwnersSurviveProbes
<1>1. ASSUME NEW p \in Proc, Begin(p) PROVE LockInv'
  BY <1>1 DEF Begin
<1>2. ASSUME NEW p \in Proc, Acquire(p) PROVE LockInv'
  <2>1. CASE CreateLock(p) BY <2>1 DEF CreateLock
  <2>2. CASE InspectLock(p) BY <2>2 DEF InspectLock
  <2>3. CASE ProbeLock(p) BY <2>3 DEF ProbeLock, Verdicts
  <2>4. CASE Wait(p) BY <2>4 DEF Wait
  <2> QED BY <1>2, <2>1, <2>2, <2>3, <2>4 DEF Acquire
<1>3. ASSUME NEW p \in Proc, Recover(p) PROVE LockInv'
  <2>1. CASE CreateGuard(p) BY <2>1 DEF CreateGuard
  <2>2. CASE ReadGuard(p) BY <2>2 DEF ReadGuard
  <2>3. CASE ProbeGuard(p) BY <2>3 DEF ProbeGuard, Verdicts
  <2>4. CASE RecheckLock(p) BY <2>4 DEF RecheckLock
  <2>5. CASE ReprobeDead(p) BY <2>5 DEF ReprobeDead, Verdicts
  <2>6. CASE ReprobeAlive(p) BY <2>6 DEF ReprobeAlive, Verdicts
  <2>7. CASE UnlinkStale(p) BY <2>7 DEF UnlinkStale
  <2>8. CASE DropGuard(p) BY <2>8 DEF DropGuard
  <2> QED BY <1>3, <2>1, <2>2, <2>3, <2>4, <2>5, <2>6, <2>7, <2>8 DEF Recover
<1>4. ASSUME NEW p \in Proc, UpdateState(p) PROVE LockInv'
  <2>1. CASE ReadState(p) BY <2>1 DEF ReadState
  <2>2. CASE ReplaceState(p) BY <2>2 DEF ReplaceState, EnterRelease
  <2>3. CASE UpdateFails(p) BY <2>3 DEF UpdateFails, EnterRelease
  <2>4. CASE CompareToken(p) BY <2>4 DEF CompareToken
  <2>5. CASE Unlock(p) BY <2>5 DEF Unlock
  <2> QED BY <1>4, <2>1, <2>2, <2>3, <2>4, <2>5 DEF UpdateState
<1>5. ASSUME NEW p \in Proc, FileError(p) PROVE LockInv'
  BY <1>5 DEF FileError
<1>6. ASSUME NEW p \in Proc, Contention(p) PROVE LockInv'
  BY <1>6 DEF Contention
<1>7. ASSUME NEW p \in Proc, Expire(p) PROVE LockInv'
  BY <1>7 DEF Expire
<1>8. ASSUME NEW p \in Proc, Exit(p) PROVE LockInv'
  BY <1>8 DEF Exit
<1>9. CASE UNCHANGED vars
  BY <1>9 DEF vars
<1> QED
  BY <1>1, <1>2, <1>3, <1>4, <1>5, <1>6, <1>7, <1>8, <1>9 DEF Next, Step

THEOREM LockInvariant ==
  ASSUME OwnersSurviveProbes
  PROVE  Spec => [](TypeOK /\ LockInv)
<1>1. LockInv /\ TypeOK /\ [Next]_vars => LockInv'
  BY LockInvStep
<1> QED
  BY <1>1, LockInvInit, TypeCorrect, PTL DEF Spec

\* Mutual exclusion (withLock): the critical sections of live processes never
\* overlap, however many processes crash, wait or recover.
THEOREM Exclusion ==
  ASSUME OwnersSurviveProbes
  PROVE  Spec => []MutualExclusion
<1>1. TypeOK /\ LockInv => MutualExclusion
  BY DEF TypeOK, LockInv, OwnersHoldLock, MutualExclusion, Mine
<1> QED
  BY <1>1, LockInvariant, PTL


\* A lock file disappears only by its owner's release or after its owner died:
\* what the recovery path of withLock promises about replacement locks.
THEOREM RemovedRightly ==
  ASSUME OwnersSurviveProbes
  PROVE  Spec => LockRemovedRightly
<1> DEFINE Rightly ==
      lock \notin {NoFile, lock'}
      => /\ lock # Legacy
         /\ ~alive[lock.owner] \/ (pc[lock.owner] = "unlock" /\ pc'[lock.owner] = "idle")
<1>1. ASSUME TypeOK, LockInv, [Next]_vars PROVE Rightly
  <2> USE <1>1 DEF LockInv, TypeOK
  <2>1. CASE UNCHANGED lock
    BY <2>1
  <2>2. ASSUME NEW p \in Proc, UnlinkStale(p) PROVE Rightly
    BY <2>2, MarkersAssumption DEF UnlinkStale, At, OnlyStaleIsCondemned, Condemned
  <2>3. ASSUME NEW p \in Proc, Unlock(p) PROVE Rightly
    BY <2>3, MarkersAssumption, MaxCallsAssumption
       DEF Unlock, At, OwnersHoldLock, Critical, Mine, Token, Return, Goto
  <2>4. ASSUME NEW p \in Proc, CreateLock(p) PROVE Rightly
    BY <2>4 DEF CreateLock
  <2>5. UNCHANGED lock
        \/ \E p \in Proc : UnlinkStale(p) \/ Unlock(p) \/ CreateLock(p)
    BY DEF Next, vars, files, Step, Acquire, Recover, UpdateState, Begin, InspectLock,
           ProbeLock, Wait, CreateGuard, ReadGuard, ProbeGuard, RecheckLock, ReprobeDead,
           ReprobeAlive, DropGuard, ReadState, ReplaceState, UpdateFails, CompareToken,
           FileError, Contention, Expire, Exit
  <2> QED
    BY <2>1, <2>2, <2>3, <2>4, <2>5
<1>2. TypeOK /\ LockInv /\ [Next]_vars => [Rightly]_vars
  BY <1>1
<1> QED
  BY <1>2, LockInvariant, PTL DEF Spec, LockRemovedRightly

\* A recovery interrupted by a crash freezes the recovery guard and every
\* stale lock (the "recovery was interrupted" refusal of withLock).
THEOREM InterruptedStays ==
  ASSUME OwnersSurviveProbes
  PROVE  Spec => InterruptedRecoveryStays
<1> DEFINE Stays ==
      guard # NoFile /\ ~alive[guard.owner]
      => /\ guard' = guard
         /\ lock \notin {NoFile, Legacy} /\ ~alive[lock.owner] => lock' = lock
<1>1. ASSUME TypeOK, LockInv, [Next]_vars PROVE Stays
  <2> USE <1>1 DEF LockInv, TypeOK
  <2>1. CASE UNCHANGED <<lock, guard>>
    BY <2>1
  <2>2. ASSUME NEW p \in Proc, UnlinkStale(p) \/ DropGuard(p) PROVE Stays
    BY <2>2 DEF UnlinkStale, DropGuard, At, RecoverersHoldGuard, Recovering, Mine
  <2>3. ASSUME NEW p \in Proc, Unlock(p) PROVE Stays
    BY <2>3 DEF Unlock, At, OwnersHoldLock, Critical, Mine
  <2>4. ASSUME NEW p \in Proc, CreateLock(p) \/ CreateGuard(p) PROVE Stays
    BY <2>4 DEF CreateLock, CreateGuard
  <2>5. UNCHANGED <<lock, guard>>
        \/ \E p \in Proc : UnlinkStale(p) \/ DropGuard(p) \/ Unlock(p)
                           \/ CreateLock(p) \/ CreateGuard(p)
    BY DEF Next, vars, files, Step, Acquire, Recover, UpdateState, Begin, InspectLock,
           ProbeLock, Wait, ReadGuard, ProbeGuard, RecheckLock, ReprobeDead,
           ReprobeAlive, ReadState, ReplaceState, UpdateFails, CompareToken,
           FileError, Contention, Expire, Exit
  <2> QED
    BY <2>1, <2>2, <2>3, <2>4, <2>5
<1>2. TypeOK /\ LockInv /\ [Next]_vars => [Stays]_vars
  BY <1>1
<1> QED
  BY <1>2, LockInvariant, PTL DEF Spec, InterruptedRecoveryStays

------------------------------------------------------------------------------
LEMMA UpdateInvInit == Init => UpdateInv
  BY DEF Init, UpdateInv, SnapshotIsCurrent, SavedOnce, Waiting, Recovering, Mine

\* Mutual exclusion keeps a snapshot current; call numbers keep updates apart.
LEMMA UpdateInvStep ==
  ASSUME TypeOK, LockInv, UpdateInv, [Next]_vars
  PROVE  UpdateInv'
<1> USE MarkersAssumption, MaxCallsAssumption
    DEF LockInv, OwnersHoldLock, TypeOK, Content, Token, Mine, At, Goto, Return, files,
        Waiting, Recovering, Critical, UpdateInv, SnapshotIsCurrent, SavedOnce
<1>1. ASSUME NEW p \in Proc, Begin(p) PROVE UpdateInv'
  BY <1>1 DEF Begin
<1>2. ASSUME NEW p \in Proc, Acquire(p) PROVE UpdateInv'
  <2>1. CASE CreateLock(p) BY <2>1 DEF CreateLock
  <2>2. CASE InspectLock(p) BY <2>2 DEF InspectLock
  <2>3. CASE ProbeLock(p) BY <2>3 DEF ProbeLock, Verdicts
  <2>4. CASE Wait(p) BY <2>4 DEF Wait
  <2> QED BY <1>2, <2>1, <2>2, <2>3, <2>4 DEF Acquire
<1>3. ASSUME NEW p \in Proc, Recover(p) PROVE UpdateInv'
  <2>1. CASE CreateGuard(p) BY <2>1 DEF CreateGuard
  <2>2. CASE ReadGuard(p) BY <2>2 DEF ReadGuard
  <2>3. CASE ProbeGuard(p) BY <2>3 DEF ProbeGuard, Verdicts
  <2>4. CASE RecheckLock(p) BY <2>4 DEF RecheckLock
  <2>5. CASE ReprobeDead(p) BY <2>5 DEF ReprobeDead, Verdicts
  <2>6. CASE ReprobeAlive(p) BY <2>6 DEF ReprobeAlive, Verdicts
  <2>7. CASE UnlinkStale(p) BY <2>7 DEF UnlinkStale
  <2>8. CASE DropGuard(p) BY <2>8 DEF DropGuard
  <2> QED BY <1>3, <2>1, <2>2, <2>3, <2>4, <2>5, <2>6, <2>7, <2>8 DEF Recover
<1>4. ASSUME NEW p \in Proc, UpdateState(p) PROVE UpdateInv'
  <2>1. CASE ReadState(p) BY <2>1 DEF ReadState
  <2>2. CASE ReplaceState(p) BY <2>2 DEF ReplaceState, EnterRelease
  <2>3. CASE UpdateFails(p) BY <2>3 DEF UpdateFails, EnterRelease
  <2>4. CASE CompareToken(p) BY <2>4 DEF CompareToken
  <2>5. CASE Unlock(p) BY <2>5 DEF Unlock
  <2> QED BY <1>4, <2>1, <2>2, <2>3, <2>4, <2>5 DEF UpdateState
<1>5. ASSUME NEW p \in Proc, FileError(p) PROVE UpdateInv'
  BY <1>5 DEF FileError
<1>6. ASSUME NEW p \in Proc, Contention(p) PROVE UpdateInv'
  BY <1>6 DEF Contention
<1>7. ASSUME NEW p \in Proc, Expire(p) PROVE UpdateInv'
  BY <1>7 DEF Expire
<1>8. ASSUME NEW p \in Proc, Exit(p) PROVE UpdateInv'
  BY <1>8 DEF Exit
<1>9. CASE UNCHANGED vars
  BY <1>9 DEF vars
<1> QED
  BY <1>1, <1>2, <1>3, <1>4, <1>5, <1>6, <1>7, <1>8, <1>9 DEF Next, Step

THEOREM UpdateInvariant ==
  ASSUME OwnersSurviveProbes
  PROVE  Spec => []UpdateInv
<1>1. TypeOK /\ LockInv /\ UpdateInv /\ [Next]_vars => UpdateInv'
  BY UpdateInvStep
<1> QED
  BY <1>1, UpdateInvInit, LockInvariant, PTL DEF Spec

\* An update that was acknowledged is in the state file (update).
THEOREM NothingIsLost ==
  ASSUME OwnersSurviveProbes
  PROVE  Spec => []AcknowledgedIsSaved
<1>1. Init => AcknowledgedIsSaved
  BY DEF Init, AcknowledgedIsSaved
<1>2. ASSUME TypeOK, LockInv, UpdateInv, AcknowledgedIsSaved, [Next]_vars
      PROVE  AcknowledgedIsSaved'
  <2> USE <1>2 DEF TypeOK, AcknowledgedIsSaved
  <2>1. file \subseteq file'
    <3>1. ASSUME NEW p \in Proc, ReplaceState(p) PROVE file \subseteq file'
      BY <3>1 DEF ReplaceState, At, UpdateInv, SnapshotIsCurrent
    <3>2. UNCHANGED file \/ \E p \in Proc : ReplaceState(p)
      BY DEF Next, vars, files, Step, Acquire, Recover, UpdateState, Begin, CreateLock,
             InspectLock, ProbeLock, Wait, CreateGuard, ReadGuard, ProbeGuard, RecheckLock,
             ReprobeDead, ReprobeAlive, UnlinkStale, DropGuard, ReadState, UpdateFails,
             CompareToken, Unlock, FileError, Contention, Expire, Exit
    <3> QED BY <3>1, <3>2
  <2>2. acked' \subseteq acked \cup file
    <3>1. ASSUME NEW p \in Proc, CompareToken(p) \/ Unlock(p)
          PROVE  acked' \subseteq acked \cup file
      BY <3>1 DEF CompareToken, Unlock, Return, Goto, At, UpdateInv, SavedOnce
    <3>2. acked' = acked \/ \E p \in Proc : CompareToken(p) \/ Unlock(p)
      BY DEF Next, vars, files, Step, Acquire, Recover, UpdateState, Begin, CreateLock,
             InspectLock, ProbeLock, Wait, CreateGuard, ReadGuard, ProbeGuard, RecheckLock,
             ReprobeDead, ReprobeAlive, UnlinkStale, DropGuard, ReadState, UpdateFails,
             ReplaceState, EnterRelease, FileError, Contention, Expire, Exit, Return
    <3> QED BY <3>1, <3>2
  <2> QED BY <2>1, <2>2
<1>3. TypeOK /\ LockInv /\ UpdateInv /\ AcknowledgedIsSaved /\ [Next]_vars
      => AcknowledgedIsSaved'
  BY <1>2
<1> QED
  BY <1>1, <1>3, LockInvariant, UpdateInvariant, PTL DEF Spec

------------------------------------------------------------------------------
(***************************************************************************)
(* The refinement: reading, changing and replacing under the lock is one   *)
(* atomic update of the state file.  Only the replacement, the end of a    *)
(* call, its beginning and an exit are visible; the rest stutters.         *)
(***************************************************************************)
LEMMA RefinementStep ==
  ASSUME TypeOK, LockInv, UpdateInv, [Next]_vars
  PROVE  [Abstract!Next]_(Abstract!vars)
<1> USE DEF TypeOK, Waiting, Recovering, Critical, At, Goto, files, Mine,
            Abstract!vars, Abstract!Next, Abstract!Update
<1>1. ASSUME NEW p \in Proc, Begin(p) PROVE Abstract!Begin(p)
  BY <1>1 DEF Begin, Abstract!Begin
<1>2. ASSUME NEW p \in Proc, ReplaceState(p) PROVE Abstract!Apply(p)
  BY <1>2 DEF ReplaceState, EnterRelease, Abstract!Apply, UpdateInv, SnapshotIsCurrent, SavedOnce
<1>3. ASSUME NEW p \in Proc, CompareToken(p) \/ Unlock(p)
      PROVE  Abstract!ReturnSaved(p) \/ Abstract!ReturnError(p) \/ UNCHANGED Abstract!vars
  BY <1>3 DEF CompareToken, Unlock, Return, Abstract!ReturnSaved, Abstract!ReturnError,
              UpdateInv, SavedOnce
<1>4. ASSUME NEW p \in Proc,
             ProbeGuard(p) \/ DropGuard(p) \/ Wait(p) \/ FileError(p)
      PROVE  Abstract!ReturnError(p) \/ UNCHANGED Abstract!vars
  BY <1>4 DEF ProbeGuard, DropGuard, Wait, FileError, Return, Abstract!ReturnError
<1>5. ASSUME NEW p \in Proc, Exit(p) PROVE Abstract!Exit(p)
  BY <1>5 DEF Exit, Abstract!Exit
<1>6. ASSUME NEW p \in Proc,
             \/ CreateLock(p) \/ InspectLock(p) \/ ProbeLock(p) \/ CreateGuard(p)
             \/ ReadGuard(p) \/ RecheckLock(p) \/ ReprobeDead(p) \/ ReprobeAlive(p)
             \/ UnlinkStale(p) \/ ReadState(p) \/ UpdateFails(p)
             \/ Contention(p) \/ Expire(p)
      PROVE  UNCHANGED Abstract!vars
  BY <1>6 DEF CreateLock, InspectLock, ProbeLock, CreateGuard, ReadGuard, RecheckLock,
              ReprobeDead, ReprobeAlive, UnlinkStale, ReadState, UpdateFails, EnterRelease,
              Contention, Expire
<1>7. CASE UNCHANGED vars
  BY <1>7 DEF vars
<1> QED
  BY <1>1, <1>2, <1>3, <1>4, <1>5, <1>6, <1>7
  DEF Next, Step, Acquire, Recover, UpdateState

\* withLock and update implement atomic updates of the state file: exactly one
\* update per call takes effect, and a call told of success has taken effect.
THEOREM Refinement ==
  ASSUME OwnersSurviveProbes
  PROVE  Spec => ImplementsAtomicUpdates
<1>1. Init => Abstract!Init
  BY DEF Init, Abstract!Init
<1>2. TypeOK /\ LockInv /\ UpdateInv /\ [Next]_vars => [Abstract!Next]_(Abstract!vars)
  BY RefinementStep
<1> QED
  BY <1>1, <1>2, LockInvariant, UpdateInvariant, PTL
  DEF Spec, Abstract!Spec, ImplementsAtomicUpdates

------------------------------------------------------------------------------
(* The owner of a lock (LockOwner) *)

\* The processes of one id follow one another, and the last one may run.
ProcessesFollow ==
    /\ now \in Nat /\ lives \in 0..MaxLives
    /\ starts \in [Life -> Nat] /\ ends \in [Life -> Nat] /\ origin \in Nat
    /\ \A l \in 1..lives : starts[l] <= now /\ starts[l] <= ends[l] /\ (ends[l] <= now \/ ends[l] = Running)
    /\ \A l \in Life : l > lives => ends[l] = Running
    /\ \A k, l \in 1..lives : k < l => ends[k] <= starts[l]
    /\ lives > 0 => starts[lives] <= origin /\ origin <= starts[lives] + Startup
    /\ now <= MaxTime

\* A record was made by a process while it ran, and may say when that started.
RightRecord(r) ==
    /\ r.life \in 1..lives
    /\ r.created \in Nat /\ starts[r.life] <= r.created /\ r.created <= now
    /\ r.start \in Nat \cup {Unknown}
    /\ r.start # Unknown /\ platform = "win32" =>
          starts[r.life] <= r.start /\ r.start <= starts[r.life] + Startup
    /\ r.start # Unknown /\ platform = "darwin" => r.start = Rounded(starts[r.life])

\* What is cached was read of a process that ran then, and of the present one if
\* that had started before.
CacheIsRight ==
    /\ cache.until \in Nat /\ cache.until <= now + Young /\ cache.value \in Nat \cup {Unknown}
    /\ cache.value # Unknown =>
          /\ \E l \in 1..lives : cache.value = starts[l] /\ cache.until <= ends[l] + Young
          /\ InUse /\ starts[lives] + Young < cache.until => cache.value = starts[lives]

\* What a probe knows at each of its steps.
ProbeIsRight ==
    /\ place \in {"rest", "id", "age", "ask", "read"}
    /\ begun \in Nat /\ begun <= now /\ asked \in Nat /\ asked <= now
    /\ reading \in Nat \cup {Unknown}
    /\ place # "rest" => RightRecord(judged) /\ verdict = "none" /\ reading = Unknown
    /\ verdict # "none" => RightRecord(judged)
    /\ place \in {"age", "ask", "read"} =>
          /\ platform \in {"win32", "darwin"}
          /\ \E l \in judged.life..lives : begun <= ends[l]
    /\ place \in {"ask", "read"} /\ platform = "win32" =>
          judged.start # Unknown /\ judged.created + Young <= now
    /\ place = "read" /\ platform = "win32" => judged.created + Young <= asked
    /\ place = "read" => begun <= asked

OwnerInv ==
    /\ platform \in Platforms
    /\ ProcessesFollow
    /\ held # NoLock => RightRecord(held)
    /\ CacheIsRight
    /\ ProbeIsRight
    /\ LiveOwnersAreSpared
    /\ DeadOwnersAreFound

LEMMA Bounds ==
  /\ Young \in Nat /\ Young > 0 /\ Slack \in Nat /\ Startup \in Nat /\ MaxTime \in Nat /\ MaxLives \in Nat
  /\ Running \in Nat /\ MaxTime < Running
  /\ Startup <= Slack /\ Unknown \notin Nat
BY OwnerAssumption DEF Running

\* Of the processes with one id, only the last can run.
LEMMA OnlyTheLastLives ==
  ASSUME ProcessesFollow, NEW l \in 1..lives, ends[l] = Running
  PROVE  l = lives
BY Bounds DEF ProcessesFollow, Life

LEMMA RoundedDown ==
  ASSUME NEW t \in Nat
  PROVE  Rounded(t) \in Nat /\ Rounded(t) <= t
BY OwnerAssumption DEF Rounded

LEMMA OwnerInitially == OwnerInit => OwnerInv
BY Bounds DEF OwnerInit, OwnerInv, ProcessesFollow, CacheIsRight, ProbeIsRight,
    LiveOwnersAreSpared, DeadOwnersAreFound, Life, NoLock, InUse, Lives

\* The processes follow one another, whatever happens.
LEMMA ProcessesGoOn == OwnerInv /\ [OwnerNext]_ownerVars => ProcessesFollow'
<1> SUFFICES ASSUME ProcessesFollow, [OwnerNext]_ownerVars PROVE ProcessesFollow'
  BY DEF OwnerInv
<1> USE Bounds DEF Running, ProcessesFollow, Life, InUse, Lives
<1>1. CASE Tick
  <2>1. now' = now + 1 /\ now' \in Nat /\ now' <= MaxTime
    BY <1>1 DEF Tick
  <2>2. UNCHANGED <<lives, starts, ends, origin>>
    BY <1>1 DEF Tick
  <2> QED BY <2>1, <2>2
<1>2. CASE Start
  <2>1. lives' = lives + 1 /\ lives' \in Life /\ starts' = [starts EXCEPT ![lives'] = now]
    BY <1>2 DEF Start
  <2>2. UNCHANGED <<now, ends>> /\ origin' \in Nat /\ now <= origin' /\ origin' <= now + Startup
    <3>1. PICK late \in 0..Startup : origin' = now + late
      BY <1>2 DEF Start
    <3> QED BY <1>2, <3>1 DEF Start
  <2>3. \A l \in 1..lives : starts'[l] = starts[l]
    BY <2>1
  <2>4. ASSUME NEW l \in 1..lives PROVE ends[l] <= now
    <3>1. ends[lives] <= now
      BY <1>2, <2>4 DEF Start
    <3>2. CASE l = lives
      BY <3>1, <3>2
    <3>3. CASE l < lives
      <4>1. ends[l] <= starts[lives] /\ starts[lives] <= now
        BY <3>3
      <4> QED BY <4>1
    <3> QED BY <3>2, <3>3
  <2>5. starts'[lives'] = now /\ starts' \in [Life -> Nat] /\ lives' \in 0..MaxLives
    BY <2>1
  <2>6. \A k, l \in 1..lives' : k < l => ends[k] <= starts'[l]
    BY <2>1, <2>3, <2>4, <2>5
  <2>7. \A l \in 1..lives' : starts'[l] <= now /\ starts'[l] <= ends[l] /\ (ends[l] <= now \/ ends[l] = Running)
    BY <2>1, <2>3, <2>5
  <2>8. \A l \in Life : l > lives' => ends[l] = Running
    BY <2>1
  <2> QED BY <2>2, <2>5, <2>6, <2>7, <2>8
<1>3. CASE End BY <1>3 DEF End
<1>4. CASE UNCHANGED processes BY <1>4 DEF processes
<1> QED BY <1>1, <1>2, <1>3, <1>4 DEF OwnerNext, ownerVars, processes,
    WriteLock, RemoveLock, ReadLock, ProbeId, ProbeAge, Ask, ReadStart

\* What was so of the processes stays so, and the clock goes on.
LEMMA ProcessesStay ==
  ASSUME OwnerInv, [OwnerNext]_ownerVars
  PROVE  /\ now \in Nat /\ now' \in Nat /\ now <= now'
         /\ lives \in Nat /\ lives' \in Nat /\ lives <= lives'
         /\ \A l \in 1..lives : starts'[l] = starts[l]
         /\ \A l \in 1..lives : ends'[l] = ends[l] \/ (ends[l] = Running /\ ends'[l] = now /\ now' = now)
         /\ platform' = platform
<1>1. ProcessesFollow /\ ProcessesFollow'
  BY ProcessesGoOn DEF OwnerInv
<1>2. CASE Tick BY <1>1, <1>2 DEF Tick, ProcessesFollow
<1>3. CASE Start
  <2>1. lives' = lives + 1 /\ starts' = [starts EXCEPT ![lives'] = now] /\ UNCHANGED <<platform, now, ends>>
    BY <1>3 DEF Start
  <2> QED BY <1>1, <2>1 DEF ProcessesFollow, Life
<1>4. CASE End BY <1>1, <1>4 DEF End, ProcessesFollow, Life, InUse, Lives
<1>5. CASE UNCHANGED <<platform, processes>> BY <1>1, <1>5 DEF processes, ProcessesFollow
<1> QED BY <1>2, <1>3, <1>4, <1>5 DEF OwnerNext, ownerVars, processes,
    WriteLock, RemoveLock, ReadLock, ProbeId, ProbeAge, Ask, ReadStart

\* The records stay right, that of the lock and the one that is judged.
LEMMA RecordsStay ==
  ASSUME OwnerInv, [OwnerNext]_ownerVars
  PROVE  /\ held' # NoLock => RightRecord(held)'
         /\ RightRecord(judged) => (judged' = judged => RightRecord(judged)')
         /\ ReadLock => RightRecord(judged)'
<1>1. ProcessesFollow' /\ ProcessesFollow
  BY ProcessesGoOn DEF OwnerInv
<1>2. ASSUME NEW r, RightRecord(r)
      PROVE  /\ r.life \in 1..lives'
             /\ starts'[r.life] = starts[r.life] /\ r.created <= now' /\ platform' = platform
  BY <1>2, ProcessesStay DEF RightRecord
<1>3. RightRecord(judged) => (judged' = judged => RightRecord(judged)')
  <2>1. SUFFICES ASSUME RightRecord(judged), judged' = judged PROVE RightRecord(judged)'
    OBVIOUS
  <2> QED BY <1>2, <2>1 DEF RightRecord, Rounded
<1>4. ASSUME held' = held, held # NoLock PROVE RightRecord(held)'
  <2>1. RightRecord(held)
    BY <1>4 DEF OwnerInv
  <2> QED BY <1>2, <1>4, <2>1 DEF RightRecord, Rounded
<1>5. ReadLock => RightRecord(judged)'
  <2>1. SUFFICES ASSUME ReadLock PROVE RightRecord(judged)'
    OBVIOUS
  <2>2. RightRecord(held) /\ judged' = held
    BY <2>1 DEF ReadLock, OwnerInv
  <2> QED BY <1>2, <2>2 DEF RightRecord, Rounded
<1>6. held' # NoLock => RightRecord(held)'
  <2>1. CASE WriteLock
    <3>1. PICK created \in origin..now, start \in OwnStart :
             held' = [life |-> lives, created |-> created, start |-> start]
      BY <2>1 DEF WriteLock
    <3>2. lives \in Life /\ starts[lives] \in Nat /\ starts[lives] <= origin /\ origin <= starts[lives] + Startup
      BY <1>1, <2>1, Bounds DEF WriteLock, InUse, Lives, ProcessesFollow, Life
    <3>3. /\ start \in Nat \cup {Unknown}
          /\ start # Unknown /\ platform = "win32" => start = origin
          /\ start # Unknown /\ platform = "darwin" => start = Rounded(starts[lives])
      BY <1>1, <3>2, RoundedDown DEF OwnStart, ProcessesFollow
    <3>4. UNCHANGED <<platform, lives, starts, now>>
      BY <2>1 DEF WriteLock, processes
    <3>5. /\ held'.life = lives /\ held'.created = created /\ held'.start = start
          /\ created \in Nat /\ origin <= created /\ created <= now /\ lives \in 1..lives
      BY <1>1, <3>1, <3>2, Bounds DEF ProcessesFollow, Life
    <3> HIDE <3>1
    <3> QED BY <1>1, <3>2, <3>3, <3>4, <3>5, Bounds DEF RightRecord, Rounded, ProcessesFollow
  <2>2. CASE RemoveLock BY <2>2 DEF RemoveLock
  <2>3. CASE held' = held BY <1>4, <2>3
  <2> QED BY <2>1, <2>2, <2>3 DEF OwnerNext, ownerVars, Tick, Start, End, ReadLock, ProbeId, ProbeAge, Ask, ReadStart
<1> QED BY <1>3, <1>5, <1>6

\* A cached reading stays right until it is too old.
LEMMA CacheStays == OwnerInv /\ [OwnerNext]_ownerVars => CacheIsRight'
<1> SUFFICES ASSUME OwnerInv, [OwnerNext]_ownerVars PROVE CacheIsRight'
  OBVIOUS
<1>1. ProcessesFollow /\ ProcessesFollow' /\ CacheIsRight
  BY ProcessesGoOn DEF OwnerInv
<1> USE Bounds DEF CacheIsRight, InUse, Lives
<1>2. CASE Tick
  BY <1>1, <1>2 DEF Tick, probe, ProcessesFollow
<1>3. CASE Start
  <2>1. lives' = lives + 1 /\ starts' = [starts EXCEPT ![lives'] = now] /\ UNCHANGED <<now, ends, cache>>
    BY <1>3 DEF Start, probe
  <2>2. starts'[lives'] = now /\ lives \in Nat /\ now \in Nat /\ \A l \in 1..lives : starts'[l] = starts[l]
    BY <1>1, <2>1 DEF ProcessesFollow, Life
  <2> QED BY <1>1, <2>1, <2>2
<1>4. CASE End
  <2>1. ends' = [ends EXCEPT ![lives] = now] /\ UNCHANGED <<now, lives, starts, cache>>
    BY <1>4 DEF End, probe
  <2>2. lives \in 1..lives /\ ends'[lives] = now /\ now # Running /\ \A l \in 1..lives : l # lives => ends'[l] = ends[l]
    BY <1>1, <1>4, <2>1 DEF End, ProcessesFollow, Life
  <2> QED BY <1>1, <2>1, <2>2 DEF ProcessesFollow
<1>5. CASE ReadStart
  <2>1. UNCHANGED <<now, lives, starts, ends>>
    BY <1>5 DEF ReadStart, processes
  <2>2. CASE cache' = cache
    BY <1>1, <2>1, <2>2 DEF ProcessesFollow
  <2>3. CASE cache' = [until |-> asked + Young, value |-> Unknown]
    <3>1. asked \in Nat /\ asked <= now /\ now \in Nat
      BY <1>1 DEF OwnerInv, ProbeIsRight, ProcessesFollow
    <3> QED BY <2>1, <2>3, <3>1
  <2>4. CASE InUse /\ cache' = [until |-> asked + Young, value |-> starts[lives]]
    <3>1. asked \in Nat /\ asked <= now /\ now \in Nat /\ now <= MaxTime
      BY <1>1 DEF OwnerInv, ProbeIsRight, ProcessesFollow
    <3>2. lives \in 1..lives /\ ends[lives] = Running /\ starts[lives] \in Nat
      BY <1>1, <2>4 DEF ProcessesFollow, Life
    <3> QED BY <2>1, <2>4, <3>1, <3>2
  <2> QED BY <1>5, <2>2, <2>3, <2>4 DEF ReadStart
<1>6. CASE UNCHANGED <<processes, cache>>
  BY <1>1, <1>6 DEF processes
<1> QED BY <1>2, <1>3, <1>4, <1>5, <1>6 DEF OwnerNext, ownerVars, probe, WriteLock, RemoveLock, ReadLock, ProbeId, ProbeAge, Ask

\* What the probe knows stays right while only the processes or the lock change.
LEMMA KnownStays ==
  ASSUME OwnerInv, [OwnerNext]_ownerVars, UNCHANGED probe
  PROVE  ProbeIsRight' /\ LiveOwnersAreSpared' /\ DeadOwnersAreFound'
<1> USE Bounds
<1>1. ProcessesFollow /\ ProcessesFollow' /\ ProbeIsRight /\ LiveOwnersAreSpared /\ DeadOwnersAreFound
  BY ProcessesGoOn DEF OwnerInv
<1>2. UNCHANGED <<platform, judged, place, begun, asked, cache, reading, verdict>>
  BY DEF probe, OwnerNext, ownerVars, Tick, Start, End, WriteLock, RemoveLock,
      ReadLock, ProbeId, ProbeAge, Ask, ReadStart
<1>3. /\ now <= now' /\ lives <= lives'
      /\ \A l \in 1..lives : starts'[l] = starts[l] /\ (ends'[l] = ends[l] \/ (ends[l] = Running /\ ends'[l] = now /\ now' = now))
  BY ProcessesStay
<1>4. RightRecord(judged) => RightRecord(judged)'
  BY <1>2, RecordsStay
<1>5. ASSUME place # "rest" \/ verdict # "none" PROVE judged.life \in 1..lives /\ RightRecord(judged)
  BY <1>1, <1>5 DEF ProbeIsRight, RightRecord
<1>6. /\ now \in Nat /\ now' \in Nat /\ lives \in Nat /\ lives' \in Nat /\ begun \in Nat /\ begun <= now
      /\ now < Running /\ \A l \in 1..lives : ends[l] \in Nat /\ starts[l] \in Nat
  <2>1. now \in Nat /\ now' \in Nat /\ lives \in Nat /\ lives' \in Nat /\ now < Running
    BY <1>1 DEF ProcessesFollow
  <2>2. \A l \in 1..lives : ends[l] \in Nat /\ starts[l] \in Nat
    <3>1. MaxLives \in Nat /\ lives \in 0..MaxLives
      BY <1>1, OwnerAssumption DEF ProcessesFollow
    <3>2. starts \in [1..MaxLives -> Nat] /\ ends \in [1..MaxLives -> Nat]
      BY <1>1 DEF ProcessesFollow, Life
    <3>3. \A l \in 1..lives : l \in 1..MaxLives
      BY <3>1
    <3> QED BY <3>2, <3>3
  <2>3. begun \in Nat /\ begun <= now
    BY <1>1 DEF ProbeIsRight
  <2> QED BY <2>1, <2>2, <2>3
<1>7. ProbeIsRight'
  <2>1. place \in {"age", "ask", "read"} => \E l \in judged.life..lives' : begun <= ends'[l]
    <3>1. SUFFICES ASSUME place \in {"age", "ask", "read"} PROVE \E l \in judged.life..lives' : begun <= ends'[l]
      OBVIOUS
    <3>2. PICK l \in judged.life..lives : begun <= ends[l]
      BY <1>1, <3>1 DEF ProbeIsRight
    <3>3. l \in 1..lives /\ l \in judged.life..lives'
      BY <1>3, <1>5, <1>6, <3>1, <3>2
    <3> QED BY <1>3, <1>6, <3>2, <3>3
  <2>2. /\ place \in {"id", "age", "ask", "read"} => RightRecord(judged)' /\ verdict = "none"
        /\ verdict # "none" => RightRecord(judged)'
    BY <1>1, <1>4 DEF ProbeIsRight
  <2>3. place \in {"ask", "read"} => judged.created \in Nat
    BY <1>5 DEF RightRecord
  <2> QED BY <1>1, <1>2, <1>3, <1>6, <2>1, <2>2, <2>3 DEF ProbeIsRight
<1>8. LiveOwnersAreSpared'
  <2>1. SUFFICES ASSUME verdict = "dead" PROVE ~Lives(judged.life)'
    BY <1>2 DEF LiveOwnersAreSpared
  <2> QED BY <1>1, <1>2, <1>3, <1>5, <1>6, <2>1 DEF LiveOwnersAreSpared, Lives, Running
<1>9. DeadOwnersAreFound'
  <2>1. SUFFICES ASSUME verdict = "alive", ends'[judged.life] + Young <= begun PROVE DeadOwnersAreFound'
    BY <1>2 DEF DeadOwnersAreFound
  <2>2. judged.life \in 1..lives /\ ends[judged.life] + Young <= begun /\ starts'[judged.life] = starts[judged.life]
    <3>1. judged.life \in 1..lives
      BY <1>5, <2>1
    <3>2. CASE ends'[judged.life] = ends[judged.life]
      BY <1>3, <2>1, <3>1, <3>2
    <3>3. CASE ends[judged.life] = Running /\ ends'[judged.life] = now /\ now' = now
      <4>1. Running + Young > begun
        BY <1>6
      <4> QED BY <1>3, <1>6, <2>1, <3>1, <3>3, <4>1
    <3> QED BY <1>3, <3>1, <3>2, <3>3
  <2> DEFINE later == judged.life + 1..lives
  <2>3. later \subseteq 1..lives /\ later \subseteq judged.life + 1..lives'
    BY <1>3, <1>6, <2>2
  <2>4. \A l \in later : starts'[l] = starts[l] /\ (begun <= ends[l] => begun <= ends'[l])
    BY <1>3, <1>6, <2>3
  <2> QED BY <1>1, <1>2, <2>1, <2>2, <2>3, <2>4 DEF DeadOwnersAreFound, Rounded
<1> QED BY <1>7, <1>8, <1>9

\* The order of the lives: types
LEMMA LivesAreTyped ==
  ASSUME ProcessesFollow, NEW l \in 1..lives
  PROVE  l \in Life /\ starts[l] \in Nat /\ ends[l] \in Nat /\ lives \in Nat /\ l \in Nat
<1>1. lives \in Nat /\ lives <= MaxLives /\ l \in Life
  BY Bounds DEF ProcessesFollow, Life
<1> QED BY <1>1 DEF ProcessesFollow

\* The order of the lives: who ended later came later.
LEMMA LaterLife ==
  ASSUME ProcessesFollow, NEW k \in 1..lives, NEW l \in 1..lives, ends[k] < ends[l]
  PROVE  k < l
<1>1. ends[k] \in Nat /\ ends[l] \in Nat /\ starts[l] \in Nat /\ starts[k] \in Nat /\ lives \in Nat
  BY LivesAreTyped
<1>2. CASE l < k
  <2>1. ends[l] <= starts[k] /\ starts[k] <= ends[k]
    BY <1>2 DEF ProcessesFollow
  <2> QED BY <1>1, <2>1
<1> QED BY <1>1, <1>2

\* A process that is judged by the start of the one that has its id now, or had it
\* within the last second, is spared while it lives.
LEMMA CompareSpares ==
  ASSUME ProcessesFollow, RightRecord(judged), NEW start \in Nat \cup {Unknown},
         start # Unknown /\ Lives(judged.life) =>
            start = IF platform = "win32" THEN starts[lives] ELSE Rounded(starts[lives]),
         platform \in {"win32", "darwin"}, platform = "win32" => judged.start # Unknown,
         Compare(start) = "dead"
  PROVE  ~Lives(judged.life)
<1> SUFFICES ASSUME Lives(judged.life) PROVE FALSE
  OBVIOUS
<1>1. judged.life = lives /\ lives \in 1..lives /\ starts[lives] \in Nat
  BY OnlyTheLastLives DEF Lives, ProcessesFollow, Life, RightRecord
<1>2. start \in Nat /\ start # Unknown
  BY Bounds DEF Compare
<1>3. CASE platform = "win32"
  <2>1. start = starts[lives] /\ judged.start \in Nat /\ start <= judged.start /\ judged.start <= start + Startup
    BY <1>1, <1>2, <1>3 DEF RightRecord
  <2> QED BY <1>2, <1>3, <2>1, Bounds DEF Compare
<1>4. CASE platform = "darwin"
  <2>1. start = Rounded(starts[lives]) /\ start <= starts[lives] /\ starts[lives] <= judged.created
    BY <1>1, <1>2, <1>4, RoundedDown DEF RightRecord
  <2>2. judged.start # Unknown => judged.start = start
    BY <1>1, <1>4, <2>1 DEF RightRecord
  <2>3. judged.created \in Nat /\ start <= judged.created + Slack
    BY <1>1, <1>2, <2>1, Bounds DEF RightRecord
  <2> QED BY <1>2, <1>4, <2>2, <2>3 DEF Compare
<1> QED BY <1>3, <1>4

\* A dead process is taken to be alive by such a start only if that tells nothing.
LEMMA CompareFinds ==
  ASSUME ProcessesFollow, RightRecord(judged), NEW start \in Nat \cup {Unknown},
         platform \in {"win32", "darwin"}, platform = "win32" => judged.start # Unknown,
         NEW l \in (judged.life + 1)..lives,
         start # Unknown => start = IF platform = "win32" THEN starts[l] ELSE Rounded(starts[l]),
         Compare(start) = "alive"
  PROVE  \/ start = Unknown
         \/ platform = "win32" /\ starts[l] <= starts[judged.life] + Startup + Slack
         \/ platform = "darwin" /\ IF judged.start = Unknown THEN Rounded(starts[l]) <= judged.created + Slack
                                   ELSE Rounded(starts[l]) = judged.start
<1> SUFFICES ASSUME start # Unknown PROVE
         \/ platform = "win32" /\ starts[l] <= starts[judged.life] + Startup + Slack
         \/ platform = "darwin" /\ IF judged.start = Unknown THEN Rounded(starts[l]) <= judged.created + Slack
                                   ELSE Rounded(starts[l]) = judged.start
  OBVIOUS
<1>1. judged.life \in Life /\ starts[judged.life] \in Nat /\ l \in Life /\ starts[l] \in Nat
  <2>1. judged.life \in 1..lives /\ l \in 1..lives
    BY DEF RightRecord, ProcessesFollow
  <2> QED BY <2>1, LivesAreTyped
<1>2. CASE platform = "win32"
  <2>1. judged.start \in Nat /\ judged.start <= starts[judged.life] + Startup /\ start = starts[l]
    BY <1>2 DEF RightRecord
  <2>2. start <= judged.start + Slack
    BY <1>2 DEF Compare
  <2> QED BY <1>1, <1>2, <2>1, <2>2, Bounds
<1>3. CASE platform = "darwin"
  BY <1>3 DEF Compare
<1> QED BY <1>2, <1>3

\* Each step of a probe keeps what it knows, and judges rightly.
LEMMA ProbeGoesOn ==
  ASSUME OwnerInv, ReadLock \/ ProbeId \/ ProbeAge \/ Ask \/ ReadStart
  PROVE  ProbeIsRight' /\ LiveOwnersAreSpared' /\ DeadOwnersAreFound'
<1>1. ProcessesFollow /\ ProbeIsRight /\ CacheIsRight /\ LiveOwnersAreSpared /\ DeadOwnersAreFound
  BY DEF OwnerInv
<1>2. UNCHANGED <<platform, now, lives, starts, ends>>
  BY DEF ReadLock, ProbeId, ProbeAge, Ask, ReadStart, processes
<1>3. now \in Nat /\ now < Running /\ lives \in Nat
  BY <1>1, Bounds DEF ProcessesFollow
<1>4. CASE ReadLock
  <2>1. held # NoLock => RightRecord(held)
    BY DEF OwnerInv
  <2>2. held # NoLock /\ judged' = held /\ begun' = now /\ reading' = Unknown /\ place' = "id" /\ verdict' = "none" /\ asked' = asked
    BY <1>4 DEF ReadLock
  <2>3. RightRecord(judged)'
    BY <1>2, <2>1, <2>2 DEF RightRecord, Rounded
  <2> QED BY <1>1, <1>2, <1>3, <2>2, <2>3 DEF ProbeIsRight, LiveOwnersAreSpared, DeadOwnersAreFound
<1>5. CASE ~ReadLock
  <2>1. UNCHANGED <<judged, begun>>
    BY <1>5 DEF ProbeId, ProbeAge, Ask, ReadStart
  <2>2. /\ RightRecord(judged) /\ verdict = "none"
        /\ begun \in Nat /\ begun <= now /\ asked \in Nat /\ asked <= now /\ reading \in Nat \cup {Unknown}
    BY <1>1, <1>5 DEF ProbeId, ProbeAge, Ask, ReadStart, ProbeIsRight
  <2>3. RightRecord(judged)'
    BY <1>2, <2>1, <2>2 DEF RightRecord, Rounded
  <2>4. judged.life \in 1..lives /\ judged.life \in Nat /\ ends[judged.life] \in Nat
    BY <1>1, <2>2, LivesAreTyped DEF RightRecord
  <2>5. CASE ProbeId
    <3>1. place = "id" /\ UNCHANGED <<asked, reading>>
      BY <2>5 DEF ProbeId
    <3>2. InUse => lives \in judged.life..lives /\ begun <= ends[lives] /\ ends[lives] = Running
      <4>1. judged.life <= lives /\ lives \in judged.life..lives
        BY <1>3, <2>4
      <4>2. InUse => ends[lives] = Running
        BY DEF InUse, Lives
      <4>3. Running \in Nat /\ begun <= Running
        BY <1>3, <2>2, Bounds
      <4> QED BY <4>1, <4>2, <4>3
    <3>3. CASE ~InUse
      <4>1. place' = "rest" /\ verdict' = "dead"
        BY <2>5, <3>3 DEF ProbeId, Judge
      <4>2. ~Lives(judged.life)
        BY <1>1, <2>4, <3>3, OnlyTheLastLives DEF InUse, Lives
      <4> QED BY <1>2, <1>3, <2>1, <2>2, <2>3, <3>1, <4>1, <4>2
            DEF ProbeIsRight, LiveOwnersAreSpared, DeadOwnersAreFound, Lives
    <3>4. CASE InUse /\ platform \notin {"win32", "darwin"}
      <4>1. place' = "rest" /\ verdict' = "alive"
        BY <2>5, <3>4 DEF ProbeId, Judge
      <4>2. ends[judged.life] + Young <= begun => lives \in judged.life + 1..lives
        BY <1>3, <2>2, <2>4, <3>2, <3>4, Bounds
      <4> QED BY <1>2, <1>3, <2>1, <2>2, <2>3, <3>1, <3>2, <3>4, <4>1, <4>2
            DEF ProbeIsRight, LiveOwnersAreSpared, DeadOwnersAreFound
    <3>5. CASE InUse /\ platform \in {"win32", "darwin"}
      <4>1. place' = (IF platform = "win32" THEN "age" ELSE "ask") /\ verdict' = "none"
        BY <2>2, <2>5, <3>5 DEF ProbeId, GoOn
      <4>2. reading = Unknown
        BY <1>1, <3>1 DEF ProbeIsRight
      <4> QED BY <1>2, <1>3, <2>1, <2>2, <2>3, <3>1, <3>2, <3>5, <4>1, <4>2
            DEF ProbeIsRight, LiveOwnersAreSpared, DeadOwnersAreFound
    <3> QED BY <3>3, <3>4, <3>5
  <2>6. CASE ProbeAge \/ Ask \/ ReadStart
    <3>1. place \in {"age", "ask", "read"}
      BY <2>6 DEF ProbeAge, Ask, ReadStart
    <3>2. platform \in {"win32", "darwin"} /\ reading = Unknown
      BY <1>1, <3>1 DEF ProbeIsRight
    <3>3. PICK m \in judged.life..lives : begun <= ends[m]
      BY <1>1, <3>1 DEF ProbeIsRight
    <3>4. ends[judged.life] + Young <= begun => m \in judged.life + 1..lives
      BY <1>3, <2>2, <2>4, <3>3, Bounds
    <3>5. CASE ProbeAge
      <4>1. place = "age" /\ UNCHANGED <<asked, reading>>
        BY <3>5 DEF ProbeAge
      <4>2. CASE place' = "rest" /\ verdict' = "alive"
        BY <1>2, <1>3, <2>1, <2>2, <2>3, <3>2, <3>3, <3>4, <4>1, <4>2
           DEF ProbeIsRight, LiveOwnersAreSpared, DeadOwnersAreFound
      <4>3. CASE place' = "ask" /\ verdict' = "none" /\ judged.start # Unknown /\ ~IsYoung
        <5>1. judged.created \in Nat /\ judged.created + Young <= now
          BY <1>3, <2>2, <4>3, Bounds DEF IsYoung, RightRecord
        <5> QED BY <1>2, <1>3, <2>1, <2>2, <2>3, <3>2, <3>3, <4>1, <4>3, <5>1
           DEF ProbeIsRight, LiveOwnersAreSpared, DeadOwnersAreFound
      <4> QED BY <2>2, <3>5, <4>2, <4>3 DEF ProbeAge, Judge, GoOn
    <3>6. ASSUME Ask \/ ReadStart, place' = "rest", verdict' = Compare(reading'), asked' \in {0, asked},
                 reading' \in Nat \cup {Unknown},
                 reading' # Unknown /\ Lives(judged.life) =>
                    reading' = IF platform = "win32" THEN starts[lives] ELSE Rounded(starts[lives]),
                 reading' # Unknown /\ ends[judged.life] + Young <= begun =>
                    \E l \in judged.life + 1..lives :
                       reading' = IF platform = "win32" THEN starts[l] ELSE Rounded(starts[l])
          PROVE  ProbeIsRight' /\ LiveOwnersAreSpared' /\ DeadOwnersAreFound'
      <4>1. place \in {"ask", "read"} /\ (platform = "win32" => judged.start # Unknown)
        BY <1>1, <3>6 DEF Ask, ReadStart, ProbeIsRight
      <4>2. verdict' \in {"alive", "dead"}
        BY <3>6 DEF Compare
      <4>3. ProbeIsRight'
        <5>1. begun' \in Nat /\ begun' <= now' /\ asked' \in Nat /\ asked' <= now'
          BY <1>2, <1>3, <2>1, <2>2, <3>6
        <5>2. place' = "rest" /\ reading' \in Nat \cup {Unknown}
          BY <3>6
        <5> QED BY <2>3, <5>1, <5>2 DEF ProbeIsRight
      <4>4. LiveOwnersAreSpared'
        <5>1. SUFFICES ASSUME verdict' = "dead" PROVE ~Lives(judged.life)
          BY <1>2, <2>1 DEF LiveOwnersAreSpared, Lives
        <5>2. Compare(reading') = "dead"
          BY <3>6, <5>1
        <5> HIDE DEF Compare
        <5> QED BY <1>1, <2>2, <3>2, <3>6, <4>1, <5>2, CompareSpares
      <4>5. DeadOwnersAreFound'
        <5>1. SUFFICES ASSUME verdict' = "alive", ends[judged.life] + Young <= begun
                       PROVE  DeadOwnersAreFound'
          BY <1>2, <2>1 DEF DeadOwnersAreFound
        <5>2. m \in judged.life + 1..lives /\ begun <= ends[m]
          BY <3>3, <3>4, <5>1
        <5>3. CASE reading' = Unknown
          BY <1>2, <2>1, <5>2, <5>3 DEF DeadOwnersAreFound
        <5>4. CASE reading' # Unknown
          <6>1. PICK l \in judged.life + 1..lives :
                   reading' = IF platform = "win32" THEN starts[l] ELSE Rounded(starts[l])
            BY <3>6, <5>1, <5>4
          <6>2. Compare(reading') = "alive"
            BY <3>6, <5>1
          <6>3. \/ platform = "win32" /\ starts[l] <= starts[judged.life] + Startup + Slack
                \/ platform = "darwin" /\ IF judged.start = Unknown THEN Rounded(starts[l]) <= judged.created + Slack
                                          ELSE Rounded(starts[l]) = judged.start
            BY <1>1, <2>2, <3>2, <3>6, <4>1, <5>4, <6>1, <6>2, CompareFinds
          <6> QED BY <1>2, <2>1, <5>2, <6>3 DEF DeadOwnersAreFound, Rounded
        <5> QED BY <5>3, <5>4
      <4> QED BY <4>3, <4>4, <4>5
    <3>7. CASE Ask
      <4>1. CASE Cached
        <5>1. platform = "win32" /\ now < cache.until /\ reading' = cache.value
              /\ place' = "rest" /\ verdict' = Compare(reading') /\ asked' = asked
          BY <3>7, <4>1 DEF Ask, Cached, Judge
        <5>2. judged.created \in Nat /\ starts[judged.life] <= judged.created /\ judged.created + Young <= now
          BY <1>1, <2>2, <3>7, <5>1 DEF Ask, ProbeIsRight, RightRecord
        <5>3. cache.value \in Nat \cup {Unknown} /\ cache.until \in Nat
          BY <1>1 DEF CacheIsRight
        <5>4. reading' # Unknown /\ Lives(judged.life) => reading' = starts[lives]
          <6>1. SUFFICES ASSUME reading' # Unknown, Lives(judged.life) PROVE reading' = starts[lives]
            OBVIOUS
          <6>2. judged.life = lives /\ InUse /\ starts[lives] \in Nat
            BY <1>1, <2>4, <6>1, OnlyTheLastLives, LivesAreTyped DEF Lives, InUse
          <6>3. starts[lives] + Young < cache.until
            BY <1>3, <5>1, <5>2, <5>3, <6>2, Bounds
          <6> QED BY <1>1, <5>1, <6>1, <6>2, <6>3 DEF CacheIsRight
        <5>5. reading' # Unknown /\ ends[judged.life] + Young <= begun =>
                 \E l \in judged.life + 1..lives : reading' = starts[l]
          <6>1. SUFFICES ASSUME reading' # Unknown, ends[judged.life] + Young <= begun
                         PROVE  \E l \in judged.life + 1..lives : reading' = starts[l]
            OBVIOUS
          <6>2. PICK l \in 1..lives : cache.value = starts[l] /\ cache.until <= ends[l] + Young
            BY <1>1, <5>1, <6>1 DEF CacheIsRight
          <6>3. ends[l] \in Nat /\ l \in Nat
            BY <1>1, LivesAreTyped
          <6>4. ends[judged.life] < ends[l]
            BY <1>3, <2>2, <2>4, <5>1, <5>3, <6>1, <6>2, <6>3, Bounds
          <6>5. judged.life < l
            BY <1>1, <2>4, <6>4, LaterLife
          <6> QED BY <1>3, <2>4, <5>1, <6>2, <6>3, <6>5
        <5> QED BY <3>6, <3>7, <5>1, <5>3, <5>4, <5>5
      <4>2. CASE ~Cached
        <5>1. place = "ask" /\ place' = "read" /\ verdict' = "none" /\ asked' = now /\ reading' = reading
          BY <2>2, <3>7, <4>2 DEF Ask, GoOn
        <5>2. platform = "win32" => judged.start # Unknown /\ judged.created + Young <= now
          BY <1>1, <5>1 DEF ProbeIsRight
        <5> QED BY <1>2, <1>3, <2>1, <2>2, <2>3, <3>2, <3>3, <5>1, <5>2
           DEF ProbeIsRight, LiveOwnersAreSpared, DeadOwnersAreFound
      <4> QED BY <4>1, <4>2
    <3>8. CASE ReadStart
      <4>1. place' = "rest" /\ verdict' = Compare(reading') /\ asked' = 0
        BY <3>8 DEF ReadStart, Judge
      <4>2. CASE reading' = Unknown
        BY <3>6, <3>8, <4>1, <4>2
      <4>3. CASE InUse /\ reading' = IF platform = "win32" THEN starts[lives] ELSE Rounded(starts[lives])
        <5>1. lives \in 1..lives /\ starts[lives] \in Nat
          BY <1>1, <4>3, LivesAreTyped DEF InUse, Lives
        <5>2. reading' \in Nat
          BY <4>3, <5>1, RoundedDown
        <5>3. ends[judged.life] + Young <= begun => lives \in judged.life + 1..lives
          BY <1>3, <2>2, <2>4, <4>3, Bounds DEF InUse, Lives
        <5> QED BY <3>6, <3>8, <4>1, <4>3, <5>2, <5>3
      <4> QED BY <3>8, <4>2, <4>3 DEF ReadStart
    <3> QED BY <2>6, <3>5, <3>7, <3>8
  <2> QED BY <1>5, <2>5, <2>6
<1> QED BY <1>4, <1>5

\* The invariant of the processes with an id, a lock of one, and its probe.
THEOREM OwnerInvariant == OwnerSpec => []OwnerInv
<1>1. OwnerInit => OwnerInv
  BY OwnerInitially
<1>2. OwnerInv /\ [OwnerNext]_ownerVars => OwnerInv'
  <2> SUFFICES ASSUME OwnerInv, [OwnerNext]_ownerVars PROVE OwnerInv'
    OBVIOUS
  <2>1. platform' \in Platforms
    BY ProcessesStay DEF OwnerInv
  <2>2. ProcessesFollow' /\ CacheIsRight' /\ (held' # NoLock => RightRecord(held)')
    BY ProcessesGoOn, CacheStays, RecordsStay
  <2>3. ProbeIsRight' /\ LiveOwnersAreSpared' /\ DeadOwnersAreFound'
    <3>1. CASE UNCHANGED probe
      BY <3>1, KnownStays
    <3>2. CASE ReadLock \/ ProbeId \/ ProbeAge \/ Ask \/ ReadStart
      BY <3>2, ProbeGoesOn
    <3> QED BY <3>1, <3>2 DEF OwnerNext, ownerVars, Tick, Start, End, WriteLock, RemoveLock
  <2> QED BY <2>1, <2>2, <2>3 DEF OwnerInv, NoLock
<1> QED BY <1>1, <1>2, PTL DEF OwnerSpec

\* No live owner is judged dead.
THEOREM LiveOwners == OwnerSpec => []LiveOwnersAreSpared
BY OwnerInvariant, PTL DEF OwnerInv

\* An owner that is dead for long is found, unless nothing tells it from another process.
THEOREM DeadOwners == OwnerSpec => []DeadOwnersAreFound
BY OwnerInvariant, PTL DEF OwnerInv

==============================================================================
