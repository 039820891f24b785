------------------------------- MODULE LockOwner -------------------------------
(***************************************************************************)
(* Whether the owner of a lock lives: lockOwner and lockOwnerAlive of      *)
(* lib/store.mjs, macLockOwnerAlive, and the probes behind them.  A lock   *)
(* names its owner by a process id, which the system gives to another      *)
(* process later, and by what tells the two apart: when the owner started. *)
(* StateLock relies on what is judged here.                                *)
(*                                                                         *)
(* The processes of one id follow one another.  One of them may leave a    *)
(* lock, and a process with another id judges it, which takes several      *)
(* steps, one per call of the system, while the others go on.  The clock   *)
(* is the one that all of them read; it is taken not to go back.           *)
(***************************************************************************)
EXTENDS Naturals

CONSTANTS
    Platforms,  \* of "win32", "darwin" and all others
    Young,      \* a lock or a reading this old (1 s) is no longer young
    Slack,      \* by how much two start times of one process may differ (5 s)
    Startup,    \* how long Node.js takes until it notes its own start
    Second,     \* what ps rounds a start to
    Unknown,    \* a start that is not recorded, or could not be read
    MaxTime,    \* how far the clock goes (a bound on runs)
    MaxLives    \* how many processes get the id (a bound on runs)

ASSUME OwnerAssumption ==
    /\ {Slack, Startup, MaxTime, MaxLives} \subseteq Nat /\ {Young, Second} \subseteq Nat \ {0}
    /\ Startup <= Slack /\ Unknown \notin Nat

Life == 1..MaxLives
Running == MaxTime + 1 \* the end of a process that runs
NoLock == [life |-> 0]

VARIABLES
    platform,   \* process.platform
    now,        \* Date.now()
    lives,      \* how many processes have had the id
    starts,     \* starts[l]: when the l-th of them started
    origin,     \* when the last one noted its own start (performance.timeOrigin)
    ends,       \* ends[l]: when it ended
    held,       \* the lock file
    judged,     \* the record that was read of it
    place,      \* the next step of the probe
    begun,      \* when it began
    asked,      \* when a start was asked for, until it is there
    cache,      \* processStartCache: the last reading, and until when it is used
    reading,    \* the start that is compared
    verdict     \* the answer

processes == <<now, lives, starts, origin, ends>>
probe == <<judged, place, begun, asked, cache, reading, verdict>>
ownerVars == <<platform, processes, held, probe>>

OwnerInit ==
    /\ platform \in Platforms
    /\ now = 0 /\ lives = 0
    /\ starts = [l \in Life |-> 0] /\ ends = [l \in Life |-> Running] /\ origin = 0
    /\ held = NoLock /\ judged = NoLock
    /\ place = "rest" /\ begun = 0 /\ asked = 0
    /\ cache = [until |-> 0, value |-> Unknown]
    /\ reading = Unknown /\ verdict = "none"

------------------------------------------------------------------------------
(* The processes with the id *)

Lives(l) == l \in 1..lives /\ ends[l] = Running
InUse == Lives(lives)

Tick ==
    /\ now < MaxTime
    /\ now' = now + 1
    /\ UNCHANGED <<platform, lives, starts, origin, ends, held, probe>>

Start ==
    /\ ~InUse /\ lives < MaxLives
    /\ lives' = lives + 1
    /\ starts' = [starts EXCEPT ![lives'] = now]
    /\ \E late \in 0..Startup : origin' = now + late
    /\ UNCHANGED <<platform, now, ends, held, probe>>

End ==
    /\ InUse
    /\ ends' = [ends EXCEPT ![lives] = now]
    /\ UNCHANGED <<platform, now, lives, starts, origin, held, probe>>

\* readMacProcessStart: ps knows the second.
Rounded(start) == start - (start % Second)

\* lockOwner: the record holds when the call began, and on Windows and macOS when
\* its process did; on macOS only if ps could say it, and in older locks never.
OwnStart ==
    CASE platform = "win32" -> {origin, Unknown}
      [] platform = "darwin" -> {Rounded(starts[lives]), Unknown}
      [] OTHER -> {Unknown}

WriteLock ==
    /\ InUse /\ origin <= now /\ held = NoLock
    /\ \E created \in origin..now, start \in OwnStart :
          held' = [life |-> lives, created |-> created, start |-> start]
    /\ UNCHANGED <<platform, processes, probe>>

\* The lock goes with its owner's release, or after a recovery.
RemoveLock ==
    /\ held # NoLock
    /\ Lives(held.life) \/ (verdict = "dead" /\ judged = held)
    /\ held' = NoLock
    /\ UNCHANGED <<platform, processes, probe>>

------------------------------------------------------------------------------
(* lockOwnerAlive *)

Judge(answer) == verdict' = answer /\ place' = "rest"
GoOn(next) == place' = next /\ UNCHANGED verdict

ReadLock ==
    /\ place = "rest" /\ held # NoLock
    /\ judged' = held /\ begun' = now /\ reading' = Unknown
    /\ place' = "id" /\ verdict' = "none"
    /\ UNCHANGED <<platform, processes, held, asked, cache>>

\* processAlive: with nobody under the id the owner is dead; elsewhere than on
\* Windows and macOS nothing else is known.
ProbeId ==
    /\ place = "id"
    /\ IF ~InUse THEN Judge("dead")
       ELSE IF platform \notin {"win32", "darwin"} THEN Judge("alive")
       ELSE GoOn(IF platform = "win32" THEN "age" ELSE "ask")
    /\ UNCHANGED <<platform, processes, held, judged, begun, asked, cache, reading>>

\* Mutant of IsYoung: the age of a lock is not looked at.
NeverYoung == FALSE

\* On Windows the owner of a young lock is alive: what is cached may be older.
IsYoung == now < judged.created + Young
ProbeAge ==
    /\ place = "age"
    /\ IF judged.start = Unknown \/ IsYoung THEN Judge("alive") ELSE GoOn("ask")
    /\ UNCHANGED <<platform, processes, held, judged, begun, asked, cache, reading>>

\* The record's start against the one that was read; the older locks of macOS have
\* none, and a process that started well after the lock was made is not its owner.
Compare(start) ==
    IF start = Unknown THEN "alive"
    ELSE IF platform = "win32"
    THEN IF start <= judged.start + Slack /\ judged.start <= start + Slack THEN "alive" ELSE "dead"
    ELSE IF judged.start = Unknown
    THEN IF start <= judged.created + Slack THEN "alive" ELSE "dead"
    ELSE IF start = judged.start THEN "alive" ELSE "dead"

\* Mutant of Cached: readings are kept for good.
CachedForGood == platform = "win32" /\ cache.value # Unknown

\* windowsProcessStartFt keeps a reading for a second; readMacProcessStart keeps none.
Cached == platform = "win32" /\ now < cache.until

Ask ==
    /\ place = "ask"
    /\ IF Cached THEN reading' = cache.value /\ Judge(Compare(reading')) /\ UNCHANGED asked
       ELSE GoOn("read") /\ asked' = now /\ UNCHANGED reading
    /\ UNCHANGED <<platform, processes, held, judged, begun, cache>>

\* PowerShell or ps says when the process that has the id now started, or nothing.
ReadStart ==
    /\ place = "read"
    /\ \/ reading' = Unknown
       \/ /\ InUse
          /\ reading' = IF platform = "win32" THEN starts[lives] ELSE Rounded(starts[lives])
    /\ cache' = IF platform = "win32" THEN [until |-> asked + Young, value |-> reading'] ELSE cache
    /\ asked' = 0
    /\ Judge(Compare(reading'))
    /\ UNCHANGED <<platform, processes, held, judged, begun>>

OwnerNext ==
    \/ Tick \/ Start \/ End \/ WriteLock \/ RemoveLock
    \/ ReadLock \/ ProbeId \/ ProbeAge \/ Ask \/ ReadStart

OwnerSpec == OwnerInit /\ [][OwnerNext]_ownerVars

------------------------------------------------------------------------------
(* Properties *)

\* Only a dead owner is judged dead, whichever processes get its id, whatever a
\* probe misses, and although a start may have been read before the owner's own
\* process began (lockOwnerAlive, windowsProcessStartFt, macLockOwnerAlive).
LiveOwnersAreSpared == verdict = "dead" => ~Lives(judged.life)

\* An owner that ended a second before it was probed is taken to be alive only if
\* another process has its id, and nothing tells the two apart: the platform has no
\* start times, the probe or the lock has none, or a later process, which may have
\* ended within the last second, began too soon after it.
DeadOwnersAreFound ==
    LET later == judged.life + 1..lives IN
    verdict = "alive" /\ ends[judged.life] + Young <= begun =>
        /\ \E l \in later : begun <= ends[l]
        /\ \/ platform \notin {"win32", "darwin"} \/ reading = Unknown
           \/ platform = "win32" /\ \E l \in later : starts[l] <= starts[judged.life] + Startup + Slack
           \/ platform = "darwin" /\ \E l \in later :
                 IF judged.start = Unknown THEN Rounded(starts[l]) <= judged.created + Slack
                 ELSE Rounded(starts[l]) = judged.start

==============================================================================
