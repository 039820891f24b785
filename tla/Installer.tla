------------------------------ MODULE Installer -------------------------------
(***************************************************************************)
(* scripts/install.mjs: the plugin is staged beside the installed one and  *)
(* takes its place, the personal catalog gets its entry, the applications  *)
(* are told to install it, and Claude's settings get one permission.       *)
(*                                                                         *)
(* Nothing holds the plugin directory, so that two installations may meet  *)
(* there.  The catalog and the settings are edited under state locks (see  *)
(* StateLock), which other programs that write these files do not take.    *)
(* Any step may fail, the removal of the staging directory included, and   *)
(* an installation may be killed after any step.  What Claude is told      *)
(* (list, add the marketplace, list, install) is one step: a half-made     *)
(* installation of an application is left out.                             *)
(***************************************************************************)
EXTENDS Naturals, FiniteSets

CONSTANTS
    Installers, \* installations that are started
    Wants,      \* what one is asked for: some of "codex", "claude" and "apply"
    Contents,   \* what other programs write into the catalog and the settings
    MaxWrites   \* how often they do (a bound on runs)

\* A file holds "ours", entries of others, and "bad" if the installer refuses it: it
\* is not valid, has a conflicting entry, or asks for or denies the permission.
Absent == {"absent"}
Ours == "ours"
Bad == "bad"

ASSUME ContentsAssumption == \A c \in Contents : c = Absent \/ "absent" \notin c
ASSUME InstallersAssumption == Installers \cap {"none", "old", "foreign"} = {}
ASSUME WantsAssumption == Wants \subseteq SUBSET {"codex", "claude", "apply"}

VARIABLES
    destination, \* what is installed: "none", "old", "foreign", or an installer's
    backups,     \* the directories that were moved away
    staged,      \* the installers whose staging directory exists
    file,        \* the catalog and the settings
    saved,       \* the backups of each
    lock,        \* who holds the state lock of each
    apps,        \* the applications that have installed the plugin
    pc, want, moved, previous, \* of each installer: where it is, what it is asked
                 \* for, the directory it moved away, and the file as it read it
    asCompared,  \* nobody wrote the installer's file since it compared it
    first, writes

vars == <<destination, backups, staged, file, saved, lock, apps, pc, want, moved, previous,
          asCompared, first, writes>>
directories == <<destination, backups, staged>>
files == <<file, saved, asCompared>>
fixed == <<want, first, writes>>

Files == {"catalog", "settings"}
None == "none"
Ended == {"done", "failed", "uncleaned", "crashed", "stuck"}

Init ==
    /\ first \in {None, "old", "foreign"} /\ destination = first
    /\ backups = {} /\ staged = {} /\ apps = {}
    /\ file \in [Files -> Contents]
    /\ saved = [f \in Files |-> {}]
    /\ lock = [f \in Files |-> None]
    /\ pc = [i \in Installers |-> "check"]
    /\ want \in [Installers -> Wants]
    /\ moved = [i \in Installers |-> None]
    /\ previous = [i \in Installers |-> Absent]
    /\ asCompared = [i \in Installers |-> FALSE]
    /\ writes = 0

At(i, step) == pc[i] = step
Goto(i, step) == pc' = [pc EXCEPT ![i] = step]

------------------------------------------------------------------------------
(* prepareInstallation: the directories *)

\* Nothing is touched if the catalog is refused or the place belongs to another.
Check(i) ==
    /\ At(i, "check")
    /\ Goto(i, IF destination = "foreign" \/ ("codex" \in want[i] /\ Bad \in file["catalog"])
               THEN "failed" ELSE "stage")
    /\ UNCHANGED <<directories, files, lock, apps, moved, previous, fixed>>

\* The staging directory cannot be made, or copying into it may fail.
Stage(i) ==
    /\ At(i, "stage")
    /\ \/ staged' = staged \cup {i} /\ (Goto(i, "look") \/ Goto(i, "cleanup"))
       \/ Goto(i, "failed") /\ UNCHANGED staged
    /\ UNCHANGED <<destination, backups, files, lock, apps, moved, previous, fixed>>

Look(i) ==
    /\ At(i, "look")
    /\ Goto(i, IF destination = None THEN "move in" ELSE "move away")
    /\ UNCHANGED <<directories, files, lock, apps, moved, previous, fixed>>

\* renameDirectoryWithRetry fails if there is nothing to move, or for good.
MoveAway(i) ==
    /\ At(i, "move away")
    /\ \/ /\ destination # None
          /\ moved' = [moved EXCEPT ![i] = destination]
          /\ backups' = backups \cup {destination} /\ destination' = None
          /\ Goto(i, "move in")
       \/ Goto(i, "cleanup") /\ UNCHANGED <<moved, backups, destination>>
    /\ UNCHANGED <<staged, files, lock, apps, previous, fixed>>

\* A directory is never moved onto another one.
MoveIn(i) ==
    /\ At(i, "move in")
    /\ \/ /\ destination = None /\ destination' = i
          /\ staged' = staged \ {i}
          /\ Goto(i, IF "codex" \in want[i] THEN "catalog" ELSE "apply")
       \/ Goto(i, "take back") /\ UNCHANGED <<destination, staged>>
    /\ UNCHANGED <<backups, files, lock, apps, moved, previous, fixed>>

\* Mutant of TakeBack: the staging directory is removed and that is all.
TakeBackNothing(i) ==
    /\ At(i, "take back") /\ Goto(i, "cleanup")
    /\ UNCHANGED <<directories, files, lock, apps, moved, previous, fixed>>

\* What was moved away comes back, unless another directory is there by now.
TakeBack(i) ==
    /\ At(i, "take back")
    /\ IF moved[i] # None /\ destination = None
       THEN \/ /\ destination' = moved[i] /\ backups' = backups \ {moved[i]}
               /\ Goto(i, "cleanup")
            \/ Goto(i, "cleanup stuck") /\ UNCHANGED <<destination, backups>>
       ELSE Goto(i, "cleanup") /\ UNCHANGED <<destination, backups>>
    /\ UNCHANGED <<staged, files, lock, apps, moved, previous, fixed>>

\* The staging directory is removed; that may fail too, or be refused.
Cleanup(i) ==
    /\ pc[i] \in {"cleanup", "cleanup stuck"}
    /\ \E removed \in BOOLEAN :
          /\ staged' = IF removed THEN staged \ {i} ELSE staged
          /\ Goto(i, CASE At(i, "cleanup stuck") -> "stuck"
                       [] removed /\ At(i, "cleanup") -> "failed"
                       [] OTHER -> "uncleaned")
    /\ UNCHANGED <<destination, backups, files, lock, apps, moved, previous, fixed>>

------------------------------------------------------------------------------
(* writeJsonAtomic for the catalog, and for the settings of Claude *)

Lock(i, f) ==
    /\ At(i, f) /\ lock[f] = None
    /\ lock' = [lock EXCEPT ![f] = i]
    /\ Goto(i, "read")
    /\ UNCHANGED <<directories, files, apps, moved, previous, fixed>>

\* The lock was not obtained within its time.
NoLock(i, f) ==
    /\ At(i, f) /\ lock[f] # None
    /\ Goto(i, "failed")
    /\ UNCHANGED <<directories, files, lock, apps, moved, previous, fixed>>

After(f) == IF f = "catalog" THEN "apply" ELSE "done"

\* The edit is over, and its lock is free.
Leave(i, f, step) == Goto(i, step) /\ lock' = [lock EXCEPT ![f] = None]

\* codexMarketplacePlan, grantClaudeSendPermission: the file as it is now counts.  An
\* entry of its own is left alone; in the catalog it may also be written anew, with
\* what it lacks or another layout.
Read(i, f) ==
    /\ At(i, "read") /\ lock[f] = i
    /\ previous' = [previous EXCEPT ![i] = file[f]]
    /\ \/ Bad \in file[f] /\ Leave(i, f, "failed")
       \/ Bad \notin file[f] /\ Ours \in file[f] /\ Leave(i, f, After(f))
       \/ /\ Bad \notin file[f] /\ (Ours \in file[f] => f = "catalog")
          /\ Goto(i, "backup") /\ UNCHANGED lock
    /\ UNCHANGED <<directories, files, apps, moved, fixed>>

\* The new text and the backup are written, if the file did not change already.
Backup(i, f) ==
    /\ At(i, "backup") /\ lock[f] = i
    /\ \/ /\ file[f] = previous[i]
          /\ saved' = [saved EXCEPT ![f] = @ \cup ({file[f]} \ {Absent})]
          /\ Goto(i, "compare") /\ UNCHANGED lock
       \/ Leave(i, f, "failed") /\ UNCHANGED saved
    /\ UNCHANGED <<directories, file, asCompared, apps, moved, previous, fixed>>

\* Mutant of Compare: the file is not read again.
CompareNothing(i, f) ==
    /\ At(i, "compare") /\ lock[f] = i
    /\ asCompared' = [asCompared EXCEPT ![i] = TRUE] /\ Goto(i, "replace")
    /\ UNCHANGED <<directories, file, saved, lock, apps, moved, previous, fixed>>

Compare(i, f) ==
    /\ At(i, "compare") /\ lock[f] = i
    /\ IF file[f] = previous[i]
       THEN /\ asCompared' = [asCompared EXCEPT ![i] = TRUE]
            /\ Goto(i, "replace") /\ UNCHANGED lock
       ELSE Leave(i, f, "failed") /\ UNCHANGED asCompared
    /\ UNCHANGED <<directories, file, saved, apps, moved, previous, fixed>>

\* A link puts a new file in place only where there is none; a rename replaces.
Replace(i, f) ==
    /\ At(i, "replace") /\ lock[f] = i
    /\ asCompared' = [asCompared EXCEPT ![i] = FALSE]
    /\ \/ /\ previous[i] = Absent => file[f] = Absent
          /\ file' = [file EXCEPT ![f] = (previous[i] \ Absent) \cup {Ours}]
          /\ Leave(i, f, After(f))
       \/ Leave(i, f, "failed") /\ UNCHANGED file
    /\ UNCHANGED <<directories, saved, apps, moved, previous, fixed>>

------------------------------------------------------------------------------
(* installApplications *)

Apply(i) ==
    /\ At(i, "apply")
    /\ Goto(i, CASE "apply" \notin want[i] -> "done"
                 [] {"apply", "codex"} \subseteq want[i] -> "add to codex"
                 [] OTHER -> "add to claude")
    /\ UNCHANGED <<directories, files, lock, apps, moved, previous, fixed>>

AddToCodex(i) ==
    /\ At(i, "add to codex")
    /\ \/ apps' = apps \cup {"codex"} /\ Goto(i, IF "claude" \in want[i] THEN "add to claude" ELSE "done")
       \/ Goto(i, "failed") /\ UNCHANGED apps
    /\ UNCHANGED <<directories, files, lock, moved, previous, fixed>>

\* The marketplace is looked up, or added, and the plugin installed or updated.
AddToClaude(i) ==
    /\ At(i, "add to claude")
    /\ \/ apps' = apps \cup {"claude"} /\ Goto(i, "settings")
       \/ Goto(i, "failed") /\ UNCHANGED apps
    /\ UNCHANGED <<directories, files, lock, moved, previous, fixed>>

------------------------------------------------------------------------------
\* The process is killed; a lock it held is recovered (StateLock).
Crash(i) ==
    /\ pc[i] \notin Ended
    /\ Goto(i, "crashed")
    /\ lock' = [f \in Files |-> IF lock[f] = i THEN None ELSE lock[f]]
    /\ UNCHANGED <<directories, files, apps, moved, previous, fixed>>

OtherWrites(f) ==
    /\ writes < MaxWrites /\ writes' = writes + 1
    /\ \E c \in Contents \ {file[f]} : file' = [file EXCEPT ![f] = c]
    /\ asCompared' = [i \in Installers |-> asCompared[i] /\ lock[f] # i]
    /\ UNCHANGED <<directories, saved, lock, apps, pc, want, moved, previous, first>>

Step(i) ==
    \/ Check(i) \/ Stage(i) \/ Look(i) \/ MoveAway(i) \/ MoveIn(i) \/ TakeBack(i) \/ Cleanup(i)
    \/ \E f \in Files : Lock(i, f) \/ NoLock(i, f) \/ Read(i, f) \/ Backup(i, f) \/ Compare(i, f) \/ Replace(i, f)
    \/ Apply(i) \/ AddToCodex(i) \/ AddToClaude(i)

Next == (\E i \in Installers : Step(i) \/ Crash(i)) \/ (\E f \in Files : OtherWrites(f))

Spec == Init /\ [][Next]_vars

------------------------------------------------------------------------------
\* What was installed before is in place or in a backup, whenever installations
\* fail or are killed; a directory of someone else stays where it is.  Once all
\* have ended by themselves something is installed, unless taking the old one back
\* failed as well.  An installation that was not killed leaves its staging directory
\* behind only if it failed and removing the directory, or taking the old one back,
\* failed as well (prepareInstallation).
PluginIsKept ==
    /\ first # None => destination = first \/ first \in backups
    /\ first = "foreign" => destination = first
    /\ first # None /\ destination = None =>
          \E i \in Installers : pc[i] \notin {"done", "failed", "uncleaned"}
    /\ \A i \in staged : pc[i] \notin {"done", "failed"}

\* An installer that replaces a catalog or the settings keeps what others have in
\* it, and has saved a copy; it never replaces one it refuses.  Only a write after
\* the last comparison may be lost (writeJsonAtomic, grantClaudeSendPermission).
EditsAreCareful ==
    [][\A i \in Installers, f \in Files :
          /\ asCompared[i] \/ previous[i] = Absent
          /\ lock[f] = i /\ file'[f] # file[f] /\ writes' = writes
          =>
              /\ file'[f] = (file[f] \ Absent) \cup {Ours}
              /\ file[f] = Absent \/ file[f] \in saved[f]
              /\ Bad \notin file[f]
              /\ f = "settings" => "claude" \in apps]_vars

==============================================================================
