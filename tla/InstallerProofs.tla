--------------------------- MODULE InstallerProofs ----------------------------
(***************************************************************************)
(* Proofs about the installer, for any number of installations, wherever   *)
(* they fail or are killed, and whatever other programs write.             *)
(***************************************************************************)
EXTENDS Installer, TLAPS

Directory == Installers \cup {None, "old", "foreign"}
Entry == (UNION Contents) \cup {Ours, "absent"}
Steps == {"check", "stage", "look", "move away", "move in", "take back", "cleanup", "cleanup stuck",
          "catalog", "settings", "read", "backup", "compare", "replace",
          "apply", "add to codex", "add to claude"} \cup Ended

TypeOK ==
    /\ first \in {None, "old", "foreign"} /\ destination \in Directory
    /\ file \in [Files -> SUBSET Entry] /\ saved \in [Files -> SUBSET SUBSET Entry]
    /\ lock \in [Files -> Installers \cup {None}]
    /\ pc \in [Installers -> Steps]
    /\ moved \in [Installers -> Directory]
    /\ previous \in [Installers -> SUBSET Entry]
    /\ asCompared \in [Installers -> BOOLEAN]
    /\ writes \in Nat

\* Between two directories the place is empty only while the installation that
\* moved the old one away is at work, was killed, or could not take it back.
Vacating(i) ==
    moved[i] # None /\ pc[i] \in {"move in", "take back", "cleanup stuck", "stuck", "crashed"}
DirectoryInv ==
    /\ first # None => destination = first \/ first \in backups
    /\ first = "foreign" => /\ destination = first
                            /\ \A i \in Installers : pc[i] \in {"check", "failed", "crashed"}
    /\ first # None /\ destination = None => \E i \in Installers : Vacating(i)
    /\ \A i \in staged : i \in Installers /\ pc[i] \in {"look", "move away", "move in", "take back",
                                                       "cleanup", "cleanup stuck", "crashed", "uncleaned", "stuck"}

\* Who edits a file holds its lock, and no other; what it read last is what it may
\* write, is saved, and is the file unless another program wrote.
Editing == {"read", "backup", "compare", "replace"}
Edit(i, f) ==
    /\ pc[i] \in Editing
    /\ pc[i] \in {"backup", "compare", "replace"} => Bad \notin previous[i]
    /\ pc[i] \in {"compare", "replace"} => previous[i] = Absent \/ previous[i] \in saved[f]
    /\ asCompared[i] => pc[i] = "replace" /\ file[f] = previous[i]
    /\ f = "settings" => "claude" \in apps
    /\ \A g \in Files : lock[g] = i => g = f
EditInv ==
    /\ \A i \in Installers, f \in Files : lock[f] = i => Edit(i, f)
    /\ \A i \in Installers : /\ asCompared[i] => pc[i] \in {"replace", "crashed"}
                             /\ pc[i] = "settings" => "claude" \in apps

InstallerInv == TypeOK /\ DirectoryInv /\ EditInv

------------------------------------------------------------------------------
(***************************************************************************)
(* Types.                                                                  *)
(***************************************************************************)
LEMMA StepIsKnown ==
  ASSUME NEW i \in Installers, Step(i) \/ Crash(i)
  PROVE  \E step \in Steps : Goto(i, step)
<1> USE DEF Goto, Leave, Steps, Ended, Files
<1>1. CASE Check(i) \/ Stage(i) \/ Look(i) \/ MoveAway(i) \/ MoveIn(i) \/ TakeBack(i) \/ Cleanup(i)
  BY <1>1 DEF Check, Stage, Look, MoveAway, MoveIn, TakeBack, Cleanup
<1>2. ASSUME NEW f \in Files, Lock(i, f) \/ NoLock(i, f) \/ Read(i, f)
      PROVE  \E step \in Steps : Goto(i, step)
  BY <1>2 DEF Lock, NoLock, Read, After
<1>3. ASSUME NEW f \in Files, Backup(i, f) \/ Compare(i, f) \/ Replace(i, f)
      PROVE  \E step \in Steps : Goto(i, step)
  BY <1>3 DEF Backup, Compare, Replace, After
<1>4. CASE Apply(i) \/ AddToCodex(i) \/ AddToClaude(i) \/ Crash(i)
  BY <1>4 DEF Apply, AddToCodex, AddToClaude, Crash
<1> HIDE DEF Goto, Leave, Steps, Ended, Files
<1> QED
  BY <1>1, <1>2, <1>3, <1>4 DEF Step

LEMMA TypeStep ==
  ASSUME TypeOK, [Next]_vars
  PROVE  TypeOK'
<1> USE DEF TypeOK, Directory, None, directories, files, fixed
<1>1. pc' \in [Installers -> Steps]
  <2>1. ASSUME NEW i \in Installers, Step(i) \/ Crash(i) PROVE pc' \in [Installers -> Steps]
    BY <2>1, StepIsKnown DEF Goto
  <2>2. (\E f \in Files : OtherWrites(f)) \/ UNCHANGED vars => pc' = pc
    BY DEF OtherWrites, vars
  <2> QED
    BY <2>1, <2>2 DEF Next
<1>2. ASSUME NEW i \in Installers, Check(i) \/ Stage(i) \/ Look(i) \/ Cleanup(i) PROVE TypeOK'
  BY <1>1, <1>2 DEF Check, Stage, Look, Cleanup
<1>3. ASSUME NEW i \in Installers, MoveAway(i) \/ MoveIn(i) \/ TakeBack(i) PROVE TypeOK'
  BY <1>1, <1>3 DEF MoveAway, MoveIn, TakeBack
<1>4. ASSUME NEW i \in Installers, NEW f \in Files,
             Lock(i, f) \/ NoLock(i, f) \/ Read(i, f) \/ Backup(i, f) \/ Compare(i, f) \/ Replace(i, f)
      PROVE  TypeOK'
  <2>1. file[f] \in SUBSET Entry /\ previous[i] \in SUBSET Entry
    BY <1>4
  <2>2. lock' \in [Files -> Installers \cup {None}]
    BY <1>4 DEF Lock, NoLock, Read, Backup, Compare, Replace, Leave
  <2>3. CASE Lock(i, f) \/ NoLock(i, f)
    BY <1>1, <2>2, <2>3 DEF Lock, NoLock
  <2>4. CASE Read(i, f)
    BY <1>1, <2>1, <2>2, <2>4 DEF Read
  <2>5. CASE Backup(i, f)
    <3>1. UNCHANGED saved \/ saved' = [saved EXCEPT ![f] = @ \cup ({file[f]} \ {Absent})]
      BY <2>5 DEF Backup
    <3>2. saved' \in [Files -> SUBSET SUBSET Entry]
      BY <2>1, <3>1
    <3> QED
      BY <1>1, <2>2, <2>5, <3>2 DEF Backup
  <2>6. CASE Compare(i, f)
    BY <1>1, <2>2, <2>6 DEF Compare
  <2>7. CASE Replace(i, f)
    <3>1. Ours \in Entry
      BY DEF Entry
    <3>2. file' \in [Files -> SUBSET Entry]
      <4>1. (previous[i] \ Absent) \cup {Ours} \in SUBSET Entry
        BY <2>1, <3>1
      <4>2. UNCHANGED file \/ file' = [file EXCEPT ![f] = (previous[i] \ Absent) \cup {Ours}]
        BY <2>7 DEF Replace
      <4> QED
        BY <4>1, <4>2
    <3> QED
      BY <1>1, <2>2, <2>7, <3>2 DEF Replace
  <2> QED
    BY <1>4, <2>3, <2>4, <2>5, <2>6, <2>7
<1>5. ASSUME NEW i \in Installers, Apply(i) \/ AddToCodex(i) \/ AddToClaude(i) \/ Crash(i) PROVE TypeOK'
  BY <1>1, <1>5 DEF Apply, AddToCodex, AddToClaude, Crash
<1>6. ASSUME NEW f \in Files, OtherWrites(f) PROVE TypeOK'
  <2>1. \A c \in Contents : c \in SUBSET Entry
    BY DEF Entry
  <2> QED
    BY <1>1, <1>6, <2>1 DEF OtherWrites
<1>7. CASE UNCHANGED vars
  BY <1>7 DEF vars
<1> QED
  BY <1>2, <1>3, <1>4, <1>5, <1>6, <1>7 DEF Next, Step

------------------------------------------------------------------------------
(***************************************************************************)
(* The directories.                                                        *)
(***************************************************************************)
LEMMA DirectoryStep ==
  ASSUME TypeOK, DirectoryInv, [Next]_vars
  PROVE  DirectoryInv'
<1> USE InstallersAssumption
    DEF TypeOK, DirectoryInv, Vacating, Directory, None, At, Goto, Leave, directories, files, fixed
\* Elsewhere an installation that holds up no directory goes on.
<1>1. ASSUME NEW i \in Installers, NEW step \in Steps, Goto(i, step), UNCHANGED <<directories, moved, first>>,
             pc[i] \notin {"move in", "take back", "cleanup", "cleanup stuck", "stuck", "crashed"},
             first = "foreign" => step = "failed",
             i \in staged => step \in {"move away", "move in", "cleanup"}
      PROVE  DirectoryInv'
  BY <1>1
<1>2. ASSUME NEW i \in Installers, Check(i) PROVE DirectoryInv'
  BY <1>1, <1>2 DEF Check
<1>3. ASSUME NEW i \in Installers, Stage(i) PROVE DirectoryInv'
  <2>1. PICK step \in {"look", "cleanup", "failed"} : Goto(i, step) /\ (step = "failed" => UNCHANGED staged)
    BY <1>3 DEF Stage
  <2>2. /\ pc[i] = "stage" /\ staged' \subseteq staged \cup {i} /\ (step = "failed" => i \notin staged')
        /\ UNCHANGED <<destination, backups, moved, first>>
    BY <1>3, <2>1 DEF Stage
  <2>3. \A j \in Installers : Vacating(j) => Vacating(j)'
    BY <2>1, <2>2
  <2>4. pc'[i] = step /\ \A j \in Installers \ {i} : pc'[j] = pc[j]
    BY <2>1
  <2>5. first # "foreign"
    BY <2>2
  <2> HIDE DEF Vacating
  <2> QED
    BY <2>2, <2>3, <2>4, <2>5
<1>4. ASSUME NEW i \in Installers, Look(i) PROVE DirectoryInv'
  BY <1>1, <1>4 DEF Look
<1>5. ASSUME NEW i \in Installers, MoveAway(i) PROVE DirectoryInv'
  BY <1>5, ZenonT(40) DEF MoveAway
<1>6. ASSUME NEW i \in Installers, MoveIn(i) PROVE DirectoryInv'
  <2>1. PICK step \in {"catalog", "apply", "take back"} : Goto(i, step)
    BY <1>6 DEF MoveIn
  <2>2. /\ pc[i] = "move in" /\ UNCHANGED <<backups, moved, first>>
        /\ \/ destination = None /\ destination' = i /\ staged' = staged \ {i}
           \/ step = "take back" /\ UNCHANGED <<destination, staged>>
    BY <1>6, <2>1 DEF MoveIn
  <2>3. step = "take back" => \A j \in Installers : Vacating(j) => Vacating(j)'
    BY <2>1, <2>2
  <2>4. pc'[i] = step /\ \A j \in Installers \ {i} : pc'[j] = pc[j]
    BY <2>1
  <2>5. first # "foreign" /\ i # None /\ i # "foreign"
    BY <2>2
  <2> HIDE DEF Vacating
  <2> QED
    BY <2>2, <2>3, <2>4, <2>5
<1>7. ASSUME NEW i \in Installers, TakeBack(i) PROVE DirectoryInv'
  BY <1>7, ZenonT(40) DEF TakeBack
<1>8. ASSUME NEW i \in Installers, Cleanup(i) PROVE DirectoryInv'
  BY <1>8 DEF Cleanup
<1>9. ASSUME NEW i \in Installers, NEW f \in Files,
             Lock(i, f) \/ NoLock(i, f) \/ Read(i, f) \/ Backup(i, f) \/ Compare(i, f) \/ Replace(i, f)
      PROVE  DirectoryInv'
  <2>1. /\ pc[i] \in {"catalog", "settings", "read", "backup", "compare", "replace"}
        /\ UNCHANGED <<directories, moved, first>>
    BY <1>9 DEF Files, Lock, NoLock, Read, Backup, Compare, Replace
  <2>2. PICK step \in Steps : Goto(i, step)
    BY <1>9, StepIsKnown DEF Step
  <2> QED
    BY <1>1, <2>1, <2>2
<1>10. ASSUME NEW i \in Installers, Apply(i) \/ AddToCodex(i) \/ AddToClaude(i) PROVE DirectoryInv'
  <2>1. /\ pc[i] \in {"apply", "add to codex", "add to claude"}
        /\ UNCHANGED <<directories, moved, first>>
    BY <1>10 DEF Apply, AddToCodex, AddToClaude
  <2>2. PICK step \in Steps : Goto(i, step)
    BY <1>10, StepIsKnown DEF Step
  <2> QED
    BY <1>1, <2>1, <2>2
<1>11. ASSUME NEW i \in Installers, Crash(i) PROVE DirectoryInv'
  BY <1>11 DEF Crash
<1>12. ASSUME NEW f \in Files, OtherWrites(f) PROVE DirectoryInv'
  BY <1>12 DEF OtherWrites
<1>13. CASE UNCHANGED vars
  BY <1>13 DEF vars
<1> QED
  BY <1>2, <1>3, <1>4, <1>5, <1>6, <1>7, <1>8, <1>9, <1>10, <1>11, <1>12, <1>13 DEF Next, Step

------------------------------------------------------------------------------
(***************************************************************************)
(* The catalog and the settings.                                           *)
(***************************************************************************)
LEMMA EditStep ==
  ASSUME TypeOK, EditInv, [Next]_vars
  PROVE  EditInv'
<1> USE InstallersAssumption DEF TypeOK, EditInv, Edit, Editing, Files, None, At, Goto, directories, files, fixed
\* An installation that edits nothing goes on.
<1>1. ASSUME NEW i \in Installers, NEW step \in Steps \ Editing, Goto(i, step),
             UNCHANGED <<files, lock, previous>>, pc[i] \notin Editing, pc[i] # "crashed",
             apps \subseteq apps', step = "settings" => "claude" \in apps'
      PROVE  EditInv'
  BY <1>1
<1>2. ASSUME NEW i \in Installers, Check(i) \/ Stage(i) \/ Look(i) \/ MoveAway(i) \/ MoveIn(i) \/ TakeBack(i) \/ Cleanup(i)
      PROVE  EditInv'
  <2>1. /\ UNCHANGED <<files, lock, previous, apps>> /\ pc[i] \notin Editing /\ pc[i] # "crashed"
    BY <1>2 DEF Check, Stage, Look, MoveAway, MoveIn, TakeBack, Cleanup
  <2>2. PICK step \in Steps : Goto(i, step)
    BY <1>2, StepIsKnown DEF Step
  <2>3. pc'[i] = step
    BY <2>2
  <2>4. step \in {"failed", "stage", "look", "cleanup", "move in", "move away", "catalog", "apply",
                  "take back", "cleanup stuck", "stuck", "uncleaned"}
    <3>1. CASE Check(i) \/ Stage(i) \/ Look(i)
      BY <2>3, <3>1 DEF Check, Stage, Look
    <3>2. CASE MoveAway(i) \/ MoveIn(i)
      BY <2>3, <3>2 DEF MoveAway, MoveIn
    <3>3. CASE TakeBack(i) \/ Cleanup(i)
      BY <2>3, <3>3 DEF TakeBack, Cleanup
    <3> QED
      BY <1>2, <3>1, <3>2, <3>3
  <2> QED
    BY <1>1, <2>1, <2>2, <2>4
<1>3. ASSUME NEW i \in Installers, Apply(i) \/ AddToCodex(i) \/ AddToClaude(i)
      PROVE  EditInv'
  <2>1. /\ UNCHANGED <<files, lock, previous>> /\ apps \subseteq apps' /\ pc[i] \notin Editing /\ pc[i] # "crashed"
    BY <1>3 DEF Apply, AddToCodex, AddToClaude
  <2>2. PICK step \in Steps : Goto(i, step)
    BY <1>3, StepIsKnown DEF Step
  <2>3. pc'[i] = step
    BY <2>2
  <2>4. step \notin Editing /\ (step = "settings" => "claude" \in apps')
    <3>1. CASE Apply(i)
      BY <2>3, <3>1 DEF Apply
    <3>2. CASE AddToCodex(i)
      BY <2>3, <3>2, ZenonT(40) DEF AddToCodex
    <3>3. CASE AddToClaude(i)
      BY <2>3, <3>3 DEF AddToClaude
    <3> QED
      BY <1>3, <3>1, <3>2, <3>3
  <2> QED
    BY <1>1, <2>1, <2>2, <2>4
<1>4. ASSUME NEW i \in Installers, NEW f \in Files, Lock(i, f) PROVE EditInv'
  BY <1>4 DEF Lock
<1>5. ASSUME NEW i \in Installers, NEW f \in Files, NoLock(i, f) PROVE EditInv'
  BY <1>5 DEF NoLock
<1>6. ASSUME NEW i \in Installers, NEW f \in Files, Read(i, f) PROVE EditInv'
  BY <1>6 DEF Read, Leave, After
<1>7. ASSUME NEW i \in Installers, NEW f \in Files, Backup(i, f) PROVE EditInv'
  BY <1>7 DEF Backup, Leave
<1>8. ASSUME NEW i \in Installers, NEW f \in Files, Compare(i, f) PROVE EditInv'
  BY <1>8 DEF Compare, Leave
<1>9. ASSUME NEW i \in Installers, NEW f \in Files, Replace(i, f) PROVE EditInv'
  BY <1>9 DEF Replace, Leave, After
<1>10. ASSUME NEW i \in Installers, Crash(i) PROVE EditInv'
  BY <1>10 DEF Crash
<1>11. ASSUME NEW f \in Files, OtherWrites(f) PROVE EditInv'
  <2>1. /\ UNCHANGED <<saved, lock, apps, pc, previous>>
        /\ \A g \in Files : g # f => file'[g] = file[g]
        /\ \A j \in Installers : asCompared'[j] => asCompared[j] /\ lock[f] # j
    BY <1>11 DEF OtherWrites
  <2>2. ASSUME NEW j \in Installers, NEW g \in Files, lock[g] = j PROVE Edit(j, g)'
    BY <2>1, <2>2
  <2> QED
    BY <2>1, <2>2
<1>12. CASE UNCHANGED vars
  BY <1>12 DEF vars
<1> QED
  BY <1>2, <1>3, <1>4, <1>5, <1>6, <1>7, <1>8, <1>9, <1>10, <1>11, <1>12 DEF Next, Step

------------------------------------------------------------------------------
(***************************************************************************)
(* Theorems.                                                               *)
(***************************************************************************)
\* Each part holds at the start of an installation and after each of its steps.
THEOREM InstallerInvariant == Spec => []InstallerInv
<1>1. Init => InstallerInv
  <2> SUFFICES ASSUME Init PROVE InstallerInv
    OBVIOUS
  <2>1. TypeOK
    <3>1. \A c \in Contents : c \in SUBSET Entry
      BY DEF Entry
    <3>2. Absent \in SUBSET Entry
      BY DEF Absent, Entry
    <3>3. file \in [Files -> SUBSET Entry]
      BY <3>1 DEF Init
    <3>4. "check" \in Steps
      BY DEF Steps
    <3> QED
      BY <3>2, <3>3, <3>4 DEF Init, TypeOK, Directory, None
  <2>2. DirectoryInv
    BY DEF Init, DirectoryInv
  <2>3. EditInv
    BY InstallersAssumption DEF Init, EditInv, None
  <2> QED
    BY <2>1, <2>2, <2>3 DEF InstallerInv
<1>2. InstallerInv /\ [Next]_vars => InstallerInv'
  BY TypeStep, DirectoryStep, EditStep DEF InstallerInv
<1> QED
  BY <1>1, <1>2, PTL DEF Spec

\* The plugin that was installed is in place or in a backup, a directory of someone
\* else is not touched, the place is empty only while an installation is at work, was
\* killed or could not take the old one back, and a staging directory is left only by
\* one that was killed, or whose removal of it or taking back failed
\* (prepareInstallation).
THEOREM PluginStays == Spec => []PluginIsKept
<1>1. InstallerInv => PluginIsKept
  <2> SUFFICES ASSUME InstallerInv PROVE PluginIsKept
    OBVIOUS
  <2> QED
    BY DEF InstallerInv, DirectoryInv, Vacating, PluginIsKept
<1> QED
  BY <1>1, InstallerInvariant, PTL

\* An edit of the catalog or the settings that meets no other program's write keeps
\* what others have in the file, a copy of it is saved, and the file was not one the
\* installer refuses (writeJsonAtomic, grantClaudeSendPermission).
THEOREM CarefulEdits == Spec => EditsAreCareful
<1> DEFINE Careful(i, f) ==
      /\ asCompared[i] \/ previous[i] = Absent
      /\ lock[f] = i /\ file'[f] # file[f] /\ writes' = writes
      =>
          /\ file'[f] = (file[f] \ Absent) \cup {Ours}
          /\ file[f] = Absent \/ file[f] \in saved[f]
          /\ Bad \notin file[f]
          /\ f = "settings" => "claude" \in apps
<1>1. ASSUME InstallerInv, [Next]_vars, NEW i \in Installers, NEW f \in Files PROVE Careful(i, f)
  <2> SUFFICES ASSUME asCompared[i] \/ previous[i] = Absent, lock[f] = i, file'[f] # file[f], writes' = writes
               PROVE  /\ file'[f] = (file[f] \ Absent) \cup {Ours}
                      /\ file[f] = Absent \/ file[f] \in saved[f]
                      /\ Bad \notin file[f]
                      /\ f = "settings" => "claude" \in apps
    OBVIOUS
  <2>1. \E j \in Installers, g \in Files : Replace(j, g)
    <3>1. ASSUME NEW j \in Installers, NEW g \in Files,
                 Lock(j, g) \/ NoLock(j, g) \/ Read(j, g) \/ Backup(j, g) \/ Compare(j, g)
          PROVE  UNCHANGED file
      BY <3>1 DEF Lock, NoLock, Read, Backup, Compare, files
    <3>2. ASSUME NEW j \in Installers,
                 \/ Check(j) \/ Stage(j) \/ Look(j) \/ MoveAway(j) \/ MoveIn(j) \/ TakeBack(j) \/ Cleanup(j)
                 \/ Apply(j) \/ AddToCodex(j) \/ AddToClaude(j) \/ Crash(j)
          PROVE  UNCHANGED file
      BY <3>2 DEF Check, Stage, Look, MoveAway, MoveIn, TakeBack, Cleanup, Apply, AddToCodex, AddToClaude,
                  Crash, files
    <3>3. ASSUME NEW g \in Files, OtherWrites(g) PROVE writes' = writes + 1
      BY <3>3 DEF OtherWrites
    <3>4. writes + 1 # writes
      BY <1>1 DEF InstallerInv, TypeOK
    <3> QED
      BY <1>1, <3>1, <3>2, <3>3, <3>4 DEF Next, Step, vars
  <2>2. Replace(i, f) /\ file'[f] = (previous[i] \ Absent) \cup {Ours} /\ (previous[i] = Absent => file[f] = Absent)
    <3>1. PICK j \in Installers, g \in Files : Replace(j, g)
      BY <2>1
    <3>2. /\ lock[g] = j /\ (previous[j] = Absent => file[g] = Absent)
          /\ file' = [file EXCEPT ![g] = (previous[j] \ Absent) \cup {Ours}]
      BY <3>1 DEF Replace
    <3>3. file \in [Files -> SUBSET Entry]
      BY <1>1 DEF InstallerInv, TypeOK
    <3>4. f = g
      BY <3>2, <3>3
    <3> QED
      BY <3>1, <3>2, <3>3, <3>4
  <2>3. pc[i] = "replace" /\ Edit(i, f)
    BY <1>1, <2>2 DEF Replace, At, InstallerInv, EditInv
  <2>4. previous[i] = file[f]
    BY <2>2, <2>3 DEF Edit
  <2> QED
    BY <2>2, <2>3, <2>4 DEF Edit
<1>2. InstallerInv /\ [Next]_vars => [\A i \in Installers, f \in Files : Careful(i, f)]_vars
  BY <1>1
<1> QED
  BY <1>2, InstallerInvariant, PTL DEF Spec, EditsAreCareful

==============================================================================
