------------------------ MODULE AtomicDirectory_proofs ------------------------
(***************************************************************************)
(* Proofs about AtomicDirectory, for any number of concurrent calls.       *)
(***************************************************************************)
EXTENDS AtomicDirectory, TLAPS

\* Every operation of the code on the parent directory yields a directory
\* state.
LEMMA StagedClosed ==
    \A d \in Dirs, st \in SUBSET Committers : [d EXCEPT !.staged = st] \in Dirs
BY DEF Dirs

LEMMA HolderClosed ==
    \A d \in Dirs, c \in Committers, h \in Entries \cup {EmptyHolder} :
        [d EXCEPT !.holder[c] = h] \in Dirs
BY DEF Dirs

LEMMA StagedHolderClosed ==
    \A d \in Dirs, c \in Committers, h \in Entries \cup {EmptyHolder},
       st \in SUBSET Committers : [d EXCEPT !.staged = st, !.holder[c] = h] \in Dirs
BY DEF Dirs

LEMMA DestHolderClosed ==
    \A d \in Dirs, c \in Committers, h \in Entries \cup {EmptyHolder}, e \in Entries :
        [d EXCEPT !.dest = e, !.holder[c] = h] \in Dirs
BY DEF Dirs

LEMMA PublishClosed ==
    \A d \in Dirs, e \in Entries, st \in SUBSET Committers, p \in SUBSET Trees :
        [d EXCEPT !.dest = e, !.staged = st, !.published = p] \in Dirs
BY DEF Dirs

\* TypeOK is an invariant.
THEOREM TypeCorrect == Spec => []TypeOK
<1> USE AtomicDirectoryAssumption
<1>1. Init => TypeOK
  BY DEF Init, TypeOK, Dirs, Entries, Trees, Pcs, Outcomes
<1>2. TypeOK /\ [Next]_vars => TypeOK'
  <2> SUFFICES ASSUME TypeOK, [Next]_vars PROVE TypeOK'
    OBVIOUS
  <2> USE DEF TypeOK, Pcs, Steps, envVars, machineVars, Goto, Return, ChangeDir, At
  <2>0. /\ \A c \in Committers : c \in Trees /\ c \in Entries
        /\ dir.dest \in Entries /\ dir.staged \subseteq Committers
        /\ dir.published \subseteq Trees /\ Absent \in Entries /\ Blocker \in Entries
        /\ \A c \in Committers : dir.holder[c] \in Entries \cup {EmptyHolder}
    BY DEF Dirs, Entries, Trees
  <2>1. ASSUME NEW c \in Committers, StageDirectory(c) PROVE TypeOK'
    <3>1. dir' \in Dirs /\ survivors' \subseteq Dirs
      BY <2>0, <2>1, StagedClosed, SMTT(20) DEF StageDirectory
    <3>2. pc' \in [Committers -> Pcs] /\ outcome' \in [Committers -> Outcomes]
      BY <2>1 DEF StageDirectory, Outcomes, PreCommitErrors, PostCommit
    <3> QED
      BY <2>0, <2>1, <3>1, <3>2 DEF StageDirectory
  <2>2. ASSUME NEW c \in Committers, Fill(c) PROVE TypeOK'
    BY <2>0, <2>2 DEF Fill, PreCommitErrors, Outcomes
  <2>3. ASSUME NEW c \in Committers, SyncTree(c) PROVE TypeOK'
    BY <2>0, <2>3 DEF SyncTree, TreeSynced, PreCommitErrors, Outcomes
  <2>4. ASSUME NEW c \in Committers, InspectDestination(c) PROVE TypeOK'
    <3>1. dir' \in Dirs /\ survivors' \subseteq Dirs
      BY <2>0, <2>4, StagedClosed, SMTT(20) DEF InspectDestination, CleanUpAndReturn, WithoutStaged
    <3>2. pc' \in [Committers -> Pcs] /\ outcome' \in [Committers -> Outcomes]
      BY <2>4 DEF InspectDestination, CleanUpAndReturn, WithoutStaged, Outcomes, PreCommitErrors, PostCommit
    <3> QED
      BY <2>0, <2>4, <3>1, <3>2 DEF InspectDestination
  <2>5. ASSUME NEW c \in Committers, CreateBackupDir(c) PROVE TypeOK'
    <3>1. dir' \in Dirs /\ survivors' \subseteq Dirs
      <4> DEFINE made == [dir EXCEPT !.holder[c] = EmptyHolder]
      <4>1. made \in Dirs
        BY <2>0, HolderClosed
      <4>2. [dir EXCEPT !.staged = @ \ {c}] \in Dirs
        BY <2>0, StagedClosed
      <4>3. [made EXCEPT !.staged = @ \ {c}] \in Dirs
        BY <4>1 DEF Dirs
      <4> QED
        BY <2>5, <4>1, <4>2, <4>3 DEF CreateBackupDir, CleanUpAndReturn, WithoutStaged
    <3>2. pc' \in [Committers -> Pcs] /\ outcome' \in [Committers -> Outcomes]
      BY <2>5 DEF CreateBackupDir, CleanUpAndReturn, WithoutStaged, Outcomes, PreCommitErrors, PostCommit
    <3> QED
      BY <2>0, <2>5, <3>1, <3>2 DEF CreateBackupDir
  <2>6. ASSUME NEW c \in Committers, MoveExistingToBackup(c) PROVE TypeOK'
    <3>1. dir' \in Dirs /\ survivors' \subseteq Dirs
      <4>1. [dir EXCEPT !.dest = Absent, !.holder[c] = dir.dest] \in Dirs
        BY <2>0, DestHolderClosed
      <4>2. ASSUME NEW st \in {dir.staged, dir.staged \ {c}},
                   NEW h \in {Absent, EmptyHolder}
            PROVE  [dir EXCEPT !.staged = st, !.holder[c] = h] \in Dirs
        BY <2>0, StagedHolderClosed
      <4> QED
        BY <2>6, <4>1, <4>2 DEF MoveExistingToBackup
    <3>2. pc' \in [Committers -> Pcs] /\ outcome' \in [Committers -> Outcomes]
      BY <2>6 DEF MoveExistingToBackup, Outcomes, PreCommitErrors, PostCommit
    <3> QED
      BY <2>0, <2>6, <3>1, <3>2 DEF MoveExistingToBackup
  <2>7. ASSUME NEW c \in Committers, RenameStaged(c) PROVE TypeOK'
    <3>1. dir' \in Dirs /\ survivors' \subseteq Dirs
      <4>1. [dir EXCEPT !.dest = c, !.staged = @ \ {c}, !.published = @ \cup {c}] \in Dirs
        BY <2>0, PublishClosed
      <4>2. [dir EXCEPT !.staged = @ \ {c}] \in Dirs
        BY <2>0, StagedClosed
      <4> QED
        BY <2>7, <4>1, <4>2 DEF RenameStaged, WithoutStaged
    <3>2. pc' \in [Committers -> Pcs] /\ outcome' \in [Committers -> Outcomes]
      BY <2>7 DEF RenameStaged, WithoutStaged, Outcomes, PreCommitErrors, PostCommit
    <3> QED
      BY <2>0, <2>7, <3>1, <3>2 DEF RenameStaged
  <2>8. ASSUME NEW c \in Committers, RestorePrevious(c) PROVE TypeOK'
    <3>1. dir' \in Dirs /\ survivors' \subseteq Dirs
      <4>1. ASSUME dir.holder[c] \in Entries
            PROVE  [dir EXCEPT !.dest = dir.holder[c], !.holder[c] = EmptyHolder] \in Dirs
        BY <2>0, <4>1, DestHolderClosed
      <4> QED
        BY <2>8, <4>1 DEF RestorePrevious, RestoreAllowed, Entries
    <3>2. pc' \in [Committers -> Pcs] /\ outcome' \in [Committers -> Outcomes]
      BY <2>8 DEF RestorePrevious, RestoreFailure, Outcomes, PreCommitErrors, PostCommit
    <3> QED
      BY <2>0, <2>8, <3>1, <3>2 DEF RestorePrevious
  <2>9. ASSUME NEW c \in Committers, RemoveBackup(c) PROVE TypeOK'
    <3>1. dir' \in Dirs /\ survivors' \subseteq Dirs
      <4>1. /\ [dir EXCEPT !.holder[c] = Absent] \in Dirs
            /\ [dir EXCEPT !.holder[c] = EmptyHolder] \in Dirs
        BY <2>0, HolderClosed
      <4> QED
        BY <2>9, <4>1 DEF RemoveBackup
    <3>2. pc' \in [Committers -> Pcs] /\ outcome' \in [Committers -> Outcomes]
      BY <2>9 DEF RemoveBackup, CleanupFailure, Outcomes, PreCommitErrors, PostCommit
    <3> QED
      BY <2>0, <2>9, <3>1, <3>2 DEF RemoveBackup
  <2>10. ASSUME NEW c \in Committers, SyncRootDirectory(c) PROVE TypeOK'
    BY <2>0, <2>10 DEF SyncRootDirectory, SyncedSurvivors, PostCommit, Outcomes
  <2>11. ASSUME NEW c \in Committers, DropStaged(c) PROVE TypeOK'
    <3>1. dir' \in Dirs /\ survivors' \subseteq Dirs
      BY <2>0, <2>11, StagedClosed DEF DropStaged, WithoutStaged
    <3>2. pc' \in [Committers -> Pcs] /\ outcome' \in [Committers -> Outcomes]
      BY <2>11 DEF DropStaged, WithoutStaged, Outcomes, PreCommitErrors, PostCommit
    <3> QED
      BY <2>0, <2>11, <3>1, <3>2 DEF DropStaged
  <2>12. ASSUME NEW c \in Committers, Kill(c) PROVE TypeOK'
    BY <2>12 DEF Kill
  <2>13. CASE ForeignFile
    BY <2>0, <2>13 DEF ForeignFile, Dirs
  <2>14. CASE PowerLoss
    BY <2>14 DEF PowerLoss
  <2>15. CASE UNCHANGED vars
    BY <2>15 DEF vars, machineVars
  <2> QED
    BY <2>1, <2>2, <2>3, <2>4, <2>5, <2>6, <2>7, <2>8, <2>9, <2>10, <2>11,
       <2>12, <2>13, <2>14, <2>15 DEF Next, Step
<1> QED
  BY <1>1, <1>2, PTL DEF Spec

-----------------------------------------------------------------------------
(***************************************************************************)
(* NoTreeLost is not inductive: a power loss goes back to an earlier state *)
(* of the directory, so the property must hold of every recoverable state, *)
(* and a call's holder must be known to hold what the call moved there     *)
(* when it restores or deletes it.                                         *)
(***************************************************************************)
Safe(s) ==
    \A t \in s.published \ EmptyTrees :
        \/ s.dest = t
        \/ \E c \in Committers : s.holder[c] = t
        \/ \E c \in Committers : backup[c] = t /\ c \in s.published

BeforeBackup == {"idle", "filling", "syncing", "inspecting", "backing_up"}

\* What a call's step says about its holder.
CallInv(c) ==
    /\ pc[c] \in BeforeBackup \cup {"moving"} => backup[c] = Absent
    /\ pc[c] \in BeforeBackup => \A s \in survivors : s.holder[c] = Absent
    /\ pc[c] = "moving" => dir.holder[c] = EmptyHolder
    /\ pc[c] = "renaming" /\ backup[c] # Absent => dir.holder[c] = backup[c]
    /\ pc[c] \in {"restoring", "removing_backup"} => dir.holder[c] = backup[c]
    /\ pc[c] = "removing_backup" => c \in dir.published

TreeInv ==
    /\ TypeOK
    /\ dir \in survivors
    /\ \A s \in survivors : Safe(s)
    /\ \A c \in Committers : CallInv(c)

\* A step of call c keeps the invariant if it keeps c's own part and leads to
\* a safe directory: the other calls' holders are their own.
LEMMA StepOfCall ==
    ASSUME TreeInv, TypeOK', NEW c \in Committers,
           \A b \in Committers \ {c} : /\ pc'[b] = pc[b]
                                      /\ backup'[b] = backup[b]
                                      /\ dir'.holder[b] = dir.holder[b],
           backup'[c] = backup[c] \/ backup[c] = Absent,
           dir' \in survivors', survivors' \subseteq survivors \cup {dir'},
           dir.published \subseteq dir'.published,
           Safe(dir)', CallInv(c)'
    PROVE  TreeInv'
<1>1. ASSUME NEW s \in survivors PROVE Safe(s)'
  <2> SUFFICES ASSUME NEW t \in s.published \ EmptyTrees
               PROVE  \/ s.dest = t
                      \/ \E b \in Committers : s.holder[b] = t
                      \/ \E b \in Committers : backup'[b] = t /\ b \in s.published
    BY DEF Safe
  <2>1. t # Absent
    BY AtomicDirectoryAssumption DEF TreeInv, TypeOK, Dirs
  <2>2. \A b \in Committers : backup[b] = t => backup'[b] = t
    BY <2>1
  <2> QED
    BY <2>2 DEF TreeInv, Safe
<1>2. ASSUME NEW s \in survivors' PROVE Safe(s)'
  <2>1. CASE s = dir'
    BY <2>1 DEF Safe
  <2>2. CASE s \in survivors
    BY <1>1, <2>2
  <2> QED
    BY <2>1, <2>2
<1>3. ASSUME NEW b \in Committers \ {c} PROVE CallInv(b)'
  BY <1>3 DEF TreeInv, CallInv
<1> QED
  BY <1>2, <1>3 DEF TreeInv

\* A step that leaves the directory's entries to trees alone.
LEMMA QuietStep ==
    ASSUME TreeInv, TypeOK', NEW c \in Committers, UNCHANGED backup,
           \A b \in Committers \ {c} : pc'[b] = pc[b],
           dir' \in survivors', survivors' \subseteq survivors \cup {dir'},
           dir'.dest = dir.dest, dir'.holder = dir.holder,
           dir'.published = dir.published, CallInv(c)'
    PROVE  TreeInv'
<1>1. Safe(dir)'
  BY DEF TreeInv, Safe
<1> QED
  BY <1>1, StepOfCall

\* TreeInv holds in every reachable state.
LEMMA TreeInvInit == Init => TreeInv
<1> SUFFICES ASSUME Init PROVE TreeInv
  OBVIOUS
<1>1. TypeOK
  BY AtomicDirectoryAssumption DEF Init, TypeOK, Dirs, Entries, Trees, Pcs, Outcomes
<1>2. Safe(dir)
  BY DEF Init, Safe
<1>3. \A c \in Committers : dir.holder[c] = Absent
  <2>1. PICK dest \in {Old, Absent} :
           dir = [dest |-> dest, staged |-> {}, published |-> {Old} \cap {dest},
                  holder |-> [c \in Committers |-> Absent]]
    BY DEF Init
  <2>2. dir.holder = [c \in Committers |-> Absent]
    BY <2>1
  <2> QED
    BY <2>2
<1>4. \A c \in Committers : CallInv(c)
  BY <1>3 DEF Init, CallInv, BeforeBackup
<1> QED
  BY <1>1, <1>2, <1>4 DEF Init, TreeInv

\* Every step keeps the trees: one case for each action.
LEMMA TreeInvStep == TreeInv /\ TypeOK' /\ [Next]_vars => TreeInv'
<1> SUFFICES ASSUME TreeInv, TypeOK', [Next]_vars PROVE TreeInv'
  OBVIOUS
<1> USE AtomicDirectoryAssumption
<1>0. /\ TypeOK /\ dir \in survivors /\ Safe(dir)
      /\ \A c \in Committers : CallInv(c)
      /\ \A c \in Committers : dir.holder[c] \in Entries \cup {EmptyHolder}
      /\ dir \in Dirs /\ survivors \subseteq Dirs
  BY DEF TreeInv, TypeOK, Dirs
<1>1. ASSUME NEW c \in Committers, StageDirectory(c) PROVE TreeInv'
  <2>1. /\ \A b \in Committers \ {c} : pc'[b] = pc[b]
        /\ dir' \in survivors' /\ survivors' \subseteq survivors \cup {dir'}
        /\ dir'.dest = dir.dest /\ dir'.holder = dir.holder
        /\ dir'.published = dir.published /\ UNCHANGED backup
    BY <1>0, <1>1, ZenonT(40) DEF StageDirectory, Goto, ChangeDir, TypeOK, Dirs
  <2>2. CallInv(c)'
    BY <1>0, <1>1, <2>1 DEF StageDirectory, CallInv, BeforeBackup, At, Goto, TypeOK
  <2> QED
    BY <2>1, <2>2, QuietStep
<1>2. ASSUME NEW c \in Committers, Fill(c) PROVE TreeInv'
  <2>1. /\ \A b \in Committers \ {c} : pc'[b] = pc[b]
        /\ UNCHANGED <<backup, dir, survivors>>
    BY <1>0, <1>2 DEF Fill, Goto, Return, TypeOK
  <2>2. CallInv(c)'
    BY <1>0, <1>2, <2>1 DEF Fill, CallInv, BeforeBackup, At, Goto, Return, TypeOK
  <2> QED
    BY <1>0, <2>1, <2>2, QuietStep
<1>3. ASSUME NEW c \in Committers, SyncTree(c) PROVE TreeInv'
  <2>1. /\ \A b \in Committers \ {c} : pc'[b] = pc[b]
        /\ UNCHANGED <<backup, dir, survivors>>
    BY <1>0, <1>3 DEF SyncTree, Goto, Return, TypeOK
  <2>2. CallInv(c)'
    BY <1>0, <1>3, <2>1 DEF SyncTree, CallInv, BeforeBackup, At, Goto, Return, TypeOK
  <2> QED
    BY <1>0, <2>1, <2>2, QuietStep
<1>4. ASSUME NEW c \in Committers, InspectDestination(c) PROVE TreeInv'
  <2>1. /\ \A b \in Committers \ {c} : pc'[b] = pc[b]
        /\ dir' \in survivors' /\ survivors' \subseteq survivors \cup {dir'}
        /\ dir'.dest = dir.dest /\ dir'.holder = dir.holder
        /\ dir'.published = dir.published /\ UNCHANGED backup
    BY <1>0, <1>4, ZenonT(40) DEF InspectDestination, CleanUpAndReturn, WithoutStaged, Goto, Return,
                      ChangeDir, TypeOK, Dirs
  <2>2. CallInv(c)'
    BY <1>0, <1>4, <2>1 DEF InspectDestination, CleanUpAndReturn, CallInv, BeforeBackup,
                            At, Goto, Return, TypeOK
  <2> QED
    BY <2>1, <2>2, QuietStep
<1>5. ASSUME NEW c \in Committers, CreateBackupDir(c) PROVE TreeInv'
  <2>1. /\ \A b \in Committers \ {c} : pc'[b] = pc[b] /\ dir'.holder[b] = dir.holder[b]
        /\ dir' \in survivors' /\ survivors' \subseteq survivors \cup {dir'}
        /\ dir'.dest = dir.dest /\ dir'.published = dir.published /\ UNCHANGED backup
    <3>1. /\ \A b \in Committers \ {c} : pc'[b] = pc[b]
          /\ dir' \in survivors' /\ survivors' \subseteq survivors \cup {dir'}
          /\ UNCHANGED backup
      BY <1>0, <1>5 DEF CreateBackupDir, CleanUpAndReturn, Goto, Return, ChangeDir, TypeOK
    <3>2. \/ dir' = dir \/ dir' = WithoutStaged(c)
          \/ dir' = [dir EXCEPT !.holder[c] = EmptyHolder]
          \/ dir' = [[dir EXCEPT !.holder[c] = EmptyHolder] EXCEPT !.staged = @ \ {c}]
      BY <1>5 DEF CreateBackupDir, CleanUpAndReturn, ChangeDir
    <3> QED
      BY <1>0, <3>1, <3>2, ZenonT(40) DEF WithoutStaged, Dirs
  <2>2. dir.holder[c] = Absent /\ backup[c] = Absent
    BY <1>0, <1>5 DEF CreateBackupDir, CallInv, BeforeBackup, At
  <2>3. (pc'[c] = "moving" /\ dir'.holder[c] = EmptyHolder) \/ pc'[c] = "dropping"
    BY <1>0, <1>5 DEF CreateBackupDir, CleanUpAndReturn, Goto, Return, ChangeDir, TypeOK, Dirs
  <2>4. CallInv(c)'
    BY <2>1, <2>2, <2>3 DEF CallInv, BeforeBackup
  <2>5. Safe(dir)'
    <3> SUFFICES ASSUME NEW t \in dir.published \ EmptyTrees
                 PROVE  \/ dir.dest = t
                        \/ \E b \in Committers : dir'.holder[b] = t
                        \/ \E b \in Committers : backup[b] = t /\ b \in dir.published
      BY <2>1 DEF Safe
    <3>1. t # Absent
      BY <1>0 DEF TypeOK, Dirs
    <3> QED
      BY <1>0, <2>1, <2>2, <3>1 DEF Safe
  <2> QED
    BY <2>1, <2>4, <2>5, StepOfCall
<1>6. ASSUME NEW c \in Committers, MoveExistingToBackup(c) PROVE TreeInv'
  <2>1. backup[c] = Absent /\ dir.holder[c] = EmptyHolder
    BY <1>0, <1>6 DEF MoveExistingToBackup, CallInv, At
  <2>2. /\ \A b \in Committers \ {c} : /\ pc'[b] = pc[b] /\ backup'[b] = backup[b]
                                      /\ dir'.holder[b] = dir.holder[b]
        /\ dir' \in survivors' /\ survivors' \subseteq survivors \cup {dir'}
        /\ dir'.published = dir.published
    <3>1. /\ \A b \in Committers \ {c} : pc'[b] = pc[b] /\ backup'[b] = backup[b]
          /\ dir' \in survivors' /\ survivors' \subseteq survivors \cup {dir'}
      BY <1>0, <1>6 DEF MoveExistingToBackup, Goto, Return, ChangeDir, TypeOK
    <3>2. \/ dir' = [dir EXCEPT !.dest = Absent, !.holder[c] = dir.dest]
          \/ \E st \in SUBSET Committers, h \in {Absent, EmptyHolder} :
                dir' = [dir EXCEPT !.staged = st, !.holder[c] = h]
      BY <1>0, <1>6 DEF MoveExistingToBackup, ChangeDir, Dirs
    <3>3. /\ dir'.published = dir.published
          /\ \A b \in Committers \ {c} : dir'.holder[b] = dir.holder[b]
      <4>1. CASE dir' = [dir EXCEPT !.dest = Absent, !.holder[c] = dir.dest]
        BY <1>0, <4>1 DEF Dirs
      <4>2. ASSUME NEW st \in SUBSET Committers, NEW h \in {Absent, EmptyHolder},
                   dir' = [dir EXCEPT !.staged = st, !.holder[c] = h]
            PROVE  /\ dir'.published = dir.published
                   /\ \A b \in Committers \ {c} : dir'.holder[b] = dir.holder[b]
        BY <1>0, <4>2 DEF Dirs
      <4> QED
        BY <3>2, <4>1, <4>2, Zenon
    <3> QED
      BY <3>1, <3>3
  <2>3. \/ /\ pc'[c] = "renaming" /\ dir'.dest = Absent
           /\ dir'.holder[c] = dir.dest /\ backup'[c] = dir.dest
        \/ /\ pc'[c] = "dropping" /\ dir'.dest = dir.dest
           /\ dir'.holder[c] \in {Absent, EmptyHolder} /\ backup'[c] = backup[c]
    <3>1. CASE /\ dir' = [dir EXCEPT !.dest = Absent, !.holder[c] = dir.dest]
               /\ backup' = [backup EXCEPT ![c] = dir.dest]
               /\ Goto(c, "renaming")
      BY <1>0, <3>1 DEF Goto, TypeOK, Dirs
    <3>2. CASE /\ \E st \in SUBSET Committers, h \in {Absent, EmptyHolder} :
                     dir' = [dir EXCEPT !.staged = st, !.holder[c] = h]
               /\ UNCHANGED backup
               /\ Goto(c, "dropping")
      BY <1>0, <3>2 DEF Goto, TypeOK, Dirs
    <3> QED
      BY <1>0, <1>6, <3>1, <3>2 DEF MoveExistingToBackup, ChangeDir, Return, Dirs
  <2>4. CallInv(c)'
    BY <2>3 DEF CallInv, BeforeBackup
  <2>5. Safe(dir)'
    <3> SUFFICES ASSUME NEW t \in dir.published \ EmptyTrees
                 PROVE  \/ dir'.dest = t
                        \/ \E b \in Committers : dir'.holder[b] = t
                        \/ \E b \in Committers : backup'[b] = t /\ b \in dir.published
      BY <2>2 DEF Safe
    <3>1. t # Absent /\ t # EmptyHolder
      BY <1>0 DEF TypeOK, Dirs
    <3>2. CASE dir.dest = t
      BY <2>3, <3>2
    <3>3. CASE \E b \in Committers : dir.holder[b] = t
      BY <2>1, <2>2, <3>1, <3>3
    <3>4. CASE \E b \in Committers : backup[b] = t /\ b \in dir.published
      BY <2>1, <2>2, <3>1, <3>4
    <3> QED
      BY <1>0, <3>2, <3>3, <3>4 DEF Safe
  <2> QED
    BY <2>1, <2>2, <2>4, <2>5, StepOfCall
<1>7. ASSUME NEW c \in Committers, RenameStaged(c) PROVE TreeInv'
  <2>1. /\ \A b \in Committers \ {c} : pc'[b] = pc[b]
        /\ dir' \in survivors' /\ survivors' \subseteq survivors \cup {dir'}
        /\ dir'.holder = dir.holder /\ UNCHANGED backup
    BY <1>0, <1>7 DEF RenameStaged, WithoutStaged, Goto, Return, ChangeDir, TypeOK, Dirs
  <2>2. CASE dir'.dest = dir.dest /\ dir'.published = dir.published
             /\ (pc'[c] = "dropping" \/ (pc'[c] = "restoring" /\ backup[c] # Absent))
    <3>1. CallInv(c)'
      BY <1>0, <1>7, <2>1, <2>2 DEF RenameStaged, CallInv, BeforeBackup, At
    <3> QED
      BY <2>1, <2>2, <3>1, QuietStep
  <2>3. CASE RenameAllowed(c) /\ dir'.dest = c /\ dir'.published = dir.published \cup {c}
             /\ pc'[c] = IF backup[c] = Absent THEN "sync_parent" ELSE "removing_backup"
    <3>1. CallInv(c)'
      BY <1>0, <1>7, <2>1, <2>3 DEF RenameStaged, CallInv, BeforeBackup, At
    <3>2. Safe(dir)'
      BY <1>0, <2>1, <2>3 DEF Safe, RenameAllowed, TypeOK, Dirs
    <3> QED
      BY <2>1, <2>3, <3>1, <3>2, StepOfCall
  <2>4. CASE /\ RenameAllowed(c)
             /\ dir' = [dir EXCEPT !.dest = c, !.staged = @ \ {c}, !.published = @ \cup {c}]
             /\ Goto(c, IF backup[c] = Absent THEN "sync_parent" ELSE "removing_backup")
    BY <1>0, <2>3, <2>4 DEF Goto, TypeOK, Dirs
  <2>5. CASE /\ dir' = WithoutStaged(c) \/ dir' = dir
             /\ Goto(c, "dropping") \/ (backup[c] # Absent /\ Goto(c, "restoring"))
    <3>1. dir'.dest = dir.dest /\ dir'.published = dir.published
      BY <1>0, <2>5 DEF WithoutStaged, Dirs
    <3>2. pc'[c] = "dropping" \/ (pc'[c] = "restoring" /\ backup[c] # Absent)
      BY <1>0, <2>5 DEF Goto, TypeOK
    <3> QED
      BY <2>2, <3>1, <3>2
  <2>6. \/ /\ RenameAllowed(c)
           /\ dir' = [dir EXCEPT !.dest = c, !.staged = @ \ {c}, !.published = @ \cup {c}]
           /\ Goto(c, IF backup[c] = Absent THEN "sync_parent" ELSE "removing_backup")
        \/ /\ dir' = WithoutStaged(c) \/ dir' = dir
           /\ Goto(c, "dropping") \/ (backup[c] # Absent /\ Goto(c, "restoring"))
    BY <1>7 DEF RenameStaged, Return, ChangeDir
  <2> QED
    BY <2>4, <2>5, <2>6
<1>8. ASSUME NEW c \in Committers, RestorePrevious(c) PROVE TreeInv'
  <2>1. /\ \A b \in Committers \ {c} : pc'[b] = pc[b] /\ dir'.holder[b] = dir.holder[b]
        /\ dir' \in survivors' /\ survivors' \subseteq survivors \cup {dir'}
        /\ dir'.published = dir.published /\ UNCHANGED backup
        /\ pc'[c] = "dropping"
    <3>1. /\ \A b \in Committers \ {c} : pc'[b] = pc[b]
          /\ dir' \in survivors' /\ survivors' \subseteq survivors \cup {dir'}
          /\ pc'[c] = "dropping" /\ UNCHANGED backup
      BY <1>0, <1>8 DEF RestorePrevious, Goto, Return, ChangeDir, TypeOK
    <3>2. \/ dir' = dir
          \/ dir' = [dir EXCEPT !.dest = dir.holder[c], !.holder[c] = EmptyHolder]
      BY <1>8 DEF RestorePrevious, ChangeDir
    <3>3. /\ dir'.published = dir.published
          /\ \A b \in Committers \ {c} : dir'.holder[b] = dir.holder[b]
      <4>1. CASE dir' = [dir EXCEPT !.dest = dir.holder[c], !.holder[c] = EmptyHolder]
        BY <1>0, <4>1 DEF Dirs
      <4> QED
        BY <3>2, <4>1
    <3> QED
      BY <3>1, <3>3
  <2>2. CallInv(c)'
    BY <2>1 DEF CallInv, BeforeBackup
  <2>3. Safe(dir)'
    <3>1. CASE UNCHANGED dir
      BY <1>0, <2>1, <3>1 DEF Safe
    <3>2. CASE RestoreAllowed(c) /\ dir'.dest = dir.holder[c]
      BY <1>0, <2>1, <3>2 DEF Safe, RestoreAllowed, TypeOK, Dirs
    <3> QED
      BY <1>0, <1>8, <3>1, <3>2 DEF RestorePrevious, ChangeDir, TypeOK, Dirs
  <2> QED
    BY <2>1, <2>2, <2>3, StepOfCall
<1>9. ASSUME NEW c \in Committers, RemoveBackup(c) PROVE TreeInv'
  <2>1. /\ \A b \in Committers \ {c} : pc'[b] = pc[b] /\ dir'.holder[b] = dir.holder[b]
        /\ dir' \in survivors' /\ survivors' \subseteq survivors \cup {dir'}
        /\ dir'.dest = dir.dest /\ dir'.published = dir.published /\ UNCHANGED backup
        /\ pc'[c] \in {"sync_parent", "dropping"}
    BY <1>0, <1>9 DEF RemoveBackup, Goto, Return, ChangeDir, TypeOK, Dirs
  <2>2. CallInv(c)'
    BY <2>1 DEF CallInv, BeforeBackup
  <2>3. dir.holder[c] = backup[c] /\ c \in dir.published
    BY <1>0, <1>9 DEF RemoveBackup, CallInv, At
  <2>4. Safe(dir)'
    BY <1>0, <2>1, <2>3 DEF Safe
  <2> QED
    BY <2>1, <2>2, <2>4, StepOfCall
<1>10. ASSUME NEW c \in Committers, SyncRootDirectory(c) PROVE TreeInv'
  <2>1. /\ \A b \in Committers \ {c} : pc'[b] = pc[b]
        /\ pc'[c] = "dropping"
        /\ UNCHANGED <<backup, dir>> /\ dir' \in survivors' /\ survivors' \subseteq survivors
    BY <1>0, <1>10 DEF SyncRootDirectory, SyncedSurvivors, Goto, Return, TypeOK
  <2>2. CallInv(c)'
    BY <2>1 DEF CallInv, BeforeBackup
  <2> QED
    BY <2>1, <2>2, QuietStep
<1>11. ASSUME NEW c \in Committers, DropStaged(c) PROVE TreeInv'
  <2>1. /\ \A b \in Committers \ {c} : pc'[b] = pc[b]
        /\ pc'[c] \in {"done", "leaked"}
        /\ dir' \in survivors' /\ survivors' \subseteq survivors \cup {dir'}
        /\ dir'.dest = dir.dest /\ dir'.holder = dir.holder
        /\ dir'.published = dir.published /\ UNCHANGED backup
    BY <1>0, <1>11 DEF DropStaged, WithoutStaged, Goto, ChangeDir, TypeOK, Dirs
  <2>2. CallInv(c)'
    BY <2>1 DEF CallInv, BeforeBackup
  <2> QED
    BY <2>1, <2>2, QuietStep
<1>12. ASSUME NEW c \in Committers, Kill(c) PROVE TreeInv'
  <2>1. /\ \A b \in Committers \ {c} : pc'[b] = pc[b]
        /\ pc'[c] = "dead" /\ UNCHANGED <<backup, dir, survivors>>
    BY <1>0, <1>12 DEF Kill, Goto, TypeOK
  <2>2. CallInv(c)'
    BY <2>1 DEF CallInv, BeforeBackup
  <2> QED
    BY <1>0, <2>1, <2>2, QuietStep
<1>13. CASE ForeignFile
  <2>1. /\ UNCHANGED <<pc, backup>> /\ dir' = [dir EXCEPT !.dest = Blocker]
        /\ dir.dest = Absent /\ survivors' = survivors \cup {dir'}
    BY <1>13 DEF ForeignFile, ChangeDir
  <2>2. dir'.holder = dir.holder /\ dir'.published = dir.published
    BY <1>0, <2>1 DEF Dirs
  <2>3. Safe(dir)'
    BY <1>0, <2>1, <2>2 DEF Safe, TypeOK, Dirs
  <2>4. \A s \in survivors : Safe(s)'
    BY <2>1 DEF TreeInv, Safe
  <2>5. \A s \in survivors' : Safe(s)'
    <3> SUFFICES ASSUME NEW s \in survivors' PROVE Safe(s)'
      OBVIOUS
    <3>1. CASE s = dir'
      BY <2>3, <3>1 DEF Safe
    <3> QED
      BY <2>1, <2>4, <3>1
  <2>6. ASSUME NEW c \in Committers PROVE CallInv(c)'
    <3>1. CallInv(c) /\ UNCHANGED <<pc[c], backup[c], dir.holder[c], dir.published>>
      BY <1>0, <2>1, <2>2
    <3>2. dir \in survivors /\ survivors' = survivors \cup {dir'}
      BY <1>0, <2>1
    <3> QED
      BY <2>2, <3>1, <3>2 DEF CallInv, BeforeBackup
  <2> QED
    BY <2>1, <2>5, <2>6 DEF TreeInv
<1>14. CASE PowerLoss
  <2>1. /\ dir' \in survivors /\ survivors' = {dir'} /\ UNCHANGED backup
        /\ \A c \in Committers : pc'[c] = IF Running(c) THEN "dead" ELSE pc[c]
    BY <1>14 DEF PowerLoss
  <2>2. \A s \in survivors' : Safe(s)'
    BY <2>1 DEF TreeInv, Safe
  <2>3. ASSUME NEW c \in Committers PROVE CallInv(c)'
    <3>1. (pc'[c] = "idle" /\ pc[c] = "idle") \/ pc'[c] \in {"done", "leaked", "dead"}
      BY <1>0, <2>1 DEF Running, Steps, Pcs, TypeOK
    <3> QED
      BY <1>0, <2>1, <3>1 DEF CallInv, BeforeBackup
  <2> QED
    BY <2>1, <2>2, <2>3 DEF TreeInv
<1>15. CASE UNCHANGED vars
  BY <1>15 DEF vars, machineVars, TreeInv, Safe, CallInv
<1> QED
  BY <1>1, <1>2, <1>3, <1>4, <1>5, <1>6, <1>7, <1>8, <1>9, <1>10, <1>11,
     <1>12, <1>13, <1>14, <1>15 DEF Next, Step

\* No tree with content that ever was the destination is lost, whatever calls
\* run concurrently, fail, are killed or lose power.
THEOREM NoTreeLostAlways == Spec => []NoTreeLost
<1>1. TreeInv => NoTreeLost
  BY DEF TreeInv, Safe, NoTreeLost
<1> QED
  BY <1>1, TypeCorrect, TreeInvInit, TreeInvStep, PTL DEF Spec

-----------------------------------------------------------------------------
(***************************************************************************)
(* What a call returns.  The outcome is decided once, at the step that     *)
(* fails or succeeds; from then on only a power loss changes what it is    *)
(* about, and never makes a tree known that was not published.             *)
(***************************************************************************)
Unswitched == {"idle", "filling", "syncing", "inspecting", "backing_up", "moving",
               "renaming", "restoring"}
TreeOnDisk == {"inspecting", "backing_up", "moving", "renaming", "restoring",
               "removing_backup", "sync_parent"}

\* Whether the switch happened, and whether it is for good.
OutcomeInv(c) ==
    /\ pc[c] \in Steps \cup {"idle"} => outcome[c] = "none"
    /\ pc[c] \in Unswitched \/ outcome[c] \in PreCommitErrors => c \notin dir.published
    /\ pc[c] \in {"removing_backup", "sync_parent"} => c \in dir.published
    /\ pc[c] \in TreeOnDisk \/ outcome[c] = "ok" => c \in synced \cup refused
    /\ outcome[c] = "ok" => c \in refused \/ \A s \in survivors : c \in s.published
    /\ outcome[c] \in PostCommit /\ powerLosses = 0 => c \in dir.published

Emptied == {Absent, EmptyHolder}

\* Where the previous directory is.
HolderInv(c) ==
    powerLosses = 0 =>
        /\ outcome[c] = "rollback_failed" => dir.holder[c] = backup[c]
        /\ \/ outcome[c] \notin {"none", "rollback_failed", "committed_but_cleanup_failed"}
           \/ pc[c] = "renaming" /\ backup[c] = Absent
           \/ pc[c] = "sync_parent"
           => dir.holder[c] \in Emptied

SurvivorsOlder == \A s \in survivors : s.published \subseteq dir.published

ReportInv == SurvivorsOlder /\ \A c \in Committers : OutcomeInv(c) /\ HolderInv(c)

\* What every step but a power loss does to the directory.
Grows == /\ dir' \in survivors' /\ survivors' \subseteq survivors \cup {dir'}
         /\ dir.published \subseteq dir'.published
         /\ powerLosses' = powerLosses
         /\ synced \subseteq synced' /\ refused \subseteq refused'

LEMMA OlderKept == ASSUME TreeInv, ReportInv, Grows PROVE SurvivorsOlder'
BY DEF ReportInv, SurvivorsOlder, Grows

\* A step of another call, or of another program.
LEMMA ReportKept ==
    ASSUME TreeInv, ReportInv, Grows, NEW c \in Committers,
           pc'[c] = pc[c], outcome'[c] = outcome[c], backup'[c] = backup[c],
           dir'.holder[c] = dir.holder[c], c \in dir'.published => c \in dir.published
    PROVE  OutcomeInv(c)' /\ HolderInv(c)'
<1>1. OutcomeInv(c) /\ HolderInv(c) /\ dir \in survivors
  BY DEF ReportInv, TreeInv
<1>2. OutcomeInv(c)'
  BY <1>1 DEF OutcomeInv, Grows
<1>3. HolderInv(c)'
  BY <1>1 DEF HolderInv, Grows
<1> QED
  BY <1>2, <1>3

\* What every step of call c does; but for its rename it publishes nothing.
Acts(c) == /\ Grows
           /\ dir'.published \subseteq dir.published \cup {c}
           /\ \A b \in Committers \ {c} :
                 /\ pc'[b] = pc[b] /\ outcome'[b] = outcome[b] /\ backup'[b] = backup[b]
                 /\ dir'.holder[b] = dir.holder[b]

\* A step of call c that ends it with an error, before the rename.
LEMMA ReturnsError ==
    ASSUME TreeInv, ReportInv, NEW c \in Committers, Acts(c), pc[c] \in Unswitched,
           pc'[c] \in {"dropping", "leaked", "done"},
           outcome'[c] \in PreCommitErrors, dir'.published = dir.published,
           IF outcome'[c] = "rollback_failed" THEN dir'.holder[c] = backup'[c]
                                             ELSE dir'.holder[c] \in Emptied
    PROVE  OutcomeInv(c)' /\ HolderInv(c)'
<1>1. OutcomeInv(c)
  BY DEF ReportInv
<1>2. OutcomeInv(c)'
  BY <1>1 DEF OutcomeInv, Steps, Unswitched, TreeOnDisk, PreCommitErrors, PostCommit
<1>3. HolderInv(c)'
  BY DEF HolderInv, PreCommitErrors
<1> QED
  BY <1>2, <1>3

\* A step of call c that goes on, before the rename.
LEMMA GoesOn ==
    ASSUME TreeInv, ReportInv, NEW c \in Committers, Acts(c), pc[c] \in Unswitched,
           pc'[c] \in Unswitched, outcome'[c] = outcome[c], dir'.published = dir.published,
           pc'[c] \in TreeOnDisk => c \in (synced \cup refused)',
           pc'[c] = "renaming" /\ backup'[c] = Absent => dir'.holder[c] \in Emptied
    PROVE  OutcomeInv(c)' /\ HolderInv(c)'
<1>1. OutcomeInv(c) /\ outcome'[c] = "none"
  BY DEF ReportInv, OutcomeInv, Unswitched, Steps
<1>2. OutcomeInv(c)'
  BY <1>1 DEF OutcomeInv, Unswitched, PreCommitErrors, PostCommit
<1>3. HolderInv(c)'
  BY <1>1 DEF HolderInv, Unswitched
<1> QED
  BY <1>2, <1>3

\* A step of a call, or its death, keeps what its outcome and its holder say.
LEMMA CallReports ==
    ASSUME TreeInv, ReportInv, NEW c \in Committers, Step(c) \/ Kill(c)
    PROVE  Acts(c) /\ OutcomeInv(c)' /\ HolderInv(c)'
<1>0. /\ dir \in Dirs /\ dir \in survivors /\ CallInv(c) /\ OutcomeInv(c) /\ HolderInv(c)
      /\ pc \in [Committers -> Pcs] /\ outcome \in [Committers -> Outcomes]
      /\ backup \in [Committers -> Entries]
      /\ pc[c] \in BeforeBackup => dir.holder[c] = Absent /\ backup[c] = Absent
  BY DEF TreeInv, TypeOK, ReportInv, CallInv
<1> USE DEF At, Goto, Return, ChangeDir, envVars, machineVars
<1>1. CASE StageDirectory(c)
  <2>1. /\ dir'.holder = dir.holder /\ dir'.published = dir.published
        /\ dir' \in survivors' /\ survivors' \subseteq survivors \cup {dir'}
    BY <1>0, <1>1 DEF StageDirectory, Dirs
  <2>2. Acts(c) /\ pc[c] = "idle" /\ dir'.holder[c] = Absent
    BY <1>0, <1>1, <2>1 DEF StageDirectory, Acts, Grows, BeforeBackup
  <2>3. \/ pc'[c] = "filling" /\ outcome'[c] = outcome[c]
        \/ pc'[c] \in {"leaked", "done"} /\ outcome'[c] = "create_tempdir"
    BY <1>0, <1>1 DEF StageDirectory
  <2> QED
    BY <2>1, <2>2, <2>3, ReturnsError, GoesOn
       DEF Unswitched, TreeOnDisk, PreCommitErrors, Emptied
<1>2. CASE Fill(c)
  <2>1. Acts(c) /\ pc[c] = "filling" /\ dir' = dir /\ dir.holder[c] = Absent
    BY <1>0, <1>2 DEF Fill, Acts, Grows, BeforeBackup
  <2>2. \/ pc'[c] = "syncing" /\ outcome'[c] = outcome[c]
        \/ pc'[c] = "dropping" /\ outcome'[c] = "abandoned"
    BY <1>0, <1>2 DEF Fill
  <2> QED
    BY <2>1, <2>2, ReturnsError, GoesOn
       DEF Unswitched, TreeOnDisk, PreCommitErrors, Emptied
<1>3. CASE SyncTree(c)
  <2>1. Acts(c) /\ pc[c] = "syncing" /\ dir' = dir /\ dir.holder[c] = Absent
    BY <1>0, <1>3 DEF SyncTree, TreeSynced, Acts, Grows, BeforeBackup
  <2>2. \/ /\ pc'[c] \in {"inspecting", "renaming"} /\ outcome'[c] = outcome[c]
           /\ c \in (synced \cup refused)'
        \/ pc'[c] = "dropping" /\ outcome'[c] = "sync_tree"
    BY <1>0, <1>3 DEF SyncTree, TreeSynced
  <2> QED
    BY <2>1, <2>2, ReturnsError, GoesOn
       DEF Unswitched, TreeOnDisk, PreCommitErrors, Emptied
<1>4. CASE InspectDestination(c)
  <2>1. /\ dir'.holder = dir.holder /\ dir'.published = dir.published
        /\ dir' \in survivors' /\ survivors' \subseteq survivors \cup {dir'}
    BY <1>0, <1>4 DEF InspectDestination, CleanUpAndReturn, WithoutStaged, Dirs
  <2>2. /\ Acts(c) /\ pc[c] = "inspecting" /\ dir'.holder[c] = Absent
        /\ c \in (synced \cup refused)'
    BY <1>0, <1>4, <2>1 DEF InspectDestination, CleanUpAndReturn, Acts, Grows, BeforeBackup,
       OutcomeInv, TreeOnDisk
  <2>3. \/ pc'[c] \in {"renaming", "backing_up"} /\ outcome'[c] = outcome[c]
        \/ pc'[c] = "dropping" /\ outcome'[c] \in {"not_a_directory", "symlink_metadata"}
    BY <1>0, <1>4 DEF InspectDestination, CleanUpAndReturn
  <2> QED
    BY <2>1, <2>2, <2>3, ReturnsError, GoesOn
       DEF Unswitched, TreeOnDisk, PreCommitErrors, Emptied
<1>5. CASE CreateBackupDir(c)
  <2>1. dir.holder[c] = Absent /\ pc[c] = "backing_up" /\ c \in synced \cup refused
    BY <1>0, <1>5 DEF CreateBackupDir, BeforeBackup, OutcomeInv, TreeOnDisk
  <2>2. /\ \A b \in Committers \ {c} : dir'.holder[b] = dir.holder[b]
        /\ dir'.published = dir.published /\ dir'.holder[c] \in Emptied
        /\ dir' \in survivors' /\ survivors' \subseteq survivors \cup {dir'}
    <3>1. \/ dir' = dir \/ dir' = WithoutStaged(c)
          \/ dir' = [dir EXCEPT !.holder[c] = EmptyHolder]
          \/ dir' = [[dir EXCEPT !.holder[c] = EmptyHolder] EXCEPT !.staged = @ \ {c}]
      BY <1>5 DEF CreateBackupDir, CleanUpAndReturn
    <3>2. dir' \in survivors' /\ survivors' \subseteq survivors \cup {dir'}
      BY <1>0, <1>5 DEF CreateBackupDir, CleanUpAndReturn
    <3> QED
      BY <1>0, <2>1, <3>1, <3>2, ZenonT(40) DEF WithoutStaged, Dirs, Emptied
  <2>3. Acts(c) /\ c \in (synced \cup refused)'
    BY <1>0, <1>5, <2>1, <2>2 DEF CreateBackupDir, CleanUpAndReturn, Acts, Grows
  <2>4. \/ pc'[c] = "moving" /\ outcome'[c] = outcome[c]
        \/ pc'[c] = "dropping" /\ outcome'[c] = "create_backup_dir"
    BY <1>0, <1>5 DEF CreateBackupDir, CleanUpAndReturn
  <2> QED
    BY <2>1, <2>2, <2>3, <2>4, ReturnsError, GoesOn
       DEF Unswitched, TreeOnDisk, PreCommitErrors, Emptied
<1>6. CASE MoveExistingToBackup(c)
  <2>1. pc[c] = "moving" /\ c \in synced \cup refused
    BY <1>0, <1>6 DEF MoveExistingToBackup, OutcomeInv, TreeOnDisk
  <2>2. CASE /\ dir' = [dir EXCEPT !.dest = Absent, !.holder[c] = dir.dest]
             /\ survivors' = survivors \cup {dir'}
             /\ backup' = [backup EXCEPT ![c] = dir.dest] /\ dir.dest # Absent
             /\ Goto(c, "renaming") /\ UNCHANGED outcome
    <3>1. /\ \A b \in Committers \ {c} : dir'.holder[b] = dir.holder[b]
          /\ dir'.published = dir.published
      BY <1>0, <2>2 DEF Dirs
    <3>2. /\ Acts(c) /\ c \in (synced \cup refused)' /\ pc'[c] = "renaming" /\ backup'[c] # Absent
          /\ outcome'[c] = outcome[c]
      BY <1>0, <1>6, <2>1, <2>2, <3>1 DEF MoveExistingToBackup, Acts, Grows
    <3> QED
      BY <2>1, <3>1, <3>2, GoesOn DEF Unswitched
  <2>3. ASSUME NEW st \in SUBSET Committers, NEW h \in {Absent, EmptyHolder},
               dir' = [dir EXCEPT !.staged = st, !.holder[c] = h],
               survivors' = survivors \cup {dir'},
               Return(c, "rename_existing"), UNCHANGED backup
        PROVE  Acts(c) /\ OutcomeInv(c)' /\ HolderInv(c)'
    <3>1. /\ \A b \in Committers \ {c} : dir'.holder[b] = dir.holder[b]
          /\ dir'.published = dir.published /\ dir'.holder[c] \in Emptied
      BY <1>0, <2>3 DEF Dirs, Emptied
    <3>2. /\ Acts(c) /\ pc'[c] = "dropping" /\ outcome'[c] = "rename_existing"
      BY <1>0, <1>6, <2>3, <3>1 DEF MoveExistingToBackup, Acts, Grows
    <3> QED
      BY <2>1, <3>1, <3>2, ReturnsError DEF Unswitched, PreCommitErrors
  <2>4. dir.staged \in SUBSET Committers /\ dir.staged \ {c} \in SUBSET Committers
    BY <1>0 DEF Dirs
  <2> QED
    BY <1>6, <2>2, <2>3, <2>4, Zenon DEF MoveExistingToBackup
<1>7. CASE RenameStaged(c)
  <2>1. pc[c] = "renaming" /\ c \in synced \cup refused /\ outcome[c] = "none"
    BY <1>0, <1>7 DEF RenameStaged, OutcomeInv, TreeOnDisk, Steps
  <2>2. CASE /\ dir' = [dir EXCEPT !.dest = c, !.staged = @ \ {c}, !.published = @ \cup {c}]
             /\ survivors' = survivors \cup {dir'}
             /\ Goto(c, IF backup[c] = Absent THEN "sync_parent" ELSE "removing_backup")
             /\ UNCHANGED outcome
    <3>1. dir'.holder = dir.holder /\ dir'.published = dir.published \cup {c}
      BY <1>0, <2>2 DEF Dirs
    <3>2. /\ Acts(c) /\ c \in (synced \cup refused)' /\ outcome'[c] = "none" /\ backup'[c] = backup[c]
          /\ pc'[c] = IF backup[c] = Absent THEN "sync_parent" ELSE "removing_backup"
      BY <1>0, <1>7, <2>1, <2>2, <3>1 DEF RenameStaged, Acts, Grows
    <3>3. OutcomeInv(c)'
      BY <3>1, <3>2 DEF OutcomeInv, Unswitched, PreCommitErrors, PostCommit
    <3>4. HolderInv(c)'
      BY <1>0, <2>1, <3>1, <3>2 DEF HolderInv, Acts, Grows
    <3> QED
      BY <3>2, <3>3, <3>4
  <2>3. CASE dir' = dir \/ dir' = WithoutStaged(c)
    <3>1. /\ dir'.holder = dir.holder /\ dir'.published = dir.published
          /\ dir' \in survivors' /\ survivors' \subseteq survivors \cup {dir'}
      BY <1>0, <1>7, <2>3 DEF RenameStaged, WithoutStaged, Dirs
    <3>2. /\ Acts(c) /\ c \in (synced \cup refused)' /\ backup'[c] = backup[c] /\ dir'.holder[c] = dir.holder[c]
      BY <1>0, <1>7, <2>1, <3>1 DEF RenameStaged, Acts, Grows
    <3>3. \/ /\ backup[c] = Absent /\ pc'[c] = "dropping"
             /\ outcome'[c] \in {"rename_staged", "staged_cleanup"}
          \/ pc'[c] = "restoring" /\ outcome'[c] = outcome[c]
          \/ c \in dir'.published
      <4>1. CASE dir' = [dir EXCEPT !.dest = c, !.staged = @ \ {c},
                                    !.published = @ \cup {c}]
        <5>1. dir'.published = dir.published \cup {c}
          BY <1>0, <4>1 DEF Dirs
        <5> QED
          BY <5>1
      <4>2. CASE backup[c] = Absent /\ (Return(c, "rename_staged") \/ Return(c, "staged_cleanup"))
        BY <1>0, <4>2 DEF Return, Goto
      <4>3. CASE Goto(c, "restoring") /\ UNCHANGED outcome
        BY <1>0, <4>3 DEF Goto
      <4> QED
        BY <1>7, <4>1, <4>2, <4>3 DEF RenameStaged, ChangeDir
    <3>4. c \notin dir'.published /\ powerLosses' = powerLosses
      BY <1>0, <2>1, <3>1, <3>2 DEF OutcomeInv, Unswitched, Acts, Grows
    <3>5. CASE pc'[c] = "restoring" /\ outcome'[c] = outcome[c]
      BY <2>1, <3>1, <3>2, <3>5, GoesOn DEF Unswitched
    <3>6. CASE /\ backup[c] = Absent /\ pc'[c] = "dropping"
               /\ outcome'[c] \in {"rename_staged", "staged_cleanup"}
      <4>1. powerLosses' = 0 => dir'.holder[c] \in Emptied
        BY <1>0, <2>1, <3>1, <3>2, <3>4, <3>6 DEF HolderInv
      <4>2. OutcomeInv(c)'
        BY <1>0, <2>1, <3>1, <3>2, <3>4, <3>6
           DEF OutcomeInv, Steps, Unswitched, TreeOnDisk, PreCommitErrors, PostCommit
      <4>3. HolderInv(c)'
        BY <3>6, <4>1 DEF HolderInv
      <4> QED
        BY <3>2, <4>2, <4>3
    <3> QED
      BY <3>3, <3>4, <3>5, <3>6
  <2> QED
    BY <1>7, <2>2, <2>3 DEF RenameStaged
<1>8. CASE RestorePrevious(c)
  <2>1. pc[c] = "restoring" /\ dir.holder[c] = backup[c] /\ UNCHANGED backup
    BY <1>0, <1>8 DEF RestorePrevious, CallInv
  <2>2. CASE /\ dir' = [dir EXCEPT !.dest = dir.holder[c], !.holder[c] = EmptyHolder]
             /\ survivors' = survivors \cup {dir'}
             /\ \E e \in {"staged_cleanup", "rename_staged"} : Return(c, e)
    <3>1. /\ \A b \in Committers \ {c} : dir'.holder[b] = dir.holder[b]
          /\ dir'.published = dir.published /\ dir'.holder[c] \in Emptied
      BY <1>0, <2>2 DEF Dirs, Emptied
    <3>2. /\ Acts(c) /\ pc'[c] = "dropping"
          /\ outcome'[c] \in {"staged_cleanup", "rename_staged"}
      BY <1>0, <1>8, <2>2, <3>1 DEF RestorePrevious, Acts, Grows
    <3> QED
      BY <2>1, <3>1, <3>2, ReturnsError DEF Unswitched, PreCommitErrors
  <2>3. CASE Return(c, "rollback_failed") /\ UNCHANGED <<dir, survivors>>
    <3>1. Acts(c) /\ pc'[c] = "dropping" /\ outcome'[c] = "rollback_failed"
      BY <1>0, <1>8, <2>3 DEF RestorePrevious, Acts, Grows
    <3> QED
      BY <2>1, <2>3, <3>1, ReturnsError DEF Unswitched, PreCommitErrors
  <2> QED
    BY <1>8, <2>2, <2>3 DEF RestorePrevious, RestoreFailure
<1>9. CASE RemoveBackup(c)
  <2>1. /\ pc[c] = "removing_backup" /\ c \in dir.published /\ c \in synced \cup refused
        /\ outcome[c] = "none"
    BY <1>0, <1>9 DEF RemoveBackup, OutcomeInv, TreeOnDisk, Steps
  <2>2. /\ \A b \in Committers \ {c} : dir'.holder[b] = dir.holder[b]
        /\ dir'.published = dir.published
        /\ dir' \in survivors' /\ survivors' \subseteq survivors \cup {dir'}
    <3>1. \/ dir' = dir \/ \E h \in {Absent, EmptyHolder} : dir' = [dir EXCEPT !.holder[c] = h]
      BY <1>9 DEF RemoveBackup
    <3>2. dir' \in survivors' /\ survivors' \subseteq survivors \cup {dir'}
      BY <1>0, <1>9 DEF RemoveBackup
    <3> QED
      BY <1>0, <3>1, <3>2 DEF Dirs
  <2>3. Acts(c) /\ c \in (synced \cup refused)'
    BY <1>0, <1>9, <2>1, <2>2 DEF RemoveBackup, Acts, Grows
  <2>4. \/ pc'[c] = "sync_parent" /\ outcome'[c] = "none" /\ dir'.holder[c] = Absent
        \/ pc'[c] = "dropping" /\ outcome'[c] = "committed_but_cleanup_failed"
    BY <1>0, <1>9, <2>1 DEF RemoveBackup, CleanupFailure, Dirs
  <2>5. OutcomeInv(c)'
    BY <2>1, <2>2, <2>3, <2>4
       DEF OutcomeInv, Steps, Unswitched, TreeOnDisk, PreCommitErrors, PostCommit
  <2>6. HolderInv(c)'
    BY <2>4 DEF HolderInv, Emptied
  <2> QED
    BY <2>3, <2>5, <2>6
<1>10. CASE SyncRootDirectory(c)
  <2>1. /\ pc[c] = "sync_parent" /\ c \in dir.published /\ c \in synced \cup refused
        /\ outcome[c] = "none" /\ UNCHANGED <<dir, synced>>
        /\ powerLosses = 0 => dir.holder[c] \in Emptied
    BY <1>0, <1>10 DEF SyncRootDirectory, OutcomeInv, HolderInv, TreeOnDisk, Steps
  <2>2. Acts(c) /\ UNCHANGED powerLosses /\ refused \subseteq refused'
    BY <1>0, <1>10 DEF SyncRootDirectory, SyncedSurvivors, Acts, Grows
  <2>3. /\ pc'[c] = "dropping"
        /\ \/ outcome'[c] = "ok" /\ survivors' = {dir}
           \/ outcome'[c] = "ok" /\ c \in refused'
           \/ outcome'[c] = "committed_but_unsynced"
    BY <1>0, <1>10 DEF SyncRootDirectory, SyncedSurvivors
  <2>4. OutcomeInv(c)'
    BY <2>1, <2>2, <2>3
       DEF OutcomeInv, Steps, Unswitched, TreeOnDisk, PreCommitErrors, PostCommit
  <2>5. HolderInv(c)'
    BY <2>1, <2>2, <2>3 DEF HolderInv
  <2> QED
    BY <2>2, <2>4, <2>5
<1>11. CASE DropStaged(c) \/ Kill(c)
  <2>1. /\ dir'.holder = dir.holder /\ dir'.published = dir.published
        /\ dir' \in survivors' /\ survivors' \subseteq survivors \cup {dir'}
    BY <1>0, <1>11 DEF DropStaged, Kill, WithoutStaged, Dirs
  <2>2. Acts(c) /\ UNCHANGED <<outcome, backup, synced, refused, powerLosses>>
    BY <1>0, <1>11, <2>1 DEF DropStaged, Kill, Acts, Grows
  <2>3. pc'[c] \in {"done", "leaked", "dead"}
    BY <1>0, <1>11 DEF DropStaged, Kill
  <2>4. OutcomeInv(c)'
    BY <1>0, <2>1, <2>2, <2>3 DEF OutcomeInv, Steps, Unswitched, TreeOnDisk
  <2>5. HolderInv(c)'
    BY <1>0, <2>1, <2>2, <2>3 DEF HolderInv
  <2> QED
    BY <2>2, <2>4, <2>5
<1> QED
  BY <1>1, <1>2, <1>3, <1>4, <1>5, <1>6, <1>7, <1>8, <1>9, <1>10, <1>11 DEF Step

\* Nothing is reported at first, and no step reports what is not so.
LEMMA ReportInvInit == Init => ReportInv
<1> SUFFICES ASSUME Init PROVE ReportInv
  OBVIOUS
<1>1. /\ dir.published \subseteq {Old} /\ survivors = {dir}
      /\ \A c \in Committers : dir.holder[c] = Absent
  <2>1. PICK dest \in {Old, Absent} :
           dir = [dest |-> dest, staged |-> {}, published |-> {Old} \cap {dest},
                  holder |-> [c \in Committers |-> Absent]]
    BY DEF Init
  <2>2. dir.holder = [c \in Committers |-> Absent] /\ dir.published = {Old} \cap {dest}
    BY <2>1
  <2> QED
    BY <2>2 DEF Init
<1>2. ASSUME NEW c \in Committers PROVE OutcomeInv(c) /\ HolderInv(c)
  <2>1. /\ pc[c] = "idle" /\ outcome[c] = "none" /\ backup[c] = Absent
        /\ c \notin dir.published
    BY <1>1, AtomicDirectoryAssumption DEF Init
  <2> QED
    BY <1>1, <2>1 DEF OutcomeInv, HolderInv, TreeOnDisk, PreCommitErrors, PostCommit
<1> QED
  BY <1>1, <1>2 DEF ReportInv, SurvivorsOlder

LEMMA ReportInvStep == TreeInv /\ ReportInv /\ [Next]_vars => ReportInv'
<1> SUFFICES ASSUME TreeInv, ReportInv, [Next]_vars PROVE ReportInv'
  OBVIOUS
<1>0. dir \in survivors /\ dir \in Dirs /\ powerLosses \in Nat
  BY AtomicDirectoryAssumption DEF TreeInv, TypeOK
<1>1. ASSUME NEW r \in Committers, Step(r) \/ Kill(r) PROVE ReportInv'
  <2>1. Acts(r) /\ OutcomeInv(r)' /\ HolderInv(r)'
    BY <1>1, CallReports
  <2>2. SurvivorsOlder'
    BY <2>1, OlderKept DEF Acts
  <2>3. ASSUME NEW c \in Committers \ {r} PROVE OutcomeInv(c)' /\ HolderInv(c)'
    BY <2>1, ReportKept DEF Acts
  <2> QED
    BY <2>1, <2>2, <2>3 DEF ReportInv
<1>2. CASE ForeignFile \/ UNCHANGED vars
  <2>1. /\ Grows /\ dir'.holder = dir.holder /\ dir'.published = dir.published
        /\ UNCHANGED <<pc, outcome, backup>>
    BY <1>0, <1>2 DEF ForeignFile, ChangeDir, Grows, vars, machineVars, Dirs
  <2>2. SurvivorsOlder'
    BY <2>1, OlderKept
  <2>3. ASSUME NEW c \in Committers PROVE OutcomeInv(c)' /\ HolderInv(c)'
    BY <2>1, ReportKept
  <2> QED
    BY <2>2, <2>3 DEF ReportInv
<1>3. CASE PowerLoss
  <2>1. /\ dir' \in survivors /\ survivors' = {dir'} /\ UNCHANGED <<outcome, synced, refused>>
        /\ dir'.published \subseteq dir.published /\ powerLosses' # 0
        /\ \A c \in Committers : pc'[c] = IF Running(c) THEN "dead" ELSE pc[c]
    BY <1>0, <1>3 DEF PowerLoss, ReportInv, SurvivorsOlder
  <2>2. ASSUME NEW c \in Committers PROVE OutcomeInv(c)'
    <3>1. OutcomeInv(c) /\ (pc'[c] = pc[c] \/ pc'[c] = "dead") /\ pc'[c] \notin Steps
      BY <2>1 DEF ReportInv, Running, Steps
    <3> QED
      BY <2>1, <3>1 DEF OutcomeInv, Steps, Unswitched, TreeOnDisk
  <2> QED
    BY <2>1, <2>2 DEF ReportInv, SurvivorsOlder, HolderInv
<1> QED
  BY <1>1, <1>2, <1>3 DEF Next

\* The outcome of a call says whether the switch happened and where the
\* previous tree is, and success outlives a power loss: commit_replace_directory
\* and all its error paths, with any number of calls on the same directory.
THEOREM OutcomesAreHonest == Spec => []OutcomesHonest
<1>1. TreeInv /\ TypeOK' /\ [Next]_vars => TreeInv'
  BY TreeInvStep
<1>2. TreeInv /\ ReportInv /\ [Next]_vars => ReportInv'
  BY ReportInvStep
<1>3. ReportInv => OutcomesHonest
  <2> SUFFICES ASSUME ReportInv PROVE OutcomesHonest
    OBVIOUS
  <2>1. BackupReported
    BY DEF BackupReported, ReportInv, HolderInv, Emptied
  <2>2. OutcomeTruthful
    BY DEF OutcomeTruthful, ReportInv, OutcomeInv
  <2>3. OkIsDurable
    BY DEF OkIsDurable, ReportInv, OutcomeInv
  <2> QED
    BY <2>1, <2>2, <2>3 DEF OutcomesHonest
<1> QED
  BY <1>1, <1>2, <1>3, TypeCorrect, TreeInvInit, ReportInvInit, PTL DEF Spec

\* Without overwrite_existing no call replaces anything, not even an empty
\* directory that appeared after its tree was staged.
THEOREM NeverClobbers == Spec => NoClobber
<1>1. ASSUME TreeInv, ReportInv, Next, NEW c \in (dir'.published \ dir.published) \ overwriting
      PROVE  dir.dest = Absent
  <2>0. dir \in Dirs
    BY <1>1 DEF TreeInv, TypeOK
  <2>1. ~PowerLoss
    BY <1>1 DEF PowerLoss, ReportInv, SurvivorsOlder
  <2>2. ~ForeignFile
    BY <1>1, <2>0 DEF ForeignFile, ChangeDir, Dirs
  <2>3. PICK r \in Committers : Step(r) \/ Kill(r)
    BY <1>1, <2>1, <2>2 DEF Next
  <2>4. c = r
    BY <1>1, <2>3, CallReports DEF Acts
  <2>5. RenameStaged(c) /\ RenameAllowed(c)
    <3>1. dir'.published # dir.published
      BY <1>1
    <3>2. CASE RenameStaged(r)
      BY <2>0, <2>4, <3>1, <3>2 DEF RenameStaged, WithoutStaged, ChangeDir, Dirs
    <3>3. CASE StageDirectory(r) \/ Fill(r) \/ SyncTree(r) \/ InspectDestination(r)
      BY <2>0, <3>1, <3>3 DEF StageDirectory, Fill, SyncTree, InspectDestination,
         CleanUpAndReturn, WithoutStaged, ChangeDir, Dirs
    <3>4. CASE CreateBackupDir(r)
      BY <2>0, <3>1, <3>4 DEF CreateBackupDir, CleanUpAndReturn, WithoutStaged, ChangeDir, Dirs
    <3>5. CASE MoveExistingToBackup(r)
      BY <2>0, <3>1, <3>5 DEF MoveExistingToBackup, ChangeDir, Dirs
    <3>6. CASE RestorePrevious(r) \/ RemoveBackup(r)
      BY <2>0, <3>1, <3>6 DEF RestorePrevious, RemoveBackup, ChangeDir, Dirs
    <3>7. CASE SyncRootDirectory(r) \/ DropStaged(r) \/ Kill(r)
      BY <2>0, <3>1, <3>7 DEF SyncRootDirectory, DropStaged, WithoutStaged, Kill, ChangeDir, Dirs
    <3> QED
      BY <2>3, <3>2, <3>3, <3>4, <3>5, <3>6, <3>7 DEF Step
  <2> QED
    BY <1>1, <2>5 DEF RenameAllowed
<1>2. TreeInv /\ ReportInv /\ [Next]_vars
        => [\A c \in (dir'.published \ dir.published) \ overwriting : dir.dest = Absent]_vars
  BY <1>1
<1>3. TreeInv /\ TypeOK' /\ [Next]_vars => TreeInv'
  BY TreeInvStep
<1>4. TreeInv /\ ReportInv /\ [Next]_vars => ReportInv'
  BY ReportInvStep
<1> QED
  BY <1>2, <1>3, <1>4, TypeCorrect, TreeInvInit, ReportInvInit, PTL DEF Spec, NoClobber
=============================================================================
