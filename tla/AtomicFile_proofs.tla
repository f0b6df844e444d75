-------------------------- MODULE AtomicFile_proofs --------------------------
(***************************************************************************)
(* Proofs about AtomicFile, for any number of concurrent calls, any files  *)
(* and any number of power losses.                                         *)
(***************************************************************************)
EXTENDS AtomicFile, TLAPS

\* The directory states a call's own operations lead to are directory states.
LEMMA DirsClosed ==
    ASSUME NEW d \in Dirs, NEW w \in Writers
    PROVE  /\ [d EXCEPT !.staged = @ \cup {w}] \in Dirs
           /\ [d EXCEPT !.staged = @ \ {w}] \in Dirs
           /\ [d EXCEPT !.dest = w, !.staged = @ \ {w},
                        !.published = @ \cup {w}] \in Dirs
BY DEF Dirs, Files

\* TypeOK is an invariant: every call is at a step of the code and every
\* directory state, visible or recoverable, names known files only.
THEOREM TypeCorrect == Spec => []TypeOK
<1>1. Init => TypeOK
  BY AtomicFileAssumption DEF Init, TypeOK, Dirs, Files, Pcs, Outcomes
<1>2. TypeOK /\ [Next]_vars => TypeOK'
  <2> SUFFICES ASSUME TypeOK, [Next]_vars PROVE TypeOK'
    OBVIOUS
  <2> USE AtomicFileAssumption DEF TypeOK, Pcs, Steps, Outcomes,
          PreCommitErrors, envVars, machineVars, fileVars, Goto, Return, ChangeDir, At
  <2>1. ASSUME NEW w \in Writers, StageFile(w) PROVE TypeOK'
    <3>1. dir' \in Dirs /\ survivors' \in SUBSET Dirs
      BY <2>1, DirsClosed, ZenonT(40) DEF StageFile
    <3>2. pc' \in [Writers -> Pcs] /\ outcome' \in [Writers -> Outcomes]
      BY <2>1 DEF StageFile
    <3> QED
      BY <2>1, <3>1, <3>2 DEF StageFile
  <2>2. ASSUME NEW w \in Writers, CopyBlock(w) PROVE TypeOK'
    BY <2>2 DEF CopyBlock, MoreToCopy
  <2>3. ASSUME NEW w \in Writers, SetPermissions(w) PROVE TypeOK'
    BY <2>3 DEF SetPermissions
  <2>4. ASSUME NEW w \in Writers, SyncAll(w) PROVE TypeOK'
    BY <2>4 DEF SyncAll, Flushed
  <2>5. ASSUME NEW w \in Writers, ValidateStagedFile(w) PROVE TypeOK'
    BY <2>5 DEF ValidateStagedFile
  <2>6. ASSUME NEW w \in Writers, CommitReplace(w) PROVE TypeOK'
    BY <2>6, DirsClosed, ZenonT(40) DEF CommitReplace, Replaced
  <2>7. ASSUME NEW w \in Writers, RenameAfterCheck(w) PROVE TypeOK'
    BY <2>7, DirsClosed, ZenonT(40) DEF RenameAfterCheck, Replaced
  <2>8. ASSUME NEW w \in Writers, SyncRootDirectory(w) PROVE TypeOK'
    BY <2>8 DEF SyncRootDirectory, SyncedSurvivors, UnsyncedError
  <2>9. ASSUME NEW w \in Writers, DropStaged(w) PROVE TypeOK'
    BY <2>9, DirsClosed DEF DropStaged, StagedRemoved
  <2>10. ASSUME NEW w \in Writers, Kill(w) PROVE TypeOK'
    BY <2>10 DEF Kill
  <2>11. CASE ForeignChange
    BY <2>11 DEF ForeignChange, Dirs, Files
  <2>12. CASE PowerLoss
    BY <2>12 DEF PowerLoss
  <2>13. CASE UNCHANGED vars
    BY <2>13 DEF vars, machineVars
  <2> QED
    BY <2>1, <2>2, <2>3, <2>4, <2>5, <2>6, <2>7, <2>8, <2>9, <2>10, <2>11,
       <2>12, <2>13 DEF Next, Step
<1> QED
  BY <1>1, <1>2, PTL DEF Spec

-----------------------------------------------------------------------------
(***************************************************************************)
(* DestinationIntact is not inductive: a power loss takes the directory    *)
(* and the blocks of its files back, so what matters is that every file    *)
(* named by any recoverable directory state has all its blocks on disk.    *)
(***************************************************************************)
Copied == {"set_permissions", "syncing"}
Synced == {"validating", "committing", "renaming", "sync_parent"}

BlocksOrdered == \A w \in Writers : disk[w] <= data[w] /\ data[w] <= Payload[w]
CopiedWhole == \A w \in Writers : pc[w] \in Copied => data[w] = Payload[w]
SyncedWhole == \A w \in Writers : pc[w] \in Synced => disk[w] = Payload[w]
SurvivorsWhole ==
    \A s \in survivors : s.dest \in Writers => disk[s.dest] = Payload[s.dest]

ContentInv ==
    /\ TypeOK
    /\ dir \in survivors
    /\ BlocksOrdered
    /\ CopiedWhole
    /\ SyncedWhole
    /\ SurvivorsWhole

\* The destination is one of the directory states that are intact.
LEMMA ContentInvIntact == ContentInv => DestinationIntact
<1> SUFFICES ASSUME ContentInv, dir.dest \in Writers
             PROVE  data[dir.dest] = Payload[dir.dest]
  BY DEF DestinationIntact
<1>1. disk[dir.dest] = Payload[dir.dest]
  BY DEF ContentInv, SurvivorsWhole
<1>2. data[dir.dest] \in Nat /\ Payload[dir.dest] \in Nat /\ disk[dir.dest] \in Nat
  BY AtomicFileAssumption DEF ContentInv, TypeOK
<1> QED
  BY <1>1, <1>2 DEF ContentInv, BlocksOrdered

\* Steps that leave file blocks, steps' progress and entries' targets alone.
LEMMA ContentInvStep == ContentInv /\ TypeOK' /\ [Next]_vars => ContentInv'
<1> SUFFICES ASSUME ContentInv, TypeOK', [Next]_vars PROVE ContentInv'
  OBVIOUS
<1> USE AtomicFileAssumption DEF ContentInv, BlocksOrdered, CopiedWhole,
        SyncedWhole, SurvivorsWhole, Copied, Synced, envVars, machineVars, fileVars, Goto,
        Return, At
<1>0. /\ data \in [Writers -> Nat] /\ disk \in [Writers -> Nat]
      /\ Payload \in [Writers -> Nat] /\ pc \in [Writers -> Pcs]
      /\ survivors \subseteq Dirs /\ dir \in Dirs
  BY DEF TypeOK
<1>1. ASSUME NEW w \in Writers, StageFile(w) PROVE ContentInv'
  BY <1>0, <1>1 DEF StageFile, ChangeDir, Dirs
<1>2. ASSUME NEW w \in Writers, CopyBlock(w) PROVE ContentInv'
  BY <1>0, <1>2 DEF CopyBlock, MoreToCopy
<1>3. ASSUME NEW w \in Writers, SetPermissions(w) PROVE ContentInv'
  BY <1>0, <1>3 DEF SetPermissions
<1>4. ASSUME NEW w \in Writers, SyncAll(w) PROVE ContentInv'
  BY <1>0, <1>4 DEF SyncAll, Flushed
<1>5. ASSUME NEW w \in Writers, ValidateStagedFile(w) PROVE ContentInv'
  BY <1>0, <1>5 DEF ValidateStagedFile
<1>6. ASSUME NEW w \in Writers, CommitReplace(w) PROVE ContentInv'
  BY <1>0, <1>6 DEF CommitReplace, Replaced, ChangeDir, Dirs
<1>7. ASSUME NEW w \in Writers, RenameAfterCheck(w) PROVE ContentInv'
  BY <1>0, <1>7 DEF RenameAfterCheck, Replaced, ChangeDir, Dirs
<1>8. ASSUME NEW w \in Writers, SyncRootDirectory(w) PROVE ContentInv'
  BY <1>0, <1>8 DEF SyncRootDirectory, SyncedSurvivors
<1>9. ASSUME NEW w \in Writers, DropStaged(w) PROVE ContentInv'
  BY <1>0, <1>9 DEF DropStaged, StagedRemoved, ChangeDir, Dirs
<1>10. ASSUME NEW w \in Writers, Kill(w) PROVE ContentInv'
  BY <1>0, <1>10 DEF Kill
<1>11. CASE ForeignChange
  BY <1>0, <1>11 DEF ForeignChange, ChangeDir, Dirs
<1>12. CASE PowerLoss
  BY <1>0, <1>12 DEF PowerLoss, Running, Steps
<1>13. CASE UNCHANGED vars
  BY <1>0, <1>13 DEF vars, machineVars
<1> QED
  BY <1>1, <1>2, <1>3, <1>4, <1>5, <1>6, <1>7, <1>8, <1>9, <1>10, <1>11,
     <1>12, <1>13 DEF Next, Step

\* Every recoverable state of the directory names files that are whole on disk.
THEOREM ContentAlways == Spec => []ContentInv
<1>1. Init => ContentInv
  <2> SUFFICES ASSUME Init PROVE ContentInv
    OBVIOUS
  <2>1. TypeOK
    BY AtomicFileAssumption DEF Init, TypeOK, Dirs, Files, Pcs, Outcomes
  <2> QED
    BY <2>1, AtomicFileAssumption DEF Init, ContentInv, BlocksOrdered, CopiedWhole,
       SyncedWhole, SurvivorsWhole, Copied, Synced
<1>2. ContentInv /\ TypeOK' /\ [Next]_vars => ContentInv'
  BY ContentInvStep
<1> QED
  BY <1>1, <1>2, TypeCorrect, PTL DEF Spec

\* Readers of the destination find a whole file in every reachable state,
\* whatever is interrupted when.
THEOREM DestinationAlwaysIntact == Spec => []DestinationIntact
BY ContentAlways, ContentInvIntact, PTL

-----------------------------------------------------------------------------
(***************************************************************************)
(* Who is published.  A recoverable state never knows more than the        *)
(* visible one, and a call appears in any state only after its rename.     *)
(***************************************************************************)
Uncommitted == {"idle", "writing", "set_permissions", "syncing", "validating",
                "committing", "renaming"}

SurvivorsOlder == \A s \in survivors : s.published \subseteq dir.published
NoResultYet ==
    \A w \in Writers : pc[w] \in Steps \cup {"idle"} => outcome[w] = "none"
Unpublished ==
    \A w \in Writers :
        pc[w] \in Uncommitted \/ outcome[w] \in PreCommitErrors
            => w \notin dir.published
AwaitsSync == \A w \in Writers : pc[w] = "sync_parent" => w \in dir.published
ChecksOnWindows ==
    \A w \in Writers :
        pc[w] = "renaming" => platform = "windows" /\ ~opts[w].overwrite_existing

PublicationInv ==
    /\ TypeOK
    /\ dir \in survivors
    /\ SurvivorsOlder
    /\ NoResultYet
    /\ Unpublished
    /\ AwaitsSync
    /\ ChecksOnWindows

\* Nothing is published at first, and every step keeps the relation.
LEMMA PublicationInvInit == Init => PublicationInv
<1> SUFFICES ASSUME Init PROVE PublicationInv
  OBVIOUS
<1>1. TypeOK
  BY AtomicFileAssumption DEF Init, TypeOK, Dirs, Files, Pcs, Outcomes
<1> QED
  BY <1>1 DEF Init, PublicationInv, SurvivorsOlder, NoResultYet, Unpublished,
     AwaitsSync, ChecksOnWindows, PreCommitErrors

\* The rename: the call joins the published ones and awaits the parent sync.
LEMMA RenamePublishes ==
    ASSUME PublicationInv, TypeOK', NEW w \in Writers,
           ChangeDir(Replaced(w)), Goto(w, "sync_parent"), outcome[w] = "none",
           UNCHANGED <<outcome, opts, platform>>
    PROVE  PublicationInv'
<1>0. pc \in [Writers -> Pcs] /\ survivors \subseteq Dirs /\ dir \in Dirs
  BY DEF PublicationInv, TypeOK
<1>1. /\ dir'.published = dir.published \cup {w}
      /\ survivors' = survivors \cup {dir'}
  BY <1>0 DEF ChangeDir, Replaced, Dirs
<1>2. \A v \in Writers \ {w} : pc'[v] = pc[v]
  BY <1>0 DEF Goto
<1>3. pc'[w] = "sync_parent" /\ outcome'[w] = "none"
  BY <1>0 DEF Goto
<1> QED
  BY <1>1, <1>2, <1>3 DEF PublicationInv, SurvivorsOlder, NoResultYet,
     Unpublished, AwaitsSync, ChecksOnWindows, Uncommitted, PreCommitErrors

\* An early return with an error, before anything was published.
LEMMA ReturnsError ==
    ASSUME PublicationInv, TypeOK', NEW w \in Writers, pc[w] \in Uncommitted,
           NEW e \in PreCommitErrors, Return(w, e),
           UNCHANGED <<dir, survivors, opts, platform>>
    PROVE  PublicationInv'
<1>0. pc \in [Writers -> Pcs] /\ outcome \in [Writers -> Outcomes]
  BY DEF PublicationInv, TypeOK
<1>1. pc'[w] = "dropping" /\ outcome'[w] = e
  BY <1>0 DEF Return, Goto
<1>2. \A v \in Writers \ {w} : pc'[v] = pc[v] /\ outcome'[v] = outcome[v]
  BY <1>0 DEF Return, Goto
<1> QED
  BY <1>1, <1>2 DEF PublicationInv, SurvivorsOlder, NoResultYet, Unpublished,
     AwaitsSync, ChecksOnWindows, Uncommitted, PreCommitErrors, Steps

LEMMA PublicationInvStep == PublicationInv /\ TypeOK' /\ [Next]_vars => PublicationInv'
<1> SUFFICES ASSUME PublicationInv, TypeOK', [Next]_vars PROVE PublicationInv'
  OBVIOUS
<1> USE AtomicFileAssumption DEF PublicationInv, SurvivorsOlder, NoResultYet,
        Unpublished, AwaitsSync, ChecksOnWindows, Uncommitted,
        PreCommitErrors, Steps, envVars, machineVars, fileVars, Goto, Return, At
<1>0. /\ pc \in [Writers -> Pcs] /\ outcome \in [Writers -> Outcomes]
      /\ survivors \subseteq Dirs /\ dir \in Dirs
  BY DEF TypeOK
<1>1. ASSUME NEW w \in Writers, StageFile(w) PROVE PublicationInv'
  BY <1>0, <1>1 DEF StageFile, ChangeDir, Dirs
<1>2. ASSUME NEW w \in Writers, CopyBlock(w) PROVE PublicationInv'
  BY <1>0, <1>2 DEF CopyBlock
<1>3. ASSUME NEW w \in Writers, SetPermissions(w) PROVE PublicationInv'
  BY <1>0, <1>3 DEF SetPermissions
<1>4. ASSUME NEW w \in Writers, SyncAll(w) PROVE PublicationInv'
  BY <1>0, <1>4 DEF SyncAll
<1>5. ASSUME NEW w \in Writers, ValidateStagedFile(w) PROVE PublicationInv'
  BY <1>0, <1>5 DEF ValidateStagedFile
<1>6. ASSUME NEW w \in Writers, CommitReplace(w) PROVE PublicationInv'
  <2>1. CASE ChangeDir(Replaced(w)) /\ Goto(w, "sync_parent") /\ UNCHANGED outcome
    <3>1. outcome[w] = "none" /\ UNCHANGED <<outcome, opts, platform>>
      BY <1>6, <2>1 DEF CommitReplace
    <3> HIDE DEF PublicationInv, Goto
    <3> QED
      BY <2>1, <3>1, RenamePublishes
  <2>2. CASE /\ ~opts[w].overwrite_existing /\ platform = "windows"
             /\ Goto(w, "renaming") /\ UNCHANGED <<outcome, dir, survivors>>
    BY <1>0, <1>6, <2>2 DEF CommitReplace
  <2>3. CASE /\ Return(w, IF opts[w].overwrite_existing THEN "rename"
                                                       ELSE "rename_noclobber")
             /\ UNCHANGED <<dir, survivors>>
    BY <1>0, <1>6, <2>3, ReturnsError DEF CommitReplace
  <2> QED
    BY <1>6, <2>1, <2>2, <2>3 DEF CommitReplace
<1>7. ASSUME NEW w \in Writers, RenameAfterCheck(w) PROVE PublicationInv'
  <2>1. CASE ChangeDir(Replaced(w)) /\ Goto(w, "sync_parent") /\ UNCHANGED outcome
    <3>1. outcome[w] = "none" /\ UNCHANGED <<outcome, opts, platform>>
      BY <1>7, <2>1 DEF RenameAfterCheck
    <3> HIDE DEF PublicationInv, Goto
    <3> QED
      BY <2>1, <3>1, RenamePublishes
  <2>2. CASE Return(w, "rename_noclobber") /\ UNCHANGED <<dir, survivors>>
    BY <1>0, <1>7, <2>2, ReturnsError DEF RenameAfterCheck
  <2> QED
    BY <1>7, <2>1, <2>2 DEF RenameAfterCheck
<1>8. ASSUME NEW w \in Writers, SyncRootDirectory(w) PROVE PublicationInv'
  BY <1>0, <1>8 DEF SyncRootDirectory, SyncedSurvivors, UnsyncedError
<1>9. ASSUME NEW w \in Writers, DropStaged(w) PROVE PublicationInv'
  BY <1>0, <1>9 DEF DropStaged, StagedRemoved, ChangeDir, Dirs
<1>10. ASSUME NEW w \in Writers, Kill(w) PROVE PublicationInv'
  BY <1>0, <1>10 DEF Kill
<1>11. CASE ForeignChange
  BY <1>0, <1>11 DEF ForeignChange, ChangeDir, Dirs
<1>12. CASE PowerLoss
  BY <1>0, <1>12 DEF PowerLoss, Running
<1>13. CASE UNCHANGED vars
  BY <1>0, <1>13 DEF vars, machineVars
<1> QED
  BY <1>1, <1>2, <1>3, <1>4, <1>5, <1>6, <1>7, <1>8, <1>9, <1>10, <1>11,
     <1>12, <1>13 DEF Next, Step

\* The platform does not change.
LEMMA BuildFixed == [Next]_vars => platform' = platform
BY DEF Next, Step, StageFile, CopyBlock, SetPermissions, SyncAll, ValidateStagedFile,
   CommitReplace, RenameAfterCheck, SyncRootDirectory, DropStaged, Kill, ForeignChange,
   PowerLoss, vars, envVars, machineVars

\* Nor is a refused sync forgotten.
LEMMA RefusalsStay == [Next]_vars => refused \subseteq refused'
BY DEF Next, Step, StageFile, CopyBlock, SetPermissions, SyncAll, ValidateStagedFile,
   CommitReplace, RenameAfterCheck, SyncRootDirectory, DropStaged, Kill, ForeignChange,
   PowerLoss, vars, envVars

\* What is published where, for each result and step of a call.
THEOREM PublicationAlways == Spec => []PublicationInv
BY PublicationInvInit, PublicationInvStep, TypeCorrect, PTL DEF Spec

\* With overwrite_existing = false nothing is ever replaced, on builds that
\* have a native no-clobber rename or refuse the operation.
THEOREM NeverClobbers == Spec => NoClobber
<1>1. ASSUME PublicationInv, [Next]_vars
      PROVE  [\A w \in dir'.published \ dir.published :
                 ~opts[w].overwrite_existing /\ platform # "windows"
                     => dir.dest = Absent]_vars
  <2> SUFFICES ASSUME Next, NEW w \in dir'.published \ dir.published,
                      ~opts[w].overwrite_existing, platform # "windows"
               PROVE  dir.dest = Absent
    BY <1>1
  <2>0. dir \in Dirs /\ platform # "windows"
    BY <1>1 DEF PublicationInv, TypeOK
  <2>1. ~PowerLoss
    BY <1>1 DEF PowerLoss, PublicationInv, SurvivorsOlder
  <2>2. ~ForeignChange /\ ~\E v \in Writers : Kill(v)
    BY <2>0 DEF ForeignChange, Kill, ChangeDir, Dirs
  <2>3. PICK v \in Writers : Step(v)
    BY <2>1, <2>2 DEF Next
  <2>4. CommitReplace(v) \/ RenameAfterCheck(v)
    BY <2>0, <2>3 DEF Step, StageFile, CopyBlock, SetPermissions, SyncAll,
       ValidateStagedFile, SyncRootDirectory, DropStaged, StagedRemoved,
       ChangeDir, Dirs
  <2>5. CommitReplace(v) /\ MayRename(v) /\ ChangeDir(Replaced(v))
    BY <1>1, <2>0, <2>4 DEF CommitReplace, RenameAfterCheck, PublicationInv,
       ChecksOnWindows, At
  <2>6. v = w
    BY <2>0, <2>5 DEF ChangeDir, Replaced, Dirs
  <2> QED
    BY <2>5, <2>6 DEF MayRename
<1> QED
  BY <1>1, PublicationAlways, PTL DEF Spec, NoClobber

-----------------------------------------------------------------------------
(***************************************************************************)
(* Acknowledged calls are durable, and the calls implement the register.   *)
(***************************************************************************)

\* Success is never undone by a power loss when the fsync of the directory was
\* carried out (SyncRootDirectory's first case).
THEOREM AcknowledgedIsDurable == Spec => []OkIsDurable
<1>1. Init => OkIsDurable
  BY DEF Init, OkIsDurable, Acked
<1>2. PublicationInv /\ OkIsDurable /\ [Next]_vars => OkIsDurable'
  <2> SUFFICES ASSUME PublicationInv, OkIsDurable, [Next]_vars,
                      NEW v \in Writers, outcome'[v] = "ok", platform' # "windows",
                      v \notin refused', NEW s \in survivors'
               PROVE  v \in s.published
    BY DEF OkIsDurable, Acked
  <2> USE DEF Goto, Return, ChangeDir, At, envVars, machineVars, fileVars
  <2>0. /\ outcome \in [Writers -> Outcomes] /\ dir \in Dirs /\ dir \in survivors
        /\ platform # "windows" /\ v \notin refused
    BY BuildFixed, RefusalsStay DEF PublicationInv, TypeOK
  <2>1. CASE outcome[v] = "ok"
    <3>1. \A d \in survivors : v \in d.published
      BY <2>0, <2>1 DEF OkIsDurable, Acked
    <3>2. survivors' \subseteq survivors \cup {dir'}
          /\ \/ dir' \in survivors
             \/ dir.published \subseteq dir'.published
      <4>1. ASSUME NEW w \in Writers, Step(w) PROVE <3>2!1 /\ <3>2!2
        BY <2>0, <4>1 DEF Step, StageFile, CopyBlock, SetPermissions, SyncAll,
           ValidateStagedFile, CommitReplace, RenameAfterCheck, Replaced,
           SyncRootDirectory, SyncedSurvivors, DropStaged, StagedRemoved, Dirs
      <4>2. CASE (\E w \in Writers : Kill(w)) \/ UNCHANGED vars
        BY <2>0, <4>2 DEF Kill, vars, machineVars
      <4>3. CASE ForeignChange \/ PowerLoss
        BY <2>0, <4>3 DEF ForeignChange, PowerLoss, Dirs
      <4> QED
        BY <4>1, <4>2, <4>3 DEF Next
    <3> QED
      BY <2>0, <3>1, <3>2
  <2>2. CASE outcome[v] # "ok"
    <3>1. SyncRootDirectory(v) /\ survivors' = {dir}
      BY <2>0, <2>2 DEF Next, Step, StageFile, CopyBlock, SetPermissions, SyncAll,
         ValidateStagedFile, CommitReplace, RenameAfterCheck, SyncRootDirectory,
         SyncedSurvivors, UnsyncedError, DropStaged, Kill, ForeignChange,
         PowerLoss, vars, machineVars
    <3> QED
      BY <3>1 DEF SyncRootDirectory, PublicationInv, AwaitsSync
  <2> QED
    BY <2>1, <2>2
<1> QED
  BY <1>1, <1>2, PublicationAlways, PTL DEF Spec

\* What the register sees of a directory state: no recoverable file is torn.
Seen(s) == [value |-> s.dest, published |-> s.published]

NoneTorn == Current = Seen(dir) /\ Recoverable = {Seen(s) : s \in survivors}

\* No file a reader or a power loss can meet is torn.
LEMMA NothingTorn == ContentInv => NoneTorn
<1> SUFFICES ASSUME ContentInv PROVE NoneTorn
  OBVIOUS
<1>1. ASSUME NEW s \in survivors
      PROVE  {Abstract(s, n) : n \in SafeBlocks(s) .. VisibleBlocks(s)} = {Seen(s)}
  <2>1. CASE s.dest \in Writers
    <3>1. SafeBlocks(s) = Payload[s.dest] /\ VisibleBlocks(s) = Payload[s.dest]
      BY <2>1, AtomicFileAssumption DEF ContentInv, SurvivorsWhole, BlocksOrdered,
         SafeBlocks, VisibleBlocks, TypeOK
    <3>2. SafeBlocks(s) .. VisibleBlocks(s) = {Payload[s.dest]}
      BY <2>1, <3>1, AtomicFileAssumption
    <3> QED
      BY <2>1, <3>2 DEF Abstract, ValueWith, Seen
  <2>2. CASE s.dest \notin Writers
    <3>1. SafeBlocks(s) .. VisibleBlocks(s) = {0}
      BY <2>2 DEF SafeBlocks, VisibleBlocks
    <3> QED
      BY <2>2, <3>1 DEF Abstract, ValueWith, Seen
  <2> QED
    BY <2>1, <2>2
<1>2. Recoverable = {Seen(s) : s \in survivors}
  BY <1>1 DEF Recoverable
<1>3. Current = Seen(dir)
  BY ContentInvIntact DEF DestinationIntact, Current, Abstract, ValueWith,
     VisibleBlocks, Seen
<1> QED
  BY <1>2, <1>3 DEF NoneTorn

LEMMA NothingTornNext == ContentInv' => NoneTorn'
BY NothingTorn, PTL

\* A change of the directory that the register does not see.
LEMMA HiddenChange ==
    ASSUME ContentInv, ContentInv', NEW d, ChangeDir(d),
           d.dest = dir.dest, d.published = dir.published
    PROVE  UNCHANGED <<Current, Recoverable>>
<1>1. Seen(d) = Seen(dir) /\ dir \in survivors
  BY DEF Seen, ContentInv
<1>2. {Seen(s) : s \in survivors \cup {d}} = {Seen(s) : s \in survivors}
  BY <1>1
<1> QED
  BY <1>1, <1>2, NothingTorn, NothingTornNext DEF NoneTorn, ChangeDir

\* The calls start as the register does.
LEMMA RegisterInit == Init => Register!Init
<1> SUFFICES ASSUME Init PROVE Register!Init
  OBVIOUS
<1>1. dir.dest \in {Foreign, Absent} /\ dir.published = {} /\ survivors = {dir}
  BY DEF Init
<1>2. SafeBlocks(dir) .. VisibleBlocks(dir) = {0}
  BY <1>1, AtomicFileAssumption DEF SafeBlocks, VisibleBlocks
<1>3. Current = Seen(dir) /\ Recoverable = {Seen(dir)}
  BY <1>1, <1>2, AtomicFileAssumption DEF Current, Recoverable, Abstract, ValueWith,
     Seen
<1>4. Acked = {}
  BY DEF Init, Acked
<1> QED
  BY <1>1, <1>3, <1>4 DEF Register!Init, Seen

\* The rename maps to the register's Publish.
LEMMA RenameRefines ==
    ASSUME ContentInv, ContentInv', PublicationInv, NEW w \in Writers,
           pc[w] \in {"committing", "renaming"}, ChangeDir(Replaced(w)),
           UNCHANGED <<outcome, platform, refused>>
    PROVE  Register!Publish(w)
<1>1. Seen(dir') = [value |-> w, published |-> Seen(dir).published \cup {w}]
  BY DEF ChangeDir, Replaced, Seen, ContentInv, TypeOK, Dirs
<1>2. Current = Seen(dir) /\ Current' = Seen(dir')
  BY NothingTorn, NothingTornNext DEF NoneTorn, Seen
<1>3. Recoverable' = Recoverable \cup {Seen(dir')}
  BY NothingTorn, NothingTornNext DEF NoneTorn, ChangeDir, Seen
<1>4. w \notin Acked /\ Acked' = Acked
  BY DEF Acked, PublicationInv, NoResultYet, Steps
<1> QED
  BY <1>1, <1>2, <1>3, <1>4 DEF Register!Publish, Register!Become

\* The sync of the parent directory acknowledges the call.
LEMMA SyncRefines ==
    ASSUME ContentInv, ContentInv', PublicationInv, NEW w \in Writers,
           At(w, "sync_parent"), survivors' = {dir}, Return(w, "ok"), UNCHANGED dir,
           platform # "windows", w \notin refused, UNCHANGED <<platform, refused>>
    PROVE  Register!Acknowledge(w)
<1>1. Current' = Current /\ Current = Seen(dir) /\ Recoverable' = {Seen(dir)}
  BY NothingTorn, NothingTornNext DEF NoneTorn, Seen
<1>2. w \in Current.published
  BY <1>1 DEF PublicationInv, AwaitsSync, At, Seen
<1>3. Acked' = Acked \cup {w}
  BY DEF Acked, Return, PublicationInv, TypeOK
<1> QED
  BY <1>1, <1>2, <1>3 DEF Register!Acknowledge

\* A step that leaves the directory and the acknowledged calls alone.
LEMMA QuietRefines ==
    ASSUME ContentInv, ContentInv', UNCHANGED <<dir, survivors, Acked>>
    PROVE  UNCHANGED <<Current, Recoverable, Acked>>
BY NothingTorn, NothingTornNext DEF NoneTorn, Seen

\* A call that returns an error acknowledges nothing.
LEMMA ErrorKeepsAcked ==
    ASSUME PublicationInv, NEW w \in Writers, pc[w] \in Steps \cup {"idle"},
           NEW e \in Outcomes, e # "ok", outcome' = [outcome EXCEPT ![w] = e],
           UNCHANGED <<platform, refused>>
    PROVE  Acked' = Acked
BY DEF PublicationInv, TypeOK, NoResultYet, Acked

\* A call with a refused sync has returned: it is not one that will be told so.
RefusedReturned == \A w \in refused : pc[w] \notin Steps \cup {"idle"}

\* Only the return itself marks a call, and a call does not start twice.
LEMMA RefusedReturnedStep == TypeOK /\ RefusedReturned /\ [Next]_vars => RefusedReturned'
<1> SUFFICES ASSUME TypeOK, RefusedReturned, [Next]_vars, NEW w \in refused'
             PROVE  pc'[w] \in {"dropping", "done", "leaked", "dead"}
  BY DEF RefusedReturned, Steps
<1> USE DEF At, Goto, Return, envVars, machineVars, Running
<1>0. pc \in [Writers -> Pcs] /\ refused \subseteq Writers
  BY DEF TypeOK
<1>1. CASE w \in refused
  <2>1. w \in Writers /\ pc[w] \in {"dropping", "done", "leaked", "dead"}
    BY <1>0, <1>1 DEF RefusedReturned, Pcs, Steps
  <2>2. ASSUME NEW v \in Writers, Step(v) \/ Kill(v), pc[v] \in Steps \cup {"idle"}
        PROVE  pc'[w] = pc[w] \/ pc'[w] = "dead"
    BY <1>0, <2>1, <2>2 DEF Steps, Step, StageFile, CopyBlock, SetPermissions, SyncAll,
       ValidateStagedFile, CommitReplace, RenameAfterCheck, SyncRootDirectory, DropStaged, Kill
  <2>3. ASSUME NEW v \in Writers, Step(v) \/ Kill(v), pc[v] \notin Steps \cup {"idle"}
        PROVE  pc'[w] = pc[w] \/ pc'[w] \in {"done", "leaked", "dead"}
    BY <1>0, <2>1, <2>3 DEF Steps, Step, StageFile, CopyBlock, SetPermissions, SyncAll,
       ValidateStagedFile, CommitReplace, RenameAfterCheck, SyncRootDirectory, DropStaged, Kill
  <2>4. CASE ForeignChange \/ PowerLoss \/ UNCHANGED vars
    BY <1>0, <2>1, <2>4 DEF ForeignChange, PowerLoss, vars
  <2> QED
    BY <2>1, <2>2, <2>3, <2>4 DEF Next
<1>2. CASE w \notin refused
  <2>1. SyncRootDirectory(w) /\ pc'[w] = "dropping"
    BY <1>0, <1>2 DEF Next, Step, StageFile, CopyBlock, SetPermissions, SyncAll,
       ValidateStagedFile, CommitReplace, RenameAfterCheck, SyncRootDirectory, DropStaged,
       Kill, ForeignChange, PowerLoss, vars
  <2> QED
    BY <2>1
<1> QED
  BY <1>1, <1>2

\* Every step of the calls is a step of the register or leaves it alone.
LEMMA RegisterStep ==
    ContentInv /\ ContentInv' /\ PublicationInv /\ RefusedReturned /\ [Next]_vars
        => [Register!Next]_(Register!vars)
<1> SUFFICES ASSUME ContentInv, ContentInv', PublicationInv, RefusedReturned, [Next]_vars
             PROVE  Register!Next \/ UNCHANGED <<Current, Recoverable, Acked>>
  BY DEF Register!vars
<1> USE DEF At, Return, Goto, fileVars, envVars, machineVars
<1>0. /\ dir \in Dirs /\ survivors \subseteq Dirs /\ UNCHANGED platform
      /\ UNCHANGED <<outcome, refused>> => UNCHANGED Acked
  BY BuildFixed DEF PublicationInv, TypeOK, Acked
<1>1. ASSUME NEW w \in Writers, StageFile(w)
      PROVE  UNCHANGED <<Current, Recoverable, Acked>>
  <2>1. CASE ChangeDir([dir EXCEPT !.staged = @ \cup {w}]) /\ UNCHANGED outcome
    <3>1. UNCHANGED <<Current, Recoverable>>
      BY <1>0, <2>1, HiddenChange DEF Dirs
    <3>2. UNCHANGED Acked
      BY <1>0, <1>1, <2>1 DEF StageFile
    <3> QED
      BY <3>1, <3>2
  <2>2. CASE UNCHANGED <<dir, survivors>> /\
             \E e \in {"prepare_parent", "create_temp"} :
                 outcome' = [outcome EXCEPT ![w] = e]
    BY <1>0, <1>1, <2>2, ErrorKeepsAcked, QuietRefines DEF StageFile, Outcomes, PreCommitErrors
  <2> QED
    BY <1>1, <2>1, <2>2 DEF StageFile
<1>2. ASSUME NEW w \in Writers,
             CopyBlock(w) \/ SetPermissions(w) \/ SyncAll(w) \/ ValidateStagedFile(w)
      PROVE  UNCHANGED <<Current, Recoverable, Acked>>
  <2>1. UNCHANGED <<dir, survivors>>
    BY <1>2 DEF CopyBlock, SetPermissions, SyncAll, ValidateStagedFile
  <2>2. /\ pc[w] \in Steps
        /\ \/ UNCHANGED outcome
           \/ \E e \in Outcomes \ {"ok"} : outcome' = [outcome EXCEPT ![w] = e]
        /\ UNCHANGED refused
    BY <1>2 DEF CopyBlock, SetPermissions, SyncAll, ValidateStagedFile, Steps,
       Outcomes, PreCommitErrors
  <2>3. UNCHANGED Acked
    BY <1>0, <2>2, ErrorKeepsAcked
  <2> QED
    BY <2>1, <2>3, QuietRefines
<1>3. ASSUME NEW w \in Writers, CommitReplace(w) \/ RenameAfterCheck(w)
      PROVE  Register!Next \/ UNCHANGED <<Current, Recoverable, Acked>>
  <2>1. CASE ChangeDir(Replaced(w)) /\ UNCHANGED outcome
    <3>1. Register!Publish(w)
      BY <1>0, <1>3, <2>1, RenameRefines DEF CommitReplace, RenameAfterCheck
    <3> QED
      BY <3>1 DEF Register!Next
  <2>2. CASE /\ UNCHANGED <<dir, survivors>>
             /\ \/ UNCHANGED outcome
                \/ \E e \in {"rename", "rename_noclobber"} :
                       outcome' = [outcome EXCEPT ![w] = e]
    <3>1. pc[w] \in Steps /\ UNCHANGED refused
      BY <1>3 DEF CommitReplace, RenameAfterCheck, Steps
    <3>2. UNCHANGED Acked
      BY <1>0, <2>2, <3>1, ErrorKeepsAcked DEF Outcomes, PreCommitErrors
    <3> QED
      BY <2>2, <3>2, QuietRefines
  <2> QED
    BY <1>3, <2>1, <2>2 DEF CommitReplace, RenameAfterCheck
<1>4. ASSUME NEW w \in Writers, SyncRootDirectory(w)
      PROVE  Register!Next \/ UNCHANGED <<Current, Recoverable, Acked>>
  <2>1. CASE /\ survivors' = {dir} /\ Return(w, "ok") /\ platform # "windows"
             /\ UNCHANGED refused
    <3>1. w \notin refused
      BY <1>4 DEF SyncRootDirectory, RefusedReturned, Steps
    <3>2. Register!Acknowledge(w)
      BY <1>0, <1>4, <2>1, <3>1, SyncRefines DEF SyncRootDirectory
    <3> QED
      BY <3>2 DEF Register!Next
  <2>2. CASE Return(w, "committed_but_unsynced") /\ UNCHANGED <<survivors, refused>>
    <3>1. UNCHANGED Acked
      BY <1>0, <1>4, <2>2, ErrorKeepsAcked DEF SyncRootDirectory, Steps, Outcomes
    <3> QED
      BY <1>4, <2>2, <3>1, QuietRefines DEF SyncRootDirectory
  <2>3. CASE UNCHANGED survivors /\ platform = "windows"
    BY <1>0, <1>4, <2>3, QuietRefines DEF SyncRootDirectory, Acked
  <2>4. CASE Return(w, "ok") /\ UNCHANGED survivors /\ refused' = refused \cup {w}
    <3>1. w \notin Acked /\ w \notin Acked'
      BY <1>4, <2>4 DEF SyncRootDirectory, PublicationInv, NoResultYet, Steps, Acked
    <3>2. \A v \in Writers \ {w} : v \in Acked' <=> v \in Acked
      BY <1>0, <2>4 DEF Acked, PublicationInv, TypeOK
    <3>3. UNCHANGED Acked
      BY <3>1, <3>2 DEF Acked
    <3> QED
      BY <1>4, <2>4, <3>3, QuietRefines DEF SyncRootDirectory
  <2> QED
    BY <1>4, <2>1, <2>2, <2>3, <2>4 DEF SyncRootDirectory, SyncedSurvivors, UnsyncedError
<1>5. ASSUME NEW w \in Writers, DropStaged(w)
      PROVE  UNCHANGED <<Current, Recoverable, Acked>>
  <2>1. UNCHANGED Acked
    BY <1>0, <1>5 DEF DropStaged
  <2>2. CASE UNCHANGED <<dir, survivors>>
    BY <2>1, <2>2, QuietRefines
  <2>3. CASE ChangeDir(StagedRemoved(w))
    BY <1>0, <2>1, <2>3, HiddenChange DEF StagedRemoved, Dirs
  <2> QED
    BY <1>5, <2>2, <2>3 DEF DropStaged
<1>6. CASE (\E w \in Writers : Kill(w)) \/ UNCHANGED vars
  BY <1>0, <1>6, QuietRefines DEF Kill, vars, machineVars
<1>7. CASE ForeignChange
  <2>1. PICK f \in {Foreign, Absent} : ChangeDir([dir EXCEPT !.dest = f])
    BY <1>7 DEF ForeignChange
  <2>2. Seen(dir') = [Seen(dir) EXCEPT !.value = f]
    BY <1>0, <2>1 DEF ChangeDir, Seen, Dirs
  <2>3. Recoverable' = Recoverable \cup {Seen(dir')} /\ Current' = Seen(dir')
        /\ Current = Seen(dir)
    BY <2>1, NothingTorn, NothingTornNext DEF NoneTorn, ChangeDir, Seen
  <2>4. UNCHANGED Acked
    BY <1>0, <1>7 DEF ForeignChange
  <2>5. Register!ForeignChange(f)
    BY <2>2, <2>3, <2>4 DEF Register!ForeignChange, Register!Become
  <2> QED
    BY <2>5 DEF Register!Next
<1>8. CASE PowerLoss
  <2>1. dir' \in survivors /\ survivors' = {dir'} /\ UNCHANGED Acked
    BY <1>0, <1>8 DEF PowerLoss
  <2>2. Current' \in Recoverable /\ Recoverable' = {Current'}
    BY <2>1, NothingTorn, NothingTornNext DEF NoneTorn, Seen
  <2> QED
    BY <2>1, <2>2 DEF Register!Next, Register!PowerLoss
<1> QED
  BY <1>1, <1>2, <1>3, <1>4, <1>5, <1>6, <1>7, <1>8 DEF Next, Step

\* Any number of concurrent calls, failures, kills and power losses keep the
\* register's promise: whole values only, and a success that was told after
\* the directory was synced is for good.
THEOREM CallsImplementRegister == Spec => ImplementsRegister
<1>1. Spec => []ContentInv
  BY ContentAlways
<1>2. ContentInv /\ ContentInv' /\ PublicationInv /\ RefusedReturned /\ [Next]_vars
        => [Register!Next]_(Register!vars)
  BY RegisterStep
<1>3. Init => RefusedReturned
  BY DEF Init, RefusedReturned
<1>4. Spec => []RefusedReturned
  BY <1>3, RefusedReturnedStep, TypeCorrect, PTL DEF Spec
<1> QED
  BY <1>1, <1>2, <1>4, RegisterInit, PublicationAlways, PTL
     DEF Spec, ImplementsRegister, Register!Spec

-----------------------------------------------------------------------------
(***************************************************************************)
(* What a call says and leaves behind.  Its file is checked while nobody   *)
(* else sees it, so the blocks that count are those a power loss leaves.   *)
(***************************************************************************)
MeetsOptions(w) ==
    /\ opts[w].require_non_empty => disk[w] # 0
    /\ opts[w].require_executable => w \in exec \/ platform = "windows"

ValidatedInv ==
    \A w \in Writers :
        w \in dir.published \/ pc[w] \in {"committing", "renaming"} => MeetsOptions(w)

ReportedInv ==
    powerLosses = 0 =>
        \A w \in Writers :
            outcome[w] \in {"ok", "committed_but_unsynced"} => w \in dir.published

StagedInv ==
    powerLosses = 0 => \A w \in dir.staged : pc[w] \notin {"idle", "done"}

\* Only a power loss takes a publication back, and only bits are added.
LEMMA NothingTakenBack ==
    ASSUME ContentInv, PublicationInv, [Next]_vars
    PROVE  /\ UNCHANGED <<opts, platform>> /\ exec \subseteq exec'
           /\ \A w \in Writers : disk[w] # 0 => disk'[w] # 0
           /\ powerLosses' = 0 => powerLosses = 0 /\ dir.published \subseteq dir'.published
<1> USE DEF envVars, machineVars, fileVars
<1>0. /\ dir \in Dirs /\ survivors \subseteq Dirs /\ powerLosses \in Nat
      /\ disk \in [Writers -> Nat] /\ data \in [Writers -> Nat]
      /\ \A w \in Writers : disk[w] <= data[w]
  BY AtomicFileAssumption DEF ContentInv, TypeOK, BlocksOrdered
<1>1. CASE PowerLoss
  <2>1. PICK kept \in [Writers -> 0 .. MaxBlocks] :
            /\ \A w \in Writers : disk[w] <= kept[w]
            /\ disk' = kept
    BY <1>1 DEF PowerLoss
  <2>2. \A w \in Writers : disk[w] # 0 => disk'[w] # 0
    BY <1>0, <2>1, AtomicFileAssumption
  <2> QED
    BY <1>0, <1>1, <2>2 DEF PowerLoss
<1>2. ASSUME NEW w \in Writers, SyncAll(w)
      PROVE  \A v \in Writers : disk[v] # 0 => disk'[v] # 0
  BY <1>0, <1>2 DEF SyncAll, Flushed
<1>3. ASSUME NEW w \in Writers, Step(w) \/ Kill(w)
      PROVE  /\ UNCHANGED <<opts, platform, powerLosses>> /\ exec \subseteq exec'
             /\ dir.published \subseteq dir'.published
             /\ SyncAll(w) \/ UNCHANGED disk
  BY <1>0, <1>3 DEF Step, StageFile, CopyBlock, SetPermissions, SyncAll, ValidateStagedFile,
     CommitReplace, RenameAfterCheck, Replaced, SyncRootDirectory, DropStaged, StagedRemoved,
     Kill, ChangeDir, Dirs
<1>4. CASE ForeignChange \/ UNCHANGED vars
  BY <1>0, <1>4 DEF ForeignChange, ChangeDir, vars, machineVars, Dirs
<1> QED
  BY <1>1, <1>2, <1>3, <1>4 DEF Next

\* A file is published after its validation, and stays as it was then.
LEMMA ValidatedStep ==
    ContentInv /\ PublicationInv /\ ValidatedInv /\ [Next]_vars => ValidatedInv'
<1> SUFFICES ASSUME ContentInv, PublicationInv, ValidatedInv, [Next]_vars, NEW w \in Writers,
                    w \in dir'.published \/ pc'[w] \in {"committing", "renaming"}
             PROVE  MeetsOptions(w)'
  BY DEF ValidatedInv
<1>0. /\ pc \in [Writers -> Pcs] /\ dir \in Dirs /\ survivors \subseteq Dirs
  BY DEF ContentInv, TypeOK
<1>1. CASE MeetsOptions(w)
  BY <1>1, NothingTakenBack DEF MeetsOptions
<1>2. CASE ~MeetsOptions(w)
  <2>1. w \notin dir.published /\ pc[w] \notin {"committing", "renaming"}
    BY <1>2 DEF ValidatedInv
  <2>2. ValidateStagedFile(w) /\ StagedFileValid(w)
    <3>1. ~PowerLoss
      BY <1>0, <2>1 DEF PowerLoss, PublicationInv, SurvivorsOlder, Running
    <3>2. ~ForeignChange /\ ~UNCHANGED vars
      BY <1>0, <2>1 DEF ForeignChange, ChangeDir, vars, machineVars, Dirs
    <3>3. PICK v \in Writers : Step(v) \/ Kill(v)
      BY <3>1, <3>2 DEF Next
    <3>4. w \notin dir'.published
      <4>1. CASE CommitReplace(v) \/ RenameAfterCheck(v)
        <5>1. v # w /\ dir'.published \subseteq dir.published \cup {v}
          BY <1>0, <2>1, <4>1 DEF CommitReplace, RenameAfterCheck, Replaced, ChangeDir, Dirs, At
        <5> QED
          BY <2>1, <5>1
      <4>2. CASE ~(CommitReplace(v) \/ RenameAfterCheck(v))
        <5>1. dir'.published = dir.published
          BY <1>0, <3>3, <4>2 DEF Step, StageFile, CopyBlock, SetPermissions, SyncAll,
             ValidateStagedFile, SyncRootDirectory, DropStaged, StagedRemoved, Kill,
             ChangeDir, Dirs
        <5> QED
          BY <2>1, <5>1
      <4> QED
        BY <4>1, <4>2
    <3> QED
      BY <1>0, <2>1, <3>3, <3>4 DEF Step, StageFile, CopyBlock, SetPermissions, SyncAll,
         ValidateStagedFile, CommitReplace, RenameAfterCheck, SyncRootDirectory, DropStaged,
         Kill, At, Goto, Return
  <2>3. data[w] > 0 /\ opts[w].require_non_empty => disk[w] # 0
    <3>1. disk[w] = Payload[w] /\ disk[w] <= data[w] /\ data[w] <= Payload[w]
      BY <2>2 DEF ValidateStagedFile, At, ContentInv, SyncedWhole, Synced, BlocksOrdered
    <3>2. disk[w] \in Nat /\ data[w] \in Nat /\ Payload[w] \in Nat
      BY AtomicFileAssumption DEF ContentInv, TypeOK
    <3> QED
      BY <3>1, <3>2
  <2> QED
    BY <1>2, <2>2, <2>3 DEF StagedFileValid, MeetsOptions
<1> QED
  BY <1>1, <1>2

\* Success is told after the rename, and a finished call has unlinked.
LEMMA ReportedStep ==
    ContentInv /\ PublicationInv /\ ReportedInv /\ StagedInv /\ [Next]_vars
        => ReportedInv' /\ StagedInv'
<1> SUFFICES ASSUME ContentInv, PublicationInv, ReportedInv, StagedInv, [Next]_vars,
                    powerLosses' = 0
             PROVE  /\ \A w \in Writers :
                         outcome'[w] \in {"ok", "committed_but_unsynced"} => w \in dir'.published
                    /\ \A w \in dir'.staged : pc'[w] \notin {"idle", "done"}
  BY DEF ReportedInv, StagedInv
<1>0. /\ pc \in [Writers -> Pcs] /\ outcome \in [Writers -> Outcomes]
      /\ dir \in Dirs /\ powerLosses = 0 /\ powerLosses \in Nat
      /\ dir.published \subseteq dir'.published
  BY NothingTakenBack DEF ContentInv, TypeOK
<1> USE DEF At, Goto, Return, ChangeDir, fileVars, envVars, machineVars
<1>1. ~PowerLoss
  BY <1>0 DEF PowerLoss
<1>2. ASSUME NEW w \in Writers, outcome'[w] \in {"ok", "committed_but_unsynced"}
      PROVE  w \in dir'.published
  <2>1. CASE outcome'[w] = outcome[w]
    BY <1>0, <1>2, <2>1 DEF ReportedInv
  <2>2. CASE outcome'[w] # outcome[w]
    <3>1. SyncRootDirectory(w)
      BY <1>0, <1>1, <1>2, <2>2 DEF Next, Step, StageFile, CopyBlock, SetPermissions, SyncAll,
         ValidateStagedFile, CommitReplace, RenameAfterCheck, SyncRootDirectory, DropStaged,
         Kill, ForeignChange, vars, machineVars
    <3> QED
      BY <1>0, <3>1 DEF SyncRootDirectory, PublicationInv, AwaitsSync
  <2> QED
    BY <2>1, <2>2
<1>3. ASSUME NEW w \in dir'.staged PROVE pc'[w] \notin {"idle", "done"}
  <2>1. w \in dir.staged => pc[w] \notin {"idle", "done"}
    BY <1>0 DEF StagedInv
  <2>2. CASE ForeignChange \/ UNCHANGED vars
    BY <1>0, <1>3, <2>1, <2>2 DEF ForeignChange, vars, machineVars, Dirs
  <2>3. ASSUME NEW v \in Writers, StageFile(v) PROVE pc'[w] \notin {"idle", "done"}
    BY <1>0, <1>3, <2>1, <2>3 DEF StageFile, Dirs
  <2>4. ASSUME NEW v \in Writers, CommitReplace(v) \/ RenameAfterCheck(v)
        PROVE  pc'[w] \notin {"idle", "done"}
    BY <1>0, <1>3, <2>1, <2>4, ZenonT(40) DEF CommitReplace, RenameAfterCheck, Replaced, Dirs
  <2>5. ASSUME NEW v \in Writers, DropStaged(v) PROVE pc'[w] \notin {"idle", "done"}
    BY <1>0, <1>3, <2>1, <2>5 DEF DropStaged, StagedRemoved, Dirs
  <2>6. ASSUME NEW v \in Writers,
               \/ CopyBlock(v) \/ SetPermissions(v) \/ SyncAll(v) \/ ValidateStagedFile(v)
               \/ SyncRootDirectory(v) \/ Kill(v)
        PROVE  pc'[w] \notin {"idle", "done"}
    <3>1. w \in dir.staged /\ w \in Writers
      BY <1>0, <1>3, <2>6 DEF CopyBlock, SetPermissions, SyncAll, ValidateStagedFile,
         SyncRootDirectory, Kill, Dirs
    <3>2. CASE CopyBlock(v) \/ SetPermissions(v) \/ SyncAll(v)
      BY <1>0, <2>1, <3>1, <3>2 DEF CopyBlock, SetPermissions, SyncAll
    <3>3. CASE ValidateStagedFile(v) \/ SyncRootDirectory(v) \/ Kill(v)
      BY <1>0, <2>1, <3>1, <3>3 DEF ValidateStagedFile, SyncRootDirectory, Kill
    <3> QED
      BY <2>6, <3>2, <3>3
  <2> QED
    BY <1>1, <2>2, <2>3, <2>4, <2>5, <2>6 DEF Next, Step
<1> QED
  BY <1>2, <1>3

\* A published file meets its call's options, the outcome says whether it was
\* published, success after a synced directory is for good, and a finished call
\* has cleaned up: commit, commit_replace and Drop, whatever interferes.
THEOREM CallsAreHonest == Spec => []CallsHonest
<1>1. Init => ValidatedInv /\ ReportedInv /\ StagedInv
  BY DEF Init, ValidatedInv, ReportedInv, StagedInv
<1>2. ContentInv /\ PublicationInv /\ ValidatedInv /\ [Next]_vars => ValidatedInv'
  BY ValidatedStep
<1>3. ContentInv /\ PublicationInv /\ ReportedInv /\ StagedInv /\ [Next]_vars
        => ReportedInv' /\ StagedInv'
  BY ReportedStep
<1>4. Spec => [](ValidatedInv /\ ReportedInv /\ StagedInv)
  BY <1>1, <1>2, <1>3, ContentAlways, PublicationAlways, PTL DEF Spec
<1>5. ASSUME ContentInv, PublicationInv, OkIsDurable, ValidatedInv, ReportedInv, StagedInv
      PROVE  CallsHonest
  <2>1. PublishedMeetsOptions
    <3> SUFFICES ASSUME NEW w \in dir.published
                 PROVE  /\ opts[w].require_non_empty => data[w] # 0
                        /\ opts[w].require_executable => w \in exec \/ platform = "windows"
      BY DEF PublishedMeetsOptions
    <3>1. w \in Writers /\ MeetsOptions(w)
      BY <1>5 DEF ContentInv, TypeOK, Dirs, ValidatedInv
    <3>2. disk[w] <= data[w] /\ disk[w] \in Nat /\ data[w] \in Nat
      BY <1>5, <3>1, AtomicFileAssumption DEF ContentInv, TypeOK, BlocksOrdered
    <3> QED
      BY <3>1, <3>2 DEF MeetsOptions
  <2>2. OutcomeTruthful
    BY <1>5 DEF OutcomeTruthful, PublicationInv, Unpublished, ReportedInv
  <2>3. NoStagedLeak
    BY <1>5 DEF NoStagedLeak, StagedInv
  <2> QED
    BY <1>5, <2>1, <2>2, <2>3 DEF CallsHonest
<1>6. ContentInv /\ PublicationInv /\ OkIsDurable /\ ValidatedInv /\ ReportedInv /\ StagedInv
        => CallsHonest
  BY <1>5
<1> QED
  BY <1>4, <1>6, ContentAlways, PublicationAlways, AcknowledgedIsDurable, PTL
=============================================================================
