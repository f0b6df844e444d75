--------------------------- MODULE AtomicDirectory ---------------------------
(***************************************************************************)
(* StagedAtomicDirectory::commit and Drop (omne-fs-primitives,             *)
(* atomic_write.rs), on Unix: concurrent calls that replace one directory. *)
(* A call moves the existing directory into a backup holder, renames its   *)
(* staged tree to the destination, and deletes the holder, or puts the     *)
(* backup back if the rename fails.  Any system call may fail, a process   *)
(* may be killed, the machine may lose power, and another program may put  *)
(* a file where the directory was.                                         *)
(***************************************************************************)
EXTENDS Naturals

CONSTANTS
    Committers,     \* the calls, each with a staged tree of its own
    Old,            \* the directory that was there before
    Blocker,        \* a regular file another program creates
    EmptyTrees,     \* trees with no entry: rename may replace them
    Absent,         \* no directory entry
    EmptyHolder,    \* a backup holder without "previous"
    MaxPowerLosses, MaxForeign

Trees == Committers \cup {Old}

ASSUME AtomicDirectoryAssumption ==
    /\ Old \notin Committers
    /\ EmptyTrees \subseteq Trees
    /\ Blocker \notin Trees
    /\ Absent \notin Trees \cup {Blocker}
    /\ EmptyHolder \notin Trees \cup {Blocker, Absent}
    /\ MaxPowerLosses \in Nat /\ MaxForeign \in Nat

VARIABLES
    overwriting,    \* the calls with overwrite_existing; never changes
    pc,         \* pc[c]: the step call c takes next
    outcome,    \* outcome[c]: what the call returns, "none" before that
    backup,     \* backup[c]: what the call moved to its holder, else Absent
    synced,     \* the calls whose staged tree is on disk, every entry of it
    dir,        \* the parent directory: see Dirs
    survivors,  \* states of dir a power loss may leave
    refused,    \* history: calls with a directory fsync answered EBADF or EINVAL
    powerLosses, foreignChanges

machineVars == <<overwriting, powerLosses, foreignChanges>>
vars == <<machineVars, pc, outcome, backup, synced, dir, survivors, refused>>
envVars == <<machineVars, refused>>

Steps == {"filling", "syncing", "inspecting", "backing_up", "moving",
          "renaming", "restoring", "removing_backup", "sync_parent"}
Pcs == Steps \cup {"idle", "dropping", "done", "leaked", "dead"}
PreCommitErrors == {"create_tempdir", "sync_tree", "symlink_metadata", "not_a_directory",
                    "create_backup_dir", "rename_existing", "rename_staged",
                    "staged_cleanup", "rollback_failed", "abandoned"}
PostCommit == {"ok", "committed_but_unsynced", "committed_but_cleanup_failed"}
Outcomes == {"none"} \cup PreCommitErrors \cup PostCommit

Entries == Trees \cup {Blocker, Absent}
Dirs == [dest : Entries,
         staged : SUBSET Committers,
         holder : [Committers -> Entries \cup {EmptyHolder}],
         published : SUBSET Trees]

Init ==
    /\ overwriting \in SUBSET Committers
    /\ pc = [c \in Committers |-> "idle"]
    /\ outcome = [c \in Committers |-> "none"]
    /\ backup = [c \in Committers |-> Absent]
    /\ synced = {}
    /\ \E dest \in {Old, Absent} :
          dir = [dest |-> dest, staged |-> {}, published |-> {Old} \cap {dest},
                 holder |-> [c \in Committers |-> Absent]]
    /\ survivors = {dir}
    /\ refused = {}
    /\ powerLosses = 0
    /\ foreignChanges = 0

-----------------------------------------------------------------------------
At(c, step) == pc[c] = step
Goto(c, step) == pc' = [pc EXCEPT ![c] = step]

Return(c, result) ==
    /\ Goto(c, "dropping")
    /\ outcome' = [outcome EXCEPT ![c] = result]

ChangeDir(new) ==
    /\ dir' = new
    /\ survivors' = survivors \cup {new}

\* The staged tree is removed; remove_dir_all may fail and its error is
\* ignored here or reported by the caller.
WithoutStaged(c) == [dir EXCEPT !.staged = @ \ {c}]

\* An error return that removes the staged tree first, if it can.
CleanUpAndReturn(c, result) ==
    /\ ChangeDir(WithoutStaged(c)) \/ UNCHANGED <<dir, survivors>>
    /\ Return(c, result)

\* create_staged_directory_in_root makes the directory and then opens it: a
\* failed open leaves the directory behind without a guard to remove it.
StageDirectory(c) ==
    /\ At(c, "idle")
    /\ UNCHANGED <<envVars, backup, synced>>
    /\ \/ /\ ChangeDir([dir EXCEPT !.staged = @ \cup {c}])
          /\ Goto(c, "filling")
          /\ UNCHANGED outcome
       \/ /\ \/ ChangeDir([dir EXCEPT !.staged = @ \cup {c}]) /\ Goto(c, "leaked")
             \/ UNCHANGED <<dir, survivors>> /\ Goto(c, "done")
          /\ outcome' = [outcome EXCEPT ![c] = "create_tempdir"]

\* The caller fills the staged tree and commits, or drops the guard.
Fill(c) ==
    /\ At(c, "filling")
    /\ UNCHANGED <<envVars, backup, synced, dir, survivors>>
    /\ \/ Goto(c, "syncing") /\ UNCHANGED outcome
       \/ Return(c, "abandoned")

\* Mutant: the tree is renamed without sync_directory_tree.
NothingSynced(c) == synced

TreeSynced(c) == synced \cup {c}

\* validate_staged_directory and sync_directory_tree.  The tree is on disk when
\* every fsync succeeded; a directory whose fsync is answered EBADF or EINVAL
\* is passed over (sync_dir_handle), so some of its entries may not be.
SyncTree(c) ==
    /\ At(c, "syncing")
    /\ UNCHANGED <<machineVars, backup, dir, survivors>>
    /\ \/ /\ \/ synced' = TreeSynced(c) /\ UNCHANGED refused
             \/ refused' = refused \cup {c} /\ UNCHANGED synced
          /\ Goto(c, IF c \in overwriting THEN "inspecting" ELSE "renaming")
          /\ UNCHANGED outcome
       \/ /\ Return(c, "sync_tree")
          /\ UNCHANGED <<synced, refused>>

\* symlink_metadata of the destination decides whether a backup is needed.
InspectDestination(c) ==
    /\ At(c, "inspecting")
    /\ UNCHANGED <<envVars, backup, synced>>
    /\ \/ /\ dir.dest = Absent
          /\ Goto(c, "renaming")
          /\ UNCHANGED <<outcome, dir, survivors>>
       \/ /\ dir.dest \in Trees
          /\ Goto(c, "backing_up")
          /\ UNCHANGED <<outcome, dir, survivors>>
       \/ /\ dir.dest = Blocker
          /\ CleanUpAndReturn(c, "not_a_directory")
       \/ CleanUpAndReturn(c, "symlink_metadata")

CreateBackupDir(c) ==
    /\ At(c, "backing_up")
    /\ UNCHANGED <<envVars, backup, synced>>
    /\ LET made == [dir EXCEPT !.holder[c] = EmptyHolder]
       IN  \/ /\ ChangeDir(made)
              /\ Goto(c, "moving")
              /\ UNCHANGED outcome
           \/ CleanUpAndReturn(c, "create_backup_dir")
           \/ \* made but not opened: the holder stays behind
              /\ \/ ChangeDir(made)
                 \/ ChangeDir([made EXCEPT !.staged = @ \ {c}])
              /\ Return(c, "create_backup_dir")

\* Whatever is at the destination by now is renamed to holder/previous.
MoveExistingToBackup(c) ==
    /\ At(c, "moving")
    /\ UNCHANGED <<envVars, synced>>
    /\ \/ /\ dir.dest # Absent
          /\ ChangeDir([dir EXCEPT !.dest = Absent, !.holder[c] = dir.dest])
          /\ backup' = [backup EXCEPT ![c] = dir.dest]
          /\ Goto(c, "renaming")
          /\ UNCHANGED outcome
       \/ /\ \E staged \in {dir.staged, dir.staged \ {c}}, holder \in {Absent, EmptyHolder} :
                ChangeDir([dir EXCEPT !.staged = staged, !.holder[c] = holder])
          /\ Return(c, "rename_existing")
          /\ UNCHANGED backup

\* Mutant: plain rename is used even without overwrite_existing.
PlainRename(c) == dir.dest = Absent \/ dir.dest \in EmptyTrees

\* rename replaces nothing, or an empty directory; NOREPLACE only nothing.
RenameAllowed(c) ==
    dir.dest = Absent \/ (c \in overwriting /\ dir.dest \in EmptyTrees)

RenameStaged(c) ==
    /\ At(c, "renaming")
    /\ UNCHANGED <<envVars, backup, synced>>
    /\ \/ /\ RenameAllowed(c)
          /\ ChangeDir([dir EXCEPT !.dest = c, !.staged = @ \ {c},
                                   !.published = @ \cup {c}])
          /\ Goto(c, IF backup[c] = Absent THEN "sync_parent" ELSE "removing_backup")
          /\ UNCHANGED outcome
       \/ /\ backup[c] = Absent
          /\ \/ ChangeDir(WithoutStaged(c)) /\ Return(c, "rename_staged")
             \/ UNCHANGED <<dir, survivors>> /\ Return(c, "staged_cleanup")
       \/ /\ backup[c] # Absent
          /\ ChangeDir(WithoutStaged(c)) \/ UNCHANGED <<dir, survivors>>
          /\ Goto(c, "restoring")
          /\ UNCHANGED outcome

\* Mutant: the restore clears the destination first.
RestoreAlways(c) == TRUE

\* A directory goes back onto nothing or an empty directory, a file onto
\* nothing or a file.
RestoreAllowed(c) ==
    \/ dir.holder[c] \in Trees \cup {Blocker} /\ dir.dest = Absent
    \/ dir.holder[c] \in Trees /\ dir.dest \in EmptyTrees
    \/ dir.holder[c] = Blocker /\ dir.dest = Blocker

\* Mutant: a failed restore is reported like a failed rename.
RestoreFailureHidden == "rename_staged"

RestoreFailure == "rollback_failed"

\* The rename failed: put the backup back.  The empty holder stays.
RestorePrevious(c) ==
    /\ At(c, "restoring")
    /\ UNCHANGED <<envVars, backup, synced>>
    /\ \/ /\ RestoreAllowed(c)
          /\ ChangeDir([dir EXCEPT !.dest = dir.holder[c], !.holder[c] = EmptyHolder])
          /\ Return(c, IF c \in dir.staged THEN "staged_cleanup" ELSE "rename_staged")
       \/ /\ Return(c, RestoreFailure)
          /\ UNCHANGED <<dir, survivors>>

\* Mutant: a leftover holder after the switch is reported like a failed switch.
CleanupFailureIsRenameError == "rename_staged"

CleanupFailure == "committed_but_cleanup_failed"

\* remove_open_dir_all of the holder; a failure leaves some of it behind.
RemoveBackup(c) ==
    /\ At(c, "removing_backup")
    /\ UNCHANGED <<envVars, backup, synced>>
    /\ \/ /\ ChangeDir([dir EXCEPT !.holder[c] = Absent])
          /\ Goto(c, "sync_parent")
          /\ UNCHANGED outcome
       \/ /\ \/ UNCHANGED <<dir, survivors>>
             \/ ChangeDir([dir EXCEPT !.holder[c] = EmptyHolder])
          /\ Return(c, CleanupFailure)

\* Mutant: the parent directory is not synced.
SurvivorsUnsynced == survivors

\* What a power loss may leave after an fsync of the parent that succeeded.
SyncedSurvivors == {dir}

\* sync_dir_handle takes EBADF and EINVAL for success: nothing was synced then.
SyncRootDirectory(c) ==
    /\ At(c, "sync_parent")
    /\ UNCHANGED <<machineVars, backup, synced, dir>>
    /\ \/ /\ survivors' = SyncedSurvivors
          /\ Return(c, "ok")
          /\ UNCHANGED refused
       \/ /\ refused' = refused \cup {c}
          /\ Return(c, "ok")
          /\ UNCHANGED survivors
       \/ /\ Return(c, "committed_but_unsynced")
          /\ UNCHANGED <<survivors, refused>>

\* Drop removes the staged tree if it is still there and ignores a failure.
DropStaged(c) ==
    /\ At(c, "dropping")
    /\ UNCHANGED <<envVars, outcome, backup, synced>>
    /\ \/ ChangeDir(WithoutStaged(c)) /\ Goto(c, "done")
       \/ c \in dir.staged /\ UNCHANGED <<dir, survivors>> /\ Goto(c, "leaked")

Step(c) ==
    \/ StageDirectory(c) \/ Fill(c) \/ SyncTree(c) \/ InspectDestination(c)
    \/ CreateBackupDir(c) \/ MoveExistingToBackup(c) \/ RenameStaged(c)
    \/ RestorePrevious(c) \/ RemoveBackup(c) \/ SyncRootDirectory(c)
    \/ DropStaged(c)

-----------------------------------------------------------------------------
\* The environment.

Running(c) == pc[c] \in Steps \cup {"dropping"}

Kill(c) ==
    /\ Running(c)
    /\ Goto(c, "dead")
    /\ UNCHANGED <<envVars, outcome, backup, synced, dir, survivors>>

\* Another program creates a regular file at the free destination.
ForeignFile ==
    /\ foreignChanges < MaxForeign
    /\ dir.dest = Absent
    /\ foreignChanges' = foreignChanges + 1
    /\ ChangeDir([dir EXCEPT !.dest = Blocker])
    /\ UNCHANGED <<overwriting, powerLosses, refused, pc, outcome, backup, synced>>

\* Directory operations reach the disk in order: the directory goes back to a
\* state it had since it was last synced.
PowerLoss ==
    /\ powerLosses < MaxPowerLosses
    /\ powerLosses' = powerLosses + 1
    /\ pc' = [c \in Committers |-> IF Running(c) THEN "dead" ELSE pc[c]]
    /\ dir' \in survivors
    /\ survivors' = {dir'}
    /\ UNCHANGED <<overwriting, foreignChanges, refused, outcome, backup, synced>>

Next ==
    \/ \E c \in Committers : Step(c) \/ Kill(c)
    \/ ForeignFile
    \/ PowerLoss

Spec == Init /\ [][Next]_vars

-----------------------------------------------------------------------------
\* Properties.

TypeOK ==
    /\ overwriting \subseteq Committers
    /\ pc \in [Committers -> Pcs]
    /\ outcome \in [Committers -> Outcomes]
    /\ backup \in [Committers -> Entries]
    /\ synced \subseteq Committers
    /\ dir \in Dirs
    /\ survivors \subseteq Dirs
    /\ refused \subseteq Committers
    /\ powerLosses \in 0 .. MaxPowerLosses
    /\ foreignChanges \in 0 .. MaxForeign

\* No tree with content that ever was the destination is lost: in every state,
\* also after a kill or a power loss, it is the destination, it is recoverable
\* from a backup holder, or the call that moved it away has put its own tree
\* in its place.
NoTreeLost ==
    \A t \in dir.published \ EmptyTrees :
        \/ dir.dest = t
        \/ \E c \in Committers : dir.holder[c] = t
        \/ \E c \in Committers : backup[c] = t /\ c \in dir.published

\* The result says where the previous directory is.  After "rollback failed"
\* it is at the reported backup path; the only other result that may leave
\* one in a holder is "committed but cleanup failed".
BackupReported ==
    powerLosses = 0 =>
        \A c \in Committers :
            /\ outcome[c] = "rollback_failed" => dir.holder[c] = backup[c]
            /\ outcome[c] \notin {"none", "rollback_failed", "committed_but_cleanup_failed"}
                 => dir.holder[c] \in {Absent, EmptyHolder}

\* The result says whether the switch happened: never for a pre-commit error,
\* always (until a power loss) for success and the post-commit errors.
OutcomeTruthful ==
    \A c \in Committers :
        /\ outcome[c] \in PreCommitErrors => c \notin dir.published
        /\ outcome[c] \in PostCommit /\ powerLosses = 0 => c \in dir.published

\* Success survives power loss, with every file of the tree, unless the file
\* system refused to sync a directory (EBADF, EINVAL): the call goes on then.
OkIsDurable ==
    \A c \in Committers \ refused :
        outcome[c] = "ok" => c \in synced /\ \A s \in survivors : c \in s.published

\* A successful directory install does not return before its content is
\* durable. The code does not have this property where directories cannot be
\* synced (README, observed divergences): no run checks it.
EveryOkIsDurable ==
    \A c \in Committers :
        outcome[c] = "ok" => c \in synced /\ \A s \in survivors : c \in s.published

\* A call without overwrite_existing never replaces a directory, not even an
\* empty one that appears after staging.
NoClobber ==
    [][\A c \in (dir'.published \ dir.published) \ overwriting :
           dir.dest = Absent]_vars

\* A destination that is not a directory is rejected, never replaced. The code does not have
\* this property (README, observed divergences): no run checks it.
NonDirectoryNeverReplaced ==
    \A c \in Committers : backup[c] = Blocker => c \notin dir.published

\* A caller can act on the outcome alone: it says whether the switch happened,
\* where the previous tree is, and, on success where directories can be synced,
\* that the new one will outlive a power loss.  (commit_replace_directory and
\* its error paths.)
OutcomesHonest == BackupReported /\ OutcomeTruthful /\ OkIsDurable
=============================================================================
