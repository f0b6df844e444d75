----------------------------- MODULE AtomicFile -----------------------------
(***************************************************************************)
(* write_file_atomically_from_reader, StagedAtomicFile::commit and their   *)
(* Drop (omne-fs-primitives, atomic_write.rs): concurrent calls that       *)
(* replace one destination by staging a sibling file, syncing it, renaming *)
(* it over the destination and syncing the parent directory.  Any system   *)
(* call may fail, a process may be killed, other programs may create or    *)
(* remove the destination, and the machine may lose power: then unsynced   *)
(* file blocks and unsynced directory changes may or may not survive.      *)
(***************************************************************************)
EXTENDS Naturals, FiniteSets

CONSTANTS
    Writers,        \* the calls, each in a process of its own
    Payload,        \* Payload[w]: blocks the reader of call w yields
    MaxBlocks,      \* bound on the blocks of a file
    OptionSets,     \* the AtomicWriteOptions a call may be given
    Platforms,      \* how rename_noreplace is built, see below
    Foreign,        \* a file another program left at the destination
    Absent,         \* no directory entry
    MaxPowerLosses, \* bound on power losses in a behaviour
    MaxForeign      \* bound on the other programs' changes

\* rename_noreplace: renameat2(NOREPLACE), check-then-rename, or Unsupported.
PlatformKinds == {"native", "windows", "unsupported"}

Options == [overwrite_existing : BOOLEAN, require_non_empty : BOOLEAN,
            require_executable : BOOLEAN, unix_mode : {"none", "plain", "exec"}]

ASSUME AtomicFileAssumption ==
    /\ MaxBlocks \in Nat
    /\ Payload \in [Writers -> 0 .. MaxBlocks]
    /\ OptionSets \subseteq Options
    /\ Platforms \subseteq PlatformKinds
    /\ Foreign \notin Writers
    /\ Absent \notin Writers \cup {Foreign}
    /\ MaxPowerLosses \in Nat /\ MaxForeign \in Nat

VARIABLES
    platform,   \* the build
    opts,       \* opts[w]: the options of call w
    pc,         \* pc[w]: the step call w takes next
    outcome,    \* outcome[w]: what the call returns, "none" before that
    data,       \* data[w]: blocks readers of w's staged file see
    disk,       \* disk[w]: of those, the blocks a power loss cannot take
    exec,       \* the calls whose staged file has an executable bit
    dir,        \* the parent directory: entries and who published to them
    survivors,  \* directory states a power loss may leave
    refused,    \* history: calls whose directory fsync gave EBADF or EINVAL
    powerLosses, foreignChanges

machineVars == <<platform, powerLosses, foreignChanges>>
vars == <<machineVars, opts, pc, outcome, data, disk, exec, dir, survivors, refused>>
fileVars == <<data, disk, exec>>
envVars  == <<machineVars, refused>>

Steps == {"writing", "set_permissions", "syncing", "validating",
          "committing", "renaming", "sync_parent"}
Pcs == Steps \cup {"idle", "dropping", "done", "leaked", "dead"}
PreCommitErrors == {"prepare_parent", "create_temp", "write", "set_permissions",
                    "sync", "metadata", "validation", "rename", "rename_noclobber"}
Outcomes == {"none", "ok", "committed_but_unsynced"} \cup PreCommitErrors

Files == Writers \cup {Foreign, Absent}
Dirs == [dest : Files, staged : SUBSET Writers, published : SUBSET Writers]

Init ==
    /\ platform \in Platforms
    /\ opts \in [Writers -> OptionSets]
    /\ pc = [w \in Writers |-> "idle"]
    /\ outcome = [w \in Writers |-> "none"]
    /\ data = [w \in Writers |-> 0]
    /\ disk = [w \in Writers |-> 0]
    /\ exec = {}
    /\ dir \in [dest : {Foreign, Absent}, staged : {{}}, published : {{}}]
    /\ survivors = {dir}
    /\ refused = {}
    /\ powerLosses = 0
    /\ foreignChanges = 0

-----------------------------------------------------------------------------
\* Steps of one call.

At(w, step) == pc[w] = step
Goto(w, step) == pc' = [pc EXCEPT ![w] = step]

\* An early return: the guard is dropped next, which removes the staged leaf.
Return(w, result) ==
    /\ Goto(w, "dropping")
    /\ outcome' = [outcome EXCEPT ![w] = result]

\* A directory operation is visible at once and survives power loss only by luck.
ChangeDir(new) ==
    /\ dir' = new
    /\ survivors' = survivors \cup {new}

\* The call opens its parent directory and creates a uniquely named leaf in it.
StageFile(w) ==
    /\ At(w, "idle")
    /\ UNCHANGED <<envVars, opts, fileVars>>
    /\ \/ /\ ChangeDir([dir EXCEPT !.staged = @ \cup {w}])
          /\ Goto(w, "writing")
          /\ UNCHANGED outcome
       \/ /\ \E e \in {"prepare_parent", "create_temp"} :
                outcome' = [outcome EXCEPT ![w] = e]
          /\ Goto(w, "done")
          /\ UNCHANGED <<dir, survivors>>

MoreToCopy(w) == data[w] < Payload[w]

\* io::copy moves the reader's blocks into the staged file one at a time.
CopyBlock(w) ==
    /\ At(w, "writing")
    /\ UNCHANGED <<envVars, opts, disk, exec, dir, survivors>>
    /\ \/ /\ MoreToCopy(w)
          /\ data' = [data EXCEPT ![w] = @ + 1]
          /\ UNCHANGED <<pc, outcome>>
       \/ /\ ~MoreToCopy(w)
          /\ Goto(w, "set_permissions")
          /\ UNCHANGED <<data, outcome>>
       \/ /\ Return(w, "write")
          /\ UNCHANGED data

SetPermissions(w) ==
    /\ At(w, "set_permissions")
    /\ UNCHANGED <<envVars, opts, data, disk, dir, survivors>>
    /\ \/ /\ exec' = IF opts[w].unix_mode = "exec" THEN exec \cup {w} ELSE exec
          /\ Goto(w, "syncing")
          /\ UNCHANGED outcome
       \/ /\ platform # "windows" /\ opts[w].unix_mode # "none"
          /\ Return(w, "set_permissions")
          /\ UNCHANGED exec

\* Mutant: commit renames without the sync_all before it.
NotFlushed(w) == disk

Flushed(w) == [disk EXCEPT ![w] = data[w]]

SyncAll(w) ==
    /\ At(w, "syncing")
    /\ UNCHANGED <<envVars, opts, data, exec, dir, survivors>>
    /\ \/ /\ disk' = Flushed(w)
          /\ Goto(w, "validating")
          /\ UNCHANGED outcome
       \/ /\ Return(w, "sync")
          /\ UNCHANGED disk

\* Mutant: the executable bit is not checked.
StagedFileNonEmpty(w) ==
    opts[w].require_non_empty => data[w] > 0

\* The staged file meets what the options require of it.
StagedFileValid(w) ==
    /\ opts[w].require_non_empty => data[w] > 0
    /\ opts[w].require_executable => platform = "windows" \/ w \in exec

ValidateStagedFile(w) ==
    /\ At(w, "validating")
    /\ UNCHANGED <<envVars, opts, fileVars, dir, survivors>>
    /\ \/ /\ StagedFileValid(w)
          /\ Goto(w, "committing")
          /\ UNCHANGED outcome
       \/ /\ ~StagedFileValid(w)
          /\ Return(w, "validation")
       \/ Return(w, "metadata")

Replaced(w) ==
    [dir EXCEPT !.dest = w, !.staged = @ \ {w}, !.published = @ \cup {w}]

\* Mutant: overwrite_existing is ignored.
MayRenameAlways(w) == platform = "native" \/ opts[w].overwrite_existing

\* rename replaces whatever is there; renameat2(NOREPLACE) needs a free name.
MayRename(w) ==
    opts[w].overwrite_existing \/ (platform = "native" /\ dir.dest = Absent)

\* commit_replace: rename over the destination, or only onto a free name.
\* The Windows build looks first and renames in a second step.
CommitReplace(w) ==
    /\ At(w, "committing")
    /\ UNCHANGED <<envVars, opts, fileVars>>
    /\ \/ /\ MayRename(w)
          /\ ChangeDir(Replaced(w))
          /\ Goto(w, "sync_parent")
          /\ UNCHANGED outcome
       \/ /\ ~opts[w].overwrite_existing
          /\ platform = "windows" /\ dir.dest = Absent
          /\ Goto(w, "renaming")
          /\ UNCHANGED <<outcome, dir, survivors>>
       \/ /\ Return(w, IF opts[w].overwrite_existing THEN "rename"
                                                     ELSE "rename_noclobber")
          /\ UNCHANGED <<dir, survivors>>

\* The second half of the Windows rename_noreplace: MoveFileEx replaces.
RenameAfterCheck(w) ==
    /\ At(w, "renaming")
    /\ UNCHANGED <<envVars, opts, fileVars>>
    /\ \/ /\ ChangeDir(Replaced(w))
          /\ Goto(w, "sync_parent")
          /\ UNCHANGED outcome
       \/ /\ Return(w, "rename_noclobber")
          /\ UNCHANGED <<dir, survivors>>

\* Mutant: the parent directory is not synced.
SurvivorsUnsynced == survivors

\* What a power loss may leave after sync_root_directory called fsync with
\* success (Unix), or did nothing (other builds).
SyncedSurvivors ==
    IF platform = "windows" THEN survivors ELSE {dir}

\* Mutant: a failed parent sync is reported like a failed rename.
UnsyncedIsRenameError == "rename"

\* AtomicWriteError::committed_but_unsynced
UnsyncedError == "committed_but_unsynced"

\* sync_dir_handle takes EBADF and EINVAL for success: nothing was synced then.
SyncRootDirectory(w) ==
    /\ At(w, "sync_parent")
    /\ UNCHANGED <<machineVars, opts, fileVars, dir>>
    /\ \/ /\ survivors' = SyncedSurvivors
          /\ Return(w, "ok")
          /\ UNCHANGED refused
       \/ /\ platform # "windows"
          /\ Return(w, "ok")
          /\ refused' = refused \cup {w}
          /\ UNCHANGED survivors
       \/ /\ platform # "windows"
          /\ Return(w, UnsyncedError)
          /\ UNCHANGED <<survivors, refused>>

\* Mutant: the guard is disarmed instead of dropped.
StagedForgotten(w) == dir

StagedRemoved(w) == [dir EXCEPT !.staged = @ \ {w}]

\* Drop removes the staged leaf if it is still there and ignores a failure.
DropStaged(w) ==
    /\ At(w, "dropping")
    /\ UNCHANGED <<envVars, opts, outcome, fileVars>>
    /\ \/ /\ ChangeDir(StagedRemoved(w))
          /\ Goto(w, "done")
       \/ /\ w \in dir.staged
          /\ Goto(w, "leaked")
          /\ UNCHANGED <<dir, survivors>>

Step(w) ==
    \/ StageFile(w) \/ CopyBlock(w) \/ SetPermissions(w)
    \/ SyncAll(w) \/ ValidateStagedFile(w) \/ CommitReplace(w)
    \/ RenameAfterCheck(w) \/ SyncRootDirectory(w) \/ DropStaged(w)

-----------------------------------------------------------------------------
\* The environment.

Running(w) == pc[w] \in Steps \cup {"dropping"}

Kill(w) ==
    /\ Running(w)
    /\ Goto(w, "dead")
    /\ UNCHANGED <<envVars, opts, outcome, fileVars, dir, survivors>>

\* Another program removes the destination, or puts a file of its own there.
ForeignChange ==
    /\ foreignChanges < MaxForeign
    /\ foreignChanges' = foreignChanges + 1
    /\ ChangeDir([dir EXCEPT !.dest = IF @ = Absent THEN Foreign ELSE Absent])
    /\ UNCHANGED <<platform, powerLosses, refused, opts, pc, outcome, fileVars>>

\* Running calls die, the directory goes back to a state it had since it was
\* last synced, and each file keeps its synced blocks and maybe more.
PowerLoss ==
    /\ powerLosses < MaxPowerLosses
    /\ powerLosses' = powerLosses + 1
    /\ pc' = [w \in Writers |-> IF Running(w) THEN "dead" ELSE pc[w]]
    /\ dir' \in survivors
    /\ survivors' = {dir'}
    /\ \E kept \in [Writers -> 0 .. MaxBlocks] :
          /\ \A w \in Writers : disk[w] <= kept[w] /\ kept[w] <= data[w]
          /\ data' = kept
          /\ disk' = kept
    /\ UNCHANGED <<platform, foreignChanges, refused, opts, outcome, exec>>

Next ==
    \/ \E w \in Writers : Step(w) \/ Kill(w)
    \/ ForeignChange
    \/ PowerLoss

Spec == Init /\ [][Next]_vars

-----------------------------------------------------------------------------
\* Properties.

TypeOK ==
    /\ platform \in Platforms
    /\ opts \in [Writers -> OptionSets]
    /\ pc \in [Writers -> Pcs]
    /\ outcome \in [Writers -> Outcomes]
    /\ data \in [Writers -> 0 .. MaxBlocks]
    /\ disk \in [Writers -> 0 .. MaxBlocks]
    /\ exec \in SUBSET Writers
    /\ dir \in Dirs
    /\ survivors \in SUBSET Dirs
    /\ refused \subseteq Writers
    /\ powerLosses \in 0 .. MaxPowerLosses
    /\ foreignChanges \in 0 .. MaxForeign

\* Nobody ever reads a partly written file at the destination, not even after
\* the machine lost power in the middle of any number of concurrent commits.
DestinationIntact ==
    dir.dest \in Writers => data[dir.dest] = Payload[dir.dest]

\* A file becomes visible only after validate_staged_file accepted it: what
\* readers find is non-empty and executable when its options ask for that.
PublishedMeetsOptions ==
    \A w \in dir.published :
        /\ opts[w].require_non_empty => data[w] # 0
        /\ opts[w].require_executable => w \in exec \/ platform = "windows"

\* The result tells the caller whether its file was published: success and
\* "committed but unsynced" say yes (until a power loss), other errors say no.
OutcomeTruthful ==
    \A w \in Writers :
        /\ outcome[w] \in PreCommitErrors => w \notin dir.published
        /\ outcome[w] \in {"ok", "committed_but_unsynced"} /\ powerLosses = 0
             => w \in dir.published

\* Calls told success after their directory was really synced: not on a build
\* that syncs none, nor where the file system refused to (EBADF, EINVAL).
Acked == {w \in Writers : outcome[w] = "ok" /\ platform # "windows" /\ w \notin refused}

\* A power loss after such a success does not bring back a state from before
\* the call's rename, whatever other calls and programs did since.
OkIsDurable == \A w \in Acked : \A s \in survivors : w \in s.published

\* What a caller who reads "ok" next to "committed but unsynced" expects of
\* every Unix build: success is only told when the rename is on disk. The code
\* does not have this property (README, observed divergences): no run checks it.
EveryOkIsDurable ==
    \A w \in Writers :
        outcome[w] = "ok" /\ platform # "windows" => \A s \in survivors : w \in s.published

\* Whichever step fails, a finished call leaves no staged file beside the
\* destination: only a refused unlink, a kill or a power loss leaks one.
NoStagedLeak ==
    powerLosses = 0 => \A w \in dir.staged : pc[w] # "done"

\* overwrite_existing = false never replaces a file that is already there,
\* whoever put it there and however late, unless the build is the one that
\* looks first and renames then.
NoClobber ==
    [][\A w \in dir'.published \ dir.published :
           ~opts[w].overwrite_existing /\ platform # "windows" => dir.dest = Absent]_vars

\* What the documentation says of every build: it fails closed when the
\* destination already exists at commit time. The code does not have
\* this property (README, observed divergences): no run checks it.
FailsClosed ==
    [][\A w \in dir'.published \ dir.published :
           ~opts[w].overwrite_existing => dir.dest = Absent]_vars

\* The calls implement the durable register of their destination.  Success is
\* an acknowledgement (Acked) only if the directory was synced: a call that was
\* told success without promises no more than one still at work.
ValueWith(s, blocks) ==
    IF s.dest \in Writers /\ blocks # Payload[s.dest] THEN "torn" ELSE s.dest

Abstract(s, blocks) == [value |-> ValueWith(s, blocks), published |-> s.published]

VisibleBlocks(s) == IF s.dest \in Writers THEN data[s.dest] ELSE 0
SafeBlocks(s) == IF s.dest \in Writers THEN disk[s.dest] ELSE 0

Current == Abstract(dir, VisibleBlocks(dir))
Recoverable ==
    UNION {{Abstract(s, n) : n \in SafeBlocks(s) .. VisibleBlocks(s)} : s \in survivors}

Register == INSTANCE DurableRegister WITH
    Callers <- Writers, current <- Current, recoverable <- Recoverable, acked <- Acked

ImplementsRegister == Register!Spec

\* What a call says and leaves behind, however many interfere with it: a
\* published file meets the options of its call, the outcome says whether it
\* was published, success after a synced directory is for good, and a finished
\* call has cleaned up.
\* (commit, commit_replace, Drop of StagedAtomicFile.)
CallsHonest == PublishedMeetsOptions /\ OutcomeTruthful /\ OkIsDurable /\ NoStagedLeak
=============================================================================
