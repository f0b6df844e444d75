# omne-runtime: TLA+ models and proofs

TLA+ modules for the parts of omne-runtime whose correctness depends on
interleavings, failures and crashes; TLC configurations that check them on small
instances; and TLAPS proofs of the properties that matter most. Paths below are
relative to the repository; crate names are directories of `crates/`.

## The system

omne-runtime is a workspace of ten Rust crates: primitives for files,
processes, archives and installation, an execution gateway that decides about,
audits and runs commands, and a policy-bound file-system tool.

| Component | State | Operations | What is hard | Correct when | Status |
|---|---|---|---|---|---|
| Atomic file replacement (`omne-fs-primitives/src/atomic_write.rs`) | the parent directory, a staged sibling file, its guard | stage, fill, `commit`, drop | concurrent calls and other programs at the destination; failing steps; kill; power loss before blocks or entries are on disk | the destination is whole, results tell the truth, success is durable, exclusive writes clobber nothing | modelled |
| Atomic directory replacement (same file) | the same, and a backup holder | stage, fill, `commit` with backup, switch, rollback and cleanup, drop | two renames with a gap between them, a rollback that fails | no tree is lost, the result says where it is | modelled |
| Advisory locks (`advisory_lock.rs`) | a lock file, its guard | lock, drop | holders that fail, die or are cancelled | it is part of Install, ArchiveTree and AuditLog | modelled there |
| Capability roots (`cap_root.rs`, `platform_open.rs`, ...) | directory handles | component-wise no-follow walk, with and without creation | components exchanged for links during the walk | no access outside the root | partly, in ArchiveTree, FsWalk and FsPolicy |
| Audit log (`omne-execution-gateway/src/audit_log.rs`) | a file, a handle and a lock per writer | open, append a record | several processes, partial writes, kills | records never mix, what is acknowledged is there | modelled |
| Gateway decision (`gateway.rs`, `policy.rs`) | policy, host capability | `prepare_request`: ordered checks | order, aliases, wrappers | nothing the policy forbids is authorized | modelled |
| Gateway life cycle (`gateway.rs`) | a bound request, an audit sink, a child | `execute`, `prepare_command`, `spawn`, `try_wait`, `wait`, drop | paths change between check and use; audit failures; calls in any order | nothing runs unaudited, results and records agree | modelled |
| Host commands (`omne-process-primitives/src/host_command.rs`, `command_path.rs`) | a child, two capture files, a deadline, a reaper thread | resolve the program, decide about sudo, build the environment, run with timeout and output limits | three resolutions of one name; timeout races exit and output; descendants that outlive the child | the right file runs with the right environment, the output is complete, the call returns, no zombie stays | modelled (Unix) |
| Process trees (`omne-process-primitives/src/lib.rs`) | a process group and its leader's identity | capture, clean up | reused process ids | nothing foreign is killed | not modelled |
| Artifact installation (`omne-artifact-install-primitives`) | a future and a blocking task per call, a lock per destination, a staged tree | download, verify, extract, commit, next candidate | concurrent installers, cancellation, retries, links in the archive and on the way | only verified content, one attempt at a time, the tree is the archive's and stays inside | modelled |
| Archive reading (`omne-archive-primitives`) | limits and counters | walk entries, pick a binary | limits at their boundary, duplicates, three formats, two ways to extract | limits hold, the choice is unique | modelled |
| File-system tool, policy (`omne-fs/src/policy*.rs`, `ops/context.rs`) | a policy file, a context | load, validate, compile | a file that changes while it is read, nested roots, spellings of globs | the whole policy is in force, roots are disjoint | modelled |
| File-system tool, changing operations (`omne-fs/src/ops`) | the tree, identities, a temporary file | write, edit, patch, mkdir, move, copy, delete | no locks: everything checked may change before it is used | what is published lands where it was checked, denied paths stay untouched, no edit is lost, delete ends | modelled |
| File-system tool, reading operations | the tree, budgets, a stream | read, list, stat, glob, grep | walkers on changing trees, six limits, four line scanners | an answer is complete or says it is not | modelled |
| File-system tool, redaction (`redaction.rs`) | deny globs, patterns | deny, redact | order of rules, output limit | deny rules cover what they name | modelled |
| Host information, integrity, system packages | none | pure functions | nothing concurrent | | not modelled |
| Command-line programs, serialization, sandbox back ends | none | parsing, printing, calls into the OS | nothing concurrent | | not modelled |

How they interact: `omne-fs`, the installers and the gateway call the file
primitives; the installers commit through atomic file and directory replacement
and serialize by advisory locks; the gateway writes through an audit sink that it
opens before it spawns. Processes meet only in the file system: at a destination,
at a lock file, at the audit log, in the tree that a file-system tool works on.

## The modules

| Module | Models | Interacts |
|---|---|---|
| `DurableRegister` | what a destination path promises: a whole value, and no acknowledged value is taken back | abstract specification |
| `AtomicFile` | `write_file_atomically_from_reader`, `StagedAtomicFile::commit`, drop | implements `DurableRegister` |
| `AtomicDirectory` | `StagedAtomicDirectory::commit`, drop | |
| `AuditLog` | `PreparedAuditSink::try_write_record` by concurrent handles | `ExecGateway` uses its append as one step |
| `ExecGateway` | a command's life, the child and its audit records | `GatewayDecision` says what its first step may deny |
| `GatewayDecision` | `prepare_request` | |
| `Install` | the download, verify, lock, commit pipeline | `AtomicFile`/`AtomicDirectory` are its commit step |
| `ArchiveTree` | what one install does with an archive: walk, extract, link, replace; the choice of a binary | extends `FsTree`; `Install` and `AtomicDirectory` are steps of it |
| `HostLaunch` | operators: which program, sudo or not, which environment | `HostCommand` extends it |
| `HostCommand` | `run_host_command`: launch, `wait_for_child`, `read_captured_output` | |
| `FsTree` | operators: trees of files, directories and links; how paths are resolved in them | extended by the four modules on trees |
| `FsOps` | write, edit and patch, mkdir, move, copy by concurrent calls | |
| `FsShape` | what trees hold and how they are shaped | `FsOps`, `FsDelete` and `FsWalk` are about such trees |
| `FsDelete` | delete | |
| `FsWalk` | glob, grep, list_dir, stat | extends `FsShape` |
| `FsPolicy` | loading, validation and compilation of a policy | `FsText` extends it: its limits and rules are in force there |
| `FsText` | bytes and lines: read, grep, edit, patch, redaction | |
| `*_proofs` | theorems of the module they extend; `Gateway_proofs` of the three gateway modules, `FsTree_proofs` the lemmas on paths and trees that `FsOps_proofs` (of `FsOps` and `FsWalk`) and `FsDelete_proofs` build on, `Install_proofs` of `Install` and `ArchiveTree` | |
| `MC*` | small instances for TLC | |

`FsPolicy` and `FsText` declare RECURSIVE operators (texts are consumed), so they are
checked by TLC only. `FsTree` follows a path by recursive functions on its prefixes, and
`FsWalk` matches a glob by one, so that modules on trees can be proved about. The names of
`FsWalk` differ from those of `FsOps` (`disk`, `WalkInit`, `WalkNext`) because one module
proves things about both.

A `Mutant:` comment marks an operator that no specification uses: the definition
below it with a plausible bug, kept to show that a property can fail.

### AtomicFile

One action per system call (or per group of calls that touch nothing shared), in
the order of the code. `pc[w]` is where call `w` is; an error return goes to
`dropping`, where the guard's `Drop` unlinks the staged file. `dir` is the parent
directory: who is at the destination, which staged files exist, and (history) who
has ever been published. `data` is what readers see of a file, `disk` what a power
loss cannot take. `survivors` is the set of directory states since the last
directory sync: a power loss goes back to one of them, and each file keeps its
synced blocks and perhaps more. `refused` (history) are the calls whose directory fsync
was answered EBADF or EINVAL, which `sync_dir_handle` takes for success: they are told
"ok" and `survivors` stays as it was. This is the weakest file system the code's syncs
are meant for: directory operations stay ordered, file blocks have no order
relative to them. `platform` is the three builds of `rename_noreplace`; `windows`
also has no directory sync and no modes. Unique names (`next_staged_entry_name`
with up to 128 attempts) are abstracted to one staged name per call.

### AtomicDirectory

The Unix build. A tree is a value; `EmptyTrees` are those that `rename(2)` may
replace silently. `holder[c]` is what call `c`'s backup holder has in it, `backup`
what the call moved there. Both error paths of the staged tree's removal (ignored
in some returns, reported in others) are kept, and so are holders and staged trees
that were created but could not be opened. `synced` are the trees that are on disk in full;
`refused` the calls that had a directory of the tree or the parent passed over because its
fsync was answered EBADF or EINVAL.

### AuditLog

The file is opened without `O_APPEND`: `position` is the handle's, and `Put` writes
there. `writeln!` on a `File` is several write calls, so a record is `Blocks` cells
and one for the newline. Closing a file releases its lock, which is why a sink that
is dropped after a failed unlock does not block others, and why one that is kept
(after a prepare record) would.

### ExecGateway

`fs` is what the three paths of a request lead to: a program and its contents'
version, a working directory, an audit log. `bound` is what preflight captured,
`started` what the child was started with, `moved` (history) what changed since the
call's last check. `byDescriptor` is Linux, where `/proc/self/fd/N` is
executed, `audited` whether the policy has an audit log; both are chosen at the start. A fingerprint is the program's version; identity comparison is comparison
of the program. `TryWait` of a running child has no effect and is not a step.

### GatewayDecision

A request is what the checks find out: how its program is named, what it resolves
to, and its command line twice: as the code reads it (`typed`, `target`, `read`), by file
names and by the options of wrappers it knows, and as what is really there (`is`, `runs`).
The two may differ in every way: a link or a copy of a launcher, a renamed wrapper, a
program behind a wrapper that is not what its name says, an option whose value is taken for
the command. What the code compares by contents is the target alone
(`IsTrustedLauncher`). The checks are sequences of
(failed, reason) pairs in the code's order; `Reason` is the first that fails.

### Install

A call is a future and its blocking task, because dropping the future does not stop
the task. `LockedAttempt` distinguishes binaries (the guard lives in the future for
the whole attempt) from archive trees (in the task, around extraction and commit).
The lock's name is derived from what the destination is at that time (`link`). `Candidates`
bounds the retries. A commit is one step that may publish and still fail.

### HostCommand and HostLaunch

The call is one thread; what makes it hard is what runs beside it: the child, a
descendant that the child leaves behind with the same output files, and time. `pc` is
the call's next step in the polling loop, in the two ways to end a child, or in the
reading. `file[s]` and `position[s]` are a capture file and the position that all its
handles share, because `create_output_capture_file` makes the second handle with
`try_clone`. `ended` and `signalled` differ: `kill` may fail under sudo and its error is
ignored. `written` and `disturbed` are history. Failures of `try_wait`, `metadata` and
`wait` come out as `SpawnFailed`, as in the code.

`HostLaunch!Plan` is what happens before the spawn, a function of the request and of
the host: `launch` holds both. A host has files (with an identity, so that two names of
one file are told apart from two files), the executable ones, directories, the ambient
variables and whether the caller is root. `Start` takes the plan's file, or its error.
The files are assumed not to change between the resolution and the exec. Under sudo the plan
has the arguments of `env -i` (`SudoAssignments`) and what env makes of them (`CleanerRuns`):
`runs` is the target only if there is no assignment before the `--`.

### FsTree

A tree is `[Dirs -> [Names -> entry]]`; a directory's number is its identity (device and
inode), files carry theirs. A link holds a path; one to `<<Up>>` leaves the root.
`Canonicalize` follows links wherever they are, two deep (`OneLink`: a chain of three
does not occur in the instances), `Lstat` all but the last. Deny globs are the set `Denied` of paths
they match; what a glob matches is `FsPolicy`'s subject.

### FsOps

One action per stage between two looks at the file system: resolve, preview, create
parents, take the parent's identity, stage, look again, rename. `op[c]` is a call's
local state. Temporary files are named after their call. `disturbed` and `raced` are
history: what others moved during the call, and after its very last check. The
properties exempt just that: the code works with paths, not with descriptors
(`resolve.rs:111`), so nothing it does can exclude a change after its last look. The
exemption is not the property: `LandsWhereChecked` needs none for write and copy,
because the rename of a temporary file that is not in the exchanged directory fails.

### FsDelete

Both walks of a recursive delete, entry by entry; `stack` holds the open `read_dir`
streams, which list what was there when they were opened. `scanned` is the shared
budget of both walks. A creator that never stops (`Create` has no bound) works beside
the call.

### FsWalk

`stack` holds the open directories of a walk and `cur` its entry; walkdir's order
and its behaviour at errors are modelled from how the code uses them. Contents are
classes of lines. `diag` counts what was skipped and why the walk stopped. `Created` is
the identity of every file another program creates: like the kernel, it may hand out one
that a removed file had. `touched` remembers that anything changed, `moved` that a directory
or a link to one did. A path is opened by name, as the code does, so `AnswersFromTheirPath`
speaks of grep while nothing has moved (what is read behind a directory that is exchanged
between two names no check by path can tell), and not of the path in observation 15.

### FsPolicy and FsText

`FsPolicy` loads: a text is a sequence of items of one unit each, so a limit may cut
between two. `FsText` continues under the policy loaded: `rest` is what the stream has
not delivered, `buf` what `BufReader` holds; `Refill` puts any number of bytes in it, so
that every split of CR LF and of a character happens. Bytes are a small alphabet, a
redaction pattern is a word, a patch has one hunk.

### ArchiveTree

An archive is a sequence of entries with types, sizes, contents and targets; a
destination is a path below the root. The walk opens each component by handle
(`dir`, `rest`); hard links wait in `pending` and are made in rounds: the parents of the
link and of its target are opened one component at a time (`dir` and `from`), then the
target, which tells who it is, and only then is the second name made and compared. A step
of another program may come between any two of these. `insensitive` is chosen at the
start, as the probe of `path_identity.rs` finds it. `Fold` is what a case-insensitive file
system compares and `Key` what the collision tracker does, which on Unix lowers ASCII
letters only; the instance has a letter of each sort. In a zip whatever is neither a directory
nor a symbolic link is extracted as a file (`Visited`).
`ExtractedTree` compares the tree with a replay of the archive on paths (`FinalEntry`), which
knows nothing of directories, handles, staged leaves or rounds that wait. `Dirs` bounds how many directories
there can be; a call stops short of making one more, which no call of the run needs.
`Outside` is the one directory that absolute and climbing links lead to. What
`ArchiveAssumption` says of the trees at the start is what a file system guarantees
(a directory has one place), that the names of staged things are fresh, and how the files
outside are told from the others; other programs exchange entries of other directories than
`Outside`, not those the call has staged.

## The runs

Every bound is a constant of its cfg. Deadlock is checked for `fs_delete`, `fs_walk`,
`archive_tree` and `fs_text`, where an ended call stutters by an action of its own
(`Terminated`) and a deadlock would be a call with no next step; in the others all calls
end and the system stops.

Properties that are conjunctions (`CallsHonest`, `OutcomesHonest`, `RecordsTruthful`,
`TextFaithful`, ...) bundle the named parts that are defined above them in their module;
mutants break each of the parts.

| Run | Instance | Shows |
|---|---|---|
| `atomic_file` | 2 calls, a reader of 1 block and an empty one, three option sets, all three builds, 1 power loss, 1 foreign change | `DestinationIntact`, `CallsHonest` (`PublishedMeetsOptions`, `OutcomeTruthful`, `OkIsDurable`, `NoStagedLeak`), `NoClobber`; implements `DurableRegister` |
| `atomic_directory` | 2 calls, each overwriting or exclusive, one tree that is empty, an old tree or none, 1 power loss, 1 foreign file | `NoTreeLost`, `OutcomesHonest` (`BackupReported`, `OutcomeTruthful`, `OkIsDurable`), `NoClobber` |
| `audit_log` | 3 handles, 4 records of 3 cells | `RecordsContiguous`, `AckedInFull`, `OnlyTornRecordsSpoilLines`, `WritersFinish` |
| `gateway` | every policy and host, twelve command lines, every other field of a request; of one request the life: one `execute` and one prepared command, 2 programs, directories and logs, 2 changes, audited or not, execution by descriptor or by path | `NoUnauditedRun`, `RecordsTruthful` (`ResultsAreRecorded`, `OneTerminalRecord`, `NoContradictoryRecord`), `StaleBindingRefused`, `EnforcementHolds` (`LauncherNeverAuthorized`, `OneDeclarationPerProgram`) |
| `install` | 2 calls with 2 candidates each, one with a digest; binaries or archive trees, at a path or a link; futures may be dropped | `VerifiedContent`, `ResultsTruthful` (`OkMeansInstalled`, `FailuresAreComplete`), `Serialized` (`OneAttemptAtATime`, `CommitsUnderLock`), `CallsFinish` |
| `host_command` | 11 ways to name a program, 3 sudo modes, 3 environments, 4 removals, 3 working directories, 6 hosts; limits 1, 2 or none; child and descendant write up to 2 blocks each to each stream | `OutputComplete`, `ProgramAsAsked`, `EnvironmentAsAsked`, `NothingHangs` (`CallReturns`, `ChildReaped`) |
| `host_sudo` | the same | violated, see divergence 6: `ElevatedTargetGetsOverlay`, that the target runs and has what the request sets |
| `fs_ops` | 2 calls, 15 and 4 requests, a tree with a denied directory and a link to it or out of the root, 1 foreign exchange, creation or content change | `LandsWhereChecked`, `NoClobber`, `EditReplacesWhatItRead`, `DeniedUntouched`, `NothingLeftBehind` |
| `fs_delete` | 9 requests, a tree of depth 2 with a link and perhaps a denied file, a budget of 5 entries, with and without a time limit, 2 creators without bound, 1 exchange or removal | `RefusedBeforeRemoval`, `DeniedSurvives`, `DeletedIsGone`, `DeleteReturns` |
| `fs_walk` | 27 requests, 2 trees of depth 2, 5 sets of limits, creators in 3 places, 1 exchange | `AnswersComplete` (`SearchComplete`, `ListsSmallest`), `AnswersFromTheirPath` (`OneEntry`, `DeniedUnread`) |
| `archive_tree` | every archive of up to 4 entries out of two files and three hard links in a cycle, 33 other archives of trees, 9 of binaries with and without a hint in three formats, 9 destinations, case-sensitive or not, 1 exchange | `ExtractedTree`, `KeepsToItself` (`Confined`, `NothingStaged`), `BinaryUnique`, `ExtractionEnds` |
| `fs_text` | 17 policy texts and 5 ways to load them while others append; every file of up to 3 bytes over 5 classes and 15 longer ones; 28 requests | `TextFaithful` (`RangeIsSlice`, `SearchSeesLines`, `EditKeepsOtherLines`, `PatchJudgedRight`), `PolicySound` (`WholePolicyRead`, `RootsDisjoint`, `DenyCovers`) |

The Windows build of the file module renames after a look and syncs no directory, so
`NoClobber` and `OkIsDurable` of `AtomicFile` speak of the other builds, and on Windows no
call counts as acknowledged in the refinement of `DurableRegister`, nor does one elsewhere
whose directory refused to be synced (`Acked`, divergence 16); `DestinationIntact` and
the rest hold on every build. `OneAttemptAtATime` speaks of binary calls that are still
awaited, at a destination that was not a link.

Two calls are enough for the interference of the file and directory modules: a
third party's role (creating, removing, blocking) is played by the foreign program,
and the theorems hold for any number. Two power losses would compose from one, since
a power loss ends all calls and only `idle` calls go on. Three handles let one writer
die while two compete for the lock. Two changes are what it takes to change a path
and change it back. One request is followed through a command's life, since the life
depends on the request by nothing but whether the command may run, and each call may find that
it may not. Candidates need a second one to be retried, not a third. One
foreign exchange takes a component away or puts a link in its place at any moment; two
would put it back, which identities do not detect and the properties exempt. The tree
walks meet every kind of entry on each of two levels; their limits are set below, at
and above what the trees hold. Three bytes are a CR LF and a neighbour, or a character
and a neighbour; longer files are there for a second line, for the caps and for the
results' limit.

### Fairness

Safety needs none. `WritersFinish`, `CallsFinish`, `CallReturns`, `ChildReaped`,
`DeleteReturns` and `ExtractionEnds` assume weak fairness of a thread's or future's own
steps: the operating system schedules a running thread and grants an advisory lock that
stays free to a waiter, the async runtime polls a woken future, the caller's downloader
ends every download (the crate has no timeout of its own), time passes and a delivered
SIGKILL takes effect. Nothing is assumed of failures, kills, cancellation, of the child
and descendants of a host command, of the caller that holds a prepared command, or of
other programs. Weak fairness suffices for the lock because each run has finitely many
contenders, none of which comes back: once the others are through, it stays free.

`FsDelete` and `ArchiveTree` state the fairness of their one thread as
`[]<>(pc = "done") \/ []<><<Call>>_vars`, which is `WF_vars(Call)` where a call that is
not done can always take a step, as the search for deadlocks shows; TLC evaluates this
form much faster. What makes `DeleteReturns` hold beside a program that creates files for
ever is the budget, which every pass uses up, and nothing else.

### Observed divergences

What the sources, tests or documents say and the code does not do, met while modelling.
The states are reachable in the models. The run `host_sudo` has a counterexample to
the promise of 6. Elsewhere a property that states the promise is defined
where it fits (`FailsClosed`, `NonDirectoryNeverReplaced`, `AckedRecordIsLine`,
`NoOutputLost`, `FullySerialized`, `DeniedNeverRead`, `EveryOkIsDurable`, `NoLauncherRuns`,
`NoCaseCollapse`) and
TLC violates it when it is added to the component's cfg.

1. Windows `rename_noreplace` (`atomic_write.rs:961`) checks, then renames with
   replacement: the fail-closed promise of `overwrite_existing = false` does not hold for a
   file created between (`FailsClosed`).
2. The directory commit (`atomic_write.rs:810`) inspects the destination and renames it
   later: a file that took the directory's place is replaced, although a non-directory is
   to be refused (`NonDirectoryNeverReplaced`).
3. A torn audit record shares its line with the next acknowledged one (`audit_log.rs:183`),
   so the log is not JSONL (`AckedRecordIsLine`).
4. A descendant that writes while `run_host_command` reads the capture files writes at
   the reader's position: the call succeeds, and output of the child is gone
   (`host_command.rs:682`, `NoOutputLost`).
5. A dropped binary-install future releases the destination's lock while its
   blocking task still verifies and commits (`binary_artifact.rs:117`, `FullySerialized`).
6. Under sudo a command is started as `env -i NAME=VALUE... -- target`
   (`host_command.rs:506`). `env` takes what follows the assignments for the command, so
   it looks for a program named `--` and ends with 127 unless there is no assignment.
   So no elevated target runs with the environment that the README of the crate (line 38)
   promises it: run `host_sudo`. `EnvironmentAsAsked` is about a direct child, and about the
   assignments env is given.
7. `execute` reports a failing `wait` as "failed to spawn process", with a denial in the
   event and `spawn_error` in the log, while the child runs; `run_host_command` likewise
   reports a failing `try_wait`, `metadata` or `wait` as `SpawnFailed`, which
   `omne-process-primitives/docs/architecture/system-boundaries.md` keeps for commands
   that never started.
8. `prepare_request` checks the host's isolation before mutation, allowlists and
   launchers; `docs/guides/policy-model.md` of the gateway numbers the other order. The
   audit log has the statuses `execution_error` and `detached`, which
   `docs/guides/audit-events.md` does not name.
9. The install lock of a binary destination that is a link is named after the link's
   target, and after the commit after the path, so two awaited calls can hold two locks;
   this is why `OneAttemptAtATime` excludes links.
10. A hard link whose name already is a name of its target makes the last rename a no-op
    (`archive_tree.rs:785`): the staged name stays in the installed tree; `NothingStaged`
    exempts it (`noop`).
11. An edit that follows a line ending in a lone CR with text that starts with LF merges
    the two (`edit.rs:84`); `EditKeepsOtherLines` exempts it (`joined`).
12. A delete that runs out of its budget in the second walk reports that the pre-scan
    exceeded its limits, although entries were removed (`delete.rs:330`).
13. A deny glob with an inner `.` or an empty segment is accepted and matches nothing
    (`path_utils.rs:37`); `DenyCovers` is about the others. A patch whose two headers are
    `a/b/f` and `b/f` is accepted for `b/f` (`patch.rs:252`). Redaction works by line or
    range, so a secret over two lines passes, and grep caps a line before it redacts it.
    An install refused because of a linked ancestor leaves its lock file behind the link.
14. The preview of a write's parents (`write.rs:124`) asks about no component after the
    first that does not exist. With a deny pattern that matches a path and not what is below
    it, a write that may create its parents makes the directories before the denied one
    and is refused only there. And where a pattern matches a directory but not what is in
    it, an edit of a file in it is let through. So `NothingLeftBehind` and `DeniedUntouched`
    are for patterns closed under children (`DeniedClosed`), which the documented ones are,
    like `.git/**` (`docs/policy-reference.md:44`): the run has such a `Denied`, and with one
    that is not TLC violates the former.
15. A pattern without wildcards is resolved once (`resolve_walk_root_for_traversal`,
    `walk.rs:15`). When the file does not exist then, the path as it was asked for is kept,
    the link in it included, and only the path is asked about, not where it leads. grep opens
    the file later by that path and does not resolve it again (`grep.rs:702`). A
    file that is created between the two in a denied directory, behind a link in an allowed
    one, is read (`DeniedNeverRead`), although resolved paths are checked everywhere else.
    `DeniedUnread` exempts the literal path that leads through a link once something changed.
16. `sync_dir_handle` (`atomic_write.rs:998`) takes EBADF and EINVAL from the fsync of a directory
    (an O_PATH handle, a file system that cannot sync directories) for success. A file
    write or a directory install then reports success, not "committed but unsynced", though
    neither the rename (760, 900) nor, for a tree, the entries of a directory in it (731)
    need be on disk. `OkIsDurable` and the refinement of `DurableRegister` leave out the calls
    this happened to (`refused`); `EveryOkIsDurable` does not, and is violated. Everything
    else holds for these calls too: a power loss brings back an older whole file, and no tree
    is lost.
17. The gateway compares the contents of the target with those of the launchers in the
    standard directories (`gateway.rs:1855`), but a subcommand behind a wrapper by its name
    only (746), and a wrapper by its own. So `LauncherNeverAuthorized` is about command lines in
    which what stands behind a wrapper goes by its own name and options are read as the
    wrapper does (`AsRead`; `stdbuf --output L cmd` is read as running `L`, 851);
    `NoLauncherRuns` is about every command line, and is violated.
18. On Unix the case-collision key lowers ASCII letters only (`archive_tree.rs:1195`). On a
    case-insensitive file system two paths that differ in the case of another letter
    are not told to collide, and the second is extracted over the first (`NoCaseCollapse`), where
    the README of the crate (line 34) says that such archives are rejected. `ExtractedTree`
    exempts them (`Overlooked`).
19. Hard links are made when all other entries have been (`archive_tree.rs:375`), so one replaces
    what a later entry put at its name, which an extraction in archive order would keep.
    `ExtractedTree` describes that order.

## The proofs

All theorems are for every value of the constants that the modules' assumptions
allow. Each module of proofs states its inductive invariant first, by parts named for
what they relate; TLC has checked each on the instance of the component's run.

* `AtomicFile_proofs`. `TypeCorrect`, one step per action. `DestinationAlwaysIntact`
  follows from `ContentInv`: a published or publishable file has all its blocks,
  synced, in every directory state a power loss may leave; `DestinationIntact` alone
  is not inductive, because it says nothing of those states. `PublicationInv` relates
  each call's result and step to the directory states its file is in; with it
  `NeverClobbers`, `AcknowledgedIsDurable` and the refinement
  `CallsImplementRegister` are proved, for every set of builds: the properties themselves
  leave the Windows build out where it promises less (divergence 1 shows why), and durability
  the calls whose directory refused its fsync (divergence 16). A call gets into `refused`
  in the step that returns and never leaves it (`RefusedReturned`), so what counts as
  acknowledged is settled when the call ends.
  `CallsAreHonest` adds that what is about to be renamed was validated
  (`ValidatedInv`), that a reported publication happened (`ReportedInv`), and that a
  staged file belongs to a call between its first and its last step (`StagedInv`).
* `AtomicDirectory_proofs`. `NoTreeLostAlways` from `TreeInv`, which says of all
  directory states a power loss may leave what `NoTreeLost` says of the visible one,
  and what each step of a call has moved where. `OutcomesAreHonest` from `ReportInv`:
  `OutcomeInv` relates a call's step and outcome to whether its tree was switched in,
  `HolderInv` says what its backup holder contains at each step, and no surviving state
  knows of a publication that the visible one does not (`SurvivorsOlder`). `NeverClobbers`
  needs only what the rename looks at.
* `Gateway_proofs`, audit log. `RecordsNeverMix`, `AcknowledgedInFull`, `LogIsAppendOnly` from
  one invariant: the holder of the lock is the only one between seek and unlock
  (`HoldersLock`), it is at the end of the file and its last cell is the file's
  (`WriterAtEnd`), and what it wrote is in the file (`WrittenInFile`,
  `AckedIsWritten`). `OnlyTornSpoil` looks back from a record to the cell before it,
  which may be old: `EndInv` says of the last cell of the file that it is a newline, the
  end of a torn record, or of the record in progress, and `RecordInv` what a sink has
  written of its record at each step.
* `Gateway_proofs`, life cycle. Everything the properties say of the logs is about the records
  of one call, its `Trail`, which no step of another call changes (`RecordAdds`,
  `CallKept`). `CallInv` has a part for what the call may be doing (`FlowInv`), the
  sink it holds (`SinkInv`), the records that exist at each step (`PreparedInv`,
  `UnfinishedInv`, `TerminalInv`, `DenialInv`, `RecordedInv`) and what is bound, checked
  and moved (`BindingInv`). The properties alone are not inductive: they speak of
  calls that have ended and commands that have started, and hold because of what the
  steps before have recorded. `VersionInv` (no version beyond the number of changes)
  keeps the types closed.
* `Gateway_proofs`, decision. `Reason` takes the first failing check of a sequence;
  `FirstFailureReason` and `ChecksInTurn` say that it is "none" just when every check
  of every sequence passes, from a least element of a set of naturals
  (`SmallestIndex`). `EnforcementAlwaysHolds` then needs the checks of the
  launcher and of the two allowlists (`EnforcedChecks`).
* `Install_proofs`. A call is a future and a task: `FlowInv` says which steps of the two
  go together, `LockInv` who of them holds the lock, `StagedInv` that
  what is extracted or committed was verified, `ResultInv` how many failures there are.
  `VerifiedContent` is inductive with `StagedInv`, and `Serialized` follows from
  `LockInv` because a lock has one holder.
  Of one installation, `InstallKeepsToItself` is about what is open.
  `KeepsToItself` is not inductive: it speaks of the staged directory and of where files
  are, and a call that had opened a directory behind a link would break it a few steps
  later. So `OpenInv` says that each directory the call has open, from the
  walk to the parent until the last hard link, is no place behind a link; one component down
  without following a link leads to such a place again (`Descend`), whatever has been
  exchanged, because a directory has one place (`TreeInv`, which an exchange keeps: `Swapped`) and only
  `Up` names `Outside`. `PathInv` says that what is still to be walked are names,
  no `..`, which is what the checks of the destination and of each entry's path are for
  (`SafePath`). `LeafInv` accounts for what is staged: the staged directory is in
  the parent's place, a staged leaf where the call is at work and nowhere else; an
  entry's leaf is the only name of its file, so its rename cannot be the no-op
  that leaves a hard link's staged name behind. A step is put once as what it does to a tree
  (`PutLeaf`, `PutDir`, `RenamedTree`) and once as what it leaves alone (`Quiet`,
  `Failing`). `OneBinary` needs `ScanInv`: of the entries before `next` at
  most one was wanted, and it is held back.
* `HostCommand_proofs`. `OutputIsComplete` from `ContentInv`: at each step of the
  reading, what has been captured of an undisturbed stream is the beginning of its file, up to
  the shared position, and the child's blocks in the file are those it wrote;
  `LengthInv` bounds the position of every stream, which is what a write beside it
  depends on. `ProgramIsAsAsked` from lemmas about `HostLaunch`: what the standard
  locations answer is in one of them (`StandardLocation`), and what a plan with and
  without sudo can be (`SudoPlanIs`, `DirectPlanIs`).
* `FsTree_proofs`. The paths, which everything depends on and which are
  walked by recursive functions: `EveryNumber` and `EverySequence` are induction over one set
  at a time, by a least counterexample, and `Recursion` says that a function that takes steps
  along the sequences exists and takes them. So `Follow`, the three walks and the lexical
  normalisation unfold and have their types (`FollowUnfolds`, `NormalizeType`), for paths
  of any length. The tree is `WellShaped`: a directory has one name, so it is on
  one path without links (`OnePath`), and what a call does to a tree, or another program
  does, leaves it so (`MadeShape`, `RemovedShape`, `MovedShape`, `ExchangedShape`).
* `FsOps_proofs`. First the calls. `StateInv` is what a call knows at each stage;
  `TempInv` that its temporary file exists once, only when it was staged, and that no other
  name has its inode; `AnchorInv` that before the rename of a write or a copy it is in the
  directory whose identity was taken; `CheckInv` that what was looked at last holds until
  somebody else's step. None of the properties is inductive without them: they
  speak of the step that renames, and hold because of what the stages before have seen.
  `HomeInv` says that the path of a temporary file leads to it while nobody moves a
  directory or a link, because trees with the same directories and links are walked
  alike (`FollowAlike`, `HolderStays`): that is why the call that ends can take it away
  (`TemporaryFilesRemoved`). Each step is put once as an `Effect` on the tree, and
  `OthersKept` shows what an effect leaves of the other calls. The exemptions of the
  properties stay what they are: `FilesLandWhereChecked` covers write and copy in every
  interleaving, edits and moves unless they are overtaken after their last look.

  Then what is denied, which is about what a call saw at different times: the requested
  path, the preview of its parents, the walk that creates them component by component, the
  canonical path. A second invariant, `SInv`, relates them for every call
  that nobody has disturbed. In a well-shaped tree what is hidden by the one path of a
  directory is hidden by all (`Visible`). A call depends only on the tree without its files (`Skeleton`), and that
  stays while it is undisturbed. In it `PlaceInv` says that the directories a
  call goes by are on plain paths, `AllowedInv` that its target, its source and the component
  it creates next are not denied, `ForeInv` that the place the rest of the walk will end at is
  not denied either: `Ahead` is the preview started half-way, so that a step of the
  walk is a step of the preview (`AheadShifts`, `Passed`). `FreshInv` says that what a call has
  created is bare, so the walk below it goes straight and can meet no link into a denied
  directory: hence a call that has created something is never refused for a denied path.
  `NextSees` keeps `SInv` step by step, and `DeniedStaysUntouched` and `NothingIsLeftBehind`
  follow, both for closed patterns; without them they are false (observation 14).
  Then `FsWalk`. `AnswersComeFromTheirPath` says of every read that it was of something the
  call had a right to look at, although the walk opens by path what it found earlier. Its
  invariant, `SearchInv`, holds what each look has left behind. `RootInv` and `StackInv` say that
  where the walk starts is not denied and that the directories it has open, and those it has
  listed in them, are on paths without links as long as nothing `moved`; `CurInv` that the entry in
  work is where the walk started or an allowed name in such a directory; `HandleInv` what
  stat still knows after one exchange. Two facts about trees carry it
  through the steps of others. A walk that succeeds still ends at the same place when
  absent entries are filled (`FollowWider`, `FilledLeads`), and when directories and the links to
  them stay, the same directories are seen at every path, whatever happens to files and to links to files
  (`FollowBetween`, `LeftAloneSeen`). So a file that is opened
  without following a link is where the entry was found to be (`FileInside`,
  `TakenAllowed`). The proof is what brought observation 15 up: `CurInv` does not
  hold of the literal path of a pattern, and the exemption of the property is what
  remains when it is proved.
* `FsDelete_proofs`. The invariant says of the stack of directories that it goes down from
  the target one name at a time, none of it denied (`StackInv`), and that they are reached
  without a link while nobody moves anything (`PlainInv`). So what a step removes is
  the last name of an allowed path, in the directory that has no other path
  (`Removal`, `RemovedAllowed`): `DeniedNotRemoved`. `DeletedWasRemoved` is about the last
  removal, after which the target's parent is still where it was (`Remains`).
  `RefusedInTime` needs to know why the removal cannot be refused for what it finds, and
  that is a matter of counting: `ExactInv`. While nobody else changes the tree, what is below
  the target is a finite set of paths (`Beneath`), each either still ahead of the walk or
  not (`Ahead`). The scan has counted everything that is no longer ahead of it, and found none of it denied
  (`ScanKnows`); so at its end all of `Beneath` is allowed and at most as large as the
  scan's count, which is within the budget. The removal starts with that: the paths that are still
  ahead of it are no more than its budget has left (`DeleteKnows`), and whatever is not
  ahead is a directory on the stack. Looking at an entry takes one path from what is ahead and one
  from the budget (`AheadCounted`, `KnowsCounted`); a directory is removed when there is nothing below it
  (`NothingLeft`), so reading it again starts no second pass and uses no budget. The property alone is not inductive, because it
  says nothing of a walk that is not refused yet.

The proofs rest on the named assumptions of the modules only. Those of the last modules:
every call has a candidate, executions and preparations differ,
executable files exist, limits are numbers, and the managers that need no privileges are
managers; the names of temporary files are no names of entries and none exists at the start,
trees and requests are well-formed, every directory has one name at most, the root none, and
what is nowhere is empty (`WellShaped`), the root is a directory; for `ArchiveTree` those
named above; for `FsOps` 0 is no inode, for
`FsDelete` it is the inode of what others create, and no call stages a file; for `FsWalk` requests
are well-formed and what others create has an identity that files can have. The two theorems on denied
paths say in their statement that the deny patterns are closed (`DeniedClosed`).

What the attempts found out about the models: twelve definitions in five modules chose
between overlapping guards with `CASE`, which TLA+ leaves open and TLC resolves by their
order. They are `IF` chains now, as in the code, where the first match counts. `FsOps` assumed of the
trees at the start only that their entries are entries; that a directory has one name and
the root none, which a file system guarantees, is now part of `OpsAssumption`, and of
`DeleteAssumption`, and evaluated by the runs. And what
was one property of a launch is two: `ProgramAsAsked`, a matter of control, and
`EnvironmentAsAsked`, about a fold over the request's variables. `DeniedUnread` was
checked on an instance in which no link led to a denied directory and nothing was created in
one, so it held there without its exemption and could not be proved; the instance has both now.

Only model-checked:

* The liveness properties `WritersFinish`, `CallsFinish`, `NothingHangs`, `DeleteReturns`,
  `ExtractionEnds`: the prover has no rule for fairness here.
* `EnvironmentAsAsked`: it compares two folds over a sequence, whose proof is an induction
  over data.
* `AnswersComplete` of `FsWalk`: it compares the answer with the set of all matches, which
  a recursive function finds and folds sort and weigh, so its proof is an induction over data.
* `TextFaithful` and `PolicySound` of `FsText`: they consume texts by RECURSIVE operators,
  which the prover does not take.
* `ExtractedTree` of `ArchiveTree`: it compares the tree with a replay of the archive, which
  folds over entries and rounds, so its proof is an induction over data.

## Plan

Done, in this order: file and directory replacement, audit log, gateway, installation,
host commands and their launch; then the file-system tool from the paths up: `FsTree`,
`FsOps`, `FsDelete`, `FsWalk`, `ArchiveTree`, `FsPolicy`, `FsText`. Each component has one
run that asks all its questions: option sets, builds and modes are chosen in `Init`.
Then theorems: for every safety property of the components up to host commands but
`EnvironmentAsAsked`, of `FsOps` and of `FsDelete`, and for those of `ArchiveTree` but
`ExtractedTree` and of `FsWalk` but `AnswersComplete`.

What would come next is `FsText`: a form of the scanners without RECURSIVE operators, and for
each the invariant that relates what is buffered to what is left of the file.

## Not modelled

Process trees (`omne-process-primitives/src/lib.rs`): their correctness is about which
ids the kernel hands out again and when, which the sources do not say, and the
documentation promises best effort. Formatting, encoding and wording of events, errors
and answers; argument parsing; sandbox back ends (their failure is a step's outcome);
decoders of archive formats, TOML, JSON, regular expressions and SHA-256 (library code);
name generation with retries; the pure crates for host information, integrity and system
packages; the aliases of macOS and Windows paths. Windows is modelled for files only: the
directory, process and file-system-tool modules are the Unix build. Contents that change
in place are not seen by an identity (`io.rs:232`), and the models of omne-fs say nothing
of them. The exit status check of a recipe is a function of the result.
