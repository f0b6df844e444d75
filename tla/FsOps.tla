------------------------------- MODULE FsOps -------------------------------
(***************************************************************************)
(* The mutating operations of omne-fs (src/crates/omne-fs/src/ops): write, *)
(* edit and patch, mkdir, move_path and copy_file.  Calls of one Context   *)
(* run in parallel with each other and with other programs that use the    *)
(* same files, and nothing is locked: every operation resolves paths,      *)
(* remembers identities (device and inode), stages a temporary file next   *)
(* to its target, looks at the identities again and renames.  An action is *)
(* one such stage; whatever others do happens between two of them.  A walk *)
(* that creates nothing is part of the stage that starts with it.          *)
(***************************************************************************)
EXTENDS FsShape

CONSTANTS RequestsOf,   \* [Calls -> the requests a caller may make]
          Permissions,  \* operations the policy enables
          WriteScope,   \* "read_only", "workspace_write" or "full_access"
          Large,        \* those over the size limits of the policy
          Trees,        \* file trees at the start
          ForeignNames, \* entries of the root other programs exchange
          ForeignSlots, \* <<directory, name>> where they put or change files
          MaxForeign    \* changes other programs make

Request ==
  [op : {"write", "mkdir"}, path : Segments, over : BOOLEAN, parents : BOOLEAN,
   ignoreExisting : BOOLEAN, data : Contents]
  \cup [op : {"edit"}, path : Segments, data : Contents]
  \cup [op : {"move", "copy"}, from : Segments, to : Segments, over : BOOLEAN, parents : BOOLEAN]

\* At the start no file has the name of a temporary file: those are random.
ASSUME OpsAssumption ==
  /\ MaxForeign \in Nat
  /\ 0 \notin Inos /\ "foreign" \in Contents
  /\ ForeignNames \subseteq Names /\ ForeignSlots \subseteq Dirs \X Names
  /\ \A t \in Trees : /\ t \in Tree
                      /\ \A d \in Dirs, c \in Calls : t[d][c] = Absent
                      /\ WellShaped(t)
  /\ \A c \in Calls : RequestsOf[c] \subseteq Request

VARIABLES fs,        \* [Dirs -> [Names \cup Calls -> entry]]
          op,        \* [Calls -> the state of the call]
          foreign,   \* changes other programs have made
          raced,     \* calls that others changed the tree under since their last stage
          disturbed  \* calls during which others moved a directory or link
vars == <<fs, op, foreign, raced, disturbed>>

None == [kind |-> "none"]
Idle == [pc |-> "idle", req |-> None, rest |-> <<>>, at |-> <<>>, leaf |-> "", path |-> <<>>,
         pid |-> NoDir, target |-> None, from |-> <<>>, fromPid |-> NoDir, src |-> None,
         create |-> FALSE, tino |-> 0, made |-> {}, res |-> "none"]

Init == /\ fs \in Trees
        /\ op = [c \in Calls |-> Idle]
        /\ foreign = 0 /\ raced = {} /\ disturbed = {}

Entries(t) == {t[d][n] : d \in Dirs, n \in Names \cup Calls}
UsedInos == {e.ino : e \in {x \in Entries(fs) : x.kind = "file"}}
              \cup {op[c].tino : c \in Calls}
              \cup {op[c].src.ino : c \in {k \in Calls : op[k].src.kind = "file"}}
              \cup {op[c].target.ino : c \in {k \in Calls : op[k].target.kind = "file"}}
UsedDirs == {Root} \cup {e.ino : e \in {x \in Entries(fs) : x.kind = "dir"}}
              \cup {e.ino : e \in {x \in {op[c].pid : c \in Calls} \cup {op[c].fromPid : c \in Calls} :
                                     x.kind = "dir"}}
              \cup UNION {op[c].made : c \in Calls}
\* What is created has an identity of its own; Inos and Dirs bound how many
\* there are.
NewIno    == CHOOSE i \in Inos \ UsedInos : TRUE
NewDir    == CHOOSE d \in Dirs \ UsedDirs : TRUE
FileSpace == Inos \ UsedInos # {}
DirSpace  == Dirs \ UsedDirs # {}

\* ensure_write_operation_allowed.
WriteAllowed(o) == o \in Permissions /\ WriteScope \in {"workspace_write", "full_access"}

Temp(c)   == Append(Front(op[c].path), c)    \* StagedTempFile: next to the target
IsTemp(c, e) == e.kind = "file" /\ e.ino = op[c].tino
\* Who a step of `who` (other programs: {}) overtakes.
Overtakes(who) ==
  LET others == {c \in Calls \ who : op[c].pc \notin {"idle", "done"}}
  IN  /\ raced' = (raced \ who) \cup (IF fs' # fs THEN others ELSE {})
      /\ disturbed' = disturbed \cup (IF Structure(fs') # Structure(fs) THEN others ELSE {})

By(c) == Overtakes({c}) /\ UNCHANGED foreign

\* Mutant: the staged file is left to its caller.
TempKept(t, c) == t

\* The call returns and its temporary file, if it is at its path, is removed.
WithoutTemp(t, c) ==
  IF op[c].tino # 0 /\ Lstat(t, Temp(c)).kind = "file"
  THEN Put(t, Holder(t, Temp(c)).ino, c, Absent) ELSE t
Return(c, t, res) ==
  /\ fs' = WithoutTemp(t, c)
  /\ op' = [op EXCEPT ![c] = [Idle EXCEPT !.pc = "done", !.req = op[c].req,
                                          !.made = op[c].made, !.res = res]]
  /\ By(c)
Refuse(c, res)   == Return(c, fs, res)
Goto(c, state)   == fs' = fs /\ op' = [op EXCEPT ![c] = state] /\ By(c)

\* ------------------------------------------------------- parent directories
\* ensure_dir_under_root goes on with `rest` below `at`; at its end the
\* target's path is known.
Walked(state, at, rest) ==
  IF rest = <<>> THEN [state EXCEPT !.pc = "inspect", !.at = at, !.rest = <<>>,
                                    !.path = Append(at, state.leaf)]
  ELSE [state EXCEPT !.pc = "walk", !.at = at, !.rest = rest]

WalkComponent(c) ==
  LET next == Append(op[c].at, Head(op[c].rest))
      e    == Lstat(fs, next)
      x    == ExistingComponent(fs, next, e, ~op[c].create)
      pid  == DirectoryAt(fs, op[c].at)
  IN  /\ op[c].pc = "walk"
      /\ \/ op[c].create /\ pid = NoDir /\ Refuse(c, "InvalidPath")
         \/ ~(op[c].create /\ pid = NoDir) /\
            \/ e.kind = "error" /\ Refuse(c, "Io")
            \/ e.kind = "absent" /\ ~op[c].create /\ Refuse(c, "NotFound")
            \/ e.kind = "absent" /\ op[c].create /\ IsPathDenied(next) /\ Refuse(c, "Denied")
            \/ e.kind = "absent" /\ op[c].create /\ ~IsPathDenied(next)
               /\ Goto(c, [op[c] EXCEPT !.pc = "create", !.pid = pid])
            \/ e.kind \notin {"error", "absent"} /\ x.st # "ok" /\ Refuse(c, x.st)
            \/ e.kind \notin {"error", "absent"} /\ x.st = "ok" /\ IsPathDenied(x.path)
               /\ Refuse(c, "Denied")
            \/ e.kind \notin {"error", "absent"} /\ x.st = "ok" /\ ~IsPathDenied(x.path)
               /\ Goto(c, Walked(op[c], x.path, Tail(op[c].rest)))

\* create_dir of a missing component, in whatever directory its path names.
CreateComponent(c) ==
  LET next == Append(op[c].at, Head(op[c].rest))
      dir  == Holder(fs, next)
  IN  /\ op[c].pc = "create"
      /\ \/ dir.kind # "dir" /\ Refuse(c, "Io")
         \/ /\ dir.kind = "dir" /\ fs[dir.ino][Last(next)].kind = "absent" /\ DirSpace
            /\ fs' = Put(fs, dir.ino, Last(next), DirEntry(NewDir))
            /\ op' = [op EXCEPT ![c].pc = "created", ![c].made = @ \cup {NewDir}]
            /\ By(c)
         \/ /\ dir.kind = "dir" /\ fs[dir.ino][Last(next)].kind # "absent"
            /\ Goto(c, [op[c] EXCEPT !.pc = "found"])

\* The component is looked at and the parent verified again.  What was created
\* has to be a directory still; what somebody else created in between may be a
\* link as well.  When the parent is not the directory it was, the cleanup of
\* the new directory, which verifies it first, fails too and the directory stays.
CheckCreated(c) ==
  LET next == Append(op[c].at, Head(op[c].rest))
      e    == Lstat(fs, next)
      x    == ExistingComponent(fs, next, e, FALSE)
      changed == ~SameDirectory(fs, op[c].at, op[c].pid) \/ (op[c].pc = "created" /\ e.kind # "dir")
      refusal == IF e.kind = "absent" THEN "NotFound"
                 ELSE IF changed THEN "InvalidPath"
                 ELSE IF x.st # "ok" THEN x.st
                 ELSE IF IsPathDenied(x.path) THEN "Denied"
                 ELSE "none"
  IN  /\ op[c].pc \in {"created", "found"}
      /\ IF refusal # "none" THEN Refuse(c, refusal)
         ELSE Goto(c, Walked(op[c], x.path, Tail(op[c].rest)))

\* --------------------------------------------------------------- write_file
\* write_file and mkdir up to the walk that creates parents: nothing has been
\* created when a denied path is refused here.
Begin(c, r, tooLarge) ==
  LET lex     == ResolveLexically(r.path)
      leaf    == Last(lex.path)
      preview == ExpectedParent(fs, Front(lex.path), r.parents, TRUE)
      refusal == IF ~WriteAllowed(r.op) THEN "NotPermitted"
                 ELSE IF lex.st # "ok" THEN lex.st
                 ELSE IF tooLarge THEN "FileTooLarge"
                 ELSE IF lex.path = <<>> THEN "InvalidPath"
                 ELSE IF preview.st # "ok" THEN preview.st
                 ELSE IF IsPathDenied(Append(preview.path, leaf)) THEN "Denied"
                 ELSE "none"
  IN  /\ op[c].pc = "idle"
      /\ IF refusal # "none"
         THEN Goto(c, [Idle EXCEPT !.pc = "done", !.req = r, !.res = refusal])
         ELSE Goto(c, Walked([Idle EXCEPT !.req = r, !.leaf = leaf, !.create = r.parents],
                             <<>>, Front(lex.path)))
BeginWrite(c, r) == r.op = "write" /\ Begin(c, r, r.data \in Large)
BeginMkdir(c, r) == r.op = "mkdir" /\ Begin(c, r, FALSE)

\* The parent's identity and what is at the target now.
InspectWrite(c) ==
  LET pid == DirectoryAt(fs, op[c].at)
      e   == Lstat(fs, op[c].path)
  IN  /\ op[c].pc = "inspect" /\ op[c].req.op = "write"
      /\ \/ (pid = NoDir \/ e.kind \in {"dir", "link", "error"}) /\ Refuse(c, "InvalidPath")
         \/ pid # NoDir /\ e.kind = "file" /\ ~op[c].req.over /\ Refuse(c, "Exists")
         \/ pid # NoDir /\ (e.kind = "absent" \/ (e.kind = "file" /\ op[c].req.over))
            /\ Goto(c, [op[c] EXCEPT !.pc = "verify", !.pid = pid, !.target = e])

\* verify_parent_identity, before the temporary file is created.
ParentStays(c) == SameDirectory(fs, op[c].at, op[c].pid)
VerifyParent(c) ==
  /\ op[c].pc = "verify"
  /\ IF ParentStays(c) THEN Goto(c, [op[c] EXCEPT !.pc = "stage"])
     ELSE Refuse(c, "InvalidPath")

\* StagedTempFile::new, write_all, set_permissions, sync_all.  A copy reads
\* the open source, whatever it is called by now.
SourceData(c) ==
  LET now == {e \in Entries(fs) : e.kind = "file" /\ e.ino = op[c].src.ino}
  IN  IF now = {} THEN op[c].src.data ELSE (CHOOSE e \in now : TRUE).data
StagedData(c) == IF op[c].req.op = "copy" THEN SourceData(c) ELSE op[c].req.data
StageTemp(c) ==
  LET dir == Holder(fs, Temp(c))
  IN  /\ op[c].pc = "stage"
      /\ \/ dir.kind # "dir" /\ Refuse(c, "Io")
         \/ dir.kind = "dir" /\ StagedData(c) \in Large /\ Refuse(c, "FileTooLarge")
         \/ /\ dir.kind = "dir" /\ StagedData(c) \notin Large /\ FileSpace
            /\ fs' = Put(fs, dir.ino, c, FileEntry(NewIno, StagedData(c)))
            /\ op' = [op EXCEPT ![c].pc = "recheck", ![c].tino = NewIno]
            /\ By(c)

\* The checks right before the rename: the parent and the temporary file for
\* a write and a copy, the edited file and the temporary file for an edit.
Recheck(c, kind, unchanged) ==
  /\ op[c].pc = "recheck" /\ op[c].req.op = kind
  /\ IF unchanged /\ IsTemp(c, Lstat(fs, Temp(c))) THEN Goto(c, [op[c] EXCEPT !.pc = "rename"])
     ELSE Refuse(c, "InvalidPath")
RecheckWrite(c) == Recheck(c, "write", ParentStays(c))
RecheckCopy(c)  == Recheck(c, "copy", ParentStays(c))
RecheckEdit(c)  == Recheck(c, "edit", SameIdentity(Lstat(fs, op[c].path), op[c].target))

\* ------------------------------------------------------------------- rename
Subdirs(t, d) == {t[d][n].ino : n \in {k \in Names : t[d][k].kind = "dir"}}
Below(t, d)   == {d} \cup Subdirs(t, d) \cup UNION {Subdirs(t, k) : k \in Subdirs(t, d)}
Empty(t, d)   == \A n \in Names \cup Calls : t[d][n].kind = "absent"

\* rename(2), or renameat2 with RENAME_NOREPLACE: the error, or "ok".
RenameOutcome(from, to, replace) ==
  LET a == Holder(fs, from)
      b == Holder(fs, to)
      s == fs[a.ino][Last(from)]
      d == fs[b.ino][Last(to)]
  IN  IF a.kind # "dir" \/ b.kind # "dir" THEN "Io"
      ELSE IF s.kind = "absent" THEN "Io"
      ELSE IF ~replace /\ d.kind # "absent" THEN "Exists"
      ELSE IF s.kind = "dir" /\ b.ino \in Below(fs, s.ino) THEN "Io"
      ELSE IF s.kind = "dir" /\ d.kind # "absent"
              /\ ~(d.kind = "dir" /\ Empty(fs, d.ino)) THEN "Io"
      ELSE IF s.kind # "dir" /\ d.kind = "dir" THEN "Io"
      ELSE "ok"
AfterRename(from, to) ==
  LET a == Holder(fs, from).ino
      b == Holder(fs, to).ino
  IN  Put(Put(fs, a, Last(from), Absent), b, Last(to), fs[a][Last(from)])

\* Mutant: the rename that creates an entry replaces one as well.
ReplaceAlways(c) == TRUE

ReplaceExisting(c) == op[c].req.op = "edit" \/ op[c].target.kind = "file" \/ op[c].req.over
\* commit_replace and rename_replace: the parent directories are synced after
\* the rename, and a failure of that is reported apart.
CommitRename(c) ==
  LET from    == IF op[c].req.op = "move" THEN op[c].from ELSE Temp(c)
      outcome == RenameOutcome(from, op[c].path, ReplaceExisting(c))
  IN  /\ op[c].pc = "rename"
      /\ \/ outcome # "ok" /\ Refuse(c, outcome)
         \/ outcome = "ok" /\ \E res \in {"ok", "unsynced"} :
              Return(c, AfterRename(from, op[c].path), res)

\* -------------------------------------------------------------------- mkdir
\* ensure_target_dir_within_root.
TargetRefusal(c) ==
  LET k == Canonicalize(fs, op[c].path)
  IN  IF k.st # "ok" THEN k.st ELSE IF ~InRoot(k.path) THEN "OutsideRoot" ELSE "none"

\* handle_existing_target_dir, for a directory below the parent it expects.
ExistingDirectory(c) ==
  IF TargetRefusal(c) # "none" THEN TargetRefusal(c)
  ELSE IF op[c].req.ignoreExisting THEN "ok" ELSE "Exists"
ExistingTarget(c, e) ==
  IF e.kind # "dir" \/ ~ParentStays(c) THEN "InvalidPath" ELSE ExistingDirectory(c)

InspectMkdir(c) ==
  LET pid == DirectoryAt(fs, op[c].at)
      e   == Lstat(fs, op[c].path)
      at  == [op[c] EXCEPT !.pc = "mkdir", !.pid = pid]
  IN  /\ op[c].pc = "inspect" /\ op[c].req.op = "mkdir"
      /\ \/ (pid = NoDir \/ e.kind = "error") /\ Refuse(c, "InvalidPath")
         \/ pid # NoDir /\ e.kind = "absent" /\ Goto(c, at)
         \/ pid # NoDir /\ e.kind \in {"link", "file"} /\ Refuse(c, "InvalidPath")
         \/ pid # NoDir /\ e.kind = "dir" /\ Refuse(c, ExistingDirectory(c))

MakeDirectory(c) ==
  LET dir == Holder(fs, op[c].path)
  IN  /\ op[c].pc = "mkdir"
      /\ \/ dir.kind # "dir" /\ Refuse(c, "Io")
         \/ /\ dir.kind = "dir" /\ fs[dir.ino][op[c].leaf].kind = "absent" /\ DirSpace
            /\ fs' = Put(fs, dir.ino, op[c].leaf, DirEntry(NewDir))
            /\ op' = [op EXCEPT ![c].pc = "mkcheck", ![c].made = @ \cup {NewDir}]
            /\ By(c)
         \/ /\ dir.kind = "dir" /\ fs[dir.ino][op[c].leaf].kind # "absent"
            /\ Refuse(c, ExistingTarget(c, Lstat(fs, op[c].path)))

\* cleanup_created_target_dir: remove_dir, of an empty directory only.
CleanUpTarget(c) ==
  IF Empty(fs, Lstat(fs, op[c].path).ino)
  THEN Return(c, Put(fs, op[c].pid.ino, op[c].leaf, Absent), TargetRefusal(c)) ELSE Refuse(c, "Io")

\* The new directory is checked; a parent that changed leaves it behind.
CheckMade(c) ==
  LET changed == ~ParentStays(c) \/ Lstat(fs, op[c].path).kind # "dir"
  IN  /\ op[c].pc = "mkcheck"
      /\ \/ changed /\ Refuse(c, "InvalidPath")
         \/ ~changed /\ TargetRefusal(c) = "none" /\ Refuse(c, "ok")
         \/ ~changed /\ TargetRefusal(c) # "none" /\ CleanUpTarget(c)

\* ----------------------------------------------------------- edit and patch
\* edit_range and apply_unified_patch share their reading and their commit.
BeginEdit(c, r) ==
  LET lex == ResolveLexically(r.path)
      k   == CanonicalPathInRoot(fs, lex.path)
      refusal == IF ~WriteAllowed(r.op) THEN "NotPermitted"
                 ELSE IF lex.st # "ok" THEN lex.st
                 ELSE IF k.st # "ok" THEN k.st
                 ELSE "none"
  IN  /\ op[c].pc = "idle" /\ r.op = "edit"
      /\ Goto(c, IF refusal # "none"
                 THEN [Idle EXCEPT !.pc = "done", !.req = r, !.res = refusal]
                 ELSE [Idle EXCEPT !.pc = "read", !.req = r, !.path = k.path])

\* read_string_limited_with_identity: the identity is of the open file.  An
\* edit that changes nothing writes nothing.
ReadForEdit(c) ==
  LET e == Lstat(fs, op[c].path)
  IN  /\ op[c].pc = "read"
      /\ \/ op[c].path = <<>> /\ Refuse(c, "InvalidPath")
         \/ op[c].path # <<>> /\ e.kind # "file"
            /\ Refuse(c, IF e.kind = "absent" THEN "NotFound" ELSE "InvalidPath")
         \/ e.kind = "file" /\ (e.data \in Large \/ op[c].req.data \in Large)
            /\ Refuse(c, "FileTooLarge")
         \/ e.kind = "file" /\ e.data = op[c].req.data /\ e.data \notin Large /\ Refuse(c, "ok")
         \/ e.kind = "file" /\ e.data # op[c].req.data /\ {e.data, op[c].req.data} \cap Large = {}
            /\ Goto(c, [op[c] EXCEPT !.pc = "open", !.target = e])

\* write_bytes_atomic_impl opens the file for writing and compares it with
\* the one that was read.
OpenForWrite(c) ==
  LET e == Lstat(fs, op[c].path)
  IN  /\ op[c].pc = "open"
      /\ IF e.kind = "file" /\ SameIdentity(e, op[c].target)
         THEN Goto(c, [op[c] EXCEPT !.pc = "stage"])
         ELSE Refuse(c, IF e.kind = "absent" THEN "NotFound" ELSE "InvalidPath")

\* ------------------------------------------------------- move_path, copy_file
\* resolve_transfer_paths: both ends, the source's canonical parent, and the
\* destination's unless it is missing and may be created.
BeginTransfer(c, r) ==
  LET from == ResolveLexically(r.from)
      to   == ResolveLexically(r.to)
      fp   == EnsureDir(fs, Front(from.path))
      tp   == EnsureDir(fs, Front(to.path))
      missing == tp.st = "NotFound" /\ r.parents
      source  == Append(fp.path, Last(from.path))
      refusal == IF ~WriteAllowed(r.op) THEN "NotPermitted"
                 ELSE IF from.st # "ok" THEN from.st
                 ELSE IF to.st # "ok" THEN to.st
                 ELSE IF <<>> \in {from.path, to.path} THEN "InvalidPath"
                 ELSE IF fp.st # "ok" THEN fp.st
                 ELSE IF tp.st # "ok" /\ ~missing THEN tp.st
                 ELSE IF IsPathDenied(source) THEN "Denied"
                 ELSE "none"
  IN  /\ op[c].pc = "idle" /\ r.op \in {"move", "copy"}
      /\ Goto(c, IF refusal # "none"
                 THEN [Idle EXCEPT !.pc = "done", !.req = r, !.res = refusal]
                 ELSE [Idle EXCEPT !.pc = "source", !.req = r, !.from = source, !.at = tp.path,
                                   !.create = missing, !.leaf = Last(to.path)])

\* The source is looked at (move) or opened without following a link (copy);
\* then prepare_transfer_destination, up to the walk that creates parents.
TakeSource(c) ==
  LET r       == op[c].req
      to      == NormalizeLexical(r.to)
      e       == Lstat(fs, op[c].from)
      pid     == DirectoryAt(fs, Front(op[c].from))
      preview == ExpectedParent(fs, Front(to), op[c].create, FALSE)
      refusal == IF e.kind = "absent" THEN "NotFound"
                 ELSE IF e.kind = "error" THEN "Io"
                 ELSE IF r.op = "copy" /\ e.kind # "file" THEN "InvalidPath"
                 ELSE IF r.op = "move" /\ pid = NoDir THEN "InvalidPath"
                 ELSE IF preview.st # "ok" THEN preview.st
                 ELSE IF IsPathDenied(Append(preview.path, op[c].leaf)) THEN "Denied"
                 ELSE "none"
      taken   == [op[c] EXCEPT !.src = e, !.fromPid = pid]
  IN  /\ op[c].pc = "source"
      /\ IF refusal # "none" THEN Refuse(c, refusal)
         ELSE Goto(c, IF op[c].create THEN Walked(taken, <<>>, Front(to))
                      ELSE Walked(taken, op[c].at, <<>>))

\* validate_destination_before_move.
DestinationRefusal(c, e) ==
  IF e.kind = "absent" THEN "none"
  ELSE IF e.kind = "error" THEN "Io"
  ELSE IF SameIdentity(e, op[c].src) THEN "noop"
  ELSE IF e.kind = "dir" THEN "InvalidPath"
  ELSE IF ~op[c].req.over THEN "Exists"
  ELSE IF op[c].src.kind = "dir" THEN "InvalidPath"
  ELSE "none"

InspectMove(c) ==
  LET pid  == DirectoryAt(fs, op[c].at)
      e    == Lstat(fs, op[c].path)
      why  == DestinationRefusal(c, e)
      into == op[c].src.kind = "dir" /\ StartsWith(op[c].path, op[c].from)
  IN  /\ op[c].pc = "inspect" /\ op[c].req.op = "move"
      /\ \/ (IsPathDenied(op[c].path) \/ pid = NoDir) /\ Refuse(c, "InvalidPath")
         \/ /\ ~IsPathDenied(op[c].path) /\ pid # NoDir
            /\ \/ op[c].path = op[c].from /\ Refuse(c, "noop")
               \/ op[c].path # op[c].from /\ into /\ Refuse(c, "InvalidPath")
               \/ op[c].path # op[c].from /\ ~into /\ why # "none" /\ Refuse(c, why)
               \/ op[c].path # op[c].from /\ ~into /\ why = "none"
                  /\ Goto(c, [op[c] EXCEPT !.pc = "revalidate", !.pid = pid])

\* revalidate_parent_before_move for both ends, the denied paths, the source
\* and the destination once more.
ParentUnchanged(requested, expected, pid) ==
  LET w == EnsureDir(fs, Front(NormalizeLexical(requested)))
  IN  w.st = "ok" /\ w.path = expected /\ SameDirectory(fs, w.path, pid)
SourceUnchanged(c) == SameIdentity(Lstat(fs, op[c].from), op[c].src)
RevalidateMove(c) ==
  LET why  == DestinationRefusal(c, Lstat(fs, op[c].path))
      same == /\ ParentUnchanged(op[c].req.from, Front(op[c].from), op[c].fromPid)
              /\ ParentUnchanged(op[c].req.to, op[c].at, op[c].pid)
              /\ SourceUnchanged(c)
      denied == IsPathDenied(op[c].from) \/ IsPathDenied(op[c].path)
  IN  /\ op[c].pc = "revalidate"
      /\ \/ (~same \/ denied) /\ Refuse(c, "InvalidPath")
         \/ same /\ ~denied /\ why # "none" /\ Refuse(c, why)
         \/ same /\ ~denied /\ why = "none" /\ Goto(c, [op[c] EXCEPT !.pc = "rename"])

InspectCopy(c) ==
  LET pid == DirectoryAt(fs, op[c].at)
      e   == Lstat(fs, op[c].path)
      why == IF IsPathDenied(op[c].path) THEN "Denied"
             ELSE IF op[c].path = op[c].from \/ SameIdentity(e, op[c].src) THEN "noop"
             ELSE IF e.kind = "error" THEN "Io"
             ELSE IF op[c].src.data \in Large THEN "FileTooLarge"
             ELSE IF e.kind \in {"dir", "link"} THEN "InvalidPath"
             ELSE IF e.kind = "file" /\ ~op[c].req.over THEN "Exists"
             ELSE IF pid = NoDir THEN "InvalidPath"
             ELSE "none"
  IN  /\ op[c].pc = "inspect" /\ op[c].req.op = "copy"
      /\ IF why # "none" THEN Refuse(c, why)
         ELSE Goto(c, [op[c] EXCEPT !.pc = "verify", !.pid = pid])

\* --------------------------------------------------------- other programs
\* Two entries of the root are exchanged (one may be absent, or a link), or a
\* file is put, changed in place or removed somewhere.
Exchange(n, m) == /\ n # m /\ fs[Root][n] # fs[Root][m]
                  /\ fs' = [fs EXCEPT ![Root][n] = fs[Root][m], ![Root][m] = fs[Root][n]]
PutFile(d, n)  == /\ fs[d][n].kind \in {"absent", "file"} /\ FileSpace
                  /\ fs' = Put(fs, d, n, FileEntry(NewIno, "foreign"))
ChangeFile(d, n) == /\ fs[d][n].kind = "file" /\ fs[d][n].data # "foreign"
                    /\ fs' = Put(fs, d, n, FileEntry(fs[d][n].ino, "foreign"))
RemoveFile(d, n) == fs[d][n].kind = "file" /\ fs' = Put(fs, d, n, Absent)

Foreign == /\ foreign < MaxForeign
           /\ foreign' = foreign + 1
           /\ \/ \E n, m \in ForeignNames : Exchange(n, m)
              \/ \E s \in ForeignSlots : \/ PutFile(s[1], s[2]) \/ ChangeFile(s[1], s[2])
                                     \/ RemoveFile(s[1], s[2])
           /\ UNCHANGED op /\ Overtakes({})

Step(c) ==
  \/ \E r \in RequestsOf[c] : BeginWrite(c, r) \/ BeginMkdir(c, r) \/ BeginEdit(c, r) \/ BeginTransfer(c, r)
  \/ WalkComponent(c) \/ CreateComponent(c) \/ CheckCreated(c)
  \/ InspectWrite(c) \/ VerifyParent(c) \/ StageTemp(c)
  \/ RecheckWrite(c) \/ RecheckCopy(c) \/ RecheckEdit(c)
  \/ CommitRename(c)
  \/ InspectMkdir(c) \/ MakeDirectory(c) \/ CheckMade(c)
  \/ ReadForEdit(c) \/ OpenForWrite(c)
  \/ TakeSource(c) \/ InspectMove(c) \/ RevalidateMove(c) \/ InspectCopy(c)

Next == (\E c \in Calls : Step(c)) \/ Foreign
Spec == Init /\ [][Next]_vars

\* --------------------------------------------------------------- properties
Changed(d, n) == fs'[d][n] # fs[d][n]
Commits(c)    == op[c].pc = "rename" /\ op'[c].res \in {"ok", "unsynced"}
Here(c)       == <<op[c].pid.ino, op[c].leaf>>

\* A staged file is published in the directory whose identity the call took,
\* under the name it checked, in every interleaving: a directory exchanged
\* after the last check makes the rename fail, because the temporary file is
\* not in the other one.  A move has no such anchor and relies on nothing
\* changing after its last look.  (commit_write, copy_file::commit_replace,
\* move_path.)
LandsWhereChecked ==
  [][\A c \in Calls : Commits(c) /\ op[c].req.op # "edit" =>
       \/ op[c].req.op = "move" /\ c \in raced
       \/ /\ Changed(op[c].pid.ino, op[c].leaf)
          /\ \A d \in Dirs, n \in Names : Changed(d, n) =>
               \/ <<d, n>> = Here(c)
               \/ op[c].req.op = "move" /\ <<d, n>> = <<op[c].fromPid.ino, Last(op[c].from)>>
                  /\ SameIdentity(fs[d][n], op[c].src)]_vars

\* A call that may not overwrite never replaces or removes what is at its
\* destination, whatever appeared there since it looked; mkdir may take back an
\* empty directory where it has made one.  (rename_no_replace, create_dir.)
NoClobber ==
  [][\A c \in Calls : op'[c] # op[c] /\ op[c].pc # "idle"
       /\ op[c].req.op \in {"write", "copy", "move", "mkdir"}
       /\ (op[c].req.op = "mkdir" \/ ~op[c].req.over) =>
          \A d \in Dirs, n \in Names : Changed(d, n) =>
             \/ fs[d][n].kind = "absent"
             \/ op[c].pc = "mkcheck" /\ fs[d][n].kind = "dir" /\ Empty(fs, fs[d][n].ino)
             \/ op[c].req.op = "move" /\ fs'[d][n] = Absent
                /\ \E k \in Dirs, m \in Names : fs'[k][m] = fs[d][n] /\ fs[k][m] = Absent]_vars

\* An edit or a patch replaces the file it read, not a file that another call
\* or program put in its place, unless that happened after the very last
\* check.  (write_bytes_atomic_impl.)
EditReplacesWhatItRead ==
  [][\A c \in Calls : Commits(c) /\ op[c].req.op = "edit" /\ c \notin raced =>
       \A d \in Dirs, n \in Names : Changed(d, n) =>
          fs[d][n].kind = "file" /\ fs[d][n].ino = op[c].target.ino]_vars

\* No call changes an entry at a denied path, nor copies or edits a file
\* there, unless a directory or link moved while it ran.  This is for denied
\* paths that are closed: what is below one is denied as well.
\* (reject_secret_path before and after canonicalization.)
IsHidden(t, d, n) == \E p \in PathsTo(t, d) : IsPathDenied(p) \/ IsPathDenied(Append(p, n))
DeniedUntouched ==
  [][\A c \in Calls : op'[c] # op[c] /\ c \notin disturbed =>
       /\ \A d \in Dirs, n \in Names \cup Calls : Changed(d, n) => ~IsHidden(fs, d, n)
       /\ op[c].pc = "read" /\ op'[c].pc = "open" =>
            ~IsHidden(fs, Holder(fs, op[c].path).ino, Last(op[c].path))
       /\ op[c].pc = "source" /\ op'[c].src.kind = "file" =>
            ~IsHidden(fs, Holder(fs, op[c].from).ino, Last(op[c].from))]_vars

\* A call that is over, however it ended, has left no temporary file, and one
\* refused because of a denied or an outside path has created no directory,
\* unless somebody moved a directory or a link meanwhile.  The second part is
\* for denied paths that are closed, too.
\* (StagedTempFile, the previews before create_parents.)
Undisturbed(c) == op[c].pc = "done" /\ c \notin disturbed
NoTemporaryFiles == \A c \in Calls : Undisturbed(c) => \A d \in Dirs : fs[d][c] = Absent
NothingLeftBehind ==
  /\ NoTemporaryFiles
  /\ \A c \in Calls : Undisturbed(c) /\ op[c].res \in {"Denied", "OutsideRoot"} => op[c].made = {}
=============================================================================
