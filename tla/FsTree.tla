------------------------------- MODULE FsTree -------------------------------
(***************************************************************************)
(* Paths of omne-fs and how they are resolved against a file tree that     *)
(* changes under it (src/crates/omne-fs/src/ops/resolve.rs, its dir_ops.rs *)
(* and the lexical helpers of path_utils.rs and policy.rs).  A tree maps   *)
(* every directory and name to an entry; a path is the sequence of the     *)
(* names below the root, and <<Up>> is a directory outside the root that   *)
(* only a symbolic link can reach.                                         *)
(***************************************************************************)
EXTENDS Naturals, Sequences, SequencesExt

CONSTANTS Names,     \* names of entries, Up among them
          Up,        \* the name under which a link leaves the root
          Dirs,      \* identities (device and inode) directories can have
          Root,      \* identity of the root directory
          Denied     \* root-relative paths the deny globs match

ASSUME TreeAssumption == Up \in Names /\ Root \in Dirs

Paths == Seq(Names)

Absent         == [kind |-> "absent"]
Other          == [kind |-> "error"]   \* lstat fails: a parent is no directory
FileEntry(i, d) == [kind |-> "file", ino |-> i, data |-> d]
DirEntry(i)    == [kind |-> "dir", ino |-> i]
LinkEntry(p)   == [kind |-> "link", to |-> p]

Resolved(p, e) == [st |-> "ok", path |-> p, entry |-> e]
Failed(why)    == [st |-> why, path |-> <<>>, entry |-> Absent]

\* ---------------------------------------------------------------- syscalls
\* canonicalize(3), component by component: what the names before n lead to is
\* r, what a link leads to is linked[its path].
Enter(fs, r, n, linked) ==
  LET e == fs[r.entry.ino][n]
  IN  IF r.st # "ok" THEN r
      ELSE IF r.entry.kind # "dir" THEN Failed("Io")
      ELSE IF e.kind = "absent" THEN Failed("NotFound")
      ELSE IF e.kind = "link" THEN linked[e.to]
      ELSE Resolved(Append(r.path, n), e)

AtRoot == Resolved(<<>>, DirEntry(Root))
Follow(fs, linked) ==
  LET walk[p \in Paths] ==
        IF p = <<>> THEN AtRoot ELSE Enter(fs, walk[Front(p)], Last(p), linked)
  IN  walk

\* Links are followed everywhere, two deep; a link below that is one too many.
NoLinks(fs) == Follow(fs, [p \in Paths |-> Failed("Io")])
OneLink(fs) == Follow(fs, NoLinks(fs))
Canonicalize(fs, p) == Follow(fs, OneLink(fs))[p]

\* The directory whose entry Last(p) a system call on the path p touches.
NoDir == [kind |-> "nodir"]
LedTo(r) == IF r.st = "ok" THEN r.entry ELSE NoDir
Holder(fs, p) == LedTo(Canonicalize(fs, Front(p)))

\* lstat: every component but the last is followed.
EntryIn(fs, parent, n) ==
  IF parent.st = "NotFound" THEN Absent
  ELSE IF parent.st # "ok" \/ parent.entry.kind # "dir" THEN Other
  ELSE fs[parent.entry.ino][n]
Lstat(fs, p) == IF p = <<>> THEN DirEntry(Root)
                ELSE EntryIn(fs, Canonicalize(fs, Front(p)), Last(p))

Put(fs, dir, n, e) == [fs EXCEPT ![dir][n] = e]

\* read_dir, which follows a link; an entry has the kind it had when it was read.
EntriesOf(fs, d) == {[name |-> n, kind |-> fs[d][n].kind] :
                       n \in {k \in Names : fs[d][k].kind # "absent"}}
ListingOf(fs, r) ==
  IF r.st = "NotFound" THEN [st |-> "NotFound", entries |-> {}]
  ELSE IF r.st # "ok" \/ r.entry.kind # "dir" THEN [st |-> "Io", entries |-> {}]
  ELSE [st |-> "ok", entries |-> EntriesOf(fs, r.entry.ino)]
ReadDir(fs, p) == ListingOf(fs, Canonicalize(fs, p))

\* ---------------------------------------------------------------- lexical
\* normalize_path_lexical on a relative path: "." disappears and ".." takes
\* the name before it away, or stays in front when there is none.
WithSegment(out, segment) ==
  IF segment = "." THEN out
  ELSE IF segment = ".." /\ out # <<>> /\ Last(out) # ".." THEN Front(out)
  ELSE Append(out, segment)
NormalizeLexical(segs) ==
  LET normal[s \in Seq(Names \cup {".", ".."})] ==
        IF s = <<>> THEN <<>> ELSE WithSegment(normal[Front(s)], Last(s))
  IN  normal[segs]

StartsWith(p, prefix)  == IsPrefix(prefix, p)
StripPrefix(p, prefix) == SubSeq(p, Len(prefix) + 1, Len(p))

InRoot(p) == ~StartsWith(p, <<Up>>)

\* is_path_denied: a path that is not root-relative is denied defensively.
IsPathDenied(p) == p \in Denied \/ ~InRoot(p)

\* resolve_path_in_root_lexically: the requested path, or why it is refused.
ResolveNormal(p) ==
  IF p # <<>> /\ Head(p) = ".." THEN Failed("OutsideRoot")
  ELSE IF IsPathDenied(p) THEN Failed("Denied")
  ELSE Resolved(p, Absent)
ResolveLexically(segs) ==
  IF segs = <<>> THEN Failed("InvalidPath") ELSE ResolveNormal(NormalizeLexical(segs))

\* ---------------------------------------------------------------- walks
\* classify_notfound_escape: does the path leave the root before the
\* component that is missing?
LinkInside(e, c) ==
  IF ~InRoot(e.to) \/ (c.st = "ok" /\ ~InRoot(c.path)) THEN Failed("OutsideRoot") ELSE c
Classified(fs, next, e) ==
  IF e.kind = "absent" THEN Failed("NotFound")
  ELSE IF e.kind = "error" THEN Failed("Io")
  ELSE IF e.kind # "link" THEN Resolved(next, e)
  ELSE LinkInside(e, Canonicalize(fs, e.to))
ClassifyComponent(fs, r, n) ==
  IF r.st # "ok" THEN r
  ELSE Classified(fs, Append(r.path, n), Lstat(fs, Append(r.path, n)))
ClassifyNotFoundEscape(fs, p) ==
  LET walk[q \in Paths] ==
        IF q = <<>> THEN AtRoot ELSE ClassifyComponent(fs, walk[Front(q)], Last(q))
  IN  walk[p].st

\* Mutant: the denied paths are compared with the requested path only.
CanonicalPathUnchecked(fs, requested) ==
  LET c == Canonicalize(fs, requested)
  IN  IF c.st = "ok" /\ ~InRoot(c.path) THEN Failed("OutsideRoot") ELSE c

\* canonical_path_in_root, for a request that passed the lexical checks.
InRootOrRefused(c, escape) ==
  IF c.st = "NotFound" THEN Failed(IF escape = "ok" THEN "NotFound" ELSE escape)
  ELSE IF c.st # "ok" THEN Failed(IF escape = "OutsideRoot" THEN escape ELSE c.st)
  ELSE IF ~InRoot(c.path) THEN Failed("OutsideRoot")
  ELSE IF IsPathDenied(c.path) THEN Failed("Denied")
  ELSE c
CanonicalPathInRoot(fs, requested) ==
  InRootOrRefused(Canonicalize(fs, requested), ClassifyNotFoundEscape(fs, requested))

\* handle_existing_component: where a component that exists leads to.
DirectoryInside(c) ==
  IF c.st # "ok" THEN Failed(c.st)
  ELSE IF ~InRoot(c.path) THEN Failed("OutsideRoot")
  ELSE IF c.entry.kind # "dir" THEN Failed("InvalidPath")
  ELSE c
ExistingComponent(fs, next, e, canonicalizeDirs) ==
  IF e.kind = "link" \/ (e.kind = "dir" /\ canonicalizeDirs)
  THEN DirectoryInside(Canonicalize(fs, next))
  ELSE IF e.kind = "dir" THEN Resolved(next, e)
  ELSE Failed("InvalidPath")

\* ensure_dir_under_root(create_missing = false).
Allowed(x) == IF x.st = "ok" /\ IsPathDenied(x.path) THEN Failed("Denied") ELSE x
Ensured(fs, next, e) ==
  IF e.kind = "absent" THEN Failed("NotFound")
  ELSE IF e.kind = "error" THEN Failed("Io")
  ELSE Allowed(ExistingComponent(fs, next, e, TRUE))
EnsureComponent(fs, r, n) ==
  IF r.st # "ok" THEN r
  ELSE Ensured(fs, Append(r.path, n), Lstat(fs, Append(r.path, n)))
EnsureDir(fs, p) ==
  LET walk[q \in Paths] ==
        IF q = <<>> THEN AtRoot ELSE EnsureComponent(fs, walk[Front(q)], Last(q))
  IN  walk[p]

\* preview_parent_dir_under_root: where the parent will be once the missing
\* components are created.  write and mkdir refuse a denied component on the
\* way, the two transfers do not look at it.
\* Behind a missing component (Absent) every other one is missing.
PreviewInside(c, rejectSecrets) ==
  IF c.st = "ok" /\ ~InRoot(c.path) THEN Failed("OutsideRoot")
  ELSE IF c.st = "ok" /\ rejectSecrets /\ IsPathDenied(c.path) THEN Failed("Denied")
  ELSE c
Previewed(fs, next, e, rejectSecrets) ==
  IF e.kind = "absent" THEN Resolved(next, Absent)
  ELSE IF e.kind = "error" THEN Failed("Io")
  ELSE IF e.kind = "file" THEN Failed("InvalidPath")
  ELSE PreviewInside(Canonicalize(fs, next), rejectSecrets)
PreviewComponent(fs, r, n, rejectSecrets) ==
  IF r.st # "ok" THEN r
  ELSE IF r.entry = Absent THEN Resolved(Append(r.path, n), Absent)
  ELSE Previewed(fs, Append(r.path, n), Lstat(fs, Append(r.path, n)), rejectSecrets)
PreviewParent(fs, p, rejectSecrets) ==
  LET walk[q \in Paths] ==
        IF q = <<>> THEN AtRoot
        ELSE PreviewComponent(fs, walk[Front(q)], Last(q), rejectSecrets)
  IN  walk[p]

\* The parent directory of a new entry as it is before anything is created:
\* the walk, or the preview when the walk stops at a missing component and
\* the request creates parents.
ExpectedParent(fs, parent, createParents, rejectSecrets) ==
  LET w == EnsureDir(fs, parent)
  IN  IF createParents /\ w.st = "NotFound"
      THEN PreviewParent(fs, parent, rejectSecrets) ELSE w

\* Mutant: any directory at the path will do.
StillDirectory(fs, p, dir) == Lstat(fs, p).kind = "dir"

\* DirectoryIdentity: the directory a path names itself, not through a link.
IfDirectory(e)     == IF e.kind = "dir" THEN e ELSE NoDir
DirectoryAt(fs, p) == IfDirectory(Lstat(fs, p))
SameDirectory(fs, p, dir) == DirectoryAt(fs, p) = dir

\* PathIdentity: device and inode, whatever the content; a link is compared
\* by its own inode, here by its target.
Identity(e) == CASE e.kind \in {"file", "dir"} -> <<e.kind, e.ino>>
                 [] e.kind = "link"           -> <<"link", e.to>>
                 [] OTHER                     -> <<e.kind>>
\* Mutant: an entry of the same kind is taken for the same.
SameKind(a, b) == a.kind = b.kind

SameIdentity(a, b) == Identity(a) = Identity(b)
=============================================================================
