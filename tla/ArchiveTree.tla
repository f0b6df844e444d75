----------------------------- MODULE ArchiveTree -----------------------------
(***************************************************************************)
(* What is taken out of an archive.  A tree is installed by                *)
(* omne-artifact-install-primitives (archive_tree.rs): the lock root and   *)
(* the parent are opened component by component (cap_root.rs of            *)
(* omne-fs-primitives), the archive is walked (omne-archive-primitives,    *)
(* archive_tree.rs) into a staged directory, the hard links it holds are   *)
(* made last, and the staged directory takes the destination's place.  A   *)
(* binary is looked for entry by entry (binary_archive.rs).  Another       *)
(* program exchanges entries of directories in between.                    *)
(*                                                                         *)
(* Install serializes the installers of a destination and AtomicDirectory  *)
(* is the replacement; each is a step here.                                *)
(***************************************************************************)
EXTENDS FsTree, FiniteSets

CONSTANTS Requests,      \* [op, format, entries, dest, hint, buffered, limits]
          Trees,         \* file trees at the start
          Outside,       \* directory that <<Up>> is
          Fold,          \* [Names -> Names], what a case-insensitive file system compares
          Key,           \* [Names -> Names], what CaseCollisionTracker compares: on Unix
                         \* append_case_folded_component lowers ASCII letters only
          Stage, Lock,   \* names of the staged directory and the lock file
          Temp,          \* name of a staged leaf
          Data,          \* contents of files
          MaxTarget,     \* MAX_ZIP_SYMLINK_TARGET_BYTES
          ForeignSlots,  \* <<directory, name, name>> another program exchanges
          MaxForeign     \* how often

NoHandle == 99

\* What the caller and the archive say: a path's parts are names, but for
\* those of staged things and the one that leads outside.  components() of a
\* path has a "." in front or nowhere.
Plain    == Names \ {Up, Stage, Temp}
Segments == Plain \cup {".", "..", "/"}
Components     == {p \in Seq(Segments) : \A i \in 2..Len(p) : p[i] # "."}
ArchiveEntries == [path : Components, type : STRING, size : Nat, data : Data, target : Components]
RequestTypes   == [op : {"tree", "binary"}, format : STRING, entries : Seq(ArchiveEntries),
                   dest : Seq(Plain \cup {".", ".."}) \ {<<>>}, hint : Components, buffered : BOOLEAN,
                   limits : [entries : Nat, bytes : Nat]]

TreeEntries == {Absent} \cup [kind : {"file"}, ino : Nat, data : Data]
                        \cup [kind : {"dir"}, ino : Dirs]
                        \cup [kind : {"link"}, to : Seq(Names \cup Segments)]
FileTrees   == [Dirs -> [Names -> TreeEntries]]

\* A directory has one place; none holds the root, and Up alone is Outside.
OnePlace(tree) == \A d, e \in Dirs, n, m \in Names :
  tree[d][n].kind = "dir" /\ tree[e][m] = tree[d][n] => e = d /\ m = n
Apart(tree) == \A d \in Dirs, n \in Names :
  tree[d][n].kind = "dir" => tree[d][n].ino # Root /\ (tree[d][n].ino = Outside => n = Up)

\* What is behind a link: Outside and the directories right in it; and the
\* files of Outside, which have no name elsewhere.
BehindIn(tree) == {i \in Dirs : \E n \in Names : tree[Outside][n] = DirEntry(i)} \cup {Outside}
HiddenIn(tree) == {tree[Outside][n].ino : n \in {m \in Names : tree[Outside][m].kind = "file"}}
KeptOutside(tree)  == \A n \in Names \ {Lock} : tree[Outside][n].kind = "file" => tree[Outside][n].data = "hidden"
HiddenStays(tree)  == \A d \in Dirs \ BehindIn(tree), n \in Names :
  tree[d][n].kind = "file" => tree[d][n].ino \notin HiddenIn(tree)

ASSUME ArchiveAssumption ==
  /\ IsFiniteSet(Names) /\ IsFiniteSet(Dirs) /\ Outside \in Dirs \ {Root} /\ NoHandle \notin Dirs
  /\ {"lock", "hidden"} \subseteq Data
  /\ Lock \in Plain /\ Stage \in Names \ {Up} /\ Temp \in Names \ {Up, Stage}
  /\ Fold \in [Names -> Names] /\ Key \in [Names -> Names]
  /\ \A n \in Names, s \in {Stage, Lock, Temp, Up} : Fold[n] = s <=> n = s
  /\ {".", "..", "/"} \cap Names = {}
  /\ Requests \subseteq RequestTypes /\ Trees \subseteq FileTrees
  /\ \A t \in Trees : /\ OnePlace(t) /\ Apart(t) /\ KeptOutside(t) /\ HiddenStays(t)
                      /\ \A d \in Dirs : t[d][Stage] = Absent /\ t[d][Temp] = Absent
  /\ ForeignSlots \subseteq (Dirs \ {Outside}) \X Plain \X Plain
  /\ MaxForeign \in Nat /\ MaxTarget \in Nat

VARIABLES fs, insensitive, pc, req,
          dir, rest,            \* a walk: the open directory and the names to come
          base, top,            \* open parent and staged directory
          next, bytes, firsts,  \* the archive walk, its budget, CaseCollisionTracker
          pending, remaining, progressed, \* hard links, and those of the round
          source, from,         \* the hard link's target as opened, its open directory
          noop,                 \* a rename found both names on one file already
          match, written,       \* the binary buffered; what the writer has
          res, foreign
openVars == <<base, top>>
readVars == <<next, bytes, firsts>>
linkVars == <<pending, remaining, progressed, source, from, noop>>
binVars  == <<match, written>>
archiveVars == <<fs, insensitive, pc, req, dir, rest, openVars, readVars, linkVars, binVars, res, foreign>>

NoMatch  == [path |-> <<>>, data |-> "none"]

ArchiveInit ==
  /\ fs \in Trees /\ insensitive \in BOOLEAN /\ req \in Requests
  /\ pc = "start" /\ dir = NoHandle /\ rest = <<>> /\ base = NoHandle /\ top = NoHandle
  /\ next = 1 /\ bytes = 0 /\ firsts = {}
  /\ pending = <<>> /\ remaining = <<>> /\ progressed = FALSE
  /\ source = Absent /\ from = NoHandle /\ noop = FALSE
  /\ match = NoMatch /\ written = {} /\ res = "none" /\ foreign = 0

Keep == UNCHANGED <<insensitive, req, foreign>>
Walked == UNCHANGED <<base, top, readVars, linkVars, binVars, res>> /\ Keep

\* ------------------------------------------------- directories by handle
Name(n) == IF insensitive THEN Fold[n] ELSE n
At(d, n) == fs[d][Name(n)]
Set(tree, d, n, e) == Put(tree, d, Name(n), e)
Inodes == {fs[x[1]][x[2]].ino : x \in {y \in Dirs \X Names : fs[y[1]][y[2]].kind \in {"file", "dir"}}}
FreshFile == CHOOSE i \in 100..(101 + Cardinality(Inodes)) : i \notin Inodes
\* Dirs bounds how many directories there can be.
UnusedDirs == {i \in Dirs \ {Root, Outside, top} : i \notin Inodes}
FreshDir  == CHOOSE i \in UnusedDirs : TRUE

\* Mutant: a link is followed to where it leads.
OpenFollowing(d, n) ==
  LET e == At(d, n)
  IN  CASE e.kind = "absent" -> "NotFound"
        [] e.kind = "link"   -> "ok"
        [] e.kind = "dir"    -> "ok"
        [] OTHER             -> "Refused"
\* open_dir_nofollow: a link is no directory.
OpenDirectory(d, n) ==
  LET e == At(d, n)
  IN  CASE e.kind = "absent" -> "NotFound"
        [] e.kind = "dir"    -> "ok"
        [] OTHER             -> "Refused"
Handle(d, n) == LET e == At(d, n) IN IF e.kind = "dir" THEN e.ino ELSE Outside

\* open_regular_file_at.
OpenRegular(d, n) ==
  LET e == At(d, n)
  IN  CASE e.kind = "absent" -> "NotFound"
        [] e.kind = "file"   -> "ok"
        [] OTHER             -> "InvalidInput"

\* Mutant: the staged directory stays when the call fails.
StageKept(tree) == tree
\* The end of a failed call: staged leaf and staged directory are dropped.
WithoutStage(tree) == IF base = NoHandle THEN tree ELSE Put(tree, base, Stage, Absent)
FailIn(tree, r) ==
  /\ pc' = "done" /\ res' = r /\ fs' = WithoutStage(tree) /\ dir' = NoHandle /\ rest' = <<>>
  /\ UNCHANGED <<base, top, readVars, linkVars, binVars>> /\ Keep
Fail(r) == FailIn(fs, r)

\* ------------------------------------------------------------------- roots
Leaf == Last(req.dest)
\* normalize_root, for a path that starts at the root directory.
Normalized(p) == \A i \in 1..Len(p) : p[i] \notin {".", ".."}

BeginTree ==
  /\ pc = "start" /\ req.op = "tree"
  /\ \/ ~Normalized(req.dest) /\ Fail("InvalidInput")
     \/ Normalized(req.dest) /\ pc' = "ambient" /\ UNCHANGED <<fs, dir, rest>> /\ Walked

\* BinaryArchiveFormat::from_asset_name; the destination of a binary is the
\* caller's.
Supported == req.format \in {"tar.gz", "tar.xz", "zip"}
BeginBinary ==
  /\ pc = "start" /\ req.op = "binary"
  /\ \/ ~Supported /\ Fail("UnsupportedArchiveType")
     \/ Supported /\ pc' = "scan" /\ UNCHANGED <<fs, dir, rest>> /\ Walked

\* split_ambient_existing_ancestor: the ancestors that are there, through
\* links or not, but for the last name.
AmbientPart(p) ==
  LET there == {k \in 0..Len(p) : /\ k < Len(p) \/ k = 0
                                  /\ \A i \in 1..k : Lstat(fs, SubSeq(p, 1, i)).kind \notin {"absent", "error"}}
  IN  CHOOSE k \in there : \A j \in there : j <= k
OpenAmbientBase ==
  LET p == Front(req.dest)
      k == AmbientPart(p)
      b == Canonicalize(fs, SubSeq(p, 1, k))
  IN  /\ pc = "ambient"
      /\ \/ (b.st # "ok" \/ b.entry.kind # "dir") /\ Fail("Io")
         \/ /\ b.st = "ok" /\ b.entry.kind = "dir"
            /\ pc' = "lockroot" /\ dir' = b.entry.ino /\ rest' = SubSeq(p, k + 1, Len(p))
            /\ UNCHANGED fs /\ Walked

\* One component: opened, or created and opened, or refused.
Component(stay) ==
  LET n == Head(rest)
      o == OpenDirectory(dir, n)
  IN  \/ /\ o = "ok" /\ dir' = Handle(dir, n) /\ rest' = Tail(rest) /\ pc' = stay
         /\ UNCHANGED fs /\ Walked
      \/ /\ o = "NotFound" /\ UnusedDirs # {} /\ dir' = FreshDir /\ rest' = Tail(rest) /\ pc' = stay
         /\ fs' = Set(fs, dir, n, DirEntry(FreshDir)) /\ Walked
      \/ o = "Refused" /\ Fail("Refused")

\* open_ambient_root_with_report(MissingRootPolicy::Create).
OpenLockRoot == pc = "lockroot" /\ rest # <<>> /\ Component("lockroot")

\* lock_advisory_file_in_directory: the file is created, or opened.
OpenLockFile ==
  LET o == OpenRegular(dir, Lock)
  IN  /\ pc = "lockroot" /\ rest = <<>>
      /\ \/ o = "InvalidInput" /\ Fail("Refused")
         \/ /\ o # "InvalidInput" /\ pc' = "ancestors" /\ dir' = Root /\ rest' = Front(req.dest)
            /\ fs' = IF o = "ok" THEN fs ELSE Set(fs, dir, Lock, FileEntry(FreshFile, "lock"))
            /\ Walked

\* validate_existing_ancestors: no ancestor that is there is a link.
AncestorIsLink(p) == \E k \in 1..Len(p) : Lstat(fs, SubSeq(p, 1, k)).kind = "link"
ValidateAncestors ==
  /\ pc = "ancestors"
  /\ \/ AncestorIsLink(rest) /\ Fail("Refused")
     \/ ~AncestorIsLink(rest) /\ pc' = "parent" /\ UNCHANGED <<fs, dir, rest>> /\ Walked

\* open_root_with_report, from the root directory.
OpenParent == pc = "parent" /\ rest # <<>> /\ Component("parent")

\* create_staged_directory_in_root; its name is fresh.
StageDirectory ==
  /\ pc = "parent" /\ rest = <<>> /\ UnusedDirs # {}
  /\ base' = dir /\ top' = FreshDir /\ pc' = "format"
  /\ fs' = Put(fs, dir, Stage, DirEntry(FreshDir))
  /\ UNCHANGED <<dir, rest, readVars, linkVars, binVars, res>> /\ Keep

\* ------------------------------------------------------------- the archive
\* walk_archive_tree: an archive of a kind nobody knows is refused only now.
WalkArchive ==
  /\ pc = "format"
  /\ \/ ~Supported /\ Fail("UnsupportedArchiveType")
     \/ Supported /\ pc' = "read" /\ UNCHANGED <<fs, dir, rest>> /\ Walked

Entry == req.entries[next]
\* sanitize_archive_path.
Sanitized(p) == IF p # <<>> /\ Head(p) = "." THEN Tail(p) ELSE p
Safe(p) == /\ \A i \in 1..Len(p) : p[i] \notin {"/", ".."}
           /\ Sanitized(p) # <<>>
Path(e) == Sanitized(e.path)

\* The visitor's method an entry is for: what is neither a directory nor a link
\* is a regular file to walk_zip_tree, whatever its mode says.
Visited(e) == IF req.format = "zip" /\ e.type = "special" THEN "file" ELSE e.type

\* record_entry.
OverEntries == next > req.limits.entries
\* reserve_bytes; tar does not count links.
Reserved(e) == IF Visited(e) = "file" \/ (e.type = "link" /\ req.format = "zip") THEN e.size ELSE 0

\* Mutant: paths are recorded, never compared.
CollidesNever(p) == FALSE
\* CaseCollisionTracker: a component of the path was seen in another case.
Folded(p) == [i \in 1..Len(p) |-> Key[p[i]]]
Collides(p) == insensitive /\ \E q \in Prefixes(p), f \in firsts : Folded(q) = Folded(f) /\ q # f

\* What walk_tar_tree and walk_zip_tree do up to the visitor's call.
ReadEntry ==
  /\ pc = "read" /\ next <= Len(req.entries)
  /\ \/ Entry.type = "broken" /\ Fail("ArchiveRead")
     \/ Entry.type # "broken" /\ ~Safe(Entry.path) /\ Fail("InvalidArchivePath")
     \/ /\ Entry.type # "broken" /\ Safe(Entry.path)
        /\ \/ OverEntries /\ Fail("EntryBudget")
           \/ ~OverEntries /\ bytes + Reserved(Entry) > req.limits.bytes /\ Fail("ByteBudget")
           \/ /\ ~OverEntries /\ bytes + Reserved(Entry) <= req.limits.bytes
              /\ \/ Visited(Entry) = "special" /\ Fail("UnsupportedArchiveEntry")
                 \/ /\ Entry.type = "link" /\ req.format = "zip" /\ Entry.size > MaxTarget
                    /\ Fail("UnsupportedArchiveEntry")
                 \/ /\ Visited(Entry) # "special"
                    /\ ~(Entry.type = "link" /\ req.format = "zip" /\ Entry.size > MaxTarget)
                    /\ \/ Collides(Path(Entry)) /\ Fail("Collision")
                       \/ /\ ~Collides(Path(Entry))
                          /\ pc' = "chain" /\ dir' = top /\ bytes' = bytes + Reserved(Entry)
                          /\ rest' = IF Entry.type = "dir" THEN Path(Entry) ELSE Front(Path(Entry))
                          /\ firsts' = firsts \cup Prefixes(Path(Entry))
                          /\ UNCHANGED <<fs, openVars, next, linkVars, binVars, res>> /\ Keep

ReadTarEntry == req.format # "zip" /\ ReadEntry
ReadZipEntry == req.format = "zip" /\ ReadEntry

\* ensure_archive_directory_chain(create_missing = true).
OpenChain == pc = "chain" /\ rest # <<>> /\ Component("chain")

\* validate_archive_link_target: how deep the target goes, name by name.
LinkTargetSafe(parent, t) ==
  /\ t = <<>> \/ Head(t) # "/"
  /\ FoldLeft(LAMBDA d, s : IF d < 0 \/ s = "." THEN d ELSE IF s = ".." THEN d - 1 ELSE d + 1,
              Len(parent), t) >= 0

NextEntry == /\ pc' = "read" /\ next' = next + 1
             /\ UNCHANGED <<dir, rest, openVars, bytes, firsts, binVars, res>> /\ Keep

\* The parent is open.  A hard link waits for the end of the archive.
EntryAtParent ==
  LET e == Entry
  IN  /\ pc = "chain" /\ rest = <<>>
      /\ \/ e.type = "dir" /\ NextEntry /\ UNCHANGED <<fs, linkVars>>
         \/ e.type = "hard" /\ ~Safe(e.target) /\ Fail("UnsafeTarget")
         \/ /\ e.type = "hard" /\ Safe(e.target)
            /\ pending' = Append(pending, [path |-> Path(e), target |-> Sanitized(e.target)])
            /\ NextEntry /\ UNCHANGED <<fs, remaining, progressed, source, from, noop>>
         \/ e.type = "link" /\ ~LinkTargetSafe(Front(Path(e)), e.target) /\ Fail("UnsafeTarget")
         \/ /\ Visited(e) = "file" \/ (e.type = "link" /\ LinkTargetSafe(Front(Path(e)), e.target))
            /\ pc' = "leaf" /\ UNCHANGED <<fs, dir, rest>> /\ Walked

\* ensure_replaceable_archive_output_leaf.
Replaceable(d, n) == At(d, n).kind \in {"absent", "file"}

\* The staged leaf is made under a fresh name in the directory it will be in.
StageLeaf ==
  LET n == Last(Path(Entry))
  IN  /\ pc = "leaf"
      /\ \/ ~Replaceable(dir, n) /\ Fail("UnsafeOutput")
         \/ /\ Replaceable(dir, n) /\ Visited(Entry) = "file" /\ Entry.data # "corrupt" /\ pc' = "rename"
            /\ fs' = Put(fs, dir, Temp, FileEntry(FreshFile, Entry.data))
            /\ UNCHANGED <<dir, rest>> /\ Walked
         \/ Replaceable(dir, n) /\ Visited(Entry) = "file" /\ Entry.data = "corrupt" /\ Fail("Copy")
         \/ /\ Replaceable(dir, n) /\ Entry.type = "link" /\ pc' = "rename"
            /\ fs' = Put(fs, dir, Temp, LinkEntry(Entry.target)) /\ UNCHANGED <<dir, rest>> /\ Walked

\* rename(2): nothing happens between two names of one file, and a file does
\* not replace a directory.
SameFile(a, b) == a.kind = "file" /\ b.kind = "file" /\ a.ino = b.ino
\* Mutant: what is there stays.
FirstStays(d, n) == IF At(d, n).kind = "absent" THEN Set(Put(fs, d, Temp, Absent), d, n, fs[d][Temp])
                    ELSE Put(fs, d, Temp, Absent)
Renamed(d, n) == IF SameFile(fs[d][Temp], At(d, n)) THEN fs
                 ELSE Set(Put(fs, d, Temp, Absent), d, n, fs[d][Temp])

\* rename_archive_leaf; PendingArchiveLeaf removes the staged leaf otherwise.
CommitLeaf ==
  LET n == Last(Path(Entry))
  IN  /\ pc = "rename"
      /\ \/ At(dir, n).kind = "dir" /\ FailIn(Put(fs, dir, Temp, Absent), "Rename")
         \/ /\ At(dir, n).kind # "dir" /\ fs' = Renamed(dir, n)
            /\ NextEntry /\ UNCHANGED linkVars

EndOfArchive ==
  /\ pc = "read" /\ next > Len(req.entries) /\ pc' = "links"
  /\ UNCHANGED <<fs, dir, rest>> /\ Walked

\* -------------------------------------------------------------- hard links
\* Mutant: another round is begun whether or not the last one made a link.
RoundAlways == TRUE
\* resolve_pending_tar_hard_links: a round that made none is the last.
Progress == progressed

NextRound ==
  /\ pc = "links" /\ pending = <<>> /\ remaining # <<>>
  /\ \/ ~Progress /\ Fail("MissingTarget")
     \/ /\ Progress /\ pending' = remaining /\ remaining' = <<>> /\ progressed' = FALSE
        /\ UNCHANGED <<fs, pc, dir, rest, openVars, readVars, source, from, noop, binVars, res>> /\ Keep

\* ensure_exact_case_match.
OtherCase(p) == insensitive /\ \E f \in firsts : Folded(f) = Folded(p) /\ f # p

\* try_create_tar_hard_link: the parents of the name and of its target are
\* opened from the staged directory (create_missing = false).
BeginLink ==
  /\ pc = "links" /\ pending # <<>>
  /\ \/ OtherCase(Head(pending).target) /\ Fail("Collision")
     \/ /\ ~OtherCase(Head(pending).target)
        /\ pc' = "output" /\ dir' = top /\ rest' = Front(Head(pending).path)
        /\ UNCHANGED fs /\ Walked

OpenOutputParent ==
  LET o == OpenDirectory(dir, Head(rest))
  IN  /\ pc = "output"
      /\ \/ rest # <<>> /\ o # "ok" /\ Fail(o)
         \/ /\ rest # <<>> /\ o = "ok" /\ dir' = Handle(dir, Head(rest)) /\ rest' = Tail(rest)
            /\ UNCHANGED <<fs, pc>> /\ Walked
         \/ /\ rest = <<>> /\ pc' = "origin" /\ from' = top /\ rest' = Front(Head(pending).target)
            /\ UNCHANGED <<fs, dir, openVars, readVars, pending, remaining, progressed, source, noop, binVars, res>>
            /\ Keep

Postpone == /\ pc' = "links" /\ remaining' = Append(remaining, Head(pending)) /\ pending' = Tail(pending)
            /\ UNCHANGED <<fs, dir, rest, openVars, readVars, progressed, source, from, noop, binVars, res>> /\ Keep

OpenTargetParent ==
  LET o == OpenDirectory(from, Head(rest))
  IN  /\ pc = "origin" /\ rest # <<>>
      /\ \/ o = "NotFound" /\ Postpone
         \/ o = "Refused" /\ Fail("Refused")
         \/ /\ o = "ok" /\ from' = Handle(from, Head(rest)) /\ rest' = Tail(rest)
            /\ UNCHANGED <<fs, pc, dir, openVars, readVars, pending, remaining, progressed, source, noop, binVars, res>>
            /\ Keep

\* The target is opened, which tells who it is.
OpenTarget ==
  LET n == Last(Head(pending).target)
      o == OpenRegular(from, n)
  IN  /\ pc = "origin" /\ rest = <<>>
      /\ \/ o = "NotFound" /\ Postpone
         \/ o = "InvalidInput" /\ Fail("UnsafeTarget")
         \/ /\ o = "ok" /\ pc' = "target" /\ source' = At(from, n)
            /\ UNCHANGED <<fs, dir, rest, openVars, readVars, pending, remaining, progressed, from, noop, binVars, res>>
            /\ Keep

\* linkat makes a second name of whatever the target's name is by then.
StageLink ==
  LET h == Head(pending)
      e == At(from, Last(h.target))
  IN  /\ pc = "target"
      /\ \/ ~Replaceable(dir, Last(h.path)) /\ Fail("UnsafeOutput")
         \/ Replaceable(dir, Last(h.path)) /\ e.kind \in {"absent", "dir"} /\ Fail("Stage")
         \/ /\ Replaceable(dir, Last(h.path)) /\ e.kind \in {"file", "link"}
            /\ pc' = "staged" /\ fs' = Put(fs, dir, Temp, e) /\ UNCHANGED <<dir, rest>> /\ Walked

\* validate_staged_hard_link_matches_source.
LinkedSource(d) == SameFile(fs[d][Temp], source)
CheckLink ==
  /\ pc = "staged"
  /\ \/ ~LinkedSource(dir) /\ FailIn(Put(fs, dir, Temp, Absent), "UnsafeTarget")
     \/ LinkedSource(dir) /\ pc' = "commitlink" /\ UNCHANGED <<fs, dir, rest>> /\ Walked

CommitLink ==
  LET n == Last(Head(pending).path)
  IN  /\ pc = "commitlink"
      /\ \/ At(dir, n).kind = "dir" /\ FailIn(Put(fs, dir, Temp, Absent), "Rename")
         \/ /\ At(dir, n).kind # "dir" /\ fs' = Renamed(dir, n)
            /\ noop' = (noop \/ SameFile(fs[dir][Temp], At(dir, n)))
            /\ pc' = "links" /\ pending' = Tail(pending) /\ progressed' = TRUE
            /\ UNCHANGED <<dir, rest, openVars, readVars, remaining, source, from, binVars, res>> /\ Keep

\* The staged directory takes the destination's place (AtomicDirectory).
CommitTree ==
  LET d == fs[base][Name(Leaf)]
  IN  /\ pc = "links" /\ pending = <<>> /\ remaining = <<>>
      /\ \/ d.kind \in {"absent", "dir"} /\ pc' = "done" /\ res' = "ok" /\ dir' = NoHandle
            /\ fs' = Set(Put(fs, base, Stage, Absent), base, Leaf, DirEntry(top))
            /\ UNCHANGED <<rest, openVars, readVars, linkVars, binVars>> /\ Keep
         \/ d.kind \notin {"absent", "dir"} /\ Fail("Commit")

\* ------------------------------------------------------------------ binary
\* is_binary_entry_match_without_hint, and the exact path of a hint.
Binary == <<"bin", "tool">>
Wanted(e) == IF req.hint # <<>> THEN e.path = req.hint
             ELSE /\ Len(e.path) >= 2 /\ SubSeq(e.path, Len(e.path) - 1, Len(e.path)) = Binary
EntriesLeft == next <= Len(req.entries)
Found(e) == [path |-> e.path, data |-> e.data]

\* copy_entry_with_limit: what is read before the limit has been written.
TooLarge(e) == e.size > req.limits.bytes

\* Mutant: a second match is as good as the first.
SecondTaken == FALSE
\* record_buffered_match.
Ambiguous == match # NoMatch

\* The writer's error is the call's, and what it has by then stays there.
WriterFails(e, r) ==
  /\ pc' = "done" /\ res' = r /\ match' = NoMatch /\ written' = e
  /\ UNCHANGED <<fs, dir, rest, openVars, readVars, linkVars>> /\ Keep

\* One turn of the loop every extract function has.
ScanEntry ==
  LET e == Entry
  IN  /\ pc = "scan" /\ EntriesLeft
      /\ \/ e.type = "broken" /\ Fail("ArchiveRead")
         \/ e.type # "broken" /\ OverEntries /\ Fail("EntryBudget")
         \/ /\ e.type # "broken" /\ ~OverEntries /\ ~Wanted(e) /\ next' = next + 1
            /\ UNCHANGED <<fs, pc, dir, rest, openVars, bytes, firsts, linkVars, binVars, res>> /\ Keep
         \/ e.type # "broken" /\ ~OverEntries /\ Wanted(e) /\ e.type # "file" /\ Fail("NotRegularFile")
         \/ /\ Wanted(e) /\ ~OverEntries /\ e.type = "file"
            /\ LET direct == req.hint # <<>> /\ ~req.buffered
                   part   == IF direct THEN {"part"} ELSE {}
               IN  \/ (TooLarge(e) \/ e.data = "corrupt") /\ WriterFails(part, "Copy")
                   \/ direct /\ WriterFails(part, "Write")
         \/ /\ Wanted(e) /\ ~OverEntries /\ e.type = "file" /\ ~TooLarge(e) /\ e.data # "corrupt"
            /\ \/ /\ req.hint # <<>> /\ pc' = "done" /\ res' = "ok" /\ match' = Found(e)
                  /\ written' = IF req.buffered THEN {} ELSE {e.data}
                  /\ UNCHANGED <<fs, dir, rest, openVars, readVars, linkVars>> /\ Keep
               \/ req.hint = <<>> /\ Ambiguous /\ Fail("Ambiguous")
               \/ /\ req.hint = <<>> /\ ~Ambiguous /\ match' = Found(e) /\ next' = next + 1
                  /\ UNCHANGED <<fs, pc, dir, rest, openVars, bytes, firsts, linkVars, written, res>> /\ Keep

Scan(format, buffered) == req.format = format /\ req.buffered = buffered /\ ScanEntry
ExtractFromTarGz         == Scan("tar.gz", TRUE)
ExtractFromTarGzToWriter == Scan("tar.gz", FALSE)
ExtractFromTarXz         == Scan("tar.xz", TRUE)
ExtractFromTarXzToWriter == Scan("tar.xz", FALSE)
ExtractFromZip           == Scan("zip", TRUE)
ExtractFromZipToWriter   == Scan("zip", FALSE)

\* finish_buffered_match.
FinishMatch ==
  /\ pc = "scan" /\ ~EntriesLeft
  /\ \/ match = NoMatch /\ Fail("BinaryNotFound")
     \/ /\ match # NoMatch /\ req.buffered /\ pc' = "done" /\ res' = "ok"
        /\ UNCHANGED <<fs, dir, rest, openVars, readVars, linkVars, binVars>> /\ Keep

\* write_buffered_match.
WriteMatch ==
  /\ pc = "scan" /\ ~EntriesLeft /\ match # NoMatch /\ ~req.buffered
  /\ \/ /\ pc' = "done" /\ res' = "ok" /\ written' = {match.data}
        /\ UNCHANGED <<fs, dir, rest, openVars, readVars, linkVars, match>> /\ Keep
     \/ WriterFails({"part"}, "Write")

\* ----------------------------------------------------------- other programs
Exchange(d, n, m) ==
  /\ foreign < MaxForeign /\ pc # "done" /\ req.op = "tree" /\ fs[d][n] # fs[d][m]
  /\ fs' = [fs EXCEPT ![d][n] = fs[d][m], ![d][m] = fs[d][n]] /\ foreign' = foreign + 1
  /\ UNCHANGED <<insensitive, pc, req, dir, rest, openVars, readVars, linkVars, binVars, res>>

Call == \/ BeginTree \/ OpenAmbientBase \/ OpenLockRoot \/ OpenLockFile \/ ValidateAncestors \/ OpenParent
        \/ StageDirectory \/ WalkArchive \/ ReadTarEntry \/ ReadZipEntry \/ OpenChain \/ EntryAtParent
        \/ StageLeaf \/ CommitLeaf \/ EndOfArchive
        \/ NextRound \/ BeginLink \/ OpenOutputParent \/ OpenTargetParent \/ OpenTarget
        \/ StageLink \/ CheckLink \/ CommitLink \/ CommitTree
        \/ BeginBinary \/ ExtractFromTarGz \/ ExtractFromTarGzToWriter \/ ExtractFromTarXz \/ ExtractFromTarXzToWriter
        \/ ExtractFromZip \/ ExtractFromZipToWriter \/ FinishMatch \/ WriteMatch
Terminated == pc = "done" /\ UNCHANGED archiveVars
ArchiveNext == Call \/ (\E s \in ForeignSlots : Exchange(s[1], s[2], s[3])) \/ Terminated

\* The thread that extracts is scheduled; a step is always possible until it
\* is done, which TLC's search for deadlocks shows.
ArchiveFairness == []<>(pc = "done") \/ []<><<Call>>_archiveVars
ArchiveSpec == ArchiveInit /\ [][ArchiveNext]_archiveVars /\ ArchiveFairness

\* --------------------------------------------------------------- properties
Done(op) == pc = "done" /\ res = "ok" /\ req.op = op

\* Paths of the archive: those it has entries for and the targets of hard links.
All == 1..Len(req.entries)
Typed(types)  == {i \in All : Visited(req.entries[i]) \in types}
PathOf(i)     == Path(req.entries[i])
TargetOf(i)   == Sanitized(req.entries[i].target)
LeafPaths     == {PathOf(i) : i \in Typed({"file", "link", "hard"})}
ArchivePaths  == LeafPaths \cup {TargetOf(i) : i \in Typed({"hard"})}
OutputPaths   == UNION {Prefixes(PathOf(i)) : i \in All}

\* Two paths are one on the disk; the tracker knows them for one.
SameOnDisk(p, q) == [i \in DOMAIN p |-> Fold[p[i]]] = [i \in DOMAIN q |-> Fold[q[i]]]
Overlooked == insensitive /\ \E p, q \in OutputPaths \cup ArchivePaths : SameOnDisk(p, q) /\ Folded(p) # Folded(q)

\* What the archive says, path by path: the entry each path holds in the end.
\* Files and links come as they stand, and a later one replaces an earlier one.
\* Hard links come last: each makes its name one more of its target's file, or
\* waits for another round.  0 is no entry.
InOrder(types) == SetToSortSeq(Typed(types), <)
Leaves == FoldLeft(LAMBDA at, i : [at EXCEPT ![PathOf(i)] = i], [p \in ArchivePaths |-> 0], InOrder({"file", "link"}))
LinkOne(s, i) == IF s.at[TargetOf(i)] = 0 THEN [s EXCEPT !.left = Append(@, i)]
                 ELSE [s EXCEPT !.at[PathOf(i)] = s.at[TargetOf(i)]]
LinkRound(s, i) == FoldLeft(LinkOne, [at |-> s.at, left |-> <<>>], s.left)
FinalEntry == FoldLeft(LinkRound, [at |-> Leaves, left |-> InOrder({"hard"})], InOrder({"hard"})).at

\* No path has two entries: then the order of the entries says nothing.
Unordered == \A i, j \in Typed({"file", "link", "hard"}) : PathOf(i) = PathOf(j) => i = j

Chain(p) ==
  FoldLeft(LAMBDA r, n : IF r.st # "ok" THEN r
                         ELSE [st |-> OpenDirectory(r.dir, n), dir |-> Handle(r.dir, n)],
           [st |-> "ok", dir |-> top], p)
There(p) == At(Chain(Front(p)).dir, Last(p))
Content(e) == IF e.kind = "file" THEN <<"file", e.data>> ELSE <<"link", e.to>>
Said(e)    == IF Visited(e) = "file" THEN <<"file", e.data>> ELSE <<"link", e.target>>

\* An installed tree is the archive's, in the archive's own case: its
\* directories are there, every path holds the content of the entry it is to
\* hold, and two paths are names of one file exactly when one entry is behind
\* both.  A hard link made at the end replaces whatever an entry, an earlier
\* or a later one, put at its name; where no path has two entries it is one
\* file with its target wherever the two stand.  Paths are exempt that the
\* disk takes for one and the tracker for two: see NoCaseCollapse.
\* (resolve_pending_tar_hard_links, CaseCollisionTracker.)
ExtractedTree ==
  Done("tree") /\ foreign = 0 /\ ~Overlooked =>
    /\ \A i \in Typed({"dir"}) : Chain(PathOf(i)).st = "ok"
    /\ \A p \in LeafPaths : Chain(Front(p)).st = "ok" /\ Content(There(p)) = Said(req.entries[FinalEntry[p]])
    /\ \A p, q \in LeafPaths : There(p).kind = "file" =>
         (SameFile(There(p), There(q)) <=> FinalEntry[p] = FinalEntry[q])
    /\ Unordered => \A i \in Typed({"hard"}) : SameFile(There(PathOf(i)), There(TargetOf(i)))

\* What the README of the crate says: path sets that only differ by case are
\* rejected when the file system is case-insensitive.  No installed tree has
\* two of the archive's paths in one place.  The code does not have this
\* property (README, observed divergences): no run checks it.
NoCaseCollapse ==
  Done("tree") /\ insensitive => \A p, q \in OutputPaths : SameOnDisk(p, q) => p = q

\* Staged things do not outlive the call: neither the staged directory nor a
\* staged leaf, unless a hard link's name was a name of the file already.
NothingStaged ==
  pc = "done" /\ base # NoHandle =>
    /\ fs[base][Stage] = Absent
    /\ res = "ok" /\ ~noop => \A d \in Dirs : fs[d][Temp] = Absent

\* Whatever links the archive holds or another program puts in the way: no
\* tree is staged behind a link, nothing is extracted there, and no file from
\* there becomes part of a tree.  Only the lock file and directories for it
\* may be made behind an ancestor that is a link.
Behind == BehindIn(fs)
Confined == base \notin Behind /\ top \notin Behind /\ KeptOutside(fs) /\ HiddenStays(fs)

\* A binary is the only one the archive has of its name, or the first of
\* the exact path asked for; a search without a hint that fails, unless the
\* writer does, has written nothing.
BinaryUnique ==
  req.op = "binary" /\ pc = "done" =>
    LET found == {i \in All : Wanted(req.entries[i])}
    IN  /\ res = "ok" => LET i == CHOOSE k \in found : \A j \in found : k <= j
                         IN  /\ match = Found(req.entries[i]) /\ req.entries[i].type = "file"
                             /\ written \subseteq {req.entries[i].data}
                             /\ req.hint = <<>> => found = {i}
        /\ res \notin {"ok", "Write"} /\ req.hint = <<>> => written = {}

\* The call ends, also when hard links wait for one another.
ExtractionEnds == <>(pc = "done")

\* An installation keeps to its own: nothing of it is made, or stays, where
\* it has no business.  (stage_directory_atomically, open_directory_component,
\* PendingArchiveLeaf::drop.)
KeepsToItself == Confined /\ NothingStaged
=============================================================================
