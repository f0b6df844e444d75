------------------------------- MODULE FsWalk -------------------------------
(***************************************************************************)
(* The reading walks of omne-fs (src/crates/omne-fs/src/ops): glob, grep,  *)
(* list_dir and stat, one call beside programs that change the tree.  glob *)
(* and grep walk with the walkdir crate from the literal prefix of their   *)
(* pattern, leave out what deny and skip globs match and stop at the       *)
(* policy's limits; list_dir keeps the smallest names of a directory, and  *)
(* it and stat look at an identity again and again.  A stage between two   *)
(* looks at the file system is an action.                                  *)
(***************************************************************************)
EXTENDS FsShape, FiniteSetsExt

CONSTANTS Requests,         \* [op, path | pattern, regex]
          WalkPermissions,  \* operations the policy enables
          Skipped,          \* root-relative paths traversal.skip_globs match
          Probe,            \* TRAVERSAL_GLOB_PROBE_NAME
          Position,         \* [Names -> Nat], the order of names
          LinesOf,          \* [contents -> the sequence of the lines' classes]
          MaxRead,          \* limits.max_read_bytes, in lines
          LimitSets,        \* [entries, files, results, bytes, timed, stable]
          Disks,            \* the trees at the start
          CreatorSlots,     \* where other programs create and remove files
          Created,          \* the identity of a file they create
          ExchangedNames,   \* entries of the root they exchange
          MaxChanges        \* how often they remove or exchange

Wild == {"*", "**"}
WalkRequest ==
  [op : {"glob", "grep"}, path : {<<>>}, pattern : Seq(Names \cup Wild), regex : BOOLEAN]
    \cup [op : {"list", "stat"}, path : Segments, pattern : {<<>>}, regex : BOOLEAN]

ASSUME WalkAssumption ==
  /\ MaxChanges \in Nat /\ MaxRead \in Nat
  /\ Requests \subseteq WalkRequest /\ Disks \subseteq Tree
  /\ Created \in Inos /\ "hits" \in Contents
  /\ CreatorSlots \subseteq Dirs \X Names /\ ExchangedNames \subseteq Names

VARIABLES disk, pc, req, lim,
          root, dirId,             \* where the walk starts; list_dir's or stat's identity
          stack, cur,              \* open directories; the entry in work
          diag,                    \* TraversalDiagnostics and skip counters
          matches, bytes,          \* the response so far and its estimated size
          todo, seen,              \* list_dir: retained names, visible entries seen
          meta,                    \* stat: the metadata to answer with
          outcome, truncated,
          changes, touched, moved  \* changes by others: number, any, of a directory or a link to one
searchVars == <<stack, cur, diag>>
listVars   == <<dirId, todo, seen, meta>>
envVars    == <<changes, touched, moved>>
walkVars   == <<disk, pc, req, lim, root, searchVars, matches, bytes, listVars, outcome, truncated, envVars>>

NoEntry == [path |-> <<>>, link |-> FALSE, at |-> <<>>]
Clean == [entries |-> 0, files |-> 0, reason |-> "none", walkErr |-> 0, ioErr |-> 0,
          dangling |-> 0, tooLarge |-> 0, nonUtf8 |-> 0]

WalkInit ==
  /\ disk \in Disks /\ req \in Requests /\ lim \in LimitSets
  /\ pc = "start" /\ root = <<>> /\ dirId = NoDir /\ stack = <<>> /\ cur = NoEntry
  /\ diag = Clean /\ matches = <<>> /\ bytes = 0 /\ todo = <<>> /\ seen = 0 /\ meta = Absent
  /\ outcome = "none" /\ truncated = FALSE /\ changes = 0 /\ touched = FALSE /\ moved = FALSE

Keep == UNCHANGED <<disk, req, lim, envVars>>
Fail(r) == /\ pc' = "done" /\ outcome' = r /\ matches' = <<>> /\ Keep
           /\ UNCHANGED <<root, searchVars, bytes, listVars, truncated>>

\* ---------------------------------------------------------------- patterns
\* globset_is_match with literal separators: "*" is one name, "**" any number.
Matches(pattern, path) ==
  LET matched[i \in 0..Len(pattern), j \in 0..Len(path)] ==
        IF i = 0 THEN j = 0
        ELSE IF pattern[i] = "**" THEN \E k \in 0..j : matched[i - 1, k]
        ELSE j > 0 /\ pattern[i] \in {"*", path[j]} /\ matched[i - 1, j - 1]
  IN  matched[Len(pattern), Len(path)]

\* collect_literal_traversal_prefix: the names before the first wildcard.
LiteralPrefix(pattern) ==
  LET wild == {i \in 1..Len(pattern) : pattern[i] \in Wild}
  IN  IF wild = {} THEN pattern ELSE SubSeq(pattern, 1, Min(wild) - 1)

\* is_entry_denied_or_skipped: a directory is left out when a rule matches it
\* or would match whatever is in it.
Filtered(p, isDir) ==
  \E q \in {p} \cup (IF isDir THEN {Append(p, Probe)} ELSE {}) : IsPathDenied(q) \/ q \in Skipped

\* canonical_path_in_root, with its lexical checks.
InRootNow(p) == LET lex == ResolveLexically(p)
                IN  IF lex.st # "ok" THEN lex ELSE CanonicalPathInRoot(disk, lex.path)

\* ------------------------------------------------------------ glob and grep
Search == req.op \in {"glob", "grep"}
\* A file filter of grep makes it open files late, as glob never does.
ReadMode == req.op = "grep" /\ req.pattern = <<>>

\* Sorting is by path and line, if the walk has not put them in order already.
PathLess(p, q) ==
  \E k \in 0..Len(p) :
    /\ k < Len(q) /\ SubSeq(p, 1, k) = SubSeq(q, 1, k)
    /\ k = Len(p) \/ Position[p[k + 1]] < Position[q[k + 1]]
MatchLess(a, b) == PathLess(a.path, b.path) \/ (a.path = b.path /\ a.line < b.line)
\* maybe_sort_glob_matches, maybe_sort_grep_matches
InMatchOrder(ms) == IF lim.stable THEN SortSeq(ms, MatchLess) ELSE ms
Respond(d, ms) ==
  /\ pc' = "done" /\ outcome' = "ok" /\ diag' = d /\ truncated' = (d.reason # "none") /\ Keep
  /\ matches' = InMatchOrder(ms)
  /\ stack' = <<>> /\ UNCHANGED <<root, cur, bytes, listVars>>
Limit(why) == Respond([diag EXCEPT !.reason = why], matches)

BeginSearch ==
  LET prefix == LiteralPrefix(req.pattern)
  IN  /\ pc = "start" /\ Search
      /\ \/ req.op \notin WalkPermissions /\ Fail("NotPermitted")
         \/ /\ req.op \in WalkPermissions /\ prefix # <<>>
            /\ Filtered(prefix, Lstat(disk, prefix).kind = "dir") /\ Respond(diag, <<>>)
         \/ /\ req.op \in WalkPermissions
            /\ prefix = <<>> \/ ~Filtered(prefix, Lstat(disk, prefix).kind = "dir")
            /\ pc' = "resolve" /\ root' = prefix
            /\ UNCHANGED <<searchVars, matches, bytes, listVars, outcome, truncated>> /\ Keep

\* resolve_walk_root_for_traversal: a file or link is walked under the name
\* of the request, which the pattern is compared with.
ResolveWalkRoot ==
  LET c == InRootNow(root)
      alias == Lstat(disk, root).kind \in {"file", "link"}
  IN  /\ pc = "resolve"
      /\ \/ root # <<>> /\ c.st \in {"OutsideRoot", "Denied"} /\ Fail("InvalidPath")
         \/ root # <<>> /\ c.st = "Io" /\ Fail("Io")
         \/ /\ root = <<>> \/ c.st \in {"ok", "NotFound"}
            /\ pc' = "open" /\ root' = IF root # <<>> /\ c.st = "ok" /\ ~alias THEN c.path ELSE root
            /\ UNCHANGED <<searchVars, matches, bytes, listVars, outcome, truncated>> /\ Keep

\* A directory walkdir has opened; one that could not be opened yields an error.
Frame(p) == LET l == ReadDir(disk, p) IN [path |-> p, todo |-> l.entries, failed |-> l.st # "ok"]

\* The clock is looked at for every entry the walk yields.
Expired == lim.timed /\ Limit("Time")

\* The first entry of the walk is its root.
OpenWalkRoot ==
  LET e == Lstat(disk, root)
      f == Frame(root)
  IN  /\ pc = "open"
      /\ \/ e.kind = "absent" /\ root # <<>> /\ Respond(diag, matches)
         \/ e.kind = "error" /\ Fail("Io")
         \/ e.kind = "dir" /\ f.failed /\ Fail("Io")
         \/ e.kind \notin {"absent", "error"} /\ Expired
         \/ /\ e.kind = "dir" /\ ~f.failed
            /\ pc' = "walk" /\ stack' = <<f>>
            /\ UNCHANGED <<root, cur, diag, matches, bytes, listVars, outcome, truncated>> /\ Keep
         \/ e.kind \in {"file", "link"} /\ lim.files = 0 /\ Limit("Files")
         \/ /\ e.kind \in {"file", "link"} /\ lim.files # 0
            /\ pc' = "entry" /\ cur' = [path |-> root, link |-> e.kind = "link", at |-> root]
            /\ diag' = [diag EXCEPT !.files = 1]
            /\ UNCHANGED <<root, stack, matches, bytes, listVars, outcome, truncated>> /\ Keep

Top == Last(stack)
\* consume_walk_entry.
EntriesSpent(d) == d.entries >= lim.entries

\* walkdir sorts a directory's entries by name when asked to.
InOrder(e) == ~lim.stable \/ \A x \in Top.todo : Position[e.name] <= Position[x.name]

\* An entry of the walk: filtered, counted, and entered or looked at.
NextEntry(e) ==
  LET p    == Append(Top.path, e.name)
      rest == Append(Front(stack), [Top EXCEPT !.todo = @ \ {e}])
      d    == [diag EXCEPT !.entries = @ + 1]
  IN  /\ pc = "walk" /\ stack # <<>> /\ ~Top.failed /\ e \in Top.todo /\ InOrder(e)
      /\ \/ /\ Filtered(p, e.kind = "dir") /\ stack' = rest
            /\ UNCHANGED <<pc, root, cur, diag, matches, bytes, listVars, outcome, truncated>> /\ Keep
         \/ ~Filtered(p, e.kind = "dir") /\ Expired
         \/ ~Filtered(p, e.kind = "dir") /\ EntriesSpent(diag) /\ Limit("Entries")
         \/ /\ ~Filtered(p, e.kind = "dir") /\ ~EntriesSpent(diag) /\ e.kind = "dir"
            /\ stack' = Append(rest, Frame(p)) /\ diag' = d
            /\ UNCHANGED <<pc, root, cur, matches, bytes, listVars, outcome, truncated>> /\ Keep
         \/ /\ ~Filtered(p, e.kind = "dir") /\ ~EntriesSpent(diag) /\ e.kind # "dir"
            /\ diag.files >= lim.files /\ Respond([d EXCEPT !.reason = "Files"], matches)
         \/ /\ ~Filtered(p, e.kind = "dir") /\ ~EntriesSpent(diag) /\ e.kind # "dir"
            /\ diag.files < lim.files
            /\ pc' = "entry" /\ stack' = rest /\ diag' = [d EXCEPT !.files = @ + 1]
            /\ cur' = [path |-> p, link |-> e.kind = "link", at |-> p]
            /\ UNCHANGED <<root, matches, bytes, listVars, outcome, truncated>> /\ Keep

\* A directory that could not be opened counts as an entry of its own.
FailedDirectory ==
  /\ pc = "walk" /\ stack # <<>> /\ Top.failed
  /\ \/ Expired
     \/ EntriesSpent(diag) /\ Limit("Entries")
     \/ /\ ~EntriesSpent(diag) /\ stack' = Front(stack)
        /\ diag' = [diag EXCEPT !.entries = @ + 1, !.walkErr = @ + 1]
        /\ UNCHANGED <<pc, root, cur, matches, bytes, listVars, outcome, truncated>> /\ Keep

LeaveDirectory ==
  /\ pc = "walk"
  /\ \/ stack = <<>> /\ Respond(diag, matches)
     \/ /\ stack # <<>> /\ ~Top.failed /\ Top.todo = {} /\ stack' = Front(stack)
        /\ UNCHANGED <<pc, root, cur, diag, matches, bytes, listVars, outcome, truncated>> /\ Keep

Walk(d) == /\ pc' = "walk" /\ diag' = d
           /\ UNCHANGED <<root, stack, cur, listVars, outcome, truncated>> /\ Keep
Skip(counter) == Walk([diag EXCEPT ![counter] = @ + 1]) /\ UNCHANGED <<matches, bytes>>

\* glob's on_file: paths are as long as they have names.
AddPath(p) ==
  LET b == bytes + Len(p)
  IN  \/ ~Matches(req.pattern, p) /\ Walk(diag) /\ UNCHANGED <<matches, bytes>>
      \/ Matches(req.pattern, p) /\ Len(matches) >= lim.results /\ Limit("Results")
      \/ Matches(req.pattern, p) /\ Len(matches) < lim.results /\ b > lim.bytes /\ Limit("ResponseBytes")
      \/ /\ Matches(req.pattern, p) /\ Len(matches) < lim.results /\ b <= lim.bytes
         /\ matches' = Append(matches, [path |-> p, line |-> 0]) /\ bytes' = b /\ Walk(diag)

\* resolve_entry_traversal_file: links, and files grep reads at once, are
\* resolved again; other entries are taken as walkdir found them.
ResolveEntry ==
  LET c == InRootNow(cur.path)
  IN  /\ pc = "entry"
      /\ \/ ~ReadMode /\ ~cur.link /\ req.op = "glob" /\ AddPath(cur.path)
         \/ ~ReadMode /\ ~cur.link /\ req.op = "grep" /\ pc' = "file" /\ cur' = cur
            /\ UNCHANGED <<root, stack, diag, matches, bytes, listVars, outcome, truncated>> /\ Keep
         \/ /\ ReadMode \/ cur.link
            /\ \/ c.st = "NotFound" /\ Skip(IF cur.link THEN "dangling" ELSE "ioErr")
               \/ c.st = "Io" /\ Skip("ioErr")
               \/ c.st \in {"OutsideRoot", "Denied"} /\ Skip("walkErr")
               \/ c.st = "ok" /\ req.op = "glob" /\ AddPath(cur.path)
               \/ c.st = "ok" /\ req.op = "grep" /\ pc' = "file" /\ cur' = [cur EXCEPT !.at = c.path]
                  /\ UNCHANGED <<root, stack, diag, matches, bytes, listVars, outcome, truncated>> /\ Keep

\* grep's loop over the lines of a file.  Lines are misses or hits; a line
\* may be "bad" (no UTF-8) or, for a regex, "long" (over the line cap).
Lines(entry) == LinesOf[entry.data]
NoMatch == {"miss"}
\* Mutant: the matches before the line that drops the file are kept.
GrepLineKept(s, i, line) ==
  LET m == Append(s.matches, [path |-> cur.path, line |-> i])
      b == s.bytes + Len(cur.path)
      stop(why) == [s EXCEPT !.end = why]
  IN  IF s.end # "more" THEN s
      ELSE IF line = "long" /\ req.regex THEN stop("tooLarge")
      ELSE IF line = "bad" THEN stop("nonUtf8")
      ELSE IF line \in NoMatch THEN s
      ELSE IF Len(s.matches) >= lim.results THEN stop("Results")
      ELSE IF b + 1 > lim.bytes THEN stop("ResponseBytes")
      ELSE [s EXCEPT !.matches = m, !.bytes = b + 1]
GrepLine(s, i, line) ==
  LET m == Append(s.matches, [path |-> cur.path, line |-> i])
      b == s.bytes + Len(cur.path)
      drop(why) == [s EXCEPT !.matches = matches, !.end = why]
      stop(why) == [s EXCEPT !.end = why]
  IN  IF s.end # "more" THEN s
      ELSE IF line = "long" /\ req.regex THEN drop("tooLarge")
      ELSE IF line = "bad" THEN drop("nonUtf8")
      ELSE IF line \in NoMatch THEN s
      ELSE IF Len(s.matches) >= lim.results THEN stop("Results")
      ELSE IF b + 1 > lim.bytes THEN stop("ResponseBytes")
      ELSE [s EXCEPT !.matches = m, !.bytes = b + 1]
GrepLines(lines, n) ==
  FoldLeft(LAMBDA s, i : GrepLine(s, i, lines[i]),
           [matches |-> matches, bytes |-> bytes, end |-> "more"], [i \in 1..n |-> i])

\* Mutant: links are followed by open.
OpenFollowing(p) == LET c == Canonicalize(disk, p)
                    IN  IF c.st = "ok" THEN c.entry ELSE IF c.st = "NotFound" THEN Absent ELSE Other
\* open_regular_file_for_read: the last name is not followed.
OpenedFile(p) == Lstat(disk, p)

ReadFile ==
  LET e     == OpenedFile(cur.at)
      lines == Lines(e)
      all   == GrepLines(lines, Len(lines))
      unopened == e.kind # "file"
  IN  /\ pc = "file"
      /\ \/ ~ReadMode /\ ~Matches(req.pattern, cur.path) /\ Walk(diag) /\ UNCHANGED <<matches, bytes>>
         \/ /\ ReadMode \/ Matches(req.pattern, cur.path)
            /\ \/ unopened /\ Skip(IF ReadMode /\ cur.link /\ e.kind = "absent" THEN "dangling" ELSE "ioErr")
               \/ ~unopened /\ Len(lines) > MaxRead /\ Skip("tooLarge")
               \/ /\ ~unopened /\ Len(lines) <= MaxRead
                  /\ \/ /\ all.end = "more" /\ matches' = all.matches /\ bytes' = all.bytes /\ Walk(diag)
                     \/ /\ all.end \in {"tooLarge", "nonUtf8"} /\ matches' = all.matches
                        /\ bytes' = all.bytes /\ Walk([diag EXCEPT ![all.end] = @ + 1])
                     \/ /\ all.end \in {"Results", "ResponseBytes"}
                        /\ Respond([diag EXCEPT !.reason = all.end], all.matches)
                     \/ /\ lim.timed
                        /\ \E n \in 0..Len(lines) :
                             /\ GrepLines(lines, n).end = "more"
                             /\ Respond([diag EXCEPT !.reason = "Time"], GrepLines(lines, n).matches)

\* ---------------------------------------------------------------- list_dir
ListVerified == SameDirectory(disk, root, dirId)
ToStage(s) == pc' = s /\ UNCHANGED <<searchVars, bytes, outcome, truncated>> /\ Keep

BeginList ==
  LET c == InRootNow(req.path)
  IN  /\ pc = "start" /\ req.op = "list"
      /\ \/ "list" \notin WalkPermissions /\ Fail("NotPermitted")
         \/ "list" \in WalkPermissions /\ c.st # "ok" /\ Fail(c.st)
         \/ "list" \in WalkPermissions /\ c.st = "ok" /\ root' = c.path /\ ToStage("capture")
            /\ UNCHANGED <<matches, listVars>>
CaptureDirectory ==
  /\ pc = "capture"
  /\ \/ DirectoryAt(disk, root) = NoDir /\ Fail("InvalidPath")
     \/ /\ DirectoryAt(disk, root) # NoDir /\ dirId' = DirectoryAt(disk, root)
        /\ ToStage("read") /\ UNCHANGED <<root, matches, todo, seen, meta>>

\* read_dir; the scan that follows looks at what was in the directory then:
\* at as many entries as the limit allows, in any order, keeping the smallest.
VisibleNames(entries) == {x.name : x \in {y \in entries : ~IsPathDenied(Append(root, y.name))}}
Sorted(names) == SortSeq(SetToSeq(names), LAMBDA a, b : Position[a] < Position[b])
FirstOf(s, k) == SubSeq(s, 1, IF k < Len(s) THEN k ELSE Len(s))
ReadDirectory ==
  LET l == ReadDir(disk, root)
      n == Cardinality(l.entries)
      k == IF n > lim.entries THEN lim.entries ELSE n
  IN  /\ pc = "read" /\ lim.results > 0
      /\ \/ l.st # "ok" /\ Fail(l.st)
         \/ /\ l.st = "ok"
            /\ \E S \in kSubset(k, l.entries) :
                 /\ todo' = FirstOf(Sorted(VisibleNames(S)), lim.results)
                 /\ seen' = Cardinality(VisibleNames(S))
                 /\ diag' = [diag EXCEPT !.entries = k, !.reason = IF k < n THEN "Entries" ELSE "none"]
            /\ pc' = "opened" /\ Keep
            /\ UNCHANGED <<root, stack, cur, matches, bytes, dirId, meta, outcome, truncated>>

\* scan_count_only_entries, when no entry is asked for: the scan ends at the
\* first visible one.
Counts(entries) ==
  LET v == Cardinality(VisibleNames(entries))
      n == Cardinality(entries)
  IN  {r \in {<<1, "none">>, <<0, "Entries">>, <<0, "none">>} :
         CASE r = <<1, "none">>    -> v > 0 /\ lim.entries > 0
           [] r = <<0, "Entries">> -> n - v >= lim.entries /\ n > lim.entries
           [] OTHER                -> v = 0 /\ n <= lim.entries}
CountEntries ==
  LET l == ReadDir(disk, root)
  IN  /\ pc = "read" /\ lim.results = 0
      /\ \/ l.st # "ok" /\ Fail(l.st)
         \/ /\ l.st = "ok" /\ pc' = "opened" /\ Keep
            /\ \E r \in Counts(l.entries) : seen' = r[1] /\ diag' = [diag EXCEPT !.reason = r[2]]
            /\ UNCHANGED <<root, stack, cur, matches, bytes, dirId, todo, meta, outcome, truncated>>

\* Mutant: the directory's identity is looked at when it is opened only.
VerifiedOnce(stage) == stage # "opened" \/ ListVerified
\* ensure_directory_identity_unchanged after read_dir, the scan and the looks
\* at the entries.
Verified(stage) == ListVerified

VerifyOpened ==
  /\ pc = "opened"
  /\ \/ ~Verified(pc) /\ Fail("InvalidPath")
     \/ Verified(pc) /\ ToStage("scanned") /\ UNCHANGED <<root, matches, listVars>>
VerifyScanned ==
  /\ pc = "scanned"
  /\ \/ ~Verified(pc) /\ Fail("InvalidPath")
     \/ Verified(pc) /\ ToStage(IF lim.results = 0 THEN "answer" ELSE "entries")
        /\ UNCHANGED <<root, matches, listVars>>

\* Kinds and sizes of the retained names, within the estimated response size:
\* a directory's entry is shorter than a file's or a link's.
Weight(kind) == IF kind = "dir" THEN 1 ELSE 2
MinWeight == 1
MaterializeEntry ==
  LET name == Head(todo)
      e    == Lstat(disk, Append(root, name))
      b    == bytes + Weight(e.kind)
  IN  /\ pc = "entries"
      /\ UNCHANGED <<root, stack, cur, dirId, seen, meta, outcome, truncated>> /\ Keep
      /\ \/ todo = <<>> /\ pc' = "answer" /\ UNCHANGED <<todo, diag, matches, bytes>>
         \/ /\ todo # <<>> /\ (bytes + MinWeight > lim.bytes \/ (e.kind \notin {"absent", "error"} /\ b > lim.bytes))
            /\ pc' = "answer" /\ todo' = <<>>
            /\ diag' = [diag EXCEPT !.reason = IF @ = "none" THEN "ResponseBytes" ELSE @]
            /\ UNCHANGED <<matches, bytes>>
         \/ /\ todo # <<>> /\ e.kind \in {"absent", "error"} /\ bytes + MinWeight <= lim.bytes
            /\ pc' = pc /\ todo' = Tail(todo) /\ diag' = [diag EXCEPT !.ioErr = @ + 1]
            /\ UNCHANGED <<matches, bytes>>
         \/ /\ todo # <<>> /\ e.kind \notin {"absent", "error"} /\ b <= lim.bytes
            /\ pc' = pc /\ todo' = Tail(todo) /\ bytes' = b
            /\ matches' = Append(matches, [path |-> Append(root, name), line |-> 0])
            /\ UNCHANGED diag

\* Mutant: only entries over the request's number count as left out.
TruncatedByCount == seen > lim.results
\* is_list_dir_truncated.
ListTruncated ==
  \/ diag.reason # "none" \/ diag.ioErr > 0 \/ seen > lim.results
  \/ (lim.results > 0 /\ Len(matches) < seen)

AnswerList ==
  /\ pc = "answer"
  /\ \/ ~Verified(pc) /\ Fail("InvalidPath")
     \/ /\ Verified(pc) /\ pc' = "done" /\ outcome' = "ok" /\ truncated' = ListTruncated
        /\ UNCHANGED <<root, searchVars, matches, bytes, listVars>> /\ Keep

\* -------------------------------------------------------------------- stat
Refused(e) == IF e.kind = "link" THEN "InvalidPath" ELSE "Io"
HasMetadata(e) == e.kind \notin {"absent", "error", "link"}

BeginStat ==
  LET c == InRootNow(req.path)
  IN  /\ pc = "start" /\ req.op = "stat"
      /\ \/ "stat" \notin WalkPermissions /\ Fail("NotPermitted")
         \/ "stat" \in WalkPermissions /\ c.st # "ok" /\ Fail(c.st)
         \/ "stat" \in WalkPermissions /\ c.st = "ok" /\ root' = c.path /\ ToStage("metadata")
            /\ UNCHANGED <<matches, listVars>>
StatMetadata ==
  LET e == Lstat(disk, root)
  IN  /\ pc = "metadata"
      /\ \/ ~HasMetadata(e) /\ Fail(Refused(e))
         \/ HasMetadata(e) /\ ToStage("identity") /\ UNCHANGED <<root, matches, listVars>>

\* same_file::Handle::from_path follows links.
HandleOf(p) == LET c == Canonicalize(disk, p) IN IF c.st = "ok" THEN c.entry ELSE Absent
StatIdentity ==
  /\ pc = "identity"
  /\ \/ HandleOf(root) = Absent /\ Fail("InvalidPath")
     \/ HandleOf(root) # Absent /\ dirId' = HandleOf(root) /\ ToStage("resolveAgain")
        /\ UNCHANGED <<root, matches, todo, seen, meta>>

\* revalidate_path_stability.
StatResolveAgain ==
  LET c == InRootNow(req.path)
  IN  /\ pc = "resolveAgain"
      /\ \/ c.st # "ok" /\ Fail(c.st)
         \/ c.st = "ok" /\ c.path # root /\ Fail("InvalidPath")
         \/ c.st = "ok" /\ c.path = root /\ ToStage("metadataAgain") /\ UNCHANGED <<root, matches, listVars>>
StatMetadataAgain ==
  LET e == Lstat(disk, root)
  IN  /\ pc = "metadataAgain"
      /\ \/ ~HasMetadata(e) /\ Fail(Refused(e))
         \/ HasMetadata(e) /\ meta' = e /\ ToStage("handleAgain") /\ UNCHANGED <<root, matches, dirId, todo, seen>>

\* Mutant: two handles are of one file when they are of one kind.
SameHandleKind == HandleOf(root).kind = dirId.kind
SameHandle == SameIdentity(HandleOf(root), dirId)
AnswerStat ==
  /\ pc = "handleAgain"
  /\ \/ ~SameHandle /\ Fail("InvalidPath")
     \/ /\ SameHandle /\ pc' = "done" /\ outcome' = "ok"
        /\ UNCHANGED <<root, searchVars, matches, bytes, listVars, truncated>> /\ Keep

\* ----------------------------------------------------------- other programs
Touch == touched' = TRUE /\ UNCHANGED <<pc, req, lim, root, searchVars, matches, bytes, listVars, outcome, truncated>>
CreateFile(d, n) == /\ disk[d][n] = Absent /\ disk' = Put(disk, d, n, FileEntry(Created, "hits"))
                    /\ Touch /\ UNCHANGED <<changes, moved>>
UnlinkFile(d, n) == /\ changes < MaxChanges /\ disk[d][n].kind = "file" /\ disk' = Put(disk, d, n, Absent)
                    /\ Touch /\ changes' = changes + 1 /\ UNCHANGED moved
\* A path may lead through an entry that is a directory or a link to one.
Leads(n) == Canonicalize(disk, <<n>>).entry.kind = "dir"
ExchangeEntries(n, m) ==
  /\ changes < MaxChanges /\ n # m /\ disk[Root][n] # disk[Root][m]
  /\ disk' = [disk EXCEPT ![Root][n] = disk[Root][m], ![Root][m] = disk[Root][n]]
  /\ Touch /\ changes' = changes + 1 /\ moved' = (moved \/ Leads(n) \/ Leads(m))

Call == \/ BeginSearch \/ ResolveWalkRoot \/ OpenWalkRoot \/ FailedDirectory \/ LeaveDirectory
        \/ ResolveEntry \/ ReadFile
        \/ \E n \in Names, k \in {"file", "dir", "link"} : NextEntry([name |-> n, kind |-> k])
        \/ BeginList \/ CaptureDirectory \/ ReadDirectory \/ CountEntries \/ VerifyOpened \/ VerifyScanned
        \/ MaterializeEntry \/ AnswerList
        \/ BeginStat \/ StatMetadata \/ StatIdentity \/ StatResolveAgain \/ StatMetadataAgain \/ AnswerStat
Environment == \/ \E s \in CreatorSlots : CreateFile(s[1], s[2]) \/ UnlinkFile(s[1], s[2])
               \/ \E n, m \in ExchangedNames : ExchangeEntries(n, m)

\* Until it is done a step of the call is always possible; TLC's search for
\* deadlocks shows it, since other programs come to an end.
Terminated == pc = "done" /\ UNCHANGED walkVars
WalkNext == Call \/ Environment \/ Terminated
WalkSpec == WalkInit /\ [][WalkNext]_walkVars

\* --------------------------------------------------------------- properties
Answered == pc = "done" /\ outcome = "ok"
ShortPaths == UNION {[1..k -> Names] : k \in 1..3}
\* The file a path names without a link on the way, as the last name perhaps.
Plain(p) == \A k \in 1..(Len(p) - 1) : Canonicalize(disk, SubSeq(p, 1, k)).path = SubSeq(p, 1, k)
Reached(p) == LET c == InRootNow(p) IN IF c.st = "ok" THEN c.entry ELSE Absent
\* What is to be found: plain paths that no rule leaves out on any level, and
\* a pattern without wildcards also through a link.
Found(p) ==
  /\ Lstat(disk, p).kind \in {"file", "link"} /\ Reached(p).kind # "absent"
  /\ req.pattern = <<>> \/ Matches(req.pattern, p)
  /\ Plain(p) \/ LiteralPrefix(req.pattern) = p
  /\ \A k \in 1..Len(p) : ~Filtered(SubSeq(p, 1, k), k < Len(p))
Hits(p) == LET e == Reached(p)
               l == Lines(e)
           IN  IF e.kind # "file" THEN {}
               ELSE IF Len(l) > MaxRead \/ (\E i \in 1..Len(l) : l[i] = "bad" \/ (req.regex /\ l[i] = "long"))
               THEN {} ELSE {i \in 1..Len(l) : l[i] \notin NoMatch}

\* An answer that does not say it is truncated is complete and exact, however
\* the walk was narrowed by the pattern's prefix and the rules' probes: glob
\* has every file to be found and grep every line.
SearchComplete ==
  Answered /\ Search /\ ~truncated /\ ~touched =>
    ToSet(matches) = {[path |-> p, line |-> i] : p \in {q \in ShortPaths : Found(q)}, i \in 0..MaxRead}
                       \cap UNION {{[path |-> p, line |-> i] :
                                      i \in IF req.op = "glob" THEN {0} ELSE Hits(p)} :
                                   p \in {q \in ShortPaths : Found(q)}}

\* list_dir gives the smallest visible names, and says so when there are more:
\* unless the scan itself was cut off, no smaller name is left out.
ListsSmallest ==
  Answered /\ req.op = "list" /\ ~touched =>
    LET names == Sorted(VisibleNames(ReadDir(disk, root).entries))
    IN  /\ diag.reason # "Entries" =>
             matches = [i \in 1..Len(matches) |-> [path |-> Append(root, names[i]), line |-> 0]]
        /\ truncated <=> Len(matches) < Len(names) \/ diag.reason # "none"

\* A list of entries is of one directory: the one at the path when the listing
\* began, whatever took its place meanwhile.  And what stat answers is of the
\* entry whose identity it took, which the requested path led to within the
\* call, unless entries were exchanged there and back.
OneEntry ==
  [][outcome = "none" /\ outcome' = "ok" =>
       /\ req.op = "list" => DirectoryAt(disk, root) = dirId
       /\ req.op = "stat" /\ changes < 2 => SameIdentity(meta, dirId)]_walkVars

\* grep takes lines from a file, while directories and the links to them stay.
TakesLines == pc = "file" /\ (matches' # matches \/ bytes' # bytes) /\ ~moved

\* grep reads a file only at a path inside the root that no rule denies, also
\* when a link has taken the place of a file the walk had found.  The literal
\* path of a pattern is resolved before it is opened and not again: when it leads
\* through a link and the file comes to be in between, nothing is said of it.
DeniedUnread ==
  [][TakesLines /\ (touched => cur.at # root \/ Plain(root)) => InRootNow(cur.at).st = "ok"]_walkVars

\* That promise without the exception, which the code does not keep: a literal
\* path through a link to a denied directory is read when the file is made late.
DeniedNeverRead == [][TakesLines => InRootNow(cur.at).st = "ok"]_walkVars

\* What an answer says about the tree is all there is to say, unless it admits
\* to be cut short.  (glob, grep, list_dir.)
AnswersComplete == SearchComplete /\ ListsSmallest

\* What an answer holds comes from where the call looked and may look, whatever
\* is exchanged meanwhile.  (list_dir, stat, grep.)
AnswersFromTheirPath == OneEntry /\ DeniedUnread
=============================================================================
