------------------------------ MODULE FsDelete ------------------------------
(***************************************************************************)
(* delete of omne-fs (src/crates/omne-fs/src/ops/delete.rs): one call      *)
(* while other programs change the tree.  A recursive delete scans the     *)
(* whole tree for denied paths before it removes anything, then walks it   *)
(* again, removing as it goes and reading every directory afresh until it  *)
(* is empty.  Each walk may look at max_walk_entries entries and may be    *)
(* limited in time.  A stage between two system calls is an action, and so *)
(* is every read_dir and every entry of the two walks.                     *)
(***************************************************************************)
EXTENDS FsShape

CONSTANTS Requests,       \* [path, recursive, ignoreMissing]
          DeleteAllowed,  \* the policy enables delete on a writable root
          MaxWalkEntries, \* limits.max_walk_entries
          TimeLimits,     \* values of "limits.max_walk_ms is set"
          Trees,          \* file trees at the start
          CreatorSlots,   \* <<directory, name>> another program fills again and again
          ForeignNames,   \* entries of the root other programs exchange
          MaxForeign      \* the other changes of other programs

Request == [path : Segments, recursive : BOOLEAN, ignoreMissing : BOOLEAN]

\* No other call stages a file; what others create is FileEntry(0, "new").
ASSUME DeleteAssumption ==
  /\ MaxWalkEntries \in Nat \ {0} /\ MaxForeign \in Nat
  /\ Calls = {} /\ 0 \in Inos /\ "new" \in Contents
  /\ Requests \subseteq Request /\ TimeLimits \subseteq BOOLEAN
  /\ ForeignNames \subseteq Names /\ CreatorSlots \subseteq Dirs \X Names
  /\ \A t \in Trees : t \in Tree /\ WellShaped(t)

VARIABLES fs, pc, req, timed,
          path, pid, target,     \* canonical target, identity of its parent, its entry
          stack, scanned,        \* the walk: frames of read_dir, entries counted
          removed, res,          \* what the call has removed; its result
          foreign, touched, moved  \* changes by others: their number, any since
                                   \* the scan began, of a directory or link at all
callVars == <<pc, path, pid, target, stack, scanned, removed, res>>
envVars  == <<foreign, touched, moved>>
vars     == <<fs, callVars, req, timed, envVars>>

None == [kind |-> "none"]

Init == /\ fs \in Trees /\ req \in Requests /\ timed \in TimeLimits
        /\ pc = "start" /\ path = <<>> /\ pid = NoDir /\ target = None
        /\ stack = <<>> /\ scanned = 0 /\ removed = {} /\ res = "none"
        /\ foreign = 0 /\ touched = FALSE /\ moved = FALSE

Return(r) == /\ pc' = "done" /\ res' = r /\ stack' = <<>> /\ scanned' = 0
             /\ UNCHANGED <<path, pid, target>>
\* missing_response, when the request ignores what is not there.
Missing   == IF req.ignoreMissing THEN "missing" ELSE "NotFound"
Keep      == UNCHANGED <<req, timed, envVars>>
Refuse(r) == Return(r) /\ UNCHANGED <<fs, removed>> /\ Keep

Start ==
  LET lex    == ResolveLexically(req.path)
      parent == EnsureDir(fs, Front(lex.path))
      at     == Append(parent.path, Last(lex.path))
  IN  /\ pc = "start"
      /\ \/ ~DeleteAllowed /\ Refuse("NotPermitted")
         \/ DeleteAllowed /\ lex.st # "ok" /\ Refuse(lex.st)
         \/ DeleteAllowed /\ lex.st = "ok" /\ lex.path = <<>> /\ Refuse("InvalidPath")
         \/ /\ DeleteAllowed /\ lex.st = "ok" /\ lex.path # <<>>
            /\ \/ parent.st = "NotFound" /\ Refuse(Missing)
               \/ parent.st \notin {"ok", "NotFound"} /\ Refuse(parent.st)
               \/ parent.st = "ok" /\ IsPathDenied(at) /\ Refuse("Denied")
               \/ /\ parent.st = "ok" /\ ~IsPathDenied(at)
                  /\ pc' = "capture" /\ path' = at /\ pid' = DirectoryAt(fs, parent.path)
                  /\ UNCHANGED <<fs, target, stack, scanned, removed, res>> /\ Keep

\* revalidate_parent_before_delete: "ok", or the result of the call.
ParentStable ==
  LET parent == EnsureDir(fs, Front(NormalizeLexical(req.path)))
  IN  IF parent.st = "NotFound" THEN Missing
      ELSE IF parent.st # "ok" THEN parent.st
      ELSE IF parent.path = Front(path) /\ SameDirectory(fs, parent.path, pid) THEN "ok"
      ELSE "InvalidPath"

CaptureTarget ==
  LET e == Lstat(fs, path)
  IN  /\ pc = "capture"
      /\ \/ ParentStable # "ok" /\ Refuse(ParentStable)
         \/ ParentStable = "ok" /\ e.kind = "absent" /\ Refuse(Missing)
         \/ ParentStable = "ok" /\ e.kind = "error" /\ Refuse("Io")
         \/ ParentStable = "ok" /\ e.kind = "dir" /\ ~req.recursive /\ Refuse("InvalidPath")
         \/ /\ ParentStable = "ok" /\ (e.kind \in {"file", "link"} \/ (e.kind = "dir" /\ req.recursive))
            /\ pc' = "revalidate" /\ target' = e
            /\ UNCHANGED <<fs, path, pid, stack, scanned, removed, res>> /\ Keep

\* A frame of a walk: the directory, the entries read and not yet looked at,
\* and whether it has to be read (again), worked off or finished.
Frame(p) == [path |-> p, todo |-> {}, at |-> "read"]

\* The last look at the parent and the target.
Revalidate ==
  LET e == Lstat(fs, path)
  IN  /\ pc = "revalidate"
      /\ \/ ParentStable # "ok" /\ Refuse(ParentStable)
         \/ ParentStable = "ok" /\ e.kind = "absent" /\ Refuse(Missing)
         \/ ParentStable = "ok" /\ e.kind # "absent" /\ ~SameIdentity(e, target)
            /\ Refuse("InvalidPath")
         \/ /\ ParentStable = "ok" /\ e.kind # "absent" /\ SameIdentity(e, target)
            /\ pc' = IF target.kind = "dir" THEN "scan" ELSE "unlink"
            /\ stack' = IF target.kind = "dir" THEN <<Frame(path)>> ELSE <<>>
            /\ touched' = FALSE
            /\ UNCHANGED <<fs, path, pid, target, scanned, removed, res, req, timed, foreign, moved>>

\* remove_file of whatever the path names by now; directories refuse it.
SlotOf(p) == <<Holder(fs, p).ino, Last(p)>>
Unlinked(p) == /\ fs' = Put(fs, SlotOf(p)[1], SlotOf(p)[2], Absent)
               /\ removed' = removed \cup {SlotOf(p)}

Unlink ==
  LET e == Lstat(fs, path)
  IN  /\ pc = "unlink"
      /\ \/ e.kind = "absent" /\ Refuse(Missing)
         \/ e.kind \in {"dir", "error"} /\ Refuse("Io")
         \/ e.kind \in {"file", "link"} /\ Unlinked(path) /\ Return("deleted") /\ Keep

\* ------------------------------------------------------------- the two walks
Top      == Last(stack)
Pop      == Front(stack)
Work(f)  == Append(Pop, f)
Listing(p) == ReadDir(fs, p)

\* ensure_recursive_delete_scan_within_budget.
OverBudget(n) == n > MaxWalkEntries
BudgetRefusal(n) == {r \in {"max_walk_entries", "max_walk_ms"} :
                       IF r = "max_walk_ms" THEN timed ELSE OverBudget(n)}
\* The clock may run out at any check; the count decides otherwise.
MayGoOn(n) == ~OverBudget(n)

\* A walk is over its last frame: the scan is followed by the removal, which
\* counts from zero and has its own clock; the removal by the answer.
FrameDone ==
  /\ UNCHANGED <<path, pid, target>>
  /\ IF Len(stack) > 1 THEN stack' = Pop /\ UNCHANGED <<pc, scanned, res>>
     ELSE IF pc = "scan" THEN pc' = "delete" /\ stack' = <<Frame(path)>> /\ scanned' = 0 /\ res' = res
     ELSE pc' = "done" /\ res' = "deleted" /\ stack' = <<>> /\ scanned' = 0
\* Mutant: every pass over a directory has a budget of its own.
ContinueAfresh(s, n) == /\ stack' = s /\ scanned' = IF Last(s).at = "read" THEN 0 ELSE n
                        /\ UNCHANGED <<pc, path, pid, target, res>>
Continue(s, n) == /\ stack' = s /\ scanned' = n
                  /\ UNCHANGED <<pc, path, pid, target, res>>

ReadDirectory ==
  LET l == Listing(Top.path)
  IN  /\ pc \in {"scan", "delete"} /\ Top.at = "read"
      /\ \/ \E r \in BudgetRefusal(scanned) : Refuse(r)
         \/ /\ MayGoOn(scanned)
            /\ \/ l.st = "NotFound" /\ req.ignoreMissing /\ FrameDone
                  /\ UNCHANGED <<fs, removed>> /\ Keep
               \/ l.st = "NotFound" /\ ~req.ignoreMissing /\ Refuse("NotFound")
               \/ l.st = "Io" /\ Refuse("Io")
               \/ l.st = "ok" /\ Continue(Work([Top EXCEPT !.todo = l.entries, !.at = "entries"]), scanned)
                  /\ UNCHANGED <<fs, removed>> /\ Keep

\* An entry of either walk: counted, compared with the deny globs, entered
\* when it is a directory.
NextEntry(walk, e) ==
  LET child == Append(Top.path, e.name)
      rest  == [Top EXCEPT !.todo = @ \ {e}]
  IN  /\ pc = walk /\ Top.at = "entries" /\ e \in Top.todo
      /\ \/ \E r \in BudgetRefusal(scanned + 1) : Refuse(r)
         \/ MayGoOn(scanned + 1) /\ IsPathDenied(child) /\ Refuse("Denied")
         \/ /\ MayGoOn(scanned + 1) /\ ~IsPathDenied(child) /\ e.kind = "dir"
            /\ Continue(Append(Work(rest), Frame(child)), scanned + 1)
            /\ UNCHANGED <<fs, removed>> /\ Keep

\* Mutant: the scan only counts.
ScanUnchecked(e) ==
  LET child == Append(Top.path, e.name)
      rest  == Work([Top EXCEPT !.todo = @ \ {e}])
  IN  /\ pc = "scan" /\ Top.at = "entries" /\ e \in Top.todo
      /\ \/ \E r \in BudgetRefusal(scanned + 1) : Refuse(r)
         \/ /\ MayGoOn(scanned + 1)
            /\ Continue(IF e.kind = "dir" THEN Append(rest, Frame(child)) ELSE rest, scanned + 1)
            /\ UNCHANGED <<fs, removed>> /\ Keep
\* scan_directory_descendants: other entries are only counted.
ScanEntry(e) ==
  \/ NextEntry("scan", e)
  \/ /\ pc = "scan" /\ Top.at = "entries" /\ e \in Top.todo
     /\ MayGoOn(scanned + 1) /\ ~IsPathDenied(Append(Top.path, e.name)) /\ e.kind # "dir"
     /\ Continue(Work([Top EXCEPT !.todo = @ \ {e}]), scanned + 1)
     /\ UNCHANGED <<fs, removed>> /\ Keep
ScanDone ==
  /\ pc = "scan" /\ Top.at = "entries" /\ Top.todo = {}
  /\ FrameDone /\ UNCHANGED <<fs, removed>> /\ Keep

\* Mutant: the scan's check of denied paths is taken to be enough.
DeleteScanned(e) ==
  LET child == Append(Top.path, e.name)
      rest  == Work([Top EXCEPT !.todo = @ \ {e}])
  IN  /\ pc = "delete" /\ Top.at = "entries" /\ e \in Top.todo /\ MayGoOn(scanned + 1)
      /\ IF e.kind = "dir" \/ Lstat(fs, child).kind # "file" THEN UNCHANGED <<fs, removed>> ELSE Unlinked(child)
      /\ Continue(IF e.kind = "dir" THEN Append(rest, Frame(child)) ELSE rest, scanned + 1)
      /\ Keep
\* delete_directory_checked: other entries are removed, if still there.
DeleteEntry(e) ==
  LET child == Append(Top.path, e.name)
      now   == Lstat(fs, child)
  IN  \/ NextEntry("delete", e)
      \/ /\ pc = "delete" /\ Top.at = "entries" /\ e \in Top.todo
         /\ MayGoOn(scanned + 1) /\ ~IsPathDenied(child) /\ e.kind # "dir"
         /\ \/ now.kind \in {"dir", "error"} /\ Refuse("Io")
            \/ /\ now.kind \notin {"dir", "error"}
               /\ IF now.kind = "absent" THEN UNCHANGED <<fs, removed>> ELSE Unlinked(child)
               /\ Continue(Work([Top EXCEPT !.todo = @ \ {e}]), scanned + 1)
               /\ Keep

\* The directory is read again: anything in it starts the loop over.
Refresh ==
  LET l == Listing(Top.path)
  IN  /\ pc = "delete" /\ Top.at = "entries" /\ Top.todo = {}
      /\ \/ l.st = "NotFound" /\ req.ignoreMissing /\ FrameDone /\ UNCHANGED <<fs, removed>> /\ Keep
         \/ l.st = "NotFound" /\ ~req.ignoreMissing /\ Refuse("NotFound")
         \/ l.st = "Io" /\ Refuse("Io")
         \/ /\ l.st = "ok"
            /\ Continue(Work([Top EXCEPT !.at = IF l.entries = {} THEN "rmdir" ELSE "read"]), scanned)
            /\ UNCHANGED <<fs, removed>> /\ Keep

\* Mutant: a directory that is not empty after all counts as removed.
RemoveIfEmpty ==
  /\ pc = "delete" /\ Top.at = "rmdir" /\ FrameDone /\ Keep
  /\ IF Lstat(fs, Top.path).kind = "dir" /\ Listing(Top.path).entries = {} THEN Unlinked(Top.path)
     ELSE UNCHANGED <<fs, removed>>
\* remove_dir; a directory that is not empty after all starts the loop over.
RemoveDirectory ==
  LET e == Lstat(fs, Top.path)
      l == Listing(Top.path)
  IN  /\ pc = "delete" /\ Top.at = "rmdir"
      /\ \/ e.kind = "absent" /\ req.ignoreMissing /\ FrameDone /\ UNCHANGED <<fs, removed>> /\ Keep
         \/ e.kind = "absent" /\ ~req.ignoreMissing /\ Refuse("NotFound")
         \/ e.kind \in {"file", "link", "error"} /\ Refuse("Io")
         \/ e.kind = "dir" /\ l.entries # {} /\ Continue(Work([Top EXCEPT !.at = "read"]), scanned)
            /\ UNCHANGED <<fs, removed>> /\ Keep
         \/ e.kind = "dir" /\ l.entries = {} /\ Unlinked(Top.path) /\ FrameDone /\ Keep

\* ---------------------------------------------------------- other programs
Touch == touched' = TRUE /\ UNCHANGED <<callVars, req, timed>>
\* A program that creates a file whenever it is gone.
Create(d, n) == /\ fs[d][n] = Absent /\ fs' = Put(fs, d, n, FileEntry(0, "new"))
                /\ Touch /\ UNCHANGED <<foreign, moved>>
RemoveFile(d, n) == /\ foreign < MaxForeign /\ fs[d][n].kind = "file" /\ fs' = Put(fs, d, n, Absent)
                /\ Touch /\ foreign' = foreign + 1 /\ UNCHANGED moved
Exchange(n, m) ==
  /\ foreign < MaxForeign /\ n # m /\ fs[Root][n] # fs[Root][m]
  /\ fs' = [fs EXCEPT ![Root][n] = fs[Root][m], ![Root][m] = fs[Root][n]]
  /\ Touch /\ foreign' = foreign + 1 /\ moved' = TRUE

Call == \/ Start \/ CaptureTarget \/ Revalidate \/ Unlink
        \/ ReadDirectory \/ ScanDone \/ Refresh \/ RemoveDirectory
        \/ \E n \in Names, k \in {"file", "dir", "link"} :
             ScanEntry([name |-> n, kind |-> k]) \/ DeleteEntry([name |-> n, kind |-> k])
Environment == \/ \E s \in CreatorSlots : Create(s[1], s[2]) \/ RemoveFile(s[1], s[2])
               \/ \E n, m \in ForeignNames : Exchange(n, m)

Terminated == pc = "done" /\ UNCHANGED vars
Next == Call \/ Environment \/ Terminated
\* Weak fairness of Call, the thread that runs it is scheduled: WF_vars(Call),
\* with pc # "done" for ENABLED <<Call>>_vars.  Until it is done a step of the
\* call is always possible; TLC's search for deadlocks shows it.
Fairness == []<>(pc = "done") \/ []<><<Call>>_vars
Spec == Init /\ [][Next]_vars /\ Fairness

\* --------------------------------------------------------------- properties
\* Nothing at a denied path is removed, even when it appears under the tree
\* after the scan, unless a directory or link was moved.  (The second check,
\* in delete_directory_checked.)
DeniedSurvives ==
  [][~moved /\ pc # "start" =>
       \A d \in Dirs, n \in Names : removed' # removed /\ <<d, n>> \in removed' \ removed =>
         \A p \in PathsTo(fs, d) : ~IsPathDenied(Append(p, n))]_vars

\* A recursive delete that is refused for a denied descendant, or because the
\* tree has too many entries, has removed nothing, unless others changed the
\* tree after the scan began.  (ensure_recursive_delete_allows_descendants.)
RefusedBeforeRemoval ==
  res \in {"Denied", "max_walk_entries"} /\ ~touched => removed = {}

\* "deleted" is the truth: what was captured is gone from the path.  Only an
\* entry created or moved there after the removal can be in its place.
DeletedIsGone ==
  [][res' = "deleted" /\ res = "none" /\ ~moved =>
       ~SameIdentity(Lstat(fs', path), target) \/ target.kind = "absent"]_vars

\* The call ends, also beside a program that keeps creating files in the tree
\* it deletes: every pass over new entries uses up the budget.
DeleteReturns == <>(pc = "done")
=============================================================================
