------------------------------- MODULE Install -------------------------------
(***************************************************************************)
(* The install pipeline of omne-artifact-install-primitives: concurrent    *)
(* calls that download candidate after candidate and install one at a      *)
(* shared destination, serialized by an advisory lock.  A call is a future *)
(* and the blocking task it waits for; a dropped future leaves its task    *)
(* running.  Binaries (download_binary_to_destination, and from archives)  *)
(* take the lock for the whole attempt and keep it in the future; archive  *)
(* trees (download_and_install_archive_tree) take it inside the task.      *)
(*                                                                         *)
(* A commit is one step here: AtomicFile and AtomicDirectory are its parts.*)
(***************************************************************************)
EXTENDS Naturals, Sequences

CONSTANTS
    Calls,
    Candidates,         \* Candidates[c]: how many call c is given
    Checked,            \* the calls with an expected SHA-256
    Free                \* a lock nobody holds

ASSUME InstallAssumption ==
    /\ Candidates \in [Calls -> Nat \ {0}]
    /\ Checked \subseteq Calls
    /\ Free \notin Calls

VARIABLES
    kind,       \* what the calls install: see Kinds; never changes
    link,       \* the destination is a symbolic link at first; never changes
    future,     \* future[c]: where the async function is
    task,       \* task[c]: where its blocking task is
    candidate,  \* candidate[c]: the candidate it tries
    staged,     \* staged[c]: what was downloaded for it
    failures,   \* failures[c]: the kinds of the failed candidates' errors
    result,     \* result[c]: what the caller was told
    lockName,   \* lockName[c]: the lock file call c derived
    holder,     \* holder[n]: the call whose guard locks file n
    dest,       \* what is installed, and which call installed it
    published   \* the candidates that were ever installed

vars == <<kind, link, future, task, candidate, staged, failures, result, lockName, holder,
          dest, published>>
attemptVars == <<candidate, staged, failures>>
destVars == <<dest, published>>
setup == <<kind, link>>

Kinds == {"binary", "tree"}

Futures == {"idle", "locking", "staging", "downloading", "installing", "done", "dropped"}
Tasks == {"none", "naming", "acquiring", "locked", "verifying", "extracting",
          "committing", "ok", "failed"}
LockNames == {"path", "link_target"}
Contents == {"nothing", "good", "bad"}
Tries == Calls \X Nat

\* Binaries: the lock is taken for the whole attempt, by the future.
LockedAttempt == kind = "binary"

Init ==
    /\ kind \in Kinds /\ link \in BOOLEAN
    /\ link => LockedAttempt     \* the commit of a tree refuses a link
    /\ future = [c \in Calls |-> "idle"]
    /\ task = [c \in Calls |-> "none"]
    /\ candidate = [c \in Calls |-> 1]
    /\ staged = [c \in Calls |-> "nothing"]
    /\ failures = [c \in Calls |-> << >>]
    /\ result = [c \in Calls |-> "none"]
    /\ lockName = [c \in Calls |-> "none"]
    /\ holder = [n \in LockNames |-> Free]
    /\ dest = [by |-> Free, content |-> "nothing"]
    /\ published = {}

-----------------------------------------------------------------------------
Await(c, step) == future' = [future EXCEPT ![c] = step]
TaskGoes(c, step) == task' = [task EXCEPT ![c] = step]

\* Mutant: the guard outlives its owner.
GuardLeaked(c) == holder

Released(c) == [n \in LockNames |-> IF holder[n] = c THEN Free ELSE holder[n]]

\* The async function returns: its locals are dropped, the guard among them.
Finish(c, told) ==
    /\ Await(c, "done")
    /\ result' = [result EXCEPT ![c] = told]
    /\ holder' = Released(c)

Start(c) ==
    /\ future[c] = "idle"
    /\ IF LockedAttempt
       THEN Await(c, "locking") /\ TaskGoes(c, "naming")
       ELSE Await(c, "staging") /\ UNCHANGED task
    /\ UNCHANGED <<setup, attemptVars, result, lockName, holder, destVars>>

\* The identity is the canonical path: of a link, the file it points to.
LockName(c) == IF link /\ dest.by = Free THEN "link_target" ELSE "path"

\* binary_install_lock_file_name and archive_tree_install_lock_file_name,
\* then the lock file is created or opened.
NameLock(c) ==
    /\ task[c] = "naming"
    /\ \/ /\ lockName' = [lockName EXCEPT ![c] = LockName(c)]
          /\ TaskGoes(c, "acquiring")
       \/ /\ TaskGoes(c, "failed")
          /\ UNCHANGED lockName
    /\ UNCHANGED <<setup, future, attemptVars, result, holder, destVars>>

\* Mutant: the lock is not waited for.
LockIgnored(c) == TRUE

LockFree(c) == holder[lockName[c]] = Free

AcquireLock(c) ==
    /\ task[c] = "acquiring"
    /\ LockFree(c)
    /\ holder' = [holder EXCEPT ![lockName[c]] = c]
    /\ TaskGoes(c, IF LockedAttempt THEN "locked" ELSE "extracting")
    /\ UNCHANGED <<setup, future, attemptVars, result, lockName, destVars>>

LockFails(c) ==
    /\ task[c] = "acquiring"
    /\ TaskGoes(c, "failed")
    /\ UNCHANGED <<setup, future, attemptVars, result, lockName, holder, destVars>>

ReceiveLock(c) ==
    /\ future[c] = "locking"
    /\ \/ /\ task[c] = "locked"
          /\ Await(c, "staging")
          /\ UNCHANGED <<result, holder>>
       \/ /\ task[c] = "failed"
          /\ Finish(c, "install")
    /\ TaskGoes(c, "none")
    /\ UNCHANGED <<setup, attemptVars, lockName, destVars>>

\* Nobody awaits the task any more: its result is dropped with the guard.
DropTaskResult(c) ==
    /\ future[c] = "dropped"
    /\ task[c] \in {"locked", "ok", "failed"}
    /\ TaskGoes(c, "none")
    /\ holder' = Released(c)
    /\ UNCHANGED <<setup, future, attemptVars, result, lockName, destVars>>

\* stage_file_atomically_with_name: its failure ends the call.
StageDownload(c) ==
    /\ future[c] = "staging"
    /\ \/ /\ Await(c, "downloading")
          /\ staged' = [staged EXCEPT ![c] = "nothing"]
          /\ UNCHANGED <<result, holder>>
       \/ /\ Finish(c, "install")
          /\ UNCHANGED staged
    /\ UNCHANGED <<setup, task, candidate, failures, lockName, destVars>>

\* Mutant: the last candidate's error decides.
LastFailureKind(kinds) == kinds[Len(kinds)]

\* aggregate_failure_kind
AggregateFailureKind(kinds) ==
    IF \E i \in DOMAIN kinds : kinds[i] = "install" THEN "install" ELSE "download"

MoreCandidates(c) == candidate[c] < Candidates[c]

\* The candidate failed: try the next one or return all failures.
CandidateFails(c, cause) ==
    /\ failures' = [failures EXCEPT ![c] = Append(@, cause)]
    /\ IF MoreCandidates(c)
       THEN /\ candidate' = [candidate EXCEPT ![c] = @ + 1]
            /\ Await(c, "staging")
            /\ UNCHANGED <<result, holder>>
       ELSE /\ Finish(c, AggregateFailureKind(failures'[c]))
            /\ UNCHANGED candidate

Download(c) ==
    /\ future[c] = "downloading"
    /\ \/ /\ \E bytes \in {"good", "bad"} : staged' = [staged EXCEPT ![c] = bytes]
          /\ Await(c, "installing")
          /\ TaskGoes(c, "verifying")
          /\ UNCHANGED <<candidate, failures, result, holder>>
       \/ /\ CandidateFails(c, "download")
          /\ UNCHANGED <<task, staged>>
    /\ UNCHANGED <<setup, lockName, destVars>>

\* Mutant: a mismatch is not an error.
MismatchIgnored(c) == TRUE

DigestMatches(c) == c \in Checked => staged[c] = "good"

\* verify_downloaded_candidate; for a tree the lock comes after it.
Verify(c) ==
    /\ task[c] = "verifying"
    /\ \/ /\ DigestMatches(c)
          /\ TaskGoes(c, IF LockedAttempt THEN "extracting" ELSE "naming")
       \/ TaskGoes(c, "failed")
    /\ UNCHANGED <<setup, future, attemptVars, result, lockName, holder, destVars>>

\* A tree's guard is dropped when its task is through.
TaskReleases(c) == IF LockedAttempt THEN holder ELSE Released(c)

\* The archive is extracted into a staged file or directory.
Extract(c) ==
    /\ task[c] = "extracting"
    /\ \/ TaskGoes(c, "committing") /\ UNCHANGED holder
       \/ TaskGoes(c, "failed") /\ holder' = TaskReleases(c)
    /\ UNCHANGED <<setup, future, attemptVars, result, lockName, destVars>>

\* Mutant: commit's error is not looked at.
CommitFailureIgnored == "ok"

CommitFailure == "failed"

\* commit: replaced, not replaced, or replaced with a post-commit error that
\* is reported like any other.
Commit(c) ==
    /\ task[c] = "committing"
    /\ \/ /\ dest' = [by |-> c, content |-> staged[c]]
          /\ published' = published \cup {<<c, candidate[c]>>}
          /\ \E end \in {"ok", "failed"} : TaskGoes(c, end)
       \/ TaskGoes(c, CommitFailure) /\ UNCHANGED destVars
    /\ holder' = TaskReleases(c)
    /\ UNCHANGED <<setup, future, attemptVars, result, lockName>>

ReceiveInstall(c) ==
    /\ future[c] = "installing"
    /\ \/ /\ task[c] = "ok"
          /\ Finish(c, "ok")
          /\ UNCHANGED <<candidate, failures>>
       \/ /\ task[c] = "failed"
          /\ CandidateFails(c, "install")
    /\ TaskGoes(c, "none")
    /\ UNCHANGED <<setup, staged, lockName, destVars>>

Step(c) ==
    \/ Start(c) \/ NameLock(c) \/ AcquireLock(c) \/ ReceiveLock(c)
    \/ DropTaskResult(c) \/ StageDownload(c) \/ Download(c) \/ Verify(c)
    \/ Extract(c) \/ Commit(c) \/ ReceiveInstall(c)

-----------------------------------------------------------------------------
\* The environment.

Awaiting == {"locking", "downloading", "installing"}

\* What the future owns is dropped with it; a task's guard is the task's.
DroppedWithFuture(c) ==
    IF LockedAttempt /\ future[c] # "locking" THEN Released(c) ELSE holder

Cancel(c) ==
    /\ future[c] \in Awaiting
    /\ Await(c, "dropped")
    /\ holder' = DroppedWithFuture(c)
    /\ UNCHANGED <<setup, task, attemptVars, result, lockName, destVars>>

\* The process dies with future and task; the kernel releases its locks.
Kill(c) ==
    /\ future[c] \notin {"idle", "done"}
    /\ Await(c, "done")
    /\ TaskGoes(c, "none")
    /\ holder' = Released(c)
    /\ UNCHANGED <<setup, attemptVars, result, lockName, destVars>>

Next == \E c \in Calls : Step(c) \/ LockFails(c) \/ Cancel(c) \/ Kill(c)

\* The runtime polls futures, runs blocking tasks, and the downloader comes to
\* an end of every download.
Fairness == \A c \in Calls : WF_vars(Step(c))

Spec == Init /\ [][Next]_vars /\ Fairness

-----------------------------------------------------------------------------
\* Properties.

TypeOK ==
    /\ kind \in Kinds /\ link \in BOOLEAN
    /\ future \in [Calls -> Futures]
    /\ task \in [Calls -> Tasks]
    /\ \A c \in Calls : candidate[c] \in 1 .. Candidates[c]
    /\ staged \in [Calls -> Contents]
    /\ failures \in [Calls -> Seq({"download", "install"})]
    /\ result \in [Calls -> {"none", "ok", "install", "download"}]
    /\ lockName \in [Calls -> LockNames \cup {"none"}]
    /\ holder \in [LockNames -> Calls \cup {Free}]
    /\ dest \in [by : Calls \cup {Free}, content : Contents]
    /\ published \subseteq Tries

\* Bytes that do not match the expected digest are never at the destination.
VerifiedContent ==
    dest.by \in Checked => dest.content = "good"

\* A call that returns a candidate has installed that candidate.
OkMeansInstalled ==
    \A c \in Calls : result[c] = "ok" => <<c, candidate[c]>> \in published

\* The aggregate error has one failure for every candidate, and says
\* "download" only when no candidate got as far as its install phase.
FailuresAreComplete ==
    \A c \in Calls :
        result[c] \in {"install", "download"} /\ candidate[c] = Len(failures[c]) =>
            /\ Len(failures[c]) = Candidates[c]
            /\ (result[c] = "download") <=>
                   (\A i \in DOMAIN failures[c] : failures[c][i] = "download")

\* Nobody replaces the destination but a call that holds its lock, be its
\* future dropped or not; of binary calls, only those whose caller waits.
CommitLocked ==
    dest' # dest /\ (LockedAttempt => future[dest'.by] # "dropped") =>
        \E n \in LockNames : holder[n] = dest'.by
CommitsUnderLock == [][CommitLocked]_vars

Working(c) ==
    \/ future[c] \in {"staging", "downloading", "installing"}
    \/ task[c] \in {"verifying", "extracting", "committing"}

\* While a binary call that is awaited downloads, verifies or commits, no other
\* awaited call does, unless the destination was a link.
OneAttemptAtATime ==
    LockedAttempt /\ ~link =>
        \A c, d \in {b \in Calls : future[b] # "dropped" /\ Working(b)} : c = d

\* Serialized for the full install attempt: one binary call works at a time. The code does not have
\* this property (README, observed divergences): no run checks it.
FullySerialized ==
    LockedAttempt => \A c, d \in Calls : Working(c) /\ Working(d) => c = d

\* Every call comes to an end, however many wait for the same lock and whoever
\* fails, is cancelled or dies while holding it.
CallsFinish ==
    \A c \in Calls : future[c] # "idle" ~> future[c] \in {"done", "dropped"}

\* A caller can act on the result: success means that its candidate was
\* installed, an aggregate error accounts for every candidate.
\* (download_binary_to_destination and its two siblings.)
ResultsTruthful == OkMeansInstalled /\ FailuresAreComplete

\* The lock of a destination does its work: attempts of awaited calls exclude
\* each other, and nobody replaces the destination without it.
\* (lock_binary_destination, lock_archive_tree_destination.)
Serialized == [][OneAttemptAtATime' /\ CommitLocked]_vars
=============================================================================
