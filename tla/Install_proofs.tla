--------------------------- MODULE Install_proofs ---------------------------
(***************************************************************************)
(* Installation for any number of calls, candidates, archives, trees and   *)
(* names.                                                                  *)
(*                                                                         *)
(* Install: what is at the destination matches its digest, what a caller   *)
(* is told accounts for what was done, and nobody works on the destination *)
(* without its lock.  A call is a future and a task that run side by side. *)
(* The invariant says which of the task's steps go with which of the       *)
(* future's, who holds the lock at them, and how many failures there are.  *)
(*                                                                         *)
(* ArchiveTree, from "what comes out of an archive" on: a binary is the    *)
(* only match of the entries read so far; and an installation keeps to its *)
(* own, since what it has open is no place behind a link, each directory   *)
(* has one place, and a staged leaf is the only name of its file.          *)
(***************************************************************************)
EXTENDS Install, ArchiveTree, TLAPS, FiniteSetTheorems, SequenceTheorems

\* The steps at which an awaited binary call is at work on a candidate.
Attempt == {"staging", "downloading", "installing"}

\* Where the task is, given where the future is.
FlowInv(c) ==
    /\ future[c] \in {"idle", "staging", "downloading", "done"} => task[c] = "none"
    /\ future[c] = "locking" =>
         LockedAttempt /\ task[c] \in {"naming", "acquiring", "locked", "failed"}
    /\ future[c] = "installing" =>
         \/ task[c] \in {"verifying", "extracting", "committing", "ok", "failed"}
         \/ ~LockedAttempt /\ task[c] \in {"naming", "acquiring"}

Holds(c) == lockName[c] \in LockNames /\ holder[lockName[c]] = c

\* Who holds the lock: of a binary the future, and the task that got it for
\* the future; of a tree the task that extracts or commits.
LockInv(c) ==
    /\ LockedAttempt /\ future[c] \in Attempt => Holds(c)
    /\ task[c] = "locked" => Holds(c)
    /\ ~LockedAttempt /\ task[c] \in {"extracting", "committing"} => Holds(c)
    /\ task[c] = "acquiring" => lockName[c] \in LockNames
    /\ ~link => lockName[c] \in {"none", "path"}

\* What is extracted or committed has been verified; a tree before its lock.
StagedInv(c) ==
    /\ c \in Checked
    /\ \/ task[c] \in {"extracting", "committing"}
       \/ ~LockedAttempt /\ task[c] \in {"naming", "acquiring"}
    => staged[c] = "good"

\* One failure for each candidate that was given up, and for the last one
\* when all were.
ResultInv(c) ==
    /\ task[c] = "ok" \/ result[c] = "ok" => <<c, candidate[c]>> \in published
    /\ result[c] # "none" => future[c] = "done"
    /\ \/ /\ Len(failures[c]) + 1 = candidate[c]
          /\ result[c] # "download"
       \/ /\ future[c] = "done"
          /\ Len(failures[c]) = candidate[c]
          /\ candidate[c] = Candidates[c]
          /\ result[c] = AggregateFailureKind(failures[c])

CallInv(c) == FlowInv(c) /\ LockInv(c) /\ StagedInv(c) /\ ResultInv(c)

IInv ==
    /\ TypeOK
    /\ candidate \in [Calls -> Nat]
    /\ VerifiedContent
    /\ \A c \in Calls : CallInv(c)
-----------------------------------------------------------------------------
(***************************************************************************)
(* Types.                                                                  *)
(***************************************************************************)

\* The error a call returns is one of the two kinds.
LEMMA AggregateType ==
    \A kinds : AggregateFailureKind(kinds) \in {"install", "download"}
BY Zenon DEF AggregateFailureKind

\* What a call that ends gives up is its own.
LEMMA ReleasedType ==
    ASSUME TypeOK, NEW c \in Calls
    PROVE  /\ Released(c) \in [LockNames -> Calls \cup {Free}]
           /\ \A n \in LockNames : holder[n] # c => Released(c)[n] = holder[n]
           /\ \A n \in LockNames : holder[n] = c => Released(c)[n] = Free
BY DEF TypeOK, Released

\* A failed candidate adds one failure, and ends the call if it was the last.
LEMMA CandidateFailsType ==
    ASSUME TypeOK, candidate \in [Calls -> Nat], NEW c \in Calls,
           NEW cause \in {"install", "download"}, CandidateFails(c, cause)
    PROVE  /\ failures' \in [Calls -> Seq({"install", "download"})]
           /\ Len(failures'[c]) = Len(failures[c]) + 1
           /\ future' \in [Calls -> Futures]
           /\ candidate' \in [Calls -> Nat]
           /\ \A q \in Calls : candidate'[q] \in 1 .. Candidates[q]
           /\ result' \in [Calls -> {"none", "ok", "install", "download"}]
           /\ holder' \in [LockNames -> Calls \cup {Free}]
           /\ \/ /\ candidate'[c] = candidate[c] + 1 /\ future'[c] = "staging"
                 /\ UNCHANGED <<result, holder>>
              \/ /\ candidate'[c] = candidate[c] /\ candidate[c] = Candidates[c]
                 /\ future'[c] = "done" /\ holder' = Released(c)
                 /\ result'[c] = AggregateFailureKind(failures'[c])
<1>1. /\ failures[c] \in Seq({"install", "download"}) /\ failures \in [Calls -> Seq({"install", "download"})]
      /\ failures' = [failures EXCEPT ![c] = Append(@, cause)]
  BY DEF TypeOK, CandidateFails
<1>2. /\ failures' \in [Calls -> Seq({"install", "download"})]
      /\ Len(failures'[c]) = Len(failures[c]) + 1
  BY <1>1
<1>3. CASE MoreCandidates(c)
  <2>1. candidate' = [candidate EXCEPT ![c] = @ + 1] /\ future' = [future EXCEPT ![c] = "staging"]
        /\ UNCHANGED <<result, holder>>
    BY <1>3 DEF CandidateFails, Await
  <2>2. candidate[c] \in 1 .. Candidates[c] /\ Candidates[c] \in Nat /\ candidate[c] < Candidates[c]
    BY <1>3, InstallAssumption DEF TypeOK, MoreCandidates
  <2>3. candidate'[c] = candidate[c] + 1 /\ candidate'[c] \in 1 .. Candidates[c]
    BY <2>1, <2>2
  <2>4. \A q \in Calls : candidate'[q] \in 1 .. Candidates[q]
    BY <2>1, <2>3 DEF TypeOK
  <2> QED
    BY <1>2, <2>1, <2>2, <2>3, <2>4 DEF TypeOK, Futures
<1>4. CASE ~MoreCandidates(c)
  <2>1. /\ UNCHANGED candidate /\ future' = [future EXCEPT ![c] = "done"]
        /\ holder' = Released(c)
        /\ result' = [result EXCEPT ![c] = AggregateFailureKind(failures'[c])]
    BY <1>4 DEF CandidateFails, Finish, Await
  <2>2. candidate[c] = Candidates[c]
    BY <1>4, InstallAssumption DEF TypeOK, MoreCandidates
  <2>3. result' \in [Calls -> {"none", "ok", "install", "download"}]
    BY <2>1, AggregateType DEF TypeOK
  <2> QED
    BY <1>2, <2>1, <2>2, <2>3, ReleasedType DEF TypeOK, Futures
<1> QED
  BY <1>3, <1>4

\* A step of one call keeps every variable in its type.
LEMMA TypeStep ==
    ASSUME TypeOK, candidate \in [Calls -> Nat], [Next]_vars
    PROVE  TypeOK' /\ candidate' \in [Calls -> Nat]
<1>0. ASSUME NEW c \in Calls PROVE Released(c) \in [LockNames -> Calls \cup {Free}]
  BY ReleasedType
<1> USE DEF TypeOK, setup, attemptVars, destVars, Await, TaskGoes
<1>1. ASSUME NEW c \in Calls, Start(c) \/ NameLock(c)
      PROVE  TypeOK' /\ candidate' \in [Calls -> Nat]
  BY <1>1, ZenonT(40) DEF Start, NameLock, LockName, LockNames, Futures, Tasks
<1>2. ASSUME NEW c \in Calls, AcquireLock(c)
      PROVE  TypeOK' /\ candidate' \in [Calls -> Nat]
  BY <1>2 DEF AcquireLock, Tasks
<1>3. ASSUME NEW c \in Calls, LockFails(c)
      PROVE  TypeOK' /\ candidate' \in [Calls -> Nat]
  BY <1>3 DEF LockFails, Tasks
<1>4. ASSUME NEW c \in Calls, ReceiveLock(c)
      PROVE  TypeOK' /\ candidate' \in [Calls -> Nat]
  <2>1. task' \in [Calls -> Tasks] /\ future' \in [Calls -> Futures]
    BY <1>4 DEF ReceiveLock, Finish, Futures, Tasks
  <2>2. CASE Finish(c, "install")
    BY <1>0, <1>4, <2>1, <2>2 DEF ReceiveLock, Finish
  <2>3. CASE UNCHANGED <<result, holder>>
    BY <1>4, <2>1, <2>3 DEF ReceiveLock
  <2> QED
    BY <1>4, <2>2, <2>3 DEF ReceiveLock
<1>5. ASSUME NEW c \in Calls, DropTaskResult(c)
      PROVE  TypeOK' /\ candidate' \in [Calls -> Nat]
  BY <1>0, <1>5 DEF DropTaskResult, Tasks
<1>6. ASSUME NEW c \in Calls, StageDownload(c)
      PROVE  TypeOK' /\ candidate' \in [Calls -> Nat]
  <2>1. future' \in [Calls -> Futures] /\ staged' \in [Calls -> Contents]
    BY <1>6 DEF StageDownload, Finish, Futures, Contents
  <2>2. CASE Finish(c, "install")
    BY <1>0, <1>6, <2>1, <2>2 DEF StageDownload, Finish
  <2>3. CASE UNCHANGED <<result, holder>>
    BY <1>6, <2>1, <2>3 DEF StageDownload
  <2> QED
    BY <1>6, <2>2, <2>3 DEF StageDownload
<1>7. ASSUME NEW c \in Calls, Download(c)
      PROVE  TypeOK' /\ candidate' \in [Calls -> Nat]
  <2>1. CASE CandidateFails(c, "download") /\ UNCHANGED <<task, staged>>
    BY <1>7, <2>1, CandidateFailsType DEF Download
  <2>2. CASE /\ \E got \in {"good", "bad"} : staged' = [staged EXCEPT ![c] = got]
             /\ Await(c, "installing") /\ TaskGoes(c, "verifying")
             /\ UNCHANGED <<candidate, failures, result, holder>>
    BY <1>7, <2>2 DEF Download, Futures, Tasks, Contents
  <2> QED
    BY <1>7, <2>1, <2>2 DEF Download
<1>8. ASSUME NEW c \in Calls, Verify(c) \/ Extract(c)
      PROVE  TypeOK' /\ candidate' \in [Calls -> Nat]
  <2>1. task' \in [Calls -> Tasks]
    BY <1>8 DEF Verify, Extract, Tasks
  <2> QED
    BY <1>0, <1>8, <2>1 DEF Verify, Extract, TaskReleases
<1>9. ASSUME NEW c \in Calls, Commit(c)
      PROVE  TypeOK' /\ candidate' \in [Calls -> Nat]
  <2>1. task' \in [Calls -> Tasks] /\ holder' \in [LockNames -> Calls \cup {Free}]
    BY <1>0, <1>9 DEF Commit, CommitFailure, TaskReleases, Tasks
  <2>2. dest' \in [by : Calls \cup {Free}, content : Contents] /\ published' \subseteq Tries
    BY <1>9 DEF Commit, Tries
  <2> QED
    BY <1>9, <2>1, <2>2 DEF Commit
<1>10. ASSUME NEW c \in Calls, ReceiveInstall(c)
       PROVE  TypeOK' /\ candidate' \in [Calls -> Nat]
  <2>1. task' \in [Calls -> Tasks]
    BY <1>10 DEF ReceiveInstall, Tasks
  <2>2. CASE CandidateFails(c, "install")
    BY <1>10, <2>1, <2>2, CandidateFailsType DEF ReceiveInstall
  <2>3. CASE Finish(c, "ok") /\ UNCHANGED <<candidate, failures>>
    BY <1>10, <2>1, <2>3, <1>0 DEF ReceiveInstall, Finish, Futures
  <2> QED
    BY <1>10, <2>2, <2>3 DEF ReceiveInstall
<1>11. ASSUME NEW c \in Calls, Cancel(c) \/ Kill(c)
       PROVE  TypeOK' /\ candidate' \in [Calls -> Nat]
  <2>1. task' \in [Calls -> Tasks] /\ future' \in [Calls -> Futures]
    BY <1>11 DEF Cancel, Kill, Futures, Tasks
  <2> QED
    BY <1>0, <1>11, <2>1 DEF Cancel, Kill, DroppedWithFuture
<1>12. CASE UNCHANGED vars
  BY <1>12 DEF vars
<1> QED
  BY <1>1, <1>2, <1>3, <1>4, <1>5, <1>6, <1>7, <1>8, <1>9, <1>10, <1>11, <1>12
     DEF Next, Step
-----------------------------------------------------------------------------
(***************************************************************************)
(* The steps of a call.  Each lemma says first what the step does to the   *)
(* call that takes it, then looks at the parts of the invariant.           *)
(***************************************************************************)

\* The holder of a lock stays when others lock, unlock, end or die.
LEMMA CallKept ==
    ASSUME IInv, NEW c \in Calls, UNCHANGED setup,
           future'[c] = future[c], task'[c] = task[c], candidate'[c] = candidate[c],
           staged'[c] = staged[c], failures'[c] = failures[c], result'[c] = result[c],
           lockName'[c] = lockName[c], published \subseteq published',
           \A n \in LockNames : holder[n] = c => holder'[n] = c
    PROVE  CallInv(c)'
<1>1. CallInv(c)
  BY DEF IInv
<1>2. FlowInv(c)' /\ StagedInv(c)'
  BY <1>1 DEF CallInv, FlowInv, StagedInv, LockedAttempt, setup
<1>3. LockInv(c)'
  BY <1>1 DEF CallInv, LockInv, Holds, LockedAttempt, setup
<1>4. ResultInv(c)'
  BY <1>1 DEF CallInv, ResultInv, AggregateFailureKind
<1> QED
  BY <1>2, <1>3, <1>4 DEF CallInv

\* The steps of a call, each with what it keeps of its own call.
LEMMA StartCall == ASSUME IInv, NEW c \in Calls, Start(c) PROVE CallInv(c)'
<1>1. CallInv(c)
  BY DEF IInv
<1>2. /\ future[c] = "idle" /\ UNCHANGED <<kind, link, published>> /\ holder' = holder
      /\ candidate'[c] = candidate[c] /\ failures'[c] = failures[c] /\ result'[c] = result[c]
      /\ staged'[c] = staged[c] /\ lockName'[c] = lockName[c]
      /\ \/ LockedAttempt /\ future'[c] = "locking" /\ task'[c] = "naming"
         \/ ~LockedAttempt /\ future'[c] = "staging" /\ task'[c] = task[c]
  BY DEF Start, setup, attemptVars, destVars, Await, TaskGoes, IInv, TypeOK
<1>3. FlowInv(c)'
  BY <1>1, <1>2 DEF CallInv, FlowInv, LockedAttempt
<1>4. LockInv(c)'
  BY <1>1, <1>2 DEF CallInv, FlowInv, LockInv, Holds, LockedAttempt, Attempt
<1>5. StagedInv(c)'
  BY <1>1, <1>2 DEF CallInv, FlowInv, StagedInv, LockedAttempt
<1>6. ResultInv(c)'
  BY <1>1, <1>2 DEF CallInv, FlowInv, ResultInv, AggregateFailureKind
<1> QED
  BY <1>3, <1>4, <1>5, <1>6 DEF CallInv

LEMMA NameLockCall == ASSUME IInv, NEW c \in Calls, NameLock(c) PROVE CallInv(c)'
<1>1. CallInv(c)
  BY DEF IInv
<1>2. /\ task[c] = "naming" /\ UNCHANGED <<kind, link, published>> /\ holder' = holder
      /\ candidate'[c] = candidate[c] /\ failures'[c] = failures[c] /\ result'[c] = result[c]
      /\ staged'[c] = staged[c] /\ future'[c] = future[c]
      /\ \/ lockName'[c] = LockName(c) /\ task'[c] = "acquiring"
         \/ lockName'[c] = lockName[c] /\ task'[c] = "failed"
      /\ LockName(c) \in LockNames /\ (~link => LockName(c) = "path")
  BY DEF NameLock, LockName, LockNames, setup, attemptVars, destVars, Await, TaskGoes, IInv, TypeOK
<1>3. FlowInv(c)'
  BY <1>1, <1>2 DEF CallInv, FlowInv, LockedAttempt
<1>4. LockInv(c)'
  BY <1>1, <1>2 DEF CallInv, FlowInv, LockInv, Holds, LockedAttempt, Attempt
<1>5. StagedInv(c)'
  BY <1>1, <1>2 DEF CallInv, FlowInv, StagedInv, LockedAttempt
<1>6. ResultInv(c)'
  BY <1>1, <1>2 DEF CallInv, FlowInv, ResultInv, AggregateFailureKind
<1> QED
  BY <1>3, <1>4, <1>5, <1>6 DEF CallInv

LEMMA AcquireLockCall == ASSUME IInv, NEW c \in Calls, AcquireLock(c) PROVE CallInv(c)'
<1>1. CallInv(c)
  BY DEF IInv
<1>2. /\ task[c] = "acquiring" /\ UNCHANGED <<kind, link, published>>
      /\ candidate'[c] = candidate[c] /\ failures'[c] = failures[c] /\ result'[c] = result[c]
      /\ staged'[c] = staged[c] /\ future'[c] = future[c] /\ lockName'[c] = lockName[c]
      /\ lockName[c] \in LockNames => holder'[lockName[c]] = c
      /\ task'[c] = IF LockedAttempt THEN "locked" ELSE "extracting"
  BY DEF AcquireLock, setup, attemptVars, destVars, Await, TaskGoes, IInv, TypeOK
<1>3. FlowInv(c)'
  BY <1>1, <1>2 DEF CallInv, FlowInv, LockedAttempt
<1>4. LockInv(c)'
  BY <1>1, <1>2 DEF CallInv, FlowInv, LockInv, Holds, LockedAttempt, Attempt
<1>5. StagedInv(c)'
  BY <1>1, <1>2 DEF CallInv, FlowInv, StagedInv, LockedAttempt
<1>6. ResultInv(c)'
  BY <1>1, <1>2 DEF CallInv, FlowInv, ResultInv, AggregateFailureKind
<1> QED
  BY <1>3, <1>4, <1>5, <1>6 DEF CallInv

LEMMA LockFailsCall == ASSUME IInv, NEW c \in Calls, LockFails(c) PROVE CallInv(c)'
<1>1. CallInv(c)
  BY DEF IInv
<1>2. /\ task[c] = "acquiring" /\ UNCHANGED <<kind, link, published>> /\ holder' = holder
      /\ candidate'[c] = candidate[c] /\ failures'[c] = failures[c] /\ result'[c] = result[c]
      /\ staged'[c] = staged[c] /\ future'[c] = future[c] /\ lockName'[c] = lockName[c]
      /\ task'[c] = "failed"
  BY DEF LockFails, setup, attemptVars, destVars, Await, TaskGoes, IInv, TypeOK
<1>3. FlowInv(c)'
  BY <1>1, <1>2 DEF CallInv, FlowInv, LockedAttempt
<1>4. LockInv(c)'
  BY <1>1, <1>2 DEF CallInv, FlowInv, LockInv, Holds, LockedAttempt, Attempt
<1>5. StagedInv(c)'
  BY <1>1, <1>2 DEF CallInv, FlowInv, StagedInv, LockedAttempt
<1>6. ResultInv(c)'
  BY <1>1, <1>2 DEF CallInv, FlowInv, ResultInv, AggregateFailureKind
<1> QED
  BY <1>3, <1>4, <1>5, <1>6 DEF CallInv

LEMMA ReceiveLockCall == ASSUME IInv, NEW c \in Calls, ReceiveLock(c) PROVE CallInv(c)'
<1>1. CallInv(c)
  BY DEF IInv
<1>2. /\ future[c] = "locking" /\ task'[c] = "none" /\ UNCHANGED <<kind, link, published>>
      /\ candidate'[c] = candidate[c] /\ failures'[c] = failures[c] /\ staged'[c] = staged[c] /\ lockName'[c] = lockName[c]
      /\ \/ /\ task[c] = "locked" /\ future'[c] = "staging"
            /\ result'[c] = result[c] /\ holder' = holder
         \/ future'[c] = "done" /\ result'[c] = "install"
  BY DEF ReceiveLock, Finish, setup, attemptVars, destVars, Await, TaskGoes, IInv, TypeOK
<1>3. FlowInv(c)'
  BY <1>1, <1>2 DEF CallInv, FlowInv, LockedAttempt
<1>4. LockInv(c)'
  BY <1>1, <1>2 DEF CallInv, FlowInv, LockInv, Holds, LockedAttempt, Attempt
<1>5. StagedInv(c)'
  BY <1>1, <1>2 DEF CallInv, FlowInv, StagedInv, LockedAttempt
<1>6. ResultInv(c)'
  BY <1>1, <1>2 DEF CallInv, FlowInv, ResultInv, AggregateFailureKind
<1> QED
  BY <1>3, <1>4, <1>5, <1>6 DEF CallInv

LEMMA DropTaskResultCall == ASSUME IInv, NEW c \in Calls, DropTaskResult(c) PROVE CallInv(c)'
<1>1. CallInv(c)
  BY DEF IInv
<1>2. /\ future[c] = "dropped" /\ task'[c] = "none" /\ UNCHANGED <<kind, link, published>>
      /\ candidate'[c] = candidate[c] /\ failures'[c] = failures[c] /\ result'[c] = result[c]
      /\ staged'[c] = staged[c] /\ future'[c] = future[c] /\ lockName'[c] = lockName[c]
  BY DEF DropTaskResult, setup, attemptVars, destVars, Await, TaskGoes, IInv, TypeOK
<1>3. FlowInv(c)'
  BY <1>1, <1>2 DEF CallInv, FlowInv, LockedAttempt
<1>4. LockInv(c)'
  BY <1>1, <1>2 DEF CallInv, FlowInv, LockInv, Holds, LockedAttempt, Attempt
<1>5. StagedInv(c)'
  BY <1>1, <1>2 DEF CallInv, FlowInv, StagedInv, LockedAttempt
<1>6. ResultInv(c)'
  BY <1>1, <1>2 DEF CallInv, FlowInv, ResultInv, AggregateFailureKind
<1> QED
  BY <1>3, <1>4, <1>5, <1>6 DEF CallInv

LEMMA StageDownloadCall == ASSUME IInv, NEW c \in Calls, StageDownload(c) PROVE CallInv(c)'
<1>1. CallInv(c)
  BY DEF IInv
<1>2. /\ future[c] = "staging" /\ UNCHANGED <<kind, link, published>>
      /\ task'[c] = task[c] /\ candidate'[c] = candidate[c] /\ failures'[c] = failures[c] /\ lockName'[c] = lockName[c]
      /\ \/ /\ future'[c] = "downloading" /\ result'[c] = result[c]
            /\ holder' = holder
         \/ future'[c] = "done" /\ result'[c] = "install"
  BY DEF StageDownload, Finish, setup, attemptVars, destVars, Await, TaskGoes, IInv, TypeOK
<1>3. FlowInv(c)'
  BY <1>1, <1>2 DEF CallInv, FlowInv, LockedAttempt
<1>4. LockInv(c)'
  BY <1>1, <1>2 DEF CallInv, FlowInv, LockInv, Holds, LockedAttempt, Attempt
<1>5. StagedInv(c)'
  BY <1>1, <1>2 DEF CallInv, FlowInv, StagedInv, LockedAttempt
<1>6. ResultInv(c)'
  BY <1>1, <1>2 DEF CallInv, FlowInv, ResultInv, AggregateFailureKind
<1> QED
  BY <1>3, <1>4, <1>5, <1>6 DEF CallInv

\* A candidate is given up: there is one failure more, and one candidate more
\* to try unless it was the last.
LEMMA CandidateGivenUp ==
    ASSUME IInv, NEW c \in Calls, NEW cause \in {"install", "download"},
           CandidateFails(c, cause), future[c] \in {"downloading", "installing"},
           task'[c] = "none", lockName'[c] = lockName[c],
           UNCHANGED <<kind, link, published>>
    PROVE  CallInv(c)'
<1>1. CallInv(c)
  BY DEF IInv
<1>2. /\ Len(failures'[c]) = Len(failures[c]) + 1
      /\ \/ /\ candidate'[c] = candidate[c] + 1 /\ future'[c] = "staging"
            /\ result'[c] = result[c] /\ holder' = holder
         \/ /\ candidate'[c] = candidate[c] /\ candidate[c] = Candidates[c]
            /\ future'[c] = "done"
            /\ result'[c] = AggregateFailureKind(failures'[c])
  BY CandidateFailsType DEF IInv
<1>3. AggregateFailureKind(failures'[c]) \in {"install", "download"}
  BY AggregateType
<1>4. FlowInv(c)' /\ StagedInv(c)'
  BY <1>2 DEF FlowInv, StagedInv
<1>5. LockInv(c)'
  BY <1>1, <1>2 DEF CallInv, LockInv, Holds, LockedAttempt, Attempt
<1>6. ResultInv(c)'
  <2>1. candidate[c] \in Nat /\ Len(failures[c]) \in Nat
    BY DEF IInv, TypeOK
  <2> QED
    BY <1>1, <1>2, <1>3, <2>1 DEF CallInv, ResultInv
<1> QED
  BY <1>4, <1>5, <1>6 DEF CallInv

LEMMA DownloadCall == ASSUME IInv, NEW c \in Calls, Download(c) PROVE CallInv(c)'
<1>1. CallInv(c)
  BY DEF IInv
<1>2. /\ future[c] = "downloading" /\ UNCHANGED <<kind, link, published>>
      /\ lockName'[c] = lockName[c] /\ task[c] = "none"
  BY <1>1 DEF Download, setup, destVars, CallInv, FlowInv
<1>3. CASE CandidateFails(c, "download") /\ UNCHANGED <<task, staged>>
  <2>1. task'[c] = "none"
    BY <1>2, <1>3
  <2> QED
    BY <1>1, <1>2, <1>3, <2>1, CandidateGivenUp
<1>4. CASE /\ \E got \in {"good", "bad"} : staged' = [staged EXCEPT ![c] = got]
           /\ Await(c, "installing") /\ TaskGoes(c, "verifying")
           /\ UNCHANGED <<candidate, failures, result, holder>>
  <2>1. /\ future'[c] = "installing" /\ task'[c] = "verifying"
        /\ candidate'[c] = candidate[c] /\ failures'[c] = failures[c] /\ result'[c] = result[c]
    BY <1>4 DEF Await, TaskGoes, IInv, TypeOK
  <2>2. FlowInv(c)' /\ StagedInv(c)'
    BY <2>1 DEF FlowInv, StagedInv
  <2>3. LockInv(c)'
    BY <1>1, <1>2, <1>4, <2>1 DEF CallInv, LockInv, Holds, LockedAttempt, Attempt
  <2>4. ResultInv(c)'
    BY <1>1, <1>2, <2>1 DEF CallInv, ResultInv, AggregateFailureKind
  <2> QED
    BY <2>2, <2>3, <2>4 DEF CallInv
<1> QED
  BY <1>3, <1>4 DEF Download

LEMMA ReceiveInstallCall ==
    ASSUME IInv, NEW c \in Calls, ReceiveInstall(c) PROVE CallInv(c)'
<1>1. CallInv(c)
  BY DEF IInv
<1>2. /\ future[c] = "installing" /\ UNCHANGED <<kind, link, published>>
      /\ lockName'[c] = lockName[c] /\ task'[c] = "none"
  BY DEF ReceiveInstall, TaskGoes, setup, destVars, IInv, TypeOK
<1>3. CASE CandidateFails(c, "install") /\ task[c] = "failed"
  BY <1>1, <1>2, <1>3, CandidateGivenUp
<1>4. CASE Finish(c, "ok") /\ task[c] = "ok" /\ UNCHANGED <<candidate, failures>>
  <2>1. future'[c] = "done" /\ result'[c] = "ok"
    BY <1>4 DEF Finish, Await, IInv, TypeOK
  <2>2. FlowInv(c)' /\ StagedInv(c)'
    BY <1>2, <2>1 DEF FlowInv, StagedInv
  <2>3. LockInv(c)'
    BY <1>1, <1>2, <2>1 DEF CallInv, LockInv, Attempt
  <2>4. ResultInv(c)'
    BY <1>1, <1>2, <1>4, <2>1 DEF CallInv, ResultInv
  <2> QED
    BY <2>2, <2>3, <2>4 DEF CallInv
<1> QED
  BY <1>3, <1>4 DEF ReceiveInstall

LEMMA VerifyCall == ASSUME IInv, NEW c \in Calls, Verify(c) PROVE CallInv(c)'
<1>1. CallInv(c)
  BY DEF IInv
<1>2. /\ task[c] = "verifying" /\ UNCHANGED <<kind, link, published>> /\ holder' = holder
      /\ candidate'[c] = candidate[c] /\ failures'[c] = failures[c] /\ result'[c] = result[c]
      /\ staged'[c] = staged[c] /\ future'[c] = future[c] /\ lockName'[c] = lockName[c]
      /\ \/ /\ c \in Checked => staged[c] = "good"
            /\ task'[c] = IF LockedAttempt THEN "extracting" ELSE "naming"
         \/ task'[c] = "failed"
  BY DEF Verify, DigestMatches, setup, attemptVars, destVars, Await, TaskGoes, IInv, TypeOK
<1>3. FlowInv(c)'
  BY <1>1, <1>2 DEF CallInv, FlowInv, LockedAttempt
<1>4. LockInv(c)'
  BY <1>1, <1>2 DEF CallInv, FlowInv, LockInv, Holds, LockedAttempt, Attempt
<1>5. StagedInv(c)'
  BY <1>1, <1>2 DEF CallInv, FlowInv, StagedInv, LockedAttempt
<1>6. ResultInv(c)'
  BY <1>1, <1>2 DEF CallInv, FlowInv, ResultInv, AggregateFailureKind
<1> QED
  BY <1>3, <1>4, <1>5, <1>6 DEF CallInv

LEMMA ExtractCall == ASSUME IInv, NEW c \in Calls, Extract(c) PROVE CallInv(c)'
<1>1. CallInv(c)
  BY DEF IInv
<1>2. /\ task[c] = "extracting" /\ UNCHANGED <<kind, link, published>>
      /\ candidate'[c] = candidate[c] /\ failures'[c] = failures[c] /\ result'[c] = result[c]
      /\ staged'[c] = staged[c] /\ future'[c] = future[c] /\ lockName'[c] = lockName[c]
      /\ \/ task'[c] = "committing" /\ holder' = holder
         \/ task'[c] = "failed" /\ (LockedAttempt => holder' = holder)
  BY DEF Extract, TaskReleases, setup, attemptVars, destVars, Await, TaskGoes, IInv, TypeOK
<1>3. FlowInv(c)'
  BY <1>1, <1>2 DEF CallInv, FlowInv, LockedAttempt
<1>4. LockInv(c)'
  BY <1>1, <1>2 DEF CallInv, FlowInv, LockInv, Holds, LockedAttempt, Attempt
<1>5. StagedInv(c)'
  BY <1>1, <1>2 DEF CallInv, FlowInv, StagedInv, LockedAttempt
<1>6. ResultInv(c)'
  BY <1>1, <1>2 DEF CallInv, FlowInv, ResultInv, AggregateFailureKind
<1> QED
  BY <1>3, <1>4, <1>5, <1>6 DEF CallInv

LEMMA CommitCall == ASSUME IInv, NEW c \in Calls, Commit(c) PROVE CallInv(c)'
<1>1. CallInv(c)
  BY DEF IInv
<1>2. /\ task[c] = "committing" /\ UNCHANGED <<kind, link>>
      /\ candidate'[c] = candidate[c] /\ failures'[c] = failures[c] /\ result'[c] = result[c]
      /\ staged'[c] = staged[c] /\ future'[c] = future[c] /\ lockName'[c] = lockName[c]
      /\ LockedAttempt => holder' = holder
      /\ published \subseteq published'
      /\ \/ task'[c] \in {"ok", "failed"} /\ <<c, candidate[c]>> \in published'
         \/ task'[c] = "failed"
  BY DEF Commit, CommitFailure, TaskReleases, setup, attemptVars, destVars, Await, TaskGoes, IInv, TypeOK
<1>3. FlowInv(c)'
  BY <1>1, <1>2 DEF CallInv, FlowInv, LockedAttempt
<1>4. LockInv(c)'
  BY <1>1, <1>2 DEF CallInv, FlowInv, LockInv, Holds, LockedAttempt, Attempt
<1>5. StagedInv(c)'
  BY <1>1, <1>2 DEF CallInv, FlowInv, StagedInv, LockedAttempt
<1>6. ResultInv(c)'
  BY <1>1, <1>2 DEF CallInv, FlowInv, ResultInv, AggregateFailureKind
<1> QED
  BY <1>3, <1>4, <1>5, <1>6 DEF CallInv

LEMMA CancelCall == ASSUME IInv, NEW c \in Calls, Cancel(c) PROVE CallInv(c)'
<1>1. CallInv(c)
  BY DEF IInv
<1>2. /\ future[c] \in {"locking", "downloading", "installing"} /\ future'[c] = "dropped"
      /\ UNCHANGED <<kind, link, published>>
      /\ candidate'[c] = candidate[c] /\ failures'[c] = failures[c] /\ result'[c] = result[c]
      /\ staged'[c] = staged[c] /\ task'[c] = task[c] /\ lockName'[c] = lockName[c]
      /\ ~LockedAttempt \/ future[c] = "locking" => holder' = holder
  BY DEF Cancel, Awaiting, DroppedWithFuture, setup, attemptVars, destVars, Await, TaskGoes, IInv, TypeOK
<1>3. FlowInv(c)'
  BY <1>1, <1>2 DEF CallInv, FlowInv, LockedAttempt
<1>4. LockInv(c)'
  BY <1>1, <1>2 DEF CallInv, FlowInv, LockInv, Holds, LockedAttempt, Attempt
<1>5. StagedInv(c)'
  BY <1>1, <1>2 DEF CallInv, FlowInv, StagedInv, LockedAttempt
<1>6. ResultInv(c)'
  BY <1>1, <1>2 DEF CallInv, FlowInv, ResultInv, AggregateFailureKind
<1> QED
  BY <1>3, <1>4, <1>5, <1>6 DEF CallInv

LEMMA KillCall == ASSUME IInv, NEW c \in Calls, Kill(c) PROVE CallInv(c)'
<1>1. CallInv(c)
  BY DEF IInv
<1>2. /\ future[c] \notin {"idle", "done"} /\ future'[c] = "done" /\ task'[c] = "none"
      /\ UNCHANGED <<kind, link, published>>
      /\ candidate'[c] = candidate[c] /\ failures'[c] = failures[c] /\ result'[c] = result[c]
      /\ staged'[c] = staged[c] /\ lockName'[c] = lockName[c]
  BY DEF Kill, setup, attemptVars, destVars, Await, TaskGoes, IInv, TypeOK
<1>3. FlowInv(c)'
  BY <1>1, <1>2 DEF CallInv, FlowInv, LockedAttempt
<1>4. LockInv(c)'
  BY <1>1, <1>2 DEF CallInv, FlowInv, LockInv, Holds, LockedAttempt, Attempt
<1>5. StagedInv(c)'
  BY <1>1, <1>2 DEF CallInv, FlowInv, StagedInv, LockedAttempt
<1>6. ResultInv(c)'
  BY <1>1, <1>2 DEF CallInv, FlowInv, ResultInv, AggregateFailureKind
<1> QED
  BY <1>3, <1>4, <1>5, <1>6 DEF CallInv
-----------------------------------------------------------------------------
(***************************************************************************)
(* The whole system.                                                       *)
(***************************************************************************)

\* The invariant holds at first.
LEMMA InitIInv == Init => IInv
<1> SUFFICES ASSUME Init PROVE IInv
  OBVIOUS
<1>1. TypeOK /\ candidate \in [Calls -> Nat]
  BY InstallAssumption DEF Init, TypeOK, Futures, Tasks, Contents
<1>2. VerifiedContent
  BY InstallAssumption DEF Init, VerifiedContent
<1>3. ASSUME NEW c \in Calls PROVE CallInv(c)
  BY <1>3 DEF Init, CallInv, FlowInv, LockInv, StagedInv, ResultInv, Attempt
<1> QED
  BY <1>1, <1>2, <1>3 DEF IInv

\* A step of call r is no step of another call, and leaves its lock alone.
LEMMA OthersKept ==
    ASSUME IInv, NEW r \in Calls, Step(r) \/ LockFails(r) \/ Cancel(r) \/ Kill(r),
           NEW c \in Calls \ {r}
    PROVE  CallInv(c)'
<1> USE DEF IInv, TypeOK
<1>1. UNCHANGED setup /\ published \subseteq published'
  BY DEF Step, Start, NameLock, AcquireLock, ReceiveLock, DropTaskResult, StageDownload,
     Download, Verify, Extract, Commit, ReceiveInstall, LockFails, Cancel, Kill, destVars
<1>2. /\ future'[c] = future[c] /\ task'[c] = task[c]
      /\ staged'[c] = staged[c] /\ lockName'[c] = lockName[c]
  BY DEF Step, Start, NameLock, AcquireLock, ReceiveLock, DropTaskResult, StageDownload,
     Download, Verify, Extract, Commit, ReceiveInstall, LockFails, Cancel, Kill,
     Finish, CandidateFails, Await, TaskGoes, attemptVars
<1>3. /\ candidate'[c] = candidate[c] /\ failures'[c] = failures[c]
      /\ result'[c] = result[c]
  BY DEF Step, Start, NameLock, AcquireLock, ReceiveLock, DropTaskResult, StageDownload,
     Download, Verify, Extract, Commit, ReceiveInstall, LockFails, Cancel, Kill,
     Finish, CandidateFails, attemptVars
<1>4. ASSUME NEW n \in LockNames, holder[n] = c PROVE holder'[n] = c
  <2>1. c # Free /\ Released(r)[n] = c
    BY <1>4, InstallAssumption, ReleasedType
  <2>2. CASE AcquireLock(r)
    BY <1>4, <2>1, <2>2 DEF AcquireLock, LockFree
  <2>3. CASE holder' = holder \/ holder' = Released(r)
    BY <1>4, <2>1, <2>3
  <2> QED
    BY <2>2, <2>3 DEF Step, Start, NameLock, ReceiveLock, DropTaskResult, StageDownload,
       Download, Verify, Extract, Commit, ReceiveInstall, LockFails, Cancel, Kill,
       Finish, CandidateFails, TaskReleases, DroppedWithFuture
<1> QED
  BY <1>1, <1>2, <1>3, <1>4, CallKept

\* A step keeps the invariant of its call, and those of the others, whose
\* lock it cannot take.
LEMMA IInvStep == ASSUME IInv, [Next]_vars PROVE IInv'
<1>1. TypeOK' /\ candidate' \in [Calls -> Nat]
  BY TypeStep DEF IInv
<1>2. ASSUME NEW r \in Calls, Step(r) \/ LockFails(r) \/ Cancel(r) \/ Kill(r)
      PROVE  VerifiedContent' /\ \A c \in Calls : CallInv(c)'
  <2>1. CallInv(r)'
    BY <1>2, StartCall, NameLockCall, AcquireLockCall, LockFailsCall, ReceiveLockCall,
       DropTaskResultCall, StageDownloadCall, DownloadCall, VerifyCall, ExtractCall,
       CommitCall, ReceiveInstallCall, CancelCall, KillCall DEF Step
  <2>2. VerifiedContent'
    <3>1. CASE Commit(r) /\ dest' = [by |-> r, content |-> staged[r]]
      BY <3>1 DEF Commit, VerifiedContent, IInv, CallInv, StagedInv
    <3>2. CASE UNCHANGED dest
      BY <3>2 DEF VerifiedContent, IInv
    <3> QED
      BY <1>2, <3>1, <3>2 DEF Step, Start, NameLock, AcquireLock, ReceiveLock,
         DropTaskResult, StageDownload, Download, Verify, Extract, Commit, ReceiveInstall,
         LockFails, Cancel, Kill, destVars
  <2> QED
    BY <1>2, <2>1, <2>2, OthersKept
<1>3. CASE UNCHANGED vars
  <2>1. VerifiedContent'
    BY <1>3 DEF vars, IInv, VerifiedContent
  <2>2. ASSUME NEW c \in Calls PROVE CallInv(c)'
    BY <1>3, CallKept DEF vars, setup
  <2> QED
    BY <1>1, <2>1, <2>2 DEF IInv
<1> QED
  BY <1>1, <1>2, <1>3 DEF Next, IInv

\* The inductive invariant holds in every state.
THEOREM Invariance == Spec => []IInv
<1>1. Init => IInv
  BY InitIInv
<1>2. IInv /\ [Next]_vars => IInv'
  BY IInvStep
<1> QED
  BY <1>1, <1>2, PTL DEF Spec
-----------------------------------------------------------------------------
(***************************************************************************)
(* What the properties say.                                                *)
(***************************************************************************)

\* Every variable keeps its type.
THEOREM TypeCorrect == Spec => []TypeOK
<1>1. IInv => TypeOK
  BY DEF IInv
<1> QED
  BY <1>1, Invariance, PTL

\* What a call with a digest installs matches it, whoever else installs,
\* fails, is cancelled or dies meanwhile: verify_downloaded_candidate.
THEOREM InstalledIsVerified == Spec => []VerifiedContent
<1>1. IInv => VerifiedContent
  BY DEF IInv
<1> QED
  BY <1>1, Invariance, PTL

\* A caller can act on what it is told: aggregate_failure_kind and the results
\* of download_binary_to_destination and its siblings.
THEOREM ResultsAreTruthful == Spec => []ResultsTruthful
<1>1. IInv => ResultsTruthful
  <2> SUFFICES ASSUME IInv PROVE ResultsTruthful
    OBVIOUS
  <2>1. OkMeansInstalled
    BY DEF IInv, CallInv, ResultInv, OkMeansInstalled
  <2>2. ASSUME NEW c \in Calls, result[c] \in {"install", "download"},
               candidate[c] = Len(failures[c])
        PROVE  /\ Len(failures[c]) = Candidates[c]
               /\ (result[c] = "download") <=>
                      (\A i \in DOMAIN failures[c] : failures[c][i] = "download")
    <3>1. /\ candidate[c] \in Nat /\ Len(failures[c]) \in Nat
          /\ \A i \in DOMAIN failures[c] : failures[c][i] \in {"download", "install"}
      BY DEF IInv, TypeOK
    <3>2. ResultInv(c)
      BY DEF IInv, CallInv
    <3>3. /\ candidate[c] = Candidates[c]
          /\ result[c] = AggregateFailureKind(failures[c])
      BY <2>2, <3>1, <3>2 DEF ResultInv
    <3> QED
      BY <2>2, <3>1, <3>3 DEF AggregateFailureKind
  <2> QED
    BY <2>1, <2>2 DEF FailuresAreComplete, ResultsTruthful
<1> QED
  BY <1>1, Invariance, PTL

\* The lock of a destination does its work, in every step: awaited attempts
\* exclude each other and nobody installs without the lock
\* (lock_binary_destination, lock_archive_tree_destination).
THEOREM AttemptsAreSerialized == Spec => Serialized
<1>1. IInv => OneAttemptAtATime
  <2> SUFFICES ASSUME IInv, LockedAttempt, ~link, NEW c \in Calls, NEW d \in Calls,
                      future[c] # "dropped", Working(c), future[d] # "dropped", Working(d)
               PROVE  c = d
    BY DEF OneAttemptAtATime
  <2>1. ASSUME NEW b \in Calls, future[b] # "dropped", Working(b)
        PROVE  holder["path"] = b
    <3>1. future[b] \in Attempt
      BY <2>1 DEF Working, Attempt, IInv, TypeOK, Futures, CallInv, FlowInv
    <3>2. lockName[b] = "path" /\ Holds(b)
      BY <3>1 DEF IInv, CallInv, LockInv, Holds, LockNames
    <3> QED
      BY <3>2 DEF Holds
  <2> QED
    BY <2>1
<1>2. ASSUME IInv, [Next]_vars PROVE CommitLocked
  <2> SUFFICES ASSUME dest' # dest, LockedAttempt => future[dest'.by] # "dropped"
               PROVE  \E n \in LockNames : holder[n] = dest'.by
    BY DEF CommitLocked
  <2>1. PICK r \in Calls : Commit(r)
    BY <1>2 DEF Next, Step, Start, NameLock, AcquireLock, ReceiveLock, DropTaskResult,
       StageDownload, Download, Verify, Extract, ReceiveInstall, LockFails, Cancel, Kill,
       destVars, vars
  <2>2. dest'.by = r /\ task[r] = "committing"
    BY <2>1 DEF Commit, destVars
  <2>3. Holds(r)
    BY <1>2, <2>2 DEF IInv, TypeOK, Futures, CallInv, FlowInv, LockInv, Attempt
  <2> QED
    BY <2>2, <2>3 DEF Holds
<1>3. IInv /\ IInv' /\ [Next]_vars => OneAttemptAtATime' /\ CommitLocked
  BY <1>1, <1>2, PTL
<1> QED
  BY <1>3, Invariance, PTL DEF Spec, Serialized

\* ---------------------------------------- what comes out of an archive
\* The entries a search has turned to.
WantedBefore(k) == {i \in 1..(k - 1) : Wanted(req.entries[i])}

\* Where a search is: with a hint nothing has been found yet; without one, at
\* most one entry, and it is held back.
ScanInv ==
  pc = "scan" =>
    /\ next \in 1..(Len(req.entries) + 1) /\ written = {} /\ res = "none"
    /\ \/ WantedBefore(next) = {} /\ match = NoMatch
       \/ /\ req.hint = <<>>
          /\ \E i \in WantedBefore(next) : /\ WantedBefore(next) = {i} /\ req.entries[i].type = "file"
                                           /\ match = Found(req.entries[i])
\* What is known of a search.
BinaryInv ==
  /\ req \in Requests
  /\ req.op = "binary" =>
       /\ pc \in {"start", "scan", "done"}
       /\ pc = "start" => next = 1 /\ match = NoMatch /\ written = {} /\ res = "none"
       /\ ScanInv /\ BinaryUnique

\* The steps of an installation by what is open.
Walking == {"ancestors", "parent"}
Staged  == {"format", "read", "chain", "leaf", "rename", "links", "output", "origin", "target", "staged", "commitlink"}
Linking == {"output", "origin", "target", "staged", "commitlink"}
TempHeld == {"rename", "staged", "commitlink"}
Places  == Dirs \ Behind

\* Paths of names; the hard links that wait.
PlainPaths == Seq(Plain) \ {<<>>}
PendingLinks == [path : PlainPaths, target : PlainPaths]

\* Each directory has one place, nothing is extracted outside, and files from
\* there are nowhere else.
FileTree(t) == t \in FileTrees /\ OnePlace(t) /\ Apart(t) /\ KeptOutside(t) /\ HiddenStays(t)
TreeInv == FileTree(fs)

\* Where a call is, and the hard links it has seen.
RequestInv ==
  /\ insensitive \in BOOLEAN /\ req \in Requests
  /\ pc \in {"start", "ambient", "lockroot", "scan", "done"} \cup Walking \cup Staged
  /\ next \in Nat \ {0}
  /\ pending \in Seq(PendingLinks) /\ remaining \in Seq(PendingLinks)
  /\ noop \in BOOLEAN

\* What a call has open is no place behind a link.
OpenInv ==
  /\ IF pc \in Staged THEN base \in Places /\ top \in Places
     ELSE /\ base \in Places \cup {NoHandle} /\ top \in Places \cup {NoHandle}
          /\ pc # "done" => base = NoHandle /\ top = NoHandle
  /\ pc \in Walking \cup {"chain", "leaf", "rename"} \cup Linking => dir \in Places
  /\ pc \in {"origin", "target"} => from \in Places

\* What it has still to walk are names.
PathInv ==
  /\ pc \notin {"start", "scan", "done"} => req.dest \in PlainPaths
  /\ pc \in Walking \cup {"lockroot", "chain", "output", "origin"} => rest \in Seq(Plain)
  /\ pc \in {"chain", "leaf", "rename"} => next <= Len(req.entries) /\ Safe(Entry.path)
  /\ pc \in Linking => pending # <<>>

\* The staged directory is in the parent; the only staged leaf is where the
\* call is at work, and is the only name of its file.
LeafInv ==
  /\ pc \in Staged => fs[base][Stage] = DirEntry(top)
  /\ \A d \in Dirs : fs[d][Stage] # Absent => d = base /\ pc # "done"
  /\ ~noop => \A d \in Dirs : fs[d][Temp] # Absent =>
                 \/ pc \in TempHeld /\ d = dir
                 \/ pc = "done" /\ res # "ok"
  /\ pc \in TempHeld => fs[dir][Temp].kind \in {"file", "link"}
  /\ pc = "rename" /\ fs[dir][Temp].kind = "file" =>
       \A d \in Dirs, n \in Names : fs[d][n].kind = "file" /\ fs[d][n].ino = fs[dir][Temp].ino => d = dir /\ n = Temp

\* What is known of an installation.
KeepInv == TreeInv /\ RequestInv /\ OpenInv /\ PathInv /\ LeafInv

\* What a request is made of.
LEMMA RequestParts ==
    ASSUME req \in Requests
    PROVE  /\ req.op \in {"tree", "binary"} /\ req.entries \in Seq(ArchiveEntries)
           /\ Len(req.entries) \in Nat /\ All = 1..Len(req.entries)
           /\ \A i \in All : req.entries[i] \in ArchiveEntries
           /\ req.dest \in Seq(Plain \cup {".", ".."}) /\ req.dest # <<>> /\ req.buffered \in BOOLEAN
<1>1. req \in RequestTypes
  BY ArchiveAssumption
<1>2. req.entries \in Seq(ArchiveEntries)
  BY <1>1 DEF RequestTypes
<1> QED
  BY <1>1, <1>2 DEF RequestTypes, All

\* Entries that are not wanted and entries that are, one by one.
LEMMA OneMoreWanted ==
    ASSUME NEW k \in Nat \ {0}
    PROVE  /\ WantedBefore(1) = {}
           /\ Wanted(req.entries[k]) => WantedBefore(k + 1) = WantedBefore(k) \cup {k}
           /\ ~Wanted(req.entries[k]) => WantedBefore(k + 1) = WantedBefore(k)
           /\ k \notin WantedBefore(k)
BY DEF WantedBefore

\* An entry that is wanted without a hint has a path.
LEMMA WantedIsFound ==
    ASSUME NEW e, req.hint = <<>>, Wanted(e)
    PROVE  Found(e) # NoMatch
<1>1. Len(e.path) >= 2
  BY DEF Wanted
<1>2. e.path # <<>>
  BY <1>1
<1> QED
  BY <1>2 DEF Found, NoMatch

\* The first of the entries.
LEMMA FirstOfMany ==
    ASSUME NEW S \in SUBSET Nat, NEW i \in S, \A j \in S : i <= j
    PROVE  (CHOOSE k \in S : \A j \in S : k <= j) = i
<1>1. \A k \in S : (\A j \in S : k <= j) => k = i
  BY SMT
<1> QED
  BY <1>1

\* The steps of an installation of a tree.
TreeCall == \/ BeginTree \/ OpenAmbientBase \/ OpenLockRoot \/ OpenLockFile \/ ValidateAncestors \/ OpenParent
            \/ StageDirectory \/ WalkArchive \/ ReadTarEntry \/ ReadZipEntry \/ OpenChain \/ EntryAtParent
            \/ StageLeaf \/ CommitLeaf \/ EndOfArchive \/ NextRound \/ BeginLink \/ OpenOutputParent
            \/ OpenTargetParent \/ OpenTarget \/ StageLink \/ CheckLink \/ CommitLink \/ CommitTree

\* They are not those of a search.
LEMMA TreeCallGuard ==
    ASSUME TreeCall
    PROVE  pc \notin {"start", "scan", "done"} \/ req.op = "tree"
BY Zenon DEF TreeCall, BeginTree, OpenAmbientBase, OpenLockRoot, OpenLockFile, ValidateAncestors, OpenParent, StageDirectory,
  WalkArchive, ReadTarEntry, ReadZipEntry, ReadEntry, OpenChain, EntryAtParent, StageLeaf, CommitLeaf, EndOfArchive,
  NextRound, BeginLink, OpenOutputParent, OpenTargetParent, OpenTarget, StageLink, CheckLink, CommitLink, CommitTree

\* A step of a scan.
LEMMA BinaryScan ==
    ASSUME BinaryInv, req.op = "binary", ScanEntry
    PROVE  BinaryInv'
<1> DEFINE e == req.entries[next]
<1>1. /\ pc = "scan" /\ next \in All /\ next \in Nat \ {0} /\ next + 1 \in 1..(Len(req.entries) + 1)
      /\ written = {} /\ res = "none"
  BY RequestParts DEF BinaryInv, ScanInv, ScanEntry, EntriesLeft
<1>2. req' = req /\ All' = All
  BY DEF ScanEntry, Fail, FailIn, Keep, WriterFails, All
<1>3. \A i : Wanted(i)' = Wanted(i)
  BY <1>2 DEF Wanted
<1>4. \A k : WantedBefore(k)' = WantedBefore(k)
  BY <1>2, <1>3 DEF WantedBefore
<1>5. \/ WantedBefore(next) = {} /\ match = NoMatch
      \/ /\ req.hint = <<>>
         /\ \E i \in WantedBefore(next) : /\ WantedBefore(next) = {i} /\ req.entries[i].type = "file"
                                          /\ match = Found(req.entries[i])
  BY <1>1 DEF BinaryInv, ScanInv
<1>6. CASE Fail("ArchiveRead") \/ Fail("EntryBudget") \/ Fail("NotRegularFile") \/ Fail("Ambiguous")
  <2>1. pc' = "done" /\ res' # "ok" /\ written' = {}
    BY <1>1, <1>6 DEF Fail, FailIn, binVars
  <2>2. BinaryUnique'
    BY <2>1 DEF BinaryUnique
  <2> QED
    BY <1>2, <2>1, <2>2 DEF BinaryInv, ScanInv
<1>7. CASE /\ next' = next + 1 /\ ~Wanted(e) /\ UNCHANGED <<pc, binVars, res>>
  <2>1. WantedBefore(next + 1) = WantedBefore(next)
    BY <1>1, <1>7, OneMoreWanted
  <2>2. ScanInv'
    BY <1>1, <1>2, <1>4, <1>5, <1>7, <2>1 DEF ScanInv, binVars, Found
  <2> QED
    BY <1>1, <1>2, <1>7, <2>2 DEF BinaryInv, BinaryUnique
<1>8. ASSUME NEW r, NEW part, r # "ok", req.hint = <<>> /\ r # "Write" => part = {}, WriterFails(part, r)
      PROVE  BinaryInv'
  <2>1. pc' = "done" /\ res' = r /\ written' = part
    BY <1>8 DEF WriterFails
  <2>2. BinaryUnique'
    BY <1>2, <1>8, <2>1 DEF BinaryUnique
  <2> QED
    BY <1>2, <2>1, <2>2 DEF BinaryInv, ScanInv
<1>9. CASE /\ Wanted(e) /\ e.type = "file" /\ req.hint # <<>> /\ pc' = "done" /\ res' = "ok" /\ match' = Found(e)
           /\ written' = IF req.buffered THEN {} ELSE {e.data}
  <2>1. WantedBefore(next) = {}
    BY <1>5, <1>9
  <2> DEFINE found == {i \in All : Wanted(req.entries[i])}
  <2>2. next \in found /\ found \subseteq Nat /\ \A j \in found : next <= j
    BY <1>1, <1>9, <2>1 DEF WantedBefore, All
  <2>3. (CHOOSE k \in found : \A j \in found : k <= j) = next
    BY <2>2, FirstOfMany
  <2>4. found' = found
    BY <1>2, <1>3
  <2> HIDE DEF found
  <2>5. /\ (CHOOSE k \in found : \A j \in found : k <= j)' = next
        /\ written' \subseteq {e.data} /\ match' = Found(e)
    BY <1>9, <2>3, <2>4
  <2>6. BinaryUnique'
    BY <1>2, <1>9, <2>5 DEF BinaryUnique, found
  <2> QED
    BY <1>2, <1>9, <2>6 DEF BinaryInv, ScanInv
<1>10. CASE /\ Wanted(e) /\ e.type = "file" /\ req.hint = <<>> /\ ~Ambiguous /\ match' = Found(e) /\ next' = next + 1
            /\ UNCHANGED <<pc, written, res>>
  <2>1. WantedBefore(next) = {}
    BY <1>5, <1>10, WantedIsFound DEF Ambiguous, WantedBefore
  <2>2. WantedBefore(next + 1) = {next}
    BY <1>1, <1>10, <2>1, OneMoreWanted
  <2>3. ScanInv'
    BY <1>1, <1>2, <1>4, <1>10, <2>2 DEF ScanInv
  <2> QED
    BY <1>1, <1>2, <1>10, <2>3 DEF BinaryInv, BinaryUnique
<1> QED
  BY <1>6, <1>7, <1>8, <1>9, <1>10 DEF ScanEntry, Entry, binVars

\* The end of a scan.
LEMMA BinaryEnd ==
    ASSUME BinaryInv, req.op = "binary", FinishMatch \/ WriteMatch
    PROVE  BinaryInv'
<1>1. pc = "scan" /\ next = Len(req.entries) + 1 /\ written = {} /\ res = "none" /\ Len(req.entries) \in Nat
  BY RequestParts DEF BinaryInv, ScanInv, FinishMatch, WriteMatch, EntriesLeft
<1>2. req' = req /\ All' = All
  BY DEF FinishMatch, WriteMatch, Fail, FailIn, Keep, WriterFails, All
<1> DEFINE found == {i \in All : Wanted(req.entries[i])}
<1>3. found' = found
  BY <1>2 DEF Wanted
<1>4. found = WantedBefore(next)
  BY <1>1 DEF All, WantedBefore
<1>5. pc' = "done"
  BY DEF FinishMatch, WriteMatch, Fail, FailIn, WriterFails
<1>6. CASE res' = "ok"
  <2>1. match # NoMatch /\ match' = match /\ written' \subseteq {match.data}
    BY <1>1, <1>6 DEF FinishMatch, WriteMatch, Fail, FailIn, WriterFails, binVars
  <2>2. PICK i \in found : found = {i} /\ req.entries[i].type = "file" /\ match = Found(req.entries[i]) /\ req.hint = <<>>
    BY <1>1, <1>4, <2>1 DEF BinaryInv, ScanInv
  <2>3. i \in Nat /\ found \subseteq Nat
    BY <2>2 DEF All
  <2>4. (CHOOSE k \in found : \A j \in found : k <= j) = i
    BY <2>2, <2>3, FirstOfMany
  <2>5. written' \subseteq {req.entries[i].data}
    BY <2>1, <2>2 DEF Found
  <2> HIDE DEF found
  <2>6. (CHOOSE k \in found : \A j \in found : k <= j)' = i
    BY <1>3, <2>4
  <2>7. BinaryUnique'
    BY <1>2, <1>3, <1>6, <2>1, <2>2, <2>5, <2>6 DEF BinaryUnique, found, Found
  <2> QED
    BY <1>2, <1>5, <2>7 DEF BinaryInv, ScanInv
<1>7. CASE res' # "ok"
  <2>1. res' # "Write" => written' = {}
    BY <1>1, <1>7 DEF FinishMatch, WriteMatch, Fail, FailIn, WriterFails, binVars
  <2> QED
    BY <1>2, <1>5, <1>7, <2>1 DEF BinaryInv, ScanInv, BinaryUnique
<1> QED
  BY <1>6, <1>7

\* Nobody changes the request.
LEMMA RequestStays ==
    ASSUME [ArchiveNext]_archiveVars
    PROVE  req' = req /\ insensitive' = insensitive
<1>1. CASE TreeCall
  BY <1>1, Zenon DEF TreeCall, BeginTree, OpenAmbientBase, OpenLockRoot, OpenLockFile, ValidateAncestors, OpenParent,
    StageDirectory, WalkArchive, ReadTarEntry, ReadZipEntry, ReadEntry, OpenChain, EntryAtParent, StageLeaf, CommitLeaf,
    EndOfArchive, NextRound, BeginLink, OpenOutputParent, OpenTargetParent, OpenTarget, StageLink, CheckLink,
    CommitLink, CommitTree, Component, Fail, FailIn, Walked, Keep, NextEntry, Postpone
<1>2. CASE ScanEntry \/ FinishMatch \/ WriteMatch \/ BeginBinary
  BY <1>2 DEF ScanEntry, FinishMatch, WriteMatch, BeginBinary, Fail, FailIn, Walked, Keep, WriterFails
<1>3. CASE UNCHANGED archiveVars
  BY <1>3 DEF archiveVars
<1>4. CASE \E x \in ForeignSlots : Exchange(x[1], x[2], x[3])
  BY <1>4 DEF Exchange
<1> QED
  BY <1>1, <1>2, <1>3, <1>4 DEF ArchiveNext, Call, Terminated, TreeCall, Scan, ExtractFromTarGz, ExtractFromTarGzToWriter,
    ExtractFromTarXz, ExtractFromTarXzToWriter, ExtractFromZip, ExtractFromZipToWriter

\* Every step of a search keeps what is known of it.
LEMMA BinaryStep ==
    ASSUME BinaryInv, [ArchiveNext]_archiveVars
    PROVE  BinaryInv'
<1>1. CASE UNCHANGED archiveVars
  BY <1>1, ZenonT(40)
     DEF archiveVars, openVars, readVars, binVars, BinaryInv, ScanInv, BinaryUnique, WantedBefore, Wanted, All
<1>2. req' = req /\ req \in Requests
  BY RequestStays DEF BinaryInv
<1>3. CASE req.op # "binary"
  BY <1>2, <1>3 DEF BinaryInv
<1>4. CASE TreeCall /\ req.op = "binary"
  <2>1. pc \in {"start", "scan", "done"}
    BY <1>4 DEF BinaryInv
  <2> QED
    BY <1>4, <2>1, TreeCallGuard
<1>5. CASE (\E x \in ForeignSlots : Exchange(x[1], x[2], x[3])) /\ req.op = "binary"
  BY <1>5 DEF Exchange
<1>6. CASE BeginBinary /\ req.op = "binary"
  <2>1. CASE Fail("UnsupportedArchiveType")
    BY <1>2, <1>6, <2>1 DEF BeginBinary, BinaryInv, ScanInv, BinaryUnique, Fail, FailIn, binVars
  <2>2. CASE Supported /\ pc' = "scan" /\ UNCHANGED <<fs, dir, rest>> /\ Walked
    <3>1. next' = 1 /\ match' = NoMatch /\ written' = {} /\ res' = "none" /\ pc' = "scan"
      BY <1>6, <2>2 DEF BeginBinary, BinaryInv, Walked, readVars, binVars
    <3>2. Len(req.entries) \in Nat /\ WantedBefore(1)' = {}
      BY <1>2, RequestParts DEF WantedBefore
    <3>3. ScanInv'
      BY <1>2, <3>1, <3>2 DEF ScanInv
    <3> QED
      BY <1>2, <3>1, <3>3 DEF BinaryInv, BinaryUnique
  <2> QED
    BY <1>6, <2>1, <2>2 DEF BeginBinary
<1>7. CASE ScanEntry /\ req.op = "binary"
  BY <1>7, BinaryScan
<1>8. CASE (FinishMatch \/ WriteMatch) /\ req.op = "binary"
  BY <1>8, BinaryEnd
<1>9. TreeCall \/ BeginBinary \/ ScanEntry \/ FinishMatch \/ WriteMatch \/ UNCHANGED archiveVars
      \/ \E x \in ForeignSlots : Exchange(x[1], x[2], x[3])
  BY DEF ArchiveNext, Call, Terminated, TreeCall, Scan, ExtractFromTarGz, ExtractFromTarGzToWriter,
    ExtractFromTarXz, ExtractFromTarXzToWriter, ExtractFromZip, ExtractFromZipToWriter
<1> QED
  BY <1>1, <1>3, <1>4, <1>5, <1>6, <1>7, <1>8, <1>9, SMTT(20)

\* A binary that is extracted is the only one of its name, or the first of the
\* path asked for, whatever the archive holds.
THEOREM OneBinary == ArchiveSpec => []BinaryUnique
<1>1. ArchiveInit => BinaryInv
  BY DEF ArchiveInit, BinaryInv, ScanInv, BinaryUnique
<1>2. BinaryInv /\ [ArchiveNext]_archiveVars => BinaryInv'
  BY BinaryStep
<1>3. BinaryInv => BinaryUnique
  BY DEF BinaryInv, BinaryUnique
<1> QED
  BY <1>1, <1>2, <1>3, PTL DEF ArchiveSpec

\* What is assumed of names and identities.
LEMMA NamesAssumed ==
    /\ Outside \in Dirs /\ Outside # Root /\ Root \in Dirs /\ NoHandle \notin Dirs
    /\ Up \in Names /\ Stage \in Names /\ Temp \in Names /\ Lock \in Names /\ Lock \in Plain
    /\ Stage # Up /\ Temp # Up /\ Temp # Stage /\ Plain \subseteq Names
    /\ Up \notin Plain /\ Stage \notin Plain /\ Temp \notin Plain
    /\ IsFiniteSet(Names) /\ IsFiniteSet(Dirs)
BY ArchiveAssumption, TreeAssumption DEF Plain

\* A name is found as another one of its kind.
LEMMA NameType ==
    ASSUME NEW n \in Names
    PROVE  /\ Name(n) \in Names
           /\ n \in Plain <=> Name(n) \in Plain
           /\ Name(Lock) = Lock
           /\ \A x \in {Up, Stage, Temp, Lock} : Name(n) = x <=> n = x
BY ArchiveAssumption, TreeAssumption DEF Name, Plain

\* The entries that are made.
LEMMA EntriesOfTrees ==
    /\ Absent \in TreeEntries /\ Absent.kind = "absent"
    /\ \A i \in Nat, x \in Data : FileEntry(i, x) \in TreeEntries /\ FileEntry(i, x).kind = "file"
                                   /\ FileEntry(i, x).ino = i /\ FileEntry(i, x).data = x
    /\ \A i \in Dirs : DirEntry(i) \in TreeEntries
    /\ \A i : DirEntry(i).kind = "dir" /\ DirEntry(i).ino = i
    /\ \A q \in Seq(Names \cup Segments) : LinkEntry(q) \in TreeEntries /\ LinkEntry(q).kind = "link"
BY DEF TreeEntries, Absent, FileEntry, DirEntry, LinkEntry

\* What an entry is by its kind.
LEMMA KindsOfEntries ==
    ASSUME NEW e \in TreeEntries
    PROVE  /\ e.kind \in {"absent", "file", "dir", "link"}
           /\ e.kind = "absent" => e = Absent
           /\ e.kind = "dir" => e.ino \in Dirs /\ e = DirEntry(e.ino)
           /\ e.kind = "file" => e.ino \in Nat /\ e.data \in Data
BY DEF TreeEntries, Absent, DirEntry

\* An entry is put in its place.
LEMMA PutTree ==
    ASSUME NEW t \in FileTrees, NEW d, NEW n \in Names, NEW e \in TreeEntries
    PROVE  /\ Put(t, d, n, e) \in FileTrees
           /\ \A x \in Dirs, m \in Names : Put(t, d, n, e)[x][m] = IF x = d /\ m = n THEN e ELSE t[x][m]
BY DEF FileTrees, Put

\* What is in a tree.
LEMMA TreeHas ==
    ASSUME NEW t \in FileTrees, NEW d \in Dirs, NEW n \in Names
    PROVE  t[d][n] \in TreeEntries
BY DEF FileTrees

\* A tree that has the same outside keeps what is behind and hidden.
LEMMA SameOutside ==
    ASSUME NEW t, NEW u, \A n \in Names : u[Outside][n] = t[Outside][n]
    PROVE  BehindIn(u) = BehindIn(t) /\ HiddenIn(u) = HiddenIn(t) /\ (KeptOutside(t) => KeptOutside(u))
BY DEF BehindIn, HiddenIn, KeptOutside

\* A leaf that is put, or taken away, leaves a file tree, unless it is hidden.
LEMMA PutLeaf ==
    ASSUME NEW t, FileTree(t), NEW d \in Dirs \ BehindIn(t), NEW n \in Names, NEW e \in TreeEntries,
           e.kind # "dir", e.kind = "file" => e.ino \notin HiddenIn(t)
    PROVE  /\ FileTree(Put(t, d, n, e))
           /\ BehindIn(Put(t, d, n, e)) = BehindIn(t) /\ HiddenIn(Put(t, d, n, e)) = HiddenIn(t)
<1> DEFINE u == Put(t, d, n, e)
<1>1. /\ u \in FileTrees /\ \A x \in Dirs, m \in Names : u[x][m] = IF x = d /\ m = n THEN e ELSE t[x][m]
  BY PutTree DEF FileTree
<1>2. d # Outside /\ Outside \in Dirs
  BY NamesAssumed DEF BehindIn
<1> HIDE DEF u
<1>3. BehindIn(u) = BehindIn(t) /\ HiddenIn(u) = HiddenIn(t) /\ KeptOutside(u)
  BY <1>1, <1>2, SameOutside DEF FileTree
<1>4. OnePlace(u)
  BY <1>1 DEF FileTree, OnePlace
<1>5. Apart(u)
  BY <1>1 DEF FileTree, Apart
<1>6. HiddenStays(u)
  BY <1>1, <1>3 DEF FileTree, HiddenStays
<1> QED
  BY <1>1, <1>3, <1>4, <1>5, <1>6 DEF FileTree, u

\* A directory that is nowhere else gets a place, behind a link or not.
LEMMA PutDir ==
    ASSUME NEW t, FileTree(t), NEW d, NEW n \in Names \ {Up}, NEW i \in Dirs \ {Root, Outside},
           \A x \in Dirs, m \in Names : t[x][m].kind = "dir" => t[x][m].ino # i,
           d = Outside => t[d][n].kind \notin {"dir", "file"}
    PROVE  /\ FileTree(Put(t, d, n, DirEntry(i)))
           /\ d # Outside => BehindIn(Put(t, d, n, DirEntry(i))) = BehindIn(t) /\ i \notin BehindIn(t)
           /\ d # Outside => HiddenIn(Put(t, d, n, DirEntry(i))) = HiddenIn(t)
<1> DEFINE e == DirEntry(i)
           u == Put(t, d, n, e)
<1>1. e \in TreeEntries /\ e.kind = "dir" /\ e.ino = i
  BY EntriesOfTrees
<1>2. /\ u \in FileTrees /\ \A x \in Dirs, m \in Names : u[x][m] = IF x = d /\ m = n THEN e ELSE t[x][m]
  BY <1>1, PutTree DEF FileTree
<1>3. Outside \in Dirs
  BY NamesAssumed
<1> HIDE DEF u, e
<1>4. OnePlace(u)
  BY <1>1, <1>2 DEF FileTree, OnePlace
<1>5. Apart(u)
  BY <1>1, <1>2 DEF FileTree, Apart
<1>6. BehindIn(t) \subseteq BehindIn(u)
  <2>1. \A m \in Names, j \in Dirs : t[Outside][m] = DirEntry(j) => u[Outside][m] = DirEntry(j)
    BY <1>2, <1>3, EntriesOfTrees
  <2> QED
    BY <2>1 DEF BehindIn
<1>7. HiddenIn(u) = HiddenIn(t)
  <2>1. \A m \in Names : u[Outside][m].kind = "file" <=> t[Outside][m].kind = "file"
    BY <1>1, <1>2, <1>3
  <2>2. \A m \in Names : t[Outside][m].kind = "file" => u[Outside][m] = t[Outside][m]
    BY <1>1, <1>2, <1>3
  <2> QED
    BY <2>1, <2>2 DEF HiddenIn
<1>8. KeptOutside(u)
  BY <1>1, <1>2, <1>3 DEF FileTree, KeptOutside
<1>9. HiddenStays(u)
  BY <1>1, <1>2, <1>6, <1>7 DEF FileTree, HiddenStays
<1>10. d # Outside => BehindIn(u) = BehindIn(t) /\ i \notin BehindIn(t)
  <2>1. d # Outside => BehindIn(u) = BehindIn(t)
    BY <1>2, <1>3, SameOutside
  <2>2. i \notin BehindIn(t)
    BY <1>3, EntriesOfTrees DEF BehindIn
  <2> QED
    BY <2>1, <2>2
<1> QED
  BY <1>2, <1>4, <1>5, <1>7, <1>8, <1>9, <1>10 DEF FileTree, u, e

\* A new file gets the name of the lock, behind a link or not.
LEMMA PutLock ==
    ASSUME NEW t, FileTree(t), NEW d, NEW i \in Nat,
           \A x \in Dirs, m \in Names : t[x][m].kind = "file" => t[x][m].ino # i,
           d = Outside => t[d][Lock].kind \notin {"dir", "file"}
    PROVE  FileTree(Put(t, d, Lock, FileEntry(i, "lock")))
<1> DEFINE e == FileEntry(i, "lock")
           u == Put(t, d, Lock, e)
<1>1. e \in TreeEntries /\ e.kind = "file" /\ e.ino = i
  <2>1. e = [kind |-> "file", ino |-> i, data |-> "lock"]
    BY DEF FileEntry
  <2>2. "lock" \in Data
    BY ArchiveAssumption
  <2> HIDE DEF e
  <2> QED
    BY <2>1, <2>2 DEF TreeEntries
<1>2. /\ u \in FileTrees /\ \A x \in Dirs, m \in Names : u[x][m] = IF x = d /\ m = Lock THEN e ELSE t[x][m]
  BY <1>1, PutTree, NamesAssumed, SMTT(40) DEF FileTree
<1>3. Outside \in Dirs
  BY NamesAssumed
<1> HIDE DEF u, e
<1>4. OnePlace(u)
  BY <1>1, <1>2 DEF FileTree, OnePlace
<1>5. Apart(u)
  BY <1>1, <1>2 DEF FileTree, Apart
<1>6. BehindIn(t) \subseteq BehindIn(u)
  <2>1. \A m \in Names, j \in Dirs : t[Outside][m] = DirEntry(j) => u[Outside][m] = DirEntry(j)
    BY <1>2, <1>3, EntriesOfTrees
  <2> QED
    BY <2>1 DEF BehindIn
<1>7. HiddenIn(u) \subseteq HiddenIn(t) \cup {i}
  BY <1>1, <1>2, <1>3 DEF HiddenIn
<1>8. KeptOutside(u)
  BY <1>1, <1>2, <1>3 DEF FileTree, KeptOutside
<1>9. d # Outside => HiddenIn(u) = HiddenIn(t)
  BY <1>2, <1>3, SameOutside
<1>10. HiddenStays(u)
  <2> SUFFICES ASSUME NEW x \in Dirs \ BehindIn(u), NEW m \in Names, u[x][m].kind = "file" PROVE u[x][m].ino \notin HiddenIn(u)
    BY DEF HiddenStays
  <2>1. x \in Dirs \ BehindIn(t) /\ x # Outside
    BY <1>6 DEF BehindIn
  <2>2. CASE x = d /\ m = Lock
    BY <1>1, <1>2, <1>3, <1>9, <2>1, <2>2 DEF HiddenIn
  <2>3. CASE ~(x = d /\ m = Lock)
    <3>1. u[x][m] = t[x][m] /\ t[x][m].ino # i
      BY <1>2, <2>3
    <3> QED
      BY <1>7, <2>1, <3>1 DEF FileTree, HiddenStays
  <2> QED
    BY <2>2, <2>3
<1> QED
  BY <1>2, <1>4, <1>5, <1>8, <1>10 DEF FileTree, u, e

\* Another program exchanges two entries of a directory that is not outside.
LEMMA Swapped ==
    ASSUME NEW t, FileTree(t), NEW d \in Dirs \ {Outside}, NEW n \in Plain, NEW m \in Plain, NEW u \in FileTrees,
           \A x \in Dirs, k \in Names : u[x][k] = IF x = d /\ k = m THEN t[d][n]
                                                  ELSE IF x = d /\ k = n THEN t[d][m] ELSE t[x][k]
    PROVE  FileTree(u) /\ BehindIn(u) = BehindIn(t)
<1>1. t \in FileTrees /\ n \in Names /\ m \in Names /\ n # Up /\ m # Up /\ Outside \in Dirs
  BY NamesAssumed DEF FileTree
<1>4. \A k \in Names : u[Outside][k] = t[Outside][k]
  BY <1>1
<1>5. BehindIn(u) = BehindIn(t) /\ HiddenIn(u) = HiddenIn(t) /\ KeptOutside(u)
  BY <1>4, SameOutside DEF FileTree
<1>6. OnePlace(u)
  BY <1>1 DEF FileTree, OnePlace
<1>7. Apart(u)
  BY <1>1 DEF FileTree, Apart
<1>8. HiddenStays(u)
  BY <1>1, <1>5 DEF FileTree, HiddenStays
<1> QED
  BY <1>5, <1>6, <1>7, <1>8 DEF FileTree

\* Every file and directory of the tree has a number.
LEMMA InodesOfTrees ==
    \A x \in Dirs, m \in Names : fs[x][m].kind \in {"file", "dir"} => fs[x][m].ino \in Inodes
<1> SUFFICES ASSUME NEW x \in Dirs, NEW m \in Names, fs[x][m].kind \in {"file", "dir"}
             PROVE  fs[x][m].ino \in Inodes
  OBVIOUS
<1> DEFINE y == <<x, m>>
<1>1. y \in Dirs \X Names /\ y[1] = x /\ y[2] = m
  OBVIOUS
<1> HIDE DEF y
<1> QED
  BY <1>1, Zenon DEF Inodes

\* There is always a number no file has.
LEMMA FreshFileIsNew ==
    ASSUME fs \in FileTrees
    PROVE  /\ FreshFile \in Nat
           /\ \A x \in Dirs, m \in Names : fs[x][m].kind \in {"file", "dir"} => fs[x][m].ino # FreshFile
<1> DEFINE S == {y \in Dirs \X Names : fs[y[1]][y[2]].kind \in {"file", "dir"}}
           f == [x \in S |-> fs[x[1]][x[2]].ino]
           c == Cardinality(Inodes)
<1>1. IsFiniteSet(Dirs \X Names)
  BY NamesAssumed, FS_Product
<1>2. IsFiniteSet(S)
  <2> DEFINE T == Dirs \X Names
  <2>1. S \in SUBSET T
    OBVIOUS
  <2> HIDE DEF S, T
  <2> QED
    BY <1>1, <2>1, FS_Subset DEF T
<1>3. f \in Surjection(S, Inodes)
  BY Zenon DEF Surjection, Inodes
<1>4. IsFiniteSet(Inodes)
  <2> HIDE DEF f, S
  <2> QED
    BY <1>2, <1>3, FS_Surjection
<1>5. c \in Nat
  BY <1>4, FS_CardinalityType
<1>6. Cardinality(100..(101 + c)) = c + 2
  <2> HIDE DEF c
  <2>1. 100 \in Int /\ 101 + c \in Int
    BY <1>5
  <2>2. Cardinality(100..(101 + c)) = IF 100 > 101 + c THEN 0 ELSE (101 + c) - 100 + 1
    BY <2>1, FS_Interval
  <2> QED
    BY <1>5, <2>2
<1>7. \E i \in 100..(101 + c) : i \notin Inodes
  <2> SUFFICES ASSUME 100..(101 + c) \subseteq Inodes PROVE FALSE
    OBVIOUS
  <2> DEFINE R == 100..(101 + c)
  <2>1. R \in SUBSET Inodes
    OBVIOUS
  <2>2. Cardinality(R) <= c
    <3> HIDE DEF R
    <3> QED
      BY <1>4, <2>1, FS_Subset
  <2> HIDE DEF c
  <2> QED
    BY <1>5, <1>6, <2>2
<1>8. FreshFile \in 100..(101 + c) /\ FreshFile \notin Inodes
  BY <1>7 DEF FreshFile
<1>9. FreshFile \in Nat
  <2> HIDE DEF c
  <2> QED
    BY <1>5, <1>8
<1> QED
  BY <1>8, <1>9, InodesOfTrees

\* The directory that is made is nowhere yet.
LEMMA FreshDirIsNew ==
    ASSUME UnusedDirs # {}
    PROVE  /\ FreshDir \in Dirs \ {Root, Outside, top}
           /\ \A x \in Dirs, m \in Names : fs[x][m].kind \in {"file", "dir"} => fs[x][m].ino # FreshDir
<1>1. FreshDir \in UnusedDirs
  BY DEF FreshDir
<1> QED
  BY <1>1, InodesOfTrees DEF UnusedDirs

\* A sequence is one of the elements it has.
LEMMA Narrower ==
    ASSUME NEW S, NEW T, NEW z \in Seq(S), \A i \in 1..Len(z) : z[i] \in T
    PROVE  z \in Seq(T)
OBVIOUS

\* What a safe path of an archive becomes.
LEMMA SafePath ==
    ASSUME NEW q \in Components, Safe(q)
    PROVE  Sanitized(q) \in PlainPaths
<1>1. q \in Seq(Segments) /\ \A i \in 1..Len(q) : q[i] \notin {"/", ".."} /\ Len(q) \in Nat
  BY DEF Components, Safe
<1>2. \A i \in 2..Len(q) : q[i] \in Plain
  BY <1>1 DEF Components, Segments
<1>3. CASE q # <<>> /\ Head(q) = "."
  <2>1. Tail(q) \in Seq(Segments) /\ Len(Tail(q)) = Len(q) - 1 /\ \A i \in 1..Len(Tail(q)) : Tail(q)[i] = q[i + 1]
    BY <1>1, <1>3, HeadTailProperties
  <2>2. \A i \in 1..Len(Tail(q)) : Tail(q)[i] \in Plain
    BY <1>1, <1>2, <2>1
  <2>3. Tail(q) \in Seq(Plain)
    BY <2>1, <2>2, Narrower
  <2> QED
    BY <1>3, <2>3 DEF Sanitized, Safe, PlainPaths
<1>4. CASE q = <<>>
  BY <1>4 DEF Safe, Sanitized
<1>5. CASE q # <<>> /\ Head(q) # "."
  <2>1. q[1] \in Plain
    BY <1>1, <1>5 DEF Segments
  <2>2. q \in Seq(Plain)
    BY <1>1, <1>2, <2>1, Narrower
  <2> QED
    BY <1>5, <2>2 DEF Sanitized, PlainPaths
<1> QED
  BY <1>3, <1>4, <1>5

\* The last name of a path and those before it.
LEMMA PathEnds ==
    ASSUME NEW q \in PlainPaths
    PROVE  Front(q) \in Seq(Plain) /\ Last(q) \in Plain /\ q \in Seq(Plain)
BY DEF PlainPaths, Front, Last

\* The same tree is as good as it was.
LEMMA SameTree ==
    ASSUME fs' = fs
    PROVE  Places' = Places /\ Behind' = Behind /\ TreeInv' = TreeInv
BY DEF Places, Behind, BehindIn, TreeInv, FileTree, OnePlace, Apart, KeptOutside, HiddenStays, HiddenIn

\* What is open is a directory of the tree that is not behind a link.
LEMMA PlacesAre ==
    /\ Places \subseteq Dirs /\ Outside \notin Places /\ Behind \subseteq Dirs
    /\ \A d : d \in Places <=> d \in Dirs \ BehindIn(fs)
BY NamesAssumed DEF Places, Behind, BehindIn

\* The root is not behind a link.
LEMMA RootIsPlace ==
    ASSUME NEW t, FileTree(t)
    PROVE  Root \in Dirs \ BehindIn(t)
<1>1. ASSUME NEW n \in Names, t[Outside][n] = DirEntry(Root) PROVE FALSE
  BY <1>1, NamesAssumed, EntriesOfTrees DEF FileTree, Apart
<1> QED
  BY <1>1, NamesAssumed DEF BehindIn

\* One component down, without following a link, is not behind one.
LEMMA Descend ==
    ASSUME TreeInv, NEW d \in Places, NEW n \in Plain, OpenDirectory(d, n) = "ok"
    PROVE  Handle(d, n) \in Places
<1> DEFINE e == fs[d][Name(n)]
<1>1. Name(n) \in Names /\ Name(n) # Up /\ d \in Dirs /\ d # Outside
  BY NameType, NamesAssumed, PlacesAre
<1>2. e.kind = "dir" /\ Handle(d, n) = e.ino
  BY DEF OpenDirectory, Handle, At
<1>3. e \in TreeEntries
  BY <1>1, TreeHas DEF TreeInv, FileTree
<1>4. e.ino \in Dirs /\ e = DirEntry(e.ino) /\ e.ino # Outside
  BY <1>1, <1>2, <1>3, KindsOfEntries DEF TreeInv, FileTree, Apart
<1>5. ASSUME NEW m \in Names, fs[Outside][m] = DirEntry(e.ino) PROVE FALSE
  BY <1>1, <1>2, <1>4, <1>5, NamesAssumed DEF TreeInv, FileTree, OnePlace
<1> QED
  BY <1>2, <1>4, <1>5 DEF Places, Behind, BehindIn

\* The steps of a call.
Steps == {"start", "ambient", "lockroot", "scan", "done"} \cup Walking \cup Staged

\* A step that leaves the tree alone and goes on.
LEMMA Quiet ==
    ASSUME KeepInv, UNCHANGED <<fs, base, top, req, insensitive, noop>>,
           pc # "done", pc' \in Steps \ {"done"}, pc \in Staged <=> pc' \in Staged,
           pc \in TempHeld <=> pc' \in TempHeld, pc \in TempHeld => dir' = dir, pc' = "rename" => pc = "rename",
           pc' \in Walking \cup {"chain", "leaf", "rename"} \cup Linking => dir' \in Places,
           pc' \in {"origin", "target"} => from' \in Places,
           next' \in Nat \ {0}, pending' \in Seq(PendingLinks), remaining' \in Seq(PendingLinks),
           PathInv'
    PROVE  KeepInv'
<1>1. Places' = Places /\ TreeInv'
  BY SameTree DEF KeepInv
<1>2. RequestInv'
  BY DEF KeepInv, RequestInv, Steps
<1>3. OpenInv'
  BY <1>1 DEF KeepInv, OpenInv
<1>4. LeafInv'
  <2>1. LeafInv
    BY DEF KeepInv
  <2>2. pc \in Staged => fs[base][Stage] = DirEntry(top)
    BY <2>1 DEF LeafInv
  <2>3. \A d \in Dirs : fs[d][Stage] # Absent => d = base
    BY <2>1 DEF LeafInv
  <2>4. ~noop => \A d \in Dirs : fs[d][Temp] # Absent => pc \in TempHeld /\ d = dir
    BY <2>1 DEF LeafInv
  <2>5. pc \in TempHeld => fs[dir][Temp].kind \in {"file", "link"}
    BY <2>1 DEF LeafInv
  <2>6. pc = "rename" /\ fs[dir][Temp].kind = "file" =>
          \A d \in Dirs, n \in Names : fs[d][n].kind = "file" /\ fs[d][n].ino = fs[dir][Temp].ino => d = dir /\ n = Temp
    BY <2>1 DEF LeafInv
  <2>7. "rename" \in TempHeld /\ pc' # "done"
    BY DEF TempHeld
  <2> HIDE DEF Steps, Staged, TempHeld, PathInv, Walking, Linking, Places
  <2>8. ~noop' => \A d \in Dirs : fs'[d][Temp] # Absent => pc' \in TempHeld /\ d = dir'
    BY <2>4
  <2>9. pc' \in TempHeld => fs'[dir'][Temp].kind \in {"file", "link"}
    BY <2>5
  <2>10. pc' = "rename" => pc = "rename" /\ dir' = dir
    BY <2>7
  <2> QED
    BY <2>2, <2>3, <2>6, <2>7, <2>8, <2>9, <2>10 DEF LeafInv
<1> QED
  BY <1>1, <1>2, <1>3, <1>4 DEF KeepInv

\* A call that fails removes the staged directory and what it removes it from
\* may lack the staged leaf.
LEMMA Failing ==
    ASSUME KeepInv, NEW t, pc # "done",
           pc' = "done", res' # "ok", fs' = WithoutStage(t),
           UNCHANGED <<base, top, req, insensitive, next, pending, remaining, noop>>,
           \/ t = fs
           \/ t = Put(fs, dir, Temp, Absent) /\ dir \in Places
    PROVE  KeepInv'
<1>1. FileTree(fs) /\ TreeInv /\ Absent \in TreeEntries /\ Absent.kind = "absent"
  BY EntriesOfTrees DEF KeepInv, TreeInv
<1>2. /\ FileTree(t) /\ BehindIn(t) = BehindIn(fs)
      /\ \A d \in Dirs, n \in Names : t[d][n] = fs[d][n] \/ n = Temp
  <2>1. CASE t = fs
    BY <1>1, <2>1
  <2>2. CASE t = Put(fs, dir, Temp, Absent) /\ dir \in Places
    <3>1. dir \in Dirs \ BehindIn(fs) /\ Temp \in Names
      BY <2>2, PlacesAre, NamesAssumed
    <3>2. FileTree(t) /\ BehindIn(t) = BehindIn(fs)
      BY <1>1, <2>2, <3>1, PutLeaf
    <3>3. \A d \in Dirs, n \in Names : t[d][n] = IF d = dir /\ n = Temp THEN Absent ELSE fs[d][n]
      BY <1>1, <2>2, <3>1, PutTree DEF FileTree
    <3> QED
      BY <3>2, <3>3
  <2> QED
    BY <2>1, <2>2
<1>3. /\ pc' = "done" /\ res' # "ok" /\ fs' = WithoutStage(t)
      /\ UNCHANGED <<base, top, req, insensitive, next, pending, remaining, noop>>
  OBVIOUS
<1>4. base \in Places \cup {NoHandle} /\ top \in Places \cup {NoHandle}
  BY DEF KeepInv, OpenInv
<1>5. /\ FileTree(fs') /\ BehindIn(fs') = BehindIn(fs)
      /\ \A d \in Dirs : fs'[d][Stage] = Absent
  <2>1. \A d \in Dirs : d # base => t[d][Stage] = Absent
    BY <1>2, NamesAssumed DEF KeepInv, LeafInv
  <2>2. CASE base = NoHandle
    BY <1>2, <1>3, <2>1, <2>2, NamesAssumed DEF WithoutStage
  <2>3. CASE base # NoHandle
    <3>1. base \in Dirs \ BehindIn(t) /\ Stage \in Names /\ fs' = Put(t, base, Stage, Absent)
      BY <1>2, <1>3, <1>4, <2>3, PlacesAre, NamesAssumed DEF WithoutStage
    <3>2. FileTree(fs') /\ BehindIn(fs') = BehindIn(t)
      BY <1>1, <1>2, <3>1, PutLeaf
    <3>3. \A d \in Dirs, n \in Names : fs'[d][n] = IF d = base /\ n = Stage THEN Absent ELSE t[d][n]
      BY <1>1, <1>2, <3>1, PutTree DEF FileTree
    <3> QED
      BY <1>2, <2>1, <3>1, <3>2, <3>3
  <2> QED
    BY <2>2, <2>3
<1>6. Places' = Places /\ TreeInv'
  BY <1>5 DEF Places, Behind, TreeInv
<1>7. RequestInv'
  BY <1>3 DEF KeepInv, RequestInv
<1>8. OpenInv' /\ PathInv'
  BY <1>3, <1>4, <1>6 DEF OpenInv, PathInv, Staged, Walking, Linking
<1>9. LeafInv'
  BY <1>3, <1>5 DEF LeafInv, Staged, TempHeld
<1> QED
  BY <1>6, <1>7, <1>8, <1>9 DEF KeepInv

\* A call that ends without a stage leaves everything as it is.
LEMMA ScanOver ==
    ASSUME KeepInv, UNCHANGED <<fs, base, top, req, insensitive, next, pending, remaining, noop>>,
           pc = "scan", pc' = "done"
    PROVE  KeepInv'
<1>1. Places' = Places /\ TreeInv'
  BY SameTree DEF KeepInv
<1>2. RequestInv' /\ PathInv'
  BY DEF KeepInv, RequestInv, PathInv, Walking, Linking
<1>3. OpenInv'
  BY <1>1 DEF KeepInv, OpenInv, Staged, Walking, Linking
<1>4. LeafInv'
  BY NamesAssumed DEF KeepInv, LeafInv, OpenInv, Staged, TempHeld
<1> QED
  BY <1>1, <1>2, <1>3, <1>4 DEF KeepInv

\* A failure of a call that leaves what is open as it is.
LEMMA CallFails ==
    ASSUME KeepInv, NEW r, r # "ok", Fail(r), pc # "done"
    PROVE  KeepInv'
<1>1. /\ pc' = "done" /\ res' # "ok" /\ fs' = WithoutStage(fs)
      /\ UNCHANGED <<base, top, req, insensitive, next, pending, remaining, noop>>
  BY DEF Fail, FailIn, Keep, readVars, linkVars
<1> QED
  BY <1>1, Failing

\* A failure at a staged leaf.
LEMMA LeafFails ==
    ASSUME KeepInv, NEW r, r # "ok", FailIn(Put(fs, dir, Temp, Absent), r), pc # "done", dir \in Places
    PROVE  KeepInv'
<1>1. /\ pc' = "done" /\ res' # "ok" /\ fs' = WithoutStage(Put(fs, dir, Temp, Absent))
      /\ UNCHANGED <<base, top, req, insensitive, next, pending, remaining, noop>>
  BY DEF FailIn, Keep, readVars, linkVars
<1> QED
  BY <1>1, Failing

\* The parts of what is known of a call, to cite.
LEMMA KeepParts ==
    ASSUME KeepInv
    PROVE  /\ TreeInv /\ FileTree(fs) /\ fs \in FileTrees /\ RequestInv /\ OpenInv /\ PathInv /\ LeafInv
           /\ req \in Requests /\ req \in RequestTypes /\ next \in Nat \ {0}
           /\ pending \in Seq(PendingLinks) /\ remaining \in Seq(PendingLinks)
BY ArchiveAssumption DEF KeepInv, TreeInv, FileTree, RequestInv

\* The entry at hand.
LEMMA EntryType ==
    ASSUME KeepInv, next <= Len(req.entries)
    PROVE  /\ Entry \in ArchiveEntries
           /\ Safe(Entry.path) => Path(Entry) \in PlainPaths /\ Front(Path(Entry)) \in Seq(Plain)
                                   /\ Last(Path(Entry)) \in Plain /\ Path(Entry) \in Seq(Plain)
<1>1. Entry \in ArchiveEntries
  BY KeepParts, RequestParts DEF Entry, All
<1>2. Entry.path \in Components
  BY <1>1 DEF ArchiveEntries
<1>3. Safe(Entry.path) => Path(Entry) \in PlainPaths
  BY <1>2, SafePath DEF Path
<1> QED
  BY <1>1, <1>3, PathEnds

\* The hard link at hand.
LEMMA LinkAtHand ==
    ASSUME KeepInv, pending # <<>>
    PROVE  /\ Front(Head(pending).path) \in Seq(Plain) /\ Last(Head(pending).path) \in Plain
           /\ Front(Head(pending).target) \in Seq(Plain) /\ Last(Head(pending).target) \in Plain
           /\ Head(pending) \in PendingLinks /\ Tail(pending) \in Seq(PendingLinks)
<1>1. Head(pending) \in PendingLinks /\ Tail(pending) \in Seq(PendingLinks)
  BY KeepParts
<1>2. Head(pending).path \in PlainPaths /\ Head(pending).target \in PlainPaths
  BY <1>1 DEF PendingLinks
<1> QED
  BY <1>1, <1>2, PathEnds

\* The destination is a path of names.
LEMMA BeginTreeKeeps ==
    ASSUME KeepInv, BeginTree
    PROVE  KeepInv'
<1>1. CASE Fail("InvalidInput")
  BY <1>1, CallFails DEF BeginTree
<1>2. CASE Normalized(req.dest) /\ pc' = "ambient" /\ UNCHANGED <<fs, dir, rest>> /\ Walked
  <2>1. req.dest \in PlainPaths
    <3>1. req.dest \in Seq(Plain \cup {".", ".."}) /\ req.dest # <<>>
      BY KeepParts, RequestParts
    <3>2. \A i \in 1..Len(req.dest) : req.dest[i] \in Plain
      BY <1>2, <3>1 DEF Normalized
    <3> QED
      BY <3>1, <3>2, Narrower DEF PlainPaths
  <2>2. PathInv'
    BY <1>2, <2>1 DEF PathInv, Walked, Keep, Walking, Linking
  <2> QED
    BY <1>2, <2>2, Quiet, KeepParts DEF BeginTree, Walked, Keep, readVars, linkVars, Steps, Staged, Walking, Linking, TempHeld
<1> QED
  BY <1>1, <1>2 DEF BeginTree

\* A set of numbers that is bounded has a largest one.
LEMMA Largest ==
    ASSUME NEW m \in Nat, NEW S, S \subseteq 0..m, S # {}
    PROVE  \E k \in S : \A j \in S : j <= k
<1> DEFINE Less == {pair \in Nat \X Nat : pair[1] < pair[2]}
           D == {d \in Nat : \E j \in S : d = m - j}
<1>1. IsWellFoundedOn(Less, Nat)
  BY NatLessThanWellFounded DEF OpToRel
<1>2. \A j \in S : j \in Nat /\ j <= m /\ m - j \in D
  OBVIOUS
<1>3. D \subseteq Nat /\ D # {}
  BY <1>2
<1> HIDE DEF D, Less
<1>4. PICK x \in D : \A y \in D : ~(<<y, x>> \in Less)
  BY <1>1, <1>3, WFMin
<1>5. \A y \in D : x <= y
  <2> SUFFICES ASSUME NEW y \in D PROVE x <= y
    OBVIOUS
  <2>1. x \in Nat /\ y \in Nat /\ ~(<<y, x>> \in Less)
    BY <1>3, <1>4
  <2>2. y < x => <<y, x>> \in Less
    BY <2>1 DEF Less
  <2> QED
    BY <2>1, <2>2
<1>6. PICK k \in S : x = m - k
  BY <1>4 DEF D
<1>7. ASSUME NEW j \in S PROVE j <= k
  <2>1. j \in Nat /\ k \in Nat /\ m - k <= m - j
    BY <1>2, <1>5, <1>6
  <2> QED
    BY <2>1
<1> QED
  BY <1>7

\* What the ancestors that are not there yet are called.
LEMMA OpenAmbientBaseKeeps ==
    ASSUME KeepInv, OpenAmbientBase
    PROVE  KeepInv'
<1> DEFINE q == Front(req.dest)
           k == AmbientPart(q)
           b == Canonicalize(fs, SubSeq(q, 1, k))
           there == {j \in 0..Len(q) : /\ j < Len(q) \/ j = 0
                                      /\ \A i \in 1..j : Lstat(fs, SubSeq(q, 1, i)).kind \notin {"absent", "error"}}
<1>1. q \in Seq(Plain) /\ Len(q) \in Nat /\ req.dest \in PlainPaths
  <2>1. req.dest \in PlainPaths
    BY KeepParts DEF PathInv, OpenAmbientBase
  <2> QED
    BY <2>1, PathEnds
<1>2. k \in there
  <2>1. there \subseteq 0..Len(q) /\ 0 \in there
    BY <1>1
  <2>2. k = CHOOSE j \in there : \A i \in there : i <= j
    BY DEF AmbientPart
  <2> HIDE DEF there, k, q
  <2> QED
    BY <1>1, <2>1, <2>2, Largest
<1>3. k \in 0..Len(q)
  BY <1>2
<1> HIDE DEF k, there, b
<1>4. SubSeq(q, k + 1, Len(q)) \in Seq(Plain)
  <2> HIDE DEF q
  <2> QED
    BY <1>1, <1>3
<1>5. CASE Fail("Io")
  BY <1>5, CallFails DEF OpenAmbientBase
<1>6. CASE pc' = "lockroot" /\ rest' = SubSeq(q, k + 1, Len(q)) /\ UNCHANGED fs /\ Walked
  <2>1. pc = "ambient"
    BY DEF OpenAmbientBase
  <2>2. PathInv'
    BY <1>1, <1>4, <1>6 DEF PathInv, Walked, Keep, Walking, Linking
  <2> HIDE DEF q
  <2> QED
    BY <1>6, <2>1, <2>2, Quiet, KeepParts DEF Walked, Keep, readVars, linkVars, Steps, Staged, Walking, Linking, TempHeld
<1> QED
  BY <1>5, <1>6 DEF OpenAmbientBase, q, k, b

\* The rest of a walk that goes on.
LEMMA RestOfWalk ==
    ASSUME KeepInv, pc \in {"lockroot", "parent", "chain", "output", "origin"}, rest # <<>>
    PROVE  Head(rest) \in Plain /\ Tail(rest) \in Seq(Plain)
<1>1. rest \in Seq(Plain)
  BY KeepParts DEF PathInv, Walking
<1> QED
  BY <1>1

\* A directory is made where it was missing.
LEMMA DirectoryMade ==
    ASSUME KeepInv, pc \in {"lockroot", "parent", "chain"}, NEW n \in Plain, At(dir, n).kind = "absent", UnusedDirs # {},
           fs' = Set(fs, dir, n, DirEntry(FreshDir)), dir' = FreshDir, rest' \in Seq(Plain),
           UNCHANGED <<pc, base, top, req, insensitive, next, pending, remaining, noop>>
    PROVE  KeepInv'
<1> DEFINE m == Name(n)
           e == DirEntry(FreshDir)
<1>1. m \in Names \ {Up} /\ m # Stage /\ m # Temp
  BY NameType, NamesAssumed
<1>2. /\ FreshDir \in Dirs \ {Root, Outside}
      /\ \A x \in Dirs, k \in Names : fs[x][k].kind = "dir" => fs[x][k].ino # FreshDir
  BY FreshDirIsNew
<1>3. fs' = Put(fs, dir, m, e) /\ fs[dir][m].kind = "absent"
  BY DEF Set, At
<1>4. FileTree(fs) /\ fs \in FileTrees /\ e \in TreeEntries
  BY <1>2, KeepParts, EntriesOfTrees
<1> HIDE DEF m
<1>5. /\ FileTree(fs')
      /\ dir # Outside => BehindIn(fs') = BehindIn(fs) /\ FreshDir \notin BehindIn(fs)
  BY <1>1, <1>2, <1>3, <1>4, PutDir DEF e
<1>6. \A x \in Dirs, k \in Names : fs'[x][k] = IF x = dir /\ k = m THEN e ELSE fs[x][k]
  BY <1>1, <1>3, <1>4, PutTree
<1>7. \A x \in Dirs : fs'[x][Stage] = fs[x][Stage] /\ fs'[x][Temp] = fs[x][Temp]
  BY <1>1, <1>6, NamesAssumed
<1>8. pc # "lockroot" => dir \in Places /\ Places' = Places /\ FreshDir \in Places
  <2>1. pc # "lockroot" => dir \in Places
    BY KeepParts DEF OpenInv, Walking
  <2>2. dir \in Places => dir # Outside
    BY PlacesAre
  <2>3. dir \in Places => BehindIn(fs') = BehindIn(fs) /\ FreshDir \in Dirs \ BehindIn(fs)
    BY <1>2, <1>5, <2>2
  <2> QED
    BY <2>1, <2>3 DEF Places, Behind
<1>9. RequestInv'
  BY KeepParts DEF RequestInv
<1>10. OpenInv'
  BY <1>8, KeepParts DEF OpenInv, Staged, Walking, Linking
<1>11. PathInv'
  BY KeepParts DEF PathInv, Walking, Linking, Entry
<1>12. LeafInv'
  <2>1. pc \in Staged => base \in Dirs
    BY KeepParts, PlacesAre DEF OpenInv
  <2>2. LeafInv /\ pc # "rename" /\ pc \notin TempHeld
    BY KeepParts DEF TempHeld
  <2> QED
    BY <1>7, <2>1, <2>2 DEF LeafInv
<1> QED
  BY <1>5, <1>9, <1>10, <1>11, <1>12 DEF KeepInv, TreeInv

\* One component of a path that is walked with the missing directories made.
LEMMA ComponentKeeps ==
    ASSUME KeepInv, NEW stay \in {"lockroot", "parent", "chain"}, pc = stay, rest # <<>>, Component(stay)
    PROVE  KeepInv'
<1> DEFINE n == Head(rest)
           o == OpenDirectory(dir, n)
<1>1. n \in Plain /\ Tail(rest) \in Seq(Plain)
  BY RestOfWalk
<1>2. CASE o = "Refused" /\ Fail("Refused")
  BY <1>2, CallFails
<1>3. CASE /\ o = "NotFound" /\ UnusedDirs # {} /\ dir' = FreshDir /\ rest' = Tail(rest) /\ pc' = stay
           /\ fs' = Set(fs, dir, n, DirEntry(FreshDir)) /\ Walked
  <2>1. At(dir, n).kind = "absent"
    BY <1>3 DEF OpenDirectory
  <2>2. UNCHANGED <<pc, base, top, req, insensitive, next, pending, remaining, noop>>
    BY <1>3 DEF Walked, Keep, readVars, linkVars
  <2>3. rest' \in Seq(Plain)
    BY <1>1, <1>3
  <2> HIDE DEF n
  <2> QED
    BY <1>1, <1>3, <2>1, <2>2, <2>3, DirectoryMade
<1>4. CASE /\ o = "ok" /\ dir' = Handle(dir, n) /\ rest' = Tail(rest) /\ pc' = stay /\ UNCHANGED fs /\ Walked
  <2>1. pc # "lockroot" => dir' \in Places
    <3>1. pc # "lockroot" => dir \in Places
      BY KeepParts DEF OpenInv, Walking
    <3>2. dir \in Places => Handle(dir, n) \in Places
      BY <1>1, <1>4, Descend, KeepParts
    <3> QED
      BY <1>4, <3>1, <3>2
  <2>2. UNCHANGED <<fs, pc, base, top, req, insensitive, next, pending, remaining, noop>> /\ rest' \in Seq(Plain)
    BY <1>1, <1>4 DEF Walked, Keep, readVars, linkVars
  <2>3. PathInv'
    BY <2>2, KeepParts DEF PathInv, Walking, Linking, Entry
  <2> QED
    BY <2>1, <2>2, <2>3, Quiet, KeepParts DEF Steps, Staged, Walking, Linking, TempHeld
<1> QED
  BY <1>2, <1>3, <1>4 DEF Component

\* The three walks.
LEMMA WalksKeep ==
    ASSUME KeepInv, OpenLockRoot \/ OpenParent \/ OpenChain
    PROVE  KeepInv'
BY ComponentKeeps DEF OpenLockRoot, OpenParent, OpenChain

\* The lock file is opened, or made; the next walk begins at the root.
LEMMA OpenLockFileKeeps ==
    ASSUME KeepInv, OpenLockFile
    PROVE  KeepInv'
<1> DEFINE o == OpenRegular(dir, Lock)
           e == FileEntry(FreshFile, "lock")
<1>1. pc = "lockroot" /\ rest = <<>> /\ base = NoHandle /\ top = NoHandle /\ ~(pc \in TempHeld) /\ Name(Lock) = Lock
  BY KeepParts, NameType, NamesAssumed DEF OpenLockFile, OpenInv, Staged, TempHeld
<1>2. CASE Fail("Refused")
  BY <1>1, <1>2, CallFails
<1>3. CASE /\ o # "InvalidInput" /\ pc' = "ancestors" /\ dir' = Root /\ rest' = Front(req.dest)
           /\ fs' = IF o = "ok" THEN fs ELSE Set(fs, dir, Lock, e)
           /\ Walked
  <2>1. FileTree(fs') /\ \A x \in Dirs : fs'[x][Stage] = fs[x][Stage] /\ fs'[x][Temp] = fs[x][Temp]
    <3>1. CASE o = "ok"
      BY <1>3, <3>1, KeepParts
    <3>2. CASE o # "ok"
      <4>1. fs[dir][Lock].kind = "absent"
        BY <1>1, <1>3, <3>2 DEF OpenRegular, At
      <4>2. fs' = Put(fs, dir, Lock, e)
        BY <1>1, <1>3, <3>2 DEF Set
      <4>3. /\ FreshFile \in Nat
            /\ \A x \in Dirs, m \in Names : fs[x][m].kind = "file" => fs[x][m].ino # FreshFile
        BY FreshFileIsNew, KeepParts
      <4>4. FileTree(fs')
        BY <4>1, <4>2, <4>3, PutLock, KeepParts
      <4>5. "lock" \in Data
        BY ArchiveAssumption
      <4>6. e \in TreeEntries
        BY <4>3, <4>5, EntriesOfTrees
      <4>7. \A x \in Dirs, m \in Names : fs'[x][m] = IF x = dir /\ m = Lock THEN e ELSE fs[x][m]
        BY <4>2, <4>6, PutTree, KeepParts, NamesAssumed
      <4> QED
        BY <4>4, <4>7, NamesAssumed
    <3> QED
      BY <3>1, <3>2
  <2>2. TreeInv' /\ Root \in Places'
    <3>1. TreeInv'
      BY <2>1 DEF TreeInv
    <3>2. Root \in Dirs \ BehindIn(fs')
      BY <2>1, RootIsPlace
    <3> QED
      BY <3>1, <3>2 DEF Places, Behind
  <2>3. UNCHANGED <<base, top, req, insensitive, next, pending, remaining, noop>>
    BY <1>3 DEF Walked, Keep, readVars, linkVars
  <2>4. RequestInv'
    BY <1>3, <2>3, KeepParts DEF RequestInv, Walking
  <2>5. OpenInv'
    BY <1>1, <1>3, <2>2, <2>3 DEF OpenInv, Staged, Walking
  <2>6. rest' \in Seq(Plain) /\ req.dest \in PlainPaths
    BY <1>1, <1>3, KeepParts, PathEnds DEF PathInv
  <2>7. PathInv'
    BY <1>3, <2>3, <2>6 DEF PathInv, Walking, Linking
  <2>8. LeafInv'
    <3>1. \A x \in Dirs : fs[x][Stage] = Absent /\ (~noop => fs[x][Temp] = Absent)
      BY <1>1, KeepParts, NamesAssumed DEF LeafInv
    <3> QED
      BY <1>1, <1>3, <2>1, <2>3, <3>1 DEF LeafInv, Staged, TempHeld
  <2> QED
    BY <2>2, <2>4, <2>5, <2>7, <2>8 DEF KeepInv
<1> QED
  BY <1>2, <1>3 DEF OpenLockFile

\* The ancestors are looked at, and the archive is begun.
LEMMA ValidateAncestorsKeeps ==
    ASSUME KeepInv, ValidateAncestors \/ WalkArchive \/ EndOfArchive
    PROVE  KeepInv'
<1>1. CASE Fail("Refused") \/ Fail("UnsupportedArchiveType")
  <2>1. pc # "done"
    BY DEF ValidateAncestors, WalkArchive, EndOfArchive
  <2> QED
    BY <1>1, <2>1, CallFails
<1>2. CASE /\ pc \in {"ancestors", "format", "read"} /\ UNCHANGED <<fs, dir, rest>> /\ Walked
           /\ pc' = IF pc = "ancestors" THEN "parent" ELSE IF pc = "format" THEN "read" ELSE "links"
  <2>1. UNCHANGED <<fs, dir, rest, base, top, req, insensitive, next, pending, remaining, noop>>
    BY <1>2 DEF Walked, Keep, readVars, linkVars
  <2>2. PathInv'
    BY <1>2, <2>1, KeepParts DEF PathInv, Walking, Linking
  <2>3. pc = "ancestors" => dir' \in Places
    BY <2>1, KeepParts DEF OpenInv, Walking
  <2> QED
    BY <1>2, <2>1, <2>2, <2>3, Quiet, KeepParts DEF Steps, Staged, Walking, Linking, TempHeld
<1> QED
  BY <1>1, <1>2 DEF ValidateAncestors, WalkArchive, EndOfArchive

\* The staged directory is made in the parent.
LEMMA StageDirectoryKeeps ==
    ASSUME KeepInv, StageDirectory
    PROVE  KeepInv'
<1> DEFINE e == DirEntry(FreshDir)
<1>1. /\ pc = "parent" /\ UnusedDirs # {} /\ base' = dir /\ top' = FreshDir /\ pc' = "format" /\ fs' = Put(fs, dir, Stage, e)
      /\ UNCHANGED <<req, insensitive, next, pending, remaining, noop>>
  BY DEF StageDirectory, Keep, readVars, linkVars
<1>2. dir \in Places /\ dir \in Dirs /\ dir # Outside /\ base = NoHandle
  BY <1>1, KeepParts, PlacesAre DEF OpenInv, Walking, Staged
<1>3. /\ FreshDir \in Dirs \ {Root, Outside}
      /\ \A x \in Dirs, k \in Names : fs[x][k].kind = "dir" => fs[x][k].ino # FreshDir
  BY <1>1, FreshDirIsNew
<1>4. FileTree(fs) /\ fs \in FileTrees /\ e \in TreeEntries /\ Stage \in Names \ {Up}
  BY <1>3, KeepParts, EntriesOfTrees, NamesAssumed
<1>5. FileTree(fs') /\ BehindIn(fs') = BehindIn(fs) /\ FreshDir \notin BehindIn(fs)
  BY <1>1, <1>2, <1>3, <1>4, PutDir
<1>6. Places' = Places /\ FreshDir \in Places
  BY <1>3, <1>5 DEF Places, Behind
<1>7. \A x \in Dirs, k \in Names : fs'[x][k] = IF x = dir /\ k = Stage THEN e ELSE fs[x][k]
  BY <1>1, <1>4, PutTree
<1>8. RequestInv'
  BY <1>1, KeepParts DEF RequestInv, Staged
<1>9. OpenInv'
  BY <1>1, <1>2, <1>6 DEF OpenInv, Staged, Walking, Linking
<1>10. PathInv'
  BY <1>1, KeepParts DEF PathInv, Walking, Linking
<1>11. LeafInv'
  <2>1. \A x \in Dirs : fs[x][Stage] = Absent /\ (~noop => fs[x][Temp] = Absent)
    BY <1>1, <1>2, KeepParts, NamesAssumed DEF LeafInv, TempHeld
  <2>2. fs'[base'][Stage] = e /\ \A x \in Dirs : fs'[x][Temp] = fs[x][Temp] /\ (x # dir => fs'[x][Stage] = Absent)
    BY <1>1, <1>2, <1>7, <2>1, NamesAssumed
  <2> QED
    BY <1>1, <2>1, <2>2 DEF LeafInv, TempHeld
<1> QED
  BY <1>5, <1>8, <1>9, <1>10, <1>11 DEF KeepInv, TreeInv

\* An entry is read: the walk to its place begins at the staged directory.
LEMMA ReadEntryKeeps ==
    ASSUME KeepInv, ReadEntry
    PROVE  KeepInv'
<1>1. pc = "read" /\ next <= Len(req.entries)
  BY DEF ReadEntry
<1>2. CASE \/ Fail("ArchiveRead") \/ Fail("InvalidArchivePath") \/ Fail("EntryBudget") \/ Fail("ByteBudget")
           \/ Fail("UnsupportedArchiveEntry") \/ Fail("Collision")
  BY <1>1, <1>2, CallFails
<1>3. CASE /\ Safe(Entry.path) /\ pc' = "chain" /\ dir' = top
           /\ rest' = IF Entry.type = "dir" THEN Path(Entry) ELSE Front(Path(Entry))
           /\ UNCHANGED <<fs, openVars, next, linkVars, binVars, res>> /\ Keep
  <2>1. UNCHANGED <<fs, base, top, req, insensitive, next, pending, remaining, noop>>
    BY <1>3 DEF Keep, openVars, linkVars
  <2>2. top \in Places
    BY <1>1, KeepParts DEF OpenInv, Staged
  <2>3. rest' \in Seq(Plain)
    BY <1>1, <1>3, EntryType
  <2>4. Safe(Entry.path)' /\ Entry' = Entry
    BY <1>3, <2>1 DEF Entry, Safe, Sanitized
  <2>5. PathInv'
    BY <1>1, <1>3, <2>1, <2>3, <2>4, KeepParts DEF PathInv, Walking, Linking
  <2> QED
    BY <1>1, <1>3, <2>1, <2>2, <2>5, Quiet, KeepParts DEF Steps, Staged, Walking, Linking, TempHeld
<1> QED
  BY <1>2, <1>3 DEF ReadEntry

\* The next entry.
LEMMA NextEntryParts ==
    ASSUME NextEntry, next \in Nat \ {0}
    PROVE  /\ pc' = "read" /\ next' \in Nat \ {0} /\ UNCHANGED <<dir, rest, base, top, res, req, insensitive>>
BY DEF NextEntry, Keep, openVars

\* An entry at its place.
LEMMA EntryAtParentKeeps ==
    ASSUME KeepInv, EntryAtParent
    PROVE  KeepInv'
<1>1. /\ pc = "chain" /\ next <= Len(req.entries) /\ Safe(Entry.path) /\ Entry \in ArchiveEntries
      /\ Path(Entry) \in PlainPaths /\ next \in Nat \ {0} /\ dir \in Places
  BY EntryType, KeepParts DEF EntryAtParent, PathInv, OpenInv
<1>2. CASE Fail("UnsafeTarget")
  BY <1>1, <1>2, CallFails
<1>3. CASE NextEntry /\ UNCHANGED <<fs, linkVars>>
  <2>1. PathInv'
    BY <1>1, <1>3, NextEntryParts, KeepParts DEF PathInv, Walking, Linking
  <2> QED
    BY <1>1, <1>3, <2>1, NextEntryParts, Quiet, KeepParts DEF linkVars, Steps, Staged, Walking, Linking, TempHeld
<1>4. CASE /\ Safe(Entry.target) /\ NextEntry /\ UNCHANGED <<fs, remaining, noop>>
           /\ pending' = Append(pending, [path |-> Path(Entry), target |-> Sanitized(Entry.target)])
  <2>1. Sanitized(Entry.target) \in PlainPaths
    BY <1>1, <1>4, SafePath DEF ArchiveEntries
  <2>2. [path |-> Path(Entry), target |-> Sanitized(Entry.target)] \in PendingLinks
    BY <1>1, <2>1 DEF PendingLinks
  <2>3. pending' \in Seq(PendingLinks)
    BY <1>4, <2>2, KeepParts
  <2>4. PathInv'
    BY <1>1, <1>4, NextEntryParts, KeepParts DEF PathInv, Walking, Linking
  <2> QED
    BY <1>1, <1>4, <2>3, <2>4, NextEntryParts, Quiet, KeepParts DEF Steps, Staged, Walking, Linking, TempHeld
<1>5. CASE pc' = "leaf" /\ UNCHANGED <<fs, dir, rest>> /\ Walked
  <2>1. UNCHANGED <<fs, dir, rest, base, top, req, insensitive, next, pending, remaining, noop>>
    BY <1>5 DEF Walked, Keep, readVars, linkVars
  <2>2. Safe(Entry.path)' /\ Entry' = Entry
    BY <1>1, <2>1 DEF Entry, Safe, Sanitized
  <2>3. PathInv'
    BY <1>1, <1>5, <2>1, <2>2, KeepParts DEF PathInv, Walking, Linking
  <2> QED
    BY <1>1, <1>5, <2>1, <2>3, Quiet, KeepParts DEF Steps, Staged, Walking, Linking, TempHeld
<1> QED
  BY <1>2, <1>3, <1>4, <1>5 DEF EntryAtParent

\* Something that is no directory is put at the name of a staged leaf.
LEMMA TempPut ==
    ASSUME KeepInv, dir \in Places, NEW e \in TreeEntries, e.kind \in {"file", "link"},
           e.kind = "file" => e.ino \notin HiddenIn(fs),
           fs' = Put(fs, dir, Temp, e)
    PROVE  /\ TreeInv' /\ Places' = Places
           /\ \A x \in Dirs, k \in Names : fs'[x][k] = IF x = dir /\ k = Temp THEN e ELSE fs[x][k]
<1>1. dir \in Dirs \ BehindIn(fs) /\ Temp \in Names /\ FileTree(fs) /\ fs \in FileTrees
  BY PlacesAre, NamesAssumed, KeepParts
<1>2. FileTree(fs') /\ BehindIn(fs') = BehindIn(fs)
  BY <1>1, PutLeaf
<1>3. \A x \in Dirs, k \in Names : fs'[x][k] = IF x = dir /\ k = Temp THEN e ELSE fs[x][k]
  BY <1>1, PutTree
<1> QED
  BY <1>2, <1>3 DEF TreeInv, Places, Behind

\* With the leaf staged, what is known of staged things.
LEMMA LeafStaged ==
    ASSUME KeepInv, dir \in Places, NEW e, e.kind \in {"file", "link"}, pc \in {"leaf", "target"}, pc' \in {"rename", "staged"},
           \A x \in Dirs, k \in Names : fs'[x][k] = IF x = dir /\ k = Temp THEN e ELSE fs[x][k],
           pc' = "rename" /\ e.kind = "file" => \A x \in Dirs, k \in Names : fs[x][k].kind = "file" => fs[x][k].ino # e.ino,
           UNCHANGED <<dir, base, top, noop>>
    PROVE  LeafInv'
<1>1. LeafInv /\ dir \in Dirs /\ base \in Dirs /\ Stage \in Names /\ Temp \in Names /\ Stage # Temp
      /\ ~(pc \in TempHeld) /\ pc' \in TempHeld /\ pc \in Staged /\ pc # "done"
  BY KeepParts, PlacesAre, NamesAssumed DEF TempHeld, OpenInv, Staged
<1>2. fs'[dir][Temp] = e /\ fs'[base][Stage] = fs[base][Stage]
  BY <1>1
<1>3. \A x \in Dirs : fs'[x][Stage] = fs[x][Stage] /\ (x # dir => fs'[x][Temp] = fs[x][Temp])
  BY <1>1
<1>4. pc' = "rename" /\ fs'[dir][Temp].kind = "file" =>
        \A d \in Dirs, n \in Names : fs'[d][n].kind = "file" /\ fs'[d][n].ino = fs'[dir][Temp].ino => d = dir /\ n = Temp
  BY <1>1, <1>2
<1> QED
  BY <1>1, <1>2, <1>3, <1>4 DEF LeafInv

\* What is staged for an entry is a new file, or a link.
LEMMA StageLeafKeeps ==
    ASSUME KeepInv, StageLeaf
    PROVE  KeepInv'
<1>1. /\ pc = "leaf" /\ next <= Len(req.entries) /\ Safe(Entry.path) /\ Entry \in ArchiveEntries /\ dir \in Places
  BY EntryType, KeepParts DEF StageLeaf, PathInv, OpenInv
<1>2. CASE Fail("UnsafeOutput") \/ Fail("Copy")
  BY <1>1, <1>2, CallFails
<1>3. ASSUME NEW e, e \in {FileEntry(FreshFile, Entry.data), LinkEntry(Entry.target)},
             pc' = "rename", fs' = Put(fs, dir, Temp, e), UNCHANGED <<dir, rest>>, Walked
      PROVE  KeepInv'
  <2>1. UNCHANGED <<dir, rest, base, top, req, insensitive, next, pending, remaining, noop>>
    BY <1>3 DEF Walked, Keep, readVars, linkVars
  <2>2. /\ FreshFile \in Nat
        /\ \A x \in Dirs, k \in Names : fs[x][k].kind = "file" => fs[x][k].ino # FreshFile
    BY FreshFileIsNew, KeepParts
  <2>3. /\ e \in TreeEntries /\ e.kind \in {"file", "link"} /\ (e.kind = "file" => e.ino = FreshFile)
    <3>1. CASE e = FileEntry(FreshFile, Entry.data)
      <4>1. Entry.data \in Data
        BY <1>1 DEF ArchiveEntries
      <4> QED
        BY <2>2, <3>1, <4>1, EntriesOfTrees
    <3>2. CASE e = LinkEntry(Entry.target)
      <4>1. Entry.target \in Seq(Segments)
        BY <1>1 DEF ArchiveEntries, Components
      <4>2. Entry.target \in Seq(Names \cup Segments)
        BY <4>1
      <4>3. e \in TreeEntries /\ e.kind = "link"
        BY <3>2, <4>2, EntriesOfTrees
      <4> QED
        BY <4>3
    <3> QED
      BY <1>3, <3>1, <3>2
  <2>4. e.kind = "file" => e.ino \notin HiddenIn(fs)
    BY <2>2, <2>3, NamesAssumed DEF HiddenIn
  <2>5. /\ TreeInv' /\ Places' = Places
        /\ \A x \in Dirs, k \in Names : fs'[x][k] = IF x = dir /\ k = Temp THEN e ELSE fs[x][k]
    BY <1>1, <1>3, <2>3, <2>4, TempPut
  <2>6. e.kind = "file" => \A x \in Dirs, k \in Names : fs[x][k].kind = "file" => fs[x][k].ino # e.ino
    BY <2>2, <2>3
  <2>7. LeafInv'
    BY <1>1, <1>3, <2>1, <2>3, <2>5, <2>6, LeafStaged
  <2>8. RequestInv'
    BY <1>3, <2>1, KeepParts DEF RequestInv, Staged
  <2>9. OpenInv'
    BY <1>1, <1>3, <2>1, <2>5, KeepParts DEF OpenInv, Staged, Walking, Linking
  <2>10. Safe(Entry.path)' /\ Entry' = Entry
    BY <1>1, <2>1 DEF Entry, Safe, Sanitized
  <2>11. PathInv'
    BY <1>1, <1>3, <2>1, <2>10, KeepParts DEF PathInv, Walking, Linking
  <2> QED
    BY <2>5, <2>7, <2>8, <2>9, <2>11 DEF KeepInv
<1> QED
  BY <1>2, <1>3 DEF StageLeaf

\* What is staged for a hard link is a file of the tree, or a link.
LEMMA StageLinkKeeps ==
    ASSUME KeepInv, StageLink
    PROVE  KeepInv'
<1> DEFINE e == At(from, Last(Head(pending).target))
<1>1. /\ pc = "target" /\ pending # <<>> /\ dir \in Places /\ from \in Places
      /\ Name(Last(Head(pending).target)) \in Names
  BY KeepParts, LinkAtHand, NameType, NamesAssumed DEF StageLink, PathInv, OpenInv, Linking
<1>2. CASE Fail("UnsafeOutput") \/ Fail("Stage")
  BY <1>1, <1>2, CallFails
<1>3. CASE /\ e.kind \in {"file", "link"} /\ pc' = "staged" /\ fs' = Put(fs, dir, Temp, e) /\ UNCHANGED <<dir, rest>> /\ Walked
  <2>1. UNCHANGED <<dir, rest, base, top, req, insensitive, next, pending, remaining, noop>>
    BY <1>3 DEF Walked, Keep, readVars, linkVars
  <2>2. from \in Dirs \ BehindIn(fs) /\ e = fs[from][Name(Last(Head(pending).target))]
    BY <1>1, PlacesAre DEF At
  <2>3. e \in TreeEntries /\ (e.kind = "file" => e.ino \notin HiddenIn(fs))
    BY <1>1, <2>2, TreeHas, KeepParts DEF FileTree, HiddenStays
  <2> HIDE DEF e
  <2>4. /\ TreeInv' /\ Places' = Places
        /\ \A x \in Dirs, k \in Names : fs'[x][k] = IF x = dir /\ k = Temp THEN e ELSE fs[x][k]
    BY <1>1, <1>3, <2>3, TempPut
  <2>5. LeafInv'
    BY <1>1, <1>3, <2>1, <2>4, LeafStaged
  <2>6. RequestInv'
    BY <1>3, <2>1, KeepParts DEF RequestInv, Staged
  <2>7. OpenInv'
    BY <1>1, <1>3, <2>1, <2>4, KeepParts DEF OpenInv, Staged, Walking, Linking
  <2>8. PathInv'
    BY <1>1, <1>3, <2>1, KeepParts DEF PathInv, Walking, Linking
  <2> QED
    BY <2>4, <2>5, <2>6, <2>7, <2>8 DEF KeepInv
<1> QED
  BY <1>2, <1>3 DEF StageLink

\* Steps between staged steps that leave the tree alone.
LEMMA CheckLinkKeeps ==
    ASSUME KeepInv, CheckLink
    PROVE  KeepInv'
<1>1. pc = "staged" /\ dir \in Places
  BY KeepParts DEF CheckLink, OpenInv, Linking
<1>2. CASE FailIn(Put(fs, dir, Temp, Absent), "UnsafeTarget")
  BY <1>1, <1>2, LeafFails
<1>3. CASE pc' = "commitlink" /\ UNCHANGED <<fs, dir, rest>> /\ Walked
  <2>1. UNCHANGED <<fs, dir, rest, base, top, req, insensitive, next, pending, remaining, noop>>
    BY <1>3 DEF Walked, Keep, readVars, linkVars
  <2>2. PathInv'
    BY <1>1, <1>3, <2>1, KeepParts DEF PathInv, Walking, Linking
  <2> QED
    BY <1>1, <1>3, <2>1, <2>2, Quiet, KeepParts DEF Steps, Staged, Walking, Linking, TempHeld
<1> QED
  BY <1>2, <1>3 DEF CheckLink

\* A staged leaf that is renamed leaves a file tree, and is gone unless its
\* new name was a name of the file.
LEMMA RenamedTree ==
    ASSUME KeepInv, pc \in TempHeld, NEW n \in Plain, At(dir, n).kind # "dir", fs' = Renamed(dir, n)
    PROVE  /\ TreeInv' /\ Places' = Places
           /\ \A x \in Dirs : fs'[x][Stage] = fs[x][Stage] /\ (x # dir => fs'[x][Temp] = fs[x][Temp])
           /\ SameFile(fs[dir][Temp], At(dir, n)) \/ fs'[dir][Temp] = Absent
<1> DEFINE m == Name(n)
           e == fs[dir][Temp]
           t == Put(fs, dir, Temp, Absent)
<1>1. /\ m \in Names /\ m # Stage /\ m # Temp /\ Temp \in Names /\ Stage \in Names /\ Stage # Temp
      /\ dir \in Places /\ dir \in Dirs \ BehindIn(fs) /\ FileTree(fs) /\ fs \in FileTrees
      /\ e.kind \in {"file", "link"} /\ Absent \in TreeEntries /\ Absent.kind = "absent"
  BY NameType, NamesAssumed, PlacesAre, KeepParts, EntriesOfTrees DEF OpenInv, LeafInv, TempHeld, Linking
<1>2. e \in TreeEntries /\ (e.kind = "file" => e.ino \notin HiddenIn(fs))
  BY <1>1, TreeHas DEF FileTree, HiddenStays
<1>3. CASE SameFile(fs[dir][Temp], At(dir, n))
  <2>1. fs' = fs
    BY <1>3 DEF Renamed
  <2> QED
    BY <1>3, <2>1, SameTree, KeepParts
<1>4. CASE ~SameFile(fs[dir][Temp], At(dir, n))
  <2>1. fs' = Put(t, dir, m, e)
    BY <1>4 DEF Renamed, Set
  <2>2. /\ FileTree(t) /\ BehindIn(t) = BehindIn(fs) /\ HiddenIn(t) = HiddenIn(fs)
    BY <1>1, PutLeaf
  <2>3. t \in FileTrees /\ \A x \in Dirs, k \in Names : t[x][k] = IF x = dir /\ k = Temp THEN Absent ELSE fs[x][k]
    BY <1>1, PutTree
  <2> HIDE DEF t, e, m
  <2>4. FileTree(fs') /\ BehindIn(fs') = BehindIn(t)
    <3>1. dir \in Dirs \ BehindIn(t) /\ e.kind # "dir" /\ (e.kind = "file" => e.ino \notin HiddenIn(t))
      BY <1>1, <1>2, <2>2
    <3>2. FileTree(Put(t, dir, m, e)) /\ BehindIn(Put(t, dir, m, e)) = BehindIn(t)
      BY <1>1, <1>2, <2>2, <3>1, PutLeaf
    <3> QED
      BY <2>1, <3>2
  <2>5. \A x \in Dirs, k \in Names : fs'[x][k] = IF x = dir /\ k = m THEN e ELSE t[x][k]
    <3>1. \A x \in Dirs, k \in Names : Put(t, dir, m, e)[x][k] = IF x = dir /\ k = m THEN e ELSE t[x][k]
      BY <1>1, <1>2, <2>3, PutTree
    <3> QED
      BY <2>1, <3>1
  <2>6. /\ \A x \in Dirs : fs'[x][Stage] = fs[x][Stage] /\ (x # dir => fs'[x][Temp] = fs[x][Temp])
        /\ fs'[dir][Temp] = Absent
    BY <1>1, <2>3, <2>5
  <2> QED
    BY <2>2, <2>4, <2>6 DEF TreeInv, Places, Behind
<1> QED
  BY <1>3, <1>4

\* An entry takes its name: its leaf was the only name of its file.
LEMMA CommitLeafKeeps ==
    ASSUME KeepInv, CommitLeaf
    PROVE  KeepInv'
<1> DEFINE n == Last(Path(Entry))
<1>1. /\ pc = "rename" /\ pc \in TempHeld /\ dir \in Places /\ n \in Plain /\ next \in Nat \ {0} /\ dir \in Dirs
  BY EntryType, KeepParts, PlacesAre DEF CommitLeaf, PathInv, OpenInv, TempHeld
<1> HIDE DEF n
<1>2. CASE FailIn(Put(fs, dir, Temp, Absent), "Rename")
  BY <1>1, <1>2, LeafFails
<1>3. CASE At(dir, n).kind # "dir" /\ fs' = Renamed(dir, n) /\ NextEntry /\ UNCHANGED linkVars
  <2>1. ~SameFile(fs[dir][Temp], At(dir, n))
    <3>1. Name(n) \in Names /\ Name(n) # Temp
      BY <1>1, NameType, NamesAssumed
    <3> QED
      BY <1>1, <3>1, KeepParts DEF SameFile, At, LeafInv
  <2>2. /\ TreeInv' /\ Places' = Places /\ fs'[dir][Temp] = Absent
        /\ \A x \in Dirs : fs'[x][Stage] = fs[x][Stage] /\ (x # dir => fs'[x][Temp] = fs[x][Temp])
    BY <1>1, <1>3, <2>1, RenamedTree
  <2>3. /\ pc' = "read" /\ next' \in Nat \ {0} /\ UNCHANGED <<dir, rest, base, top, res, req, insensitive, pending, remaining, noop>>
    BY <1>1, <1>3, NextEntryParts DEF linkVars
  <2>4. RequestInv'
    BY <2>3, KeepParts DEF RequestInv, Staged
  <2>5. OpenInv'
    BY <1>1, <2>2, <2>3, KeepParts DEF OpenInv, Staged, Walking, Linking
  <2>6. PathInv'
    BY <1>1, <2>3, KeepParts DEF PathInv, Walking, Linking
  <2>7. LeafInv'
    <3>1. base \in Dirs /\ pc \in Staged
      BY <1>1, KeepParts, PlacesAre DEF OpenInv, Staged
    <3> QED
      BY <1>1, <2>2, <2>3, <3>1, KeepParts DEF LeafInv, TempHeld, Staged
  <2> QED
    BY <2>2, <2>4, <2>5, <2>6, <2>7 DEF KeepInv
<1> QED
  BY <1>2, <1>3 DEF CommitLeaf, n

\* A hard link takes its name.
LEMMA CommitLinkKeeps ==
    ASSUME KeepInv, CommitLink
    PROVE  KeepInv'
<1> DEFINE n == Last(Head(pending).path)
<1>1. /\ pc = "commitlink" /\ pc \in TempHeld /\ dir \in Places /\ n \in Plain /\ dir \in Dirs /\ Tail(pending) \in Seq(PendingLinks)
  BY LinkAtHand, KeepParts, PlacesAre DEF CommitLink, PathInv, OpenInv, TempHeld, Linking
<1> HIDE DEF n
<1>2. CASE FailIn(Put(fs, dir, Temp, Absent), "Rename")
  BY <1>1, <1>2, LeafFails
<1>3. CASE /\ At(dir, n).kind # "dir" /\ fs' = Renamed(dir, n)
           /\ noop' = (noop \/ SameFile(fs[dir][Temp], At(dir, n)))
           /\ pc' = "links" /\ pending' = Tail(pending) /\ progressed' = TRUE
           /\ UNCHANGED <<dir, rest, openVars, readVars, remaining, source, from, binVars, res>> /\ Keep
  <2>1. /\ TreeInv' /\ Places' = Places /\ (SameFile(fs[dir][Temp], At(dir, n)) \/ fs'[dir][Temp] = Absent)
        /\ \A x \in Dirs : fs'[x][Stage] = fs[x][Stage] /\ (x # dir => fs'[x][Temp] = fs[x][Temp])
    BY <1>1, <1>3, RenamedTree
  <2>2. /\ pc' = "links" /\ pending' \in Seq(PendingLinks) /\ noop' \in BOOLEAN
        /\ UNCHANGED <<dir, rest, base, top, next, req, insensitive, remaining>>
    BY <1>1, <1>3, KeepParts DEF Keep, openVars, readVars, RequestInv, SameFile
  <2>3. ~noop' => ~noop /\ fs'[dir][Temp] = Absent
    BY <1>3, <2>1
  <2>4. RequestInv'
    BY <2>2, KeepParts DEF RequestInv, Staged
  <2>5. OpenInv'
    BY <1>1, <2>1, <2>2, KeepParts DEF OpenInv, Staged, Walking, Linking
  <2>6. PathInv'
    BY <1>1, <2>2, KeepParts DEF PathInv, Walking, Linking
  <2>7. LeafInv'
    <3>1. base \in Dirs /\ pc \in Staged
      BY <1>1, KeepParts, PlacesAre DEF OpenInv, Staged
    <3> QED
      BY <1>1, <2>1, <2>2, <2>3, <3>1, KeepParts DEF LeafInv, TempHeld, Staged
  <2> QED
    BY <2>1, <2>4, <2>5, <2>6, <2>7 DEF KeepInv
<1> QED
  BY <1>2, <1>3 DEF CommitLink, n

\* Hard links are taken up, round by round, and their parents opened.
LEMMA NextRoundKeeps ==
    ASSUME KeepInv, NextRound \/ BeginLink
    PROVE  KeepInv'
<1>1. pc = "links" /\ top \in Places
  BY KeepParts DEF NextRound, BeginLink, OpenInv, Staged
<1>2. CASE Fail("MissingTarget") \/ Fail("Collision")
  BY <1>1, <1>2, CallFails
<1>3. CASE /\ pending' = remaining /\ remaining' = <<>> /\ progressed' = FALSE
           /\ UNCHANGED <<fs, pc, dir, rest, openVars, readVars, source, from, noop, binVars, res>> /\ Keep
  <2>1. UNCHANGED <<fs, pc, dir, rest, base, top, req, insensitive, next, noop>>
        /\ pending' \in Seq(PendingLinks) /\ remaining' \in Seq(PendingLinks)
    BY <1>3, KeepParts DEF Keep, openVars, readVars
  <2>2. PathInv'
    BY <1>1, <2>1, KeepParts DEF PathInv, Walking, Linking
  <2> QED
    BY <1>1, <2>1, <2>2, Quiet, KeepParts DEF Steps, Staged, Walking, Linking, TempHeld
<1>4. CASE /\ pending # <<>> /\ pc' = "output" /\ dir' = top /\ rest' = Front(Head(pending).path)
           /\ UNCHANGED fs /\ Walked
  <2>1. UNCHANGED <<fs, base, top, req, insensitive, next, pending, remaining, noop>>
    BY <1>4 DEF Walked, Keep, readVars, linkVars
  <2>2. rest' \in Seq(Plain)
    BY <1>4, LinkAtHand
  <2>3. PathInv'
    BY <1>1, <1>4, <2>1, <2>2, KeepParts DEF PathInv, Walking, Linking
  <2> QED
    BY <1>1, <1>4, <2>1, <2>3, Quiet, KeepParts DEF Steps, Staged, Walking, Linking, TempHeld
<1> QED
  BY <1>2, <1>3, <1>4 DEF NextRound, BeginLink

\* The parent of a hard link's name is opened.
LEMMA OpenOutputParentKeeps ==
    ASSUME KeepInv, OpenOutputParent
    PROVE  KeepInv'
<1> DEFINE n == Head(rest)
           o == OpenDirectory(dir, n)
<1>1. pc = "output" /\ top \in Places /\ dir \in Places /\ pending # <<>>
  BY KeepParts DEF OpenOutputParent, OpenInv, PathInv, Staged, Linking
<1>2. CASE o # "ok" /\ Fail(o)
  <2> HIDE DEF o
  <2> QED
    BY <1>1, <1>2, CallFails
<1>3. CASE /\ rest # <<>> /\ o = "ok" /\ dir' = Handle(dir, n) /\ rest' = Tail(rest) /\ UNCHANGED <<fs, pc>> /\ Walked
  <2>1. UNCHANGED <<fs, pc, base, top, req, insensitive, next, pending, remaining, noop>>
    BY <1>3 DEF Walked, Keep, readVars, linkVars
  <2>2. n \in Plain /\ rest' \in Seq(Plain)
    BY <1>1, <1>3, RestOfWalk
  <2>3. dir' \in Places
    BY <1>1, <1>3, <2>2, Descend, KeepParts
  <2>4. PathInv'
    BY <1>1, <2>1, <2>2, KeepParts DEF PathInv, Walking, Linking
  <2> QED
    BY <1>1, <2>1, <2>3, <2>4, Quiet, KeepParts DEF Steps, Staged, Walking, Linking, TempHeld
<1>4. CASE /\ pc' = "origin" /\ from' = top /\ rest' = Front(Head(pending).target)
           /\ UNCHANGED <<fs, dir, openVars, readVars, pending, remaining, progressed, source, noop, binVars, res>> /\ Keep
  <2>1. UNCHANGED <<fs, dir, base, top, req, insensitive, next, pending, remaining, noop>>
    BY <1>4 DEF Keep, openVars, readVars
  <2>2. rest' \in Seq(Plain)
    BY <1>1, <1>4, LinkAtHand
  <2>3. PathInv'
    BY <1>1, <1>4, <2>1, <2>2, KeepParts DEF PathInv, Walking, Linking
  <2> QED
    BY <1>1, <1>4, <2>1, <2>3, Quiet, KeepParts DEF Steps, Staged, Walking, Linking, TempHeld
<1> QED
  BY <1>2, <1>3, <1>4 DEF OpenOutputParent

\* A hard link is put off.
LEMMA PostponeKeeps ==
    ASSUME KeepInv, pc = "origin", Postpone
    PROVE  KeepInv'
<1>1. pending # <<>> /\ Head(pending) \in PendingLinks /\ Tail(pending) \in Seq(PendingLinks)
  BY KeepParts, LinkAtHand DEF PathInv, Linking
<1>2. UNCHANGED <<fs, dir, rest, base, top, req, insensitive, next, noop>> /\ pc' = "links"
      /\ pending' \in Seq(PendingLinks) /\ remaining' \in Seq(PendingLinks)
  BY <1>1, KeepParts DEF Postpone, Keep, openVars, readVars
<1>3. PathInv'
  BY <1>2, KeepParts DEF PathInv, Walking, Linking
<1> QED
  BY <1>2, <1>3, Quiet, KeepParts DEF Steps, Staged, Walking, Linking, TempHeld

\* The parent of its target is opened, and the target.
LEMMA OpenTargetKeeps ==
    ASSUME KeepInv, OpenTargetParent \/ OpenTarget
    PROVE  KeepInv'
<1> DEFINE n == Head(rest)
<1>1. pc = "origin" /\ from \in Places /\ dir \in Places /\ pending # <<>>
  BY KeepParts DEF OpenTargetParent, OpenTarget, OpenInv, PathInv, Linking
<1>2. CASE Postpone
  BY <1>1, <1>2, PostponeKeeps
<1>3. CASE Fail("Refused") \/ Fail("UnsafeTarget")
  BY <1>1, <1>3, CallFails
<1>4. CASE /\ rest # <<>> /\ OpenDirectory(from, n) = "ok" /\ from' = Handle(from, n) /\ rest' = Tail(rest)
           /\ UNCHANGED <<fs, pc, dir, openVars, readVars, pending, remaining, progressed, source, noop, binVars, res>> /\ Keep
  <2>1. UNCHANGED <<fs, pc, dir, base, top, req, insensitive, next, pending, remaining, noop>>
    BY <1>4 DEF Keep, openVars, readVars
  <2>2. n \in Plain /\ rest' \in Seq(Plain)
    BY <1>1, <1>4, RestOfWalk
  <2>3. from' \in Places
    BY <1>1, <1>4, <2>2, Descend, KeepParts
  <2>4. PathInv'
    BY <1>1, <2>1, <2>2, KeepParts DEF PathInv, Walking, Linking
  <2> QED
    BY <1>1, <2>1, <2>3, <2>4, Quiet, KeepParts DEF Steps, Staged, Walking, Linking, TempHeld
<1>5. CASE /\ pc' = "target"
           /\ UNCHANGED <<fs, dir, rest, openVars, readVars, pending, remaining, progressed, from, noop, binVars, res>> /\ Keep
  <2>1. UNCHANGED <<fs, dir, rest, base, top, req, insensitive, next, pending, remaining, noop, from>>
    BY <1>5 DEF Keep, openVars, readVars
  <2>2. PathInv'
    BY <1>1, <1>5, <2>1, KeepParts DEF PathInv, Walking, Linking
  <2> QED
    BY <1>1, <1>5, <2>1, <2>2, Quiet, KeepParts DEF Steps, Staged, Walking, Linking, TempHeld
<1> QED
  BY <1>2, <1>3, <1>4, <1>5 DEF OpenTargetParent, OpenTarget

\* The staged directory takes the place of the destination, and is no longer
\* where it was.
LEMMA CommitTreeKeeps ==
    ASSUME KeepInv, CommitTree
    PROVE  KeepInv'
<1> DEFINE n == Name(Leaf)
           t == Put(fs, base, Stage, Absent)
           e == DirEntry(top)
<1>1. /\ pc = "links" /\ base \in Places /\ top \in Places /\ base \in Dirs \ BehindIn(fs) /\ top \in Dirs \ BehindIn(fs)
      /\ base # Outside /\ top # Outside /\ FileTree(fs) /\ fs \in FileTrees /\ base \in Dirs /\ top \in Dirs
  BY KeepParts, PlacesAre DEF CommitTree, OpenInv, Staged
<1>2. n \in Names \ {Up} /\ n # Stage /\ n # Temp /\ Stage \in Names /\ Temp \in Names /\ Temp # Stage
  <2>1. Leaf \in Plain
    BY <1>1, KeepParts, PathEnds DEF PathInv, Leaf
  <2> QED
    BY <2>1, NameType, NamesAssumed
<1>3. fs[base][Stage] = e /\ e.kind = "dir" /\ e.ino = top /\ e \in TreeEntries /\ Absent \in TreeEntries /\ Absent.kind = "absent"
  BY <1>1, KeepParts, EntriesOfTrees DEF LeafInv, Staged
<1>4. CASE Fail("Commit")
  BY <1>1, <1>4, CallFails
<1>5. CASE /\ pc' = "done" /\ res' = "ok" /\ dir' = NoHandle
           /\ fs' = Set(t, base, Leaf, e)
           /\ UNCHANGED <<rest, openVars, readVars, linkVars, binVars>> /\ Keep
  <2>1. FileTree(t) /\ BehindIn(t) = BehindIn(fs)
    BY <1>1, <1>2, <1>3, PutLeaf
  <2>2. t \in FileTrees /\ \A x \in Dirs, k \in Names : t[x][k] = IF x = base /\ k = Stage THEN Absent ELSE fs[x][k]
    BY <1>1, <1>2, <1>3, PutTree
  <2>3. top \in Dirs \ {Root, Outside}
    BY <1>1, <1>2, <1>3 DEF FileTree, Apart
  <2>4. \A x \in Dirs, k \in Names : t[x][k].kind = "dir" => t[x][k].ino # top
    <3> SUFFICES ASSUME NEW x \in Dirs, NEW k \in Names, t[x][k].kind = "dir", t[x][k].ino = top PROVE FALSE
      OBVIOUS
    <3>1. ~(x = base /\ k = Stage) /\ t[x][k] = fs[x][k]
      BY <1>3, <2>2
    <3>2. fs[x][k] = e
      <4>1. fs[x][k] \in TreeEntries
        BY <1>1, TreeHas
      <4>2. fs[x][k] = DirEntry(fs[x][k].ino)
        BY <3>1, <4>1, KindsOfEntries
      <4> QED
        BY <3>1, <4>2
    <3> QED
      BY <1>1, <1>2, <1>3, <3>1, <3>2 DEF FileTree, OnePlace
  <2>5. fs' = Put(t, base, n, e)
    BY <1>5 DEF Set
  <2> HIDE DEF t, n
  <2>6. FileTree(Put(t, base, n, e)) /\ BehindIn(Put(t, base, n, e)) = BehindIn(t)
    BY <1>1, <1>2, <2>1, <2>3, <2>4, PutDir
  <2>7. \A x \in Dirs, k \in Names : Put(t, base, n, e)[x][k] = IF x = base /\ k = n THEN e ELSE t[x][k]
    BY <1>2, <1>3, <2>2, PutTree
  <2>8. TreeInv' /\ Places' = Places
    BY <2>1, <2>5, <2>6 DEF TreeInv, Places, Behind
  <2>9. \A x \in Dirs : fs'[x][Temp] = fs[x][Temp] /\ (fs'[x][Stage] # Absent => x # base /\ fs[x][Stage] # Absent)
    BY <1>2, <2>2, <2>5, <2>7
  <2>10. UNCHANGED <<base, top, req, insensitive, next, pending, remaining, noop>>
    BY <1>5 DEF Keep, openVars, readVars, linkVars
  <2>11. RequestInv'
    BY <1>5, <2>10, KeepParts DEF RequestInv
  <2>12. OpenInv' /\ PathInv'
    BY <1>1, <1>5, <2>8, <2>10 DEF OpenInv, PathInv, Staged, Walking, Linking
  <2>13. LeafInv'
    BY <1>1, <1>5, <2>9, <2>10, KeepParts DEF LeafInv, TempHeld, Staged
  <2> QED
    BY <2>8, <2>11, <2>12, <2>13 DEF KeepInv
<1> QED
  BY <1>4, <1>5 DEF CommitTree

\* Another program exchanges two entries.
LEMMA ExchangeKeeps ==
    ASSUME KeepInv, NEW s \in ForeignSlots, Exchange(s[1], s[2], s[3])
    PROVE  KeepInv'
<1> DEFINE d == s[1]
           n == s[2]
           m == s[3]
<1>1. d \in Dirs \ {Outside} /\ n \in Plain /\ m \in Plain
  BY ArchiveAssumption
<1> HIDE DEF d, n, m
<1>2. /\ fs' = [fs EXCEPT ![d][n] = fs[d][m], ![d][m] = fs[d][n]] /\ pc # "done"
      /\ UNCHANGED <<insensitive, pc, req, dir, rest, openVars, readVars, linkVars, binVars, res>>
  BY DEF Exchange, d, n, m
<1>3. /\ FileTree(fs') /\ BehindIn(fs') = BehindIn(fs)
      /\ \A x \in Dirs, k \in Names : fs'[x][k] = IF x = d /\ k = m THEN fs[d][n]
                                                ELSE IF x = d /\ k = n THEN fs[d][m] ELSE fs[x][k]
  <2>1. FileTree(fs) /\ fs \in FileTrees /\ n \in Names /\ m \in Names
    BY <1>1, KeepParts, NamesAssumed
  <2>2. fs' \in FileTrees
    BY <1>1, <1>2, <2>1 DEF FileTrees
  <2>3. \A x \in Dirs, k \in Names : fs'[x][k] = IF x = d /\ k = m THEN fs[d][n]
                                                ELSE IF x = d /\ k = n THEN fs[d][m] ELSE fs[x][k]
    BY <1>1, <1>2, <2>1 DEF FileTrees
  <2> HIDE DEF FileTree, BehindIn, Plain
  <2>4. FileTree(fs') /\ BehindIn(fs') = BehindIn(fs)
    BY <1>1, <2>1, <2>2, <2>3, Swapped
  <2> QED
    BY <2>3, <2>4
<1>4. n \in Names /\ m \in Names /\ {n, m} \cap {Stage, Temp} = {} /\ Stage \in Names /\ Temp \in Names
  BY <1>1, NamesAssumed
<1>5. TreeInv' /\ Places' = Places
  BY <1>3 DEF TreeInv, Places, Behind
<1>6. UNCHANGED <<pc, dir, rest, base, top, next, req, insensitive, pending, remaining, noop, from, res>>
  BY <1>2 DEF openVars, readVars, linkVars
<1>7. RequestInv' /\ OpenInv'
  BY <1>5, <1>6, KeepParts DEF RequestInv, OpenInv
<1>8. PathInv'
  BY <1>6, KeepParts DEF PathInv, Entry, Safe, Sanitized
<1>9. \A x \in Dirs : fs'[x][Stage] = fs[x][Stage] /\ fs'[x][Temp] = fs[x][Temp]
  BY <1>3, <1>4
<1>10. LeafInv'
  <2>1. (pc \in Staged => base \in Dirs) /\ (pc \in TempHeld => dir \in Dirs)
    BY KeepParts, PlacesAre DEF OpenInv, TempHeld, Linking
  <2>2. pc = "rename" => pc \in TempHeld
    BY DEF TempHeld
  <2>3. /\ pc \in Staged => fs'[base][Stage] = DirEntry(top)
        /\ \A x \in Dirs : fs'[x][Stage] # Absent => x = base /\ pc # "done"
        /\ ~noop => \A x \in Dirs : fs'[x][Temp] # Absent =>
                      ((pc \in TempHeld /\ x = dir) \/ (pc = "done" /\ res # "ok"))
        /\ pc \in TempHeld => fs'[dir][Temp].kind \in {"file", "link"}
    BY <1>9, <2>1, KeepParts DEF LeafInv
  <2>4. ASSUME pc = "rename", fs'[dir][Temp].kind = "file", NEW x \in Dirs, NEW k \in Names,
               fs'[x][k].kind = "file", fs'[x][k].ino = fs'[dir][Temp].ino
        PROVE  x = dir /\ k = Temp
    <3>1. \A y \in Dirs, i \in Names : fs[y][i].kind = "file" /\ fs[y][i].ino = fs[dir][Temp].ino => y = dir /\ i = Temp
      BY <1>9, <2>1, <2>2, <2>4, KeepParts DEF LeafInv
    <3> QED
      BY <1>1, <1>3, <1>4, <1>9, <2>1, <2>2, <2>4, <3>1
  <2> QED
    BY <1>6, <2>3, <2>4 DEF LeafInv
<1> QED
  BY <1>5, <1>7, <1>8, <1>10 DEF KeepInv

\* The steps of a search leave the tree alone.
LEMMA BinaryKeeps ==
    ASSUME KeepInv, BeginBinary \/ ScanEntry \/ FinishMatch \/ WriteMatch
    PROVE  KeepInv'
<1>1. pc \in {"start", "scan"} /\ pc # "done"
  BY DEF BeginBinary, ScanEntry, FinishMatch, WriteMatch
<1>2. CASE \/ Fail("UnsupportedArchiveType") \/ Fail("ArchiveRead") \/ Fail("EntryBudget") \/ Fail("NotRegularFile")
           \/ Fail("Ambiguous") \/ Fail("BinaryNotFound")
  BY <1>1, <1>2, CallFails
<1>3. CASE BeginBinary /\ pc' = "scan" /\ UNCHANGED <<fs, dir, rest>> /\ Walked
  <2>1. UNCHANGED <<fs, dir, rest, base, top, req, insensitive, next, pending, remaining, noop>> /\ pc = "start"
    BY <1>3 DEF BeginBinary, Walked, Keep, readVars, linkVars
  <2>2. PathInv'
    BY <1>3, <2>1 DEF PathInv, Walking, Linking
  <2> QED
    BY <1>3, <2>1, <2>2, Quiet, KeepParts DEF Steps, Staged, Walking, Linking, TempHeld
<1>4. CASE pc = "scan" /\ pc' = "done" /\ UNCHANGED <<fs, dir, rest, openVars, readVars, linkVars>> /\ Keep
  <2>1. UNCHANGED <<fs, base, top, req, insensitive, next, pending, remaining, noop>>
    BY <1>4 DEF Keep, openVars, readVars, linkVars
  <2> QED
    BY <1>4, <2>1, ScanOver
<1>5. CASE pc = "scan" /\ next' = next + 1 /\ UNCHANGED <<fs, pc, dir, rest, openVars, linkVars>> /\ Keep
  <2>1. UNCHANGED <<fs, pc, dir, rest, base, top, req, insensitive, pending, remaining, noop>> /\ next' \in Nat \ {0}
    BY <1>5, KeepParts DEF Keep, openVars, linkVars
  <2>2. PathInv'
    BY <1>5, <2>1 DEF PathInv, Walking, Linking
  <2> QED
    BY <1>5, <2>1, <2>2, Quiet, KeepParts DEF Steps, Staged, Walking, Linking, TempHeld
<1> QED
  BY <1>2, <1>3, <1>4, <1>5 DEF BeginBinary, ScanEntry, FinishMatch, WriteMatch, WriterFails

\* Every step keeps what is known of the tree and of what is open.
LEMMA KeepStep ==
    ASSUME KeepInv, [ArchiveNext]_archiveVars
    PROVE  KeepInv'
<1>1. CASE UNCHANGED archiveVars
  <2>1. UNCHANGED <<fs, insensitive, pc, req, dir, rest, base, top, next, pending, remaining, noop, from, res>>
    BY <1>1 DEF archiveVars, openVars, readVars, linkVars
  <2>2. TreeInv' /\ Places' = Places
    BY <2>1, SameTree, KeepParts
  <2>3. RequestInv' /\ OpenInv' /\ LeafInv'
    BY <2>1, <2>2, KeepParts DEF RequestInv, OpenInv, LeafInv
  <2>4. PathInv'
    BY <2>1, KeepParts DEF PathInv, Entry, Safe, Sanitized
  <2> QED
    BY <2>2, <2>3, <2>4 DEF KeepInv
<1>2. CASE TreeCall
  BY <1>2, BeginTreeKeeps, OpenAmbientBaseKeeps, WalksKeep, OpenLockFileKeeps, ValidateAncestorsKeeps, StageDirectoryKeeps,
    ReadEntryKeeps, EntryAtParentKeeps, StageLeafKeeps, StageLinkKeeps, CheckLinkKeeps, CommitLeafKeeps, CommitLinkKeeps,
    NextRoundKeeps, OpenOutputParentKeeps, OpenTargetKeeps, CommitTreeKeeps DEF TreeCall, ReadTarEntry, ReadZipEntry
<1>3. CASE BeginBinary \/ ScanEntry \/ FinishMatch \/ WriteMatch
  BY <1>3, BinaryKeeps
<1>4. CASE \E s \in ForeignSlots : Exchange(s[1], s[2], s[3])
  BY <1>4, ExchangeKeeps
<1> QED
  BY <1>1, <1>2, <1>3, <1>4 DEF ArchiveNext, Call, Terminated, TreeCall, Scan, ExtractFromTarGz, ExtractFromTarGzToWriter,
    ExtractFromTarXz, ExtractFromTarXzToWriter, ExtractFromZip, ExtractFromZipToWriter

\* It holds before a call.
LEMMA KeepInit ==
    ASSUME ArchiveInit
    PROVE  KeepInv
<1>1. TreeInv
  BY ArchiveAssumption DEF ArchiveInit, TreeInv, FileTree
<1>2. RequestInv
  <2>1. <<>> \in Seq(PendingLinks)
    OBVIOUS
  <2>2. pending = <<>> /\ remaining = <<>>
    BY DEF ArchiveInit
  <2>3. pending \in Seq(PendingLinks) /\ remaining \in Seq(PendingLinks)
    BY <2>1, <2>2
  <2>4. insensitive \in BOOLEAN /\ req \in Requests /\ next \in Nat \ {0}
    BY DEF ArchiveInit
  <2>5. noop \in BOOLEAN
    BY DEF ArchiveInit
  <2>6. pc \in {"start", "ambient", "lockroot", "scan", "done"} \cup Walking \cup Staged
    BY DEF ArchiveInit
  <2> QED
    BY <2>3, <2>4, <2>5, <2>6 DEF RequestInv
<1>3. OpenInv /\ PathInv
  BY DEF ArchiveInit, OpenInv, PathInv, Staged, Walking, Linking
<1>4. LeafInv
  BY ArchiveAssumption DEF ArchiveInit, LeafInv, Staged, TempHeld
<1> QED
  BY <1>1, <1>2, <1>3, <1>4 DEF KeepInv

\* An installation keeps to its own, whatever the archive holds and another
\* program puts in the way.
THEOREM InstallKeepsToItself == ArchiveSpec => []KeepsToItself
<1>1. ArchiveInit => KeepInv
  BY KeepInit
<1>2. KeepInv /\ [ArchiveNext]_archiveVars => KeepInv'
  BY KeepStep
<1>3. KeepInv => KeepsToItself
  <2> SUFFICES ASSUME KeepInv PROVE KeepsToItself
    OBVIOUS
  <2>1. base \in Places \cup {NoHandle} /\ top \in Places \cup {NoHandle}
    BY KeepParts DEF OpenInv
  <2>2. Confined
    BY <2>1, KeepParts, PlacesAre, NamesAssumed DEF Confined, Places, FileTree
  <2>3. NothingStaged
    BY <2>1, KeepParts, PlacesAre, NamesAssumed DEF NothingStaged, LeafInv, TempHeld
  <2> QED
    BY <2>2, <2>3 DEF KeepsToItself
<1> QED
  BY <1>1, <1>2, <1>3, PTL DEF ArchiveSpec
============================================================================
