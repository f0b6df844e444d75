------------------------- MODULE HostCommand_proofs -------------------------
(***************************************************************************)
(* HostCommand for any requests, hosts, capture limits and amounts of      *)
(* output: what a call returns is the child's output in full, unless a     *)
(* descendant writes while it is read.                                     *)
(***************************************************************************)
EXTENDS HostCommand, TLAPS, SequenceTheorems, FiniteSetTheorems, WellFoundedInduction

Reading == {"seek_stdout", "read_stdout", "seek_stderr", "read_stderr"}

\* The call may still return output, or has.
Telling == pc # "done" \/ result \in {"ok", "timed_out"}

\* Before it is rewound, after it is read.
Unread(s) ==
    \/ pc \notin Snapshotted
    \/ pc = "seek_stdout"
    \/ s = "stderr" /\ pc \in {"read_stdout", "seek_stderr"}

ReadOut(s) ==
    \/ s = "stdout" /\ pc \in {"seek_stderr", "read_stderr"}
    \/ pc = "done"

\* When the output is read, the child has been waited for; too much output was
\* seen in a file, and files never shrink.
CallInv ==
    /\ result = "none" <=> pc # "done"
    /\ Telling /\ pc \in Snapshotted \cup {"taking_snapshot"} => child = "reaped"
    /\ pc \notin Snapshotted => disturbed = {}
    /\ pc = "over_limit" \/ result = "over_limit" =>
         \E s \in Streams : OverLimit(Len(file[s]))

\* The lengths of what is written and what is read.
LengthInv(s) ==
    /\ position[s] <= Len(file[s])
    /\ Len(captured[s]) <= Len(file[s])
    /\ pc \notin Snapshotted => position[s] = Len(file[s])
    /\ Unread(s) => captured[s] = << >>
    /\ pc = ReadStep[s] => Len(captured[s]) <= position[s]

\* A file nobody writes to since the snapshot: the child's blocks are in it,
\* and the call reads it from the start to the snapshot, which is its end.
ContentInv(s) ==
    Telling /\ s \notin disturbed =>
        /\ BlocksOf("child", file[s]) = written[s]["child"]
        /\ pc \in Snapshotted => snapshot[s] = Len(file[s])
        /\ pc = ReadStep[s] =>
             /\ position[s] = Len(captured[s]) /\ position[s] + left = snapshot[s]
             /\ \A i \in 1 .. position[s] : captured[s][i] = file[s][i]
        /\ ReadOut(s) => captured[s] = file[s] /\ ~OverLimit(Len(file[s]))

IInv ==
    /\ TypeOK
    /\ CallInv
    /\ \A s \in Streams : LengthInv(s) /\ ContentInv(s)

-----------------------------------------------------------------------------
\* What planning a launch can answer.
LEMMA PlanAnswers ==
    ASSUME NEW req, NEW host
    PROVE  /\ Plan(req, host).st \in {"ok", "command_not_found", "spawn_failed"}
           /\ Plan(req, host).sudo \in BOOLEAN
<1>1. \A why : Refused(why).st = why /\ Refused(why).sudo = FALSE
  BY DEF Refused
<1>2. \A path, env : Direct(path, env).st = "ok" /\ Direct(path, env).sudo = FALSE
  BY DEF Direct, Refused
<1>3. DirectPlan(req, host).st \in {"ok", "command_not_found"} /\ DirectPlan(req, host).sudo = FALSE
  BY <1>1, <1>2 DEF DirectPlan
<1>4. SudoPlan(req, host).st \in {"ok", "command_not_found", "spawn_failed"}
      /\ SudoPlan(req, host).sudo \in BOOLEAN
  <2>1. SudoTargetRefusal(req, host) \in {"none", "command_not_found", "spawn_failed"}
    BY DEF SudoTargetRefusal
  <2>2. \A a, b, c, d : Elevated(a, b, c, d).st = "ok" /\ Elevated(a, b, c, d).sudo = TRUE
    BY DEF Elevated
  <2> DEFINE refusal == SudoTargetRefusal(req, host)
             plan == SudoPlan(req, host)
  <2>3. \/ plan = Refused("spawn_failed")
        \/ refusal # "none" /\ plan = Refused(refusal)
        \/ \E a, b, c, d : plan = Elevated(a, b, c, d)
    BY DEF SudoPlan
  <2>4. plan.st \in {"ok", "command_not_found", "spawn_failed"} /\ plan.sudo \in BOOLEAN
    <3> HIDE DEF plan, refusal
    <3>1. CASE plan = Refused("spawn_failed")
      BY <1>1, <3>1
    <3>2. CASE refusal # "none" /\ plan = Refused(refusal)
      BY <1>1, <2>1, <3>2 DEF refusal
    <3>3. CASE \E a, b, c, d : plan = Elevated(a, b, c, d)
      BY <2>2, <3>3
    <3> QED
      BY <2>3, <3>1, <3>2, <3>3
  <2> QED
    BY <2>4
<1> QED
  BY <1>1, <1>3, <1>4 DEF Plan

\* A block at the end counts for the one who wrote it.
LEMMA BlocksOfAppend ==
    ASSUME NEW blocks \in Seq(Processes), NEW p \in Processes, NEW q \in Processes
    PROVE  /\ BlocksOf(q, blocks) \in Nat
           /\ BlocksOf(q, Append(blocks, p)) =
                IF p = q THEN BlocksOf(q, blocks) + 1 ELSE BlocksOf(q, blocks)
<1> DEFINE n == Len(blocks)
           before == {i \in DOMAIN blocks : blocks[i] = q}
           more == Append(blocks, p)
           after == {i \in DOMAIN more : more[i] = q}
<1>1. /\ n \in Nat /\ DOMAIN blocks = 1 .. n /\ DOMAIN more = 1 .. n + 1
      /\ more[n + 1] = p /\ \A i \in 1 .. n : more[i] = blocks[i]
  OBVIOUS
<1>2. after = IF p = q THEN before \cup {n + 1} ELSE before
  BY <1>1
<1>3. n + 1 \notin before
  BY <1>1
<1>4. IsFiniteSet(before)
  <2>1. IsFiniteSet(1 .. n)
    BY <1>1, FS_Interval
  <2>2. before \in SUBSET (1 .. n)
    BY <1>1
  <2> QED
    BY <2>1, <2>2, FS_Subset
<1> HIDE DEF before, after, more, n
<1>5. Cardinality(before) \in Nat
  BY <1>4, FS_CardinalityType
<1>6. Cardinality(before \cup {n + 1}) = Cardinality(before) + 1
  BY <1>3, <1>4, FS_AddElement
<1>7. BlocksOf(q, blocks) = Cardinality(before) /\ BlocksOf(q, more) = Cardinality(after)
  BY DEF BlocksOf, before, after
<1> QED
  BY <1>2, <1>5, <1>6, <1>7 DEF more

\* A write at the end appends, one before the end overwrites.
LEMMA WriteGrows ==
    ASSUME TypeOK, NEW s \in Streams, NEW p \in Processes, Write(p, s),
           position[s] <= Len(file[s])
    PROVE  /\ file' \in [Streams -> Seq(Processes)] /\ position' \in [Streams -> Nat]
           /\ written' \in [Streams -> [Processes -> 0 .. MaxWrites]]
           /\ position'[s] = position[s] + 1
           /\ Len(file[s]) <= Len(file'[s]) /\ position'[s] <= Len(file'[s])
           /\ position[s] = Len(file[s]) => file'[s] = Append(file[s], p)
           /\ written'[s] = [written[s] EXCEPT ![p] = @ + 1]
           /\ \A t \in Streams \ {s} :
                file'[t] = file[t] /\ position'[t] = position[t] /\ written'[t] = written[t]
<1> DEFINE old == file[s]
           at == position[s]
           n == IF at = Len(old) THEN Len(old) + 1 ELSE Len(old)
           new == [i \in 1 .. n |-> IF i = at + 1 THEN p ELSE old[i]]
<1>1. old \in Seq(Processes) /\ at \in Nat /\ Len(old) \in Nat /\ n \in Nat
  BY DEF TypeOK
<1>2. \A i \in 1 .. n : i # at + 1 => i \in 1 .. Len(old)
  BY <1>1
<1>3. new \in Seq(Processes) /\ Len(new) = n
  <2>1. \A i \in 1 .. n : new[i] \in Processes
    BY <1>1, <1>2
  <2> QED
    BY <1>1, <2>1
<1>4. file' = [file EXCEPT ![s] = new]
  BY DEF Write
<1>5. /\ file' \in [Streams -> Seq(Processes)] /\ file'[s] = new
      /\ \A t \in Streams \ {s} : file'[t] = file[t]
  <2> HIDE DEF new
  <2> QED
    BY <1>3, <1>4 DEF TypeOK
<1>6. Len(old) <= n /\ at + 1 <= n
  BY <1>1
<1>7. at = Len(old) => new = Append(old, p)
  <2> SUFFICES ASSUME at = Len(old) PROVE new = Append(old, p)
    OBVIOUS
  <2>1. n = Len(old) + 1 /\ \A i \in 1 .. n : new[i] = Append(old, p)[i]
    BY <1>1
  <2>2. Append(old, p) \in Seq(Processes) /\ Len(Append(old, p)) = n
    BY <1>1, <2>1
  <2> QED
    BY <1>3, <2>1, <2>2
<1>8. /\ position' = [position EXCEPT ![s] = @ + 1]
      /\ written' = [written EXCEPT ![s][p] = @ + 1] /\ written[s][p] < MaxWrites
  BY DEF Write
<1>9. /\ position' \in [Streams -> Nat] /\ position'[s] = at + 1
      /\ \A t \in Streams \ {s} : position'[t] = position[t]
  BY <1>8 DEF TypeOK
<1>10. /\ written' \in [Streams -> [Processes -> 0 .. MaxWrites]]
       /\ written'[s] = [written[s] EXCEPT ![p] = @ + 1]
       /\ \A t \in Streams \ {s} : written'[t] = written[t]
  BY <1>8, HostCommandAssumption DEF TypeOK
<1> QED
  BY <1>3, <1>5, <1>6, <1>7, <1>9, <1>10

-----------------------------------------------------------------------------
\* Every step keeps the types.

\* The invariant holds at first.
LEMMA InitIInv == Init => IInv
<1> SUFFICES ASSUME Init PROVE IInv
  OBVIOUS
<1>1. TypeOK
  <2>1. << >> \in Seq(Processes) /\ 0 \in 0 .. MaxWrites
    BY HostCommandAssumption
  <2>2. /\ file \in [Streams -> Seq(Processes)] /\ captured \in [Streams -> Seq(Processes)]
        /\ position \in [Streams -> Nat] /\ snapshot \in [Streams -> Nat]
        /\ written \in [Streams -> [Processes -> 0 .. MaxWrites]]
    BY <2>1 DEF Init
  <2> QED
    BY <2>2 DEF Init, TypeOK, Pcs, Results
<1>2. CallInv
  BY DEF Init, CallInv, Telling, Snapshotted
<1>3. ASSUME NEW s \in Streams PROVE LengthInv(s)
  BY <1>3 DEF Init, LengthInv, Snapshotted, ReadStep, Streams
<1>4. ASSUME NEW s \in Streams PROVE ContentInv(s)
  <2>1. BlocksOf("child", << >>) = 0
    <3>1. {i \in DOMAIN << >> : << >>[i] = "child"} = {}
      OBVIOUS
    <3> QED
      BY <3>1, FS_EmptySet DEF BlocksOf
  <2> QED
    BY <2>1 DEF Init, ContentInv, Snapshotted, ReadStep, ReadOut, Streams, Processes
<1> QED
  BY <1>1, <1>2, <1>3, <1>4 DEF IInv

\* Every step keeps the types: one case for each action.
LEMMA TypeStep ==
    ASSUME IInv, [Next]_vars
    PROVE  TypeOK'
<1>0. TypeOK
  BY DEF IInv
<1> USE DEF Return, Goto, Pcs, Results, envVars, startVars, childVars, fileVars, readVars
<1>1. CASE Start
  <2>1. Plan(launch.req, launch.host).st \in {"ok", "command_not_found", "spawn_failed"}
        /\ Plan(launch.req, launch.host).sudo \in BOOLEAN
    BY PlanAnswers
  <2> QED
    BY <1>0, <1>1, <2>1 DEF Start, TypeOK
<1>2. CASE Poll
  BY <1>0, <1>2 DEF Poll, Reap, TypeOK
<1>3. CASE CheckLimit
  BY <1>0, <1>3 DEF CheckLimit, TypeOK
<1>4. CASE TerminateOverLimit
  BY <1>0, <1>4 DEF TerminateOverLimit, Reap, Killed, ReaperStarted, TypeOK
<1>5. CASE CheckDeadline
  BY <1>0, <1>5 DEF CheckDeadline, Killed, KillAndWait, TypeOK
<1>6. CASE WaitForChild \/ WaitFails
  BY <1>0, <1>6 DEF WaitForChild, WaitFails, Reap, TypeOK
<1>7. CASE TakeSnapshot
  BY <1>0, <1>7 DEF TakeSnapshot, TypeOK
<1>8. ASSUME NEW s \in Streams, Seek(s) PROVE TypeOK'
  BY <1>0, <1>8, SMTT(20) DEF Seek, SeekStep, ReadStep, Streams, TypeOK
<1>9. ASSUME NEW s \in Streams, ReadBlock(s) PROVE TypeOK'
  <2>1. CASE captured' = [captured EXCEPT ![s] = Append(@, file[s][position[s] + 1])]
             /\ position' = [position EXCEPT ![s] = @ + 1] /\ left' = left - 1
             /\ UNCHANGED <<pc, result>>
    <3>1. position[s] + 1 \in 1 .. Len(file[s]) /\ left - 1 \in Nat
      BY <1>0, <1>9 DEF ReadBlock, AtEnd, TypeOK, IInv, LengthInv
    <3>2. file[s][position[s] + 1] \in Processes
      BY <1>0, <3>1 DEF TypeOK
    <3>3. captured' \in [Streams -> Seq(Processes)] /\ position' \in [Streams -> Nat]
      BY <1>0, <2>1, <3>2 DEF TypeOK
    <3> QED
      BY <1>0, <1>9, <2>1, <3>1, <3>3 DEF ReadBlock, TypeOK
  <2>2. CASE Return("capture_failed") /\ UNCHANGED <<captured, position, left>>
    BY <1>0, <1>9, <2>2 DEF ReadBlock, TypeOK
  <2> QED
    BY <1>9, <2>1, <2>2 DEF ReadBlock
<1>10. ASSUME NEW s \in Streams, ReadEnd(s) PROVE TypeOK'
  <2>1. /\ pc' \in {"done", "seek_stderr"} /\ result' \in {result, "over_limit", "timed_out", "ok"}
        /\ UNCHANGED <<envVars, startVars, childVars, ended, fileVars, readVars>>
    BY <1>10 DEF ReadEnd
  <2> QED
    BY <1>0, <2>1 DEF TypeOK
<1>11. CASE ReapInBackground \/ ChildForks \/ ChildExits \/ DeadlinePasses
  <2>1. CASE ReapInBackground
    BY <1>0, <2>1 DEF ReapInBackground, Reap, TypeOK
  <2>2. CASE ChildForks \/ ChildExits
    BY <1>0, <2>2 DEF ChildForks, ChildExits, callVars, TypeOK
  <2>3. CASE DeadlinePasses
    BY <1>0, <2>3 DEF DeadlinePasses, callVars, TypeOK
  <2> QED
    BY <1>11, <2>1, <2>2, <2>3
<1>12. CASE ChildWrites \/ BackgroundWrites
  <2>1. PICK s \in Streams, q \in Processes : Write(q, s)
    BY <1>12 DEF ChildWrites, BackgroundWrites, Processes
  <2>2. position[s] <= Len(file[s])
    BY DEF IInv, LengthInv
  <2>3. /\ file' \in [Streams -> Seq(Processes)] /\ position' \in [Streams -> Nat]
        /\ written' \in [Streams -> [Processes -> 0 .. MaxWrites]]
    BY <1>0, <2>1, <2>2, WriteGrows
  <2> QED
    BY <1>0, <1>12, <2>3, ZenonT(40) DEF ChildWrites, BackgroundWrites, callVars, TypeOK
<1>13. CASE UNCHANGED vars
  BY <1>0, <1>13 DEF vars, TypeOK
<1> QED
  BY <1>1, <1>2, <1>3, <1>4, <1>5, <1>6, <1>7, <1>8, <1>9, <1>10, <1>11, <1>12, <1>13
     DEF Next, Step
-----------------------------------------------------------------------------
\* The steps that keep the files as they are.
FilesKept == UNCHANGED <<opts, file, position, captured, written, disturbed>>

\* A call that ends without telling output.
LEMMA GivesUp ==
    ASSUME IInv, TypeOK', FilesKept, pc' = "done",
           result' \in Results \ {"none", "ok", "timed_out"},
           result' = "over_limit" => \E s \in Streams : OverLimit(Len(file[s]))
    PROVE  IInv'
<1>1. ~Telling' /\ pc' \in Snapshotted
  BY DEF Telling, Snapshotted
<1>2. CallInv'
  BY <1>1 DEF CallInv, FilesKept, OverLimit
<1>3. ASSUME NEW s \in Streams PROVE LengthInv(s)' /\ ContentInv(s)'
  <2>1. ContentInv(s)'
    BY <1>1 DEF ContentInv
  <2>2. LengthInv(s)'
    BY <1>1 DEF IInv, LengthInv, FilesKept, Unread, ReadStep, Streams, Snapshotted
  <2> QED
    BY <2>1, <2>2
<1> QED
  BY <1>2, <1>3 DEF IInv

\* A call that has not taken the lengths of the files goes on.
LEMMA GoesOn ==
    ASSUME IInv, TypeOK', FilesKept, UNCHANGED <<snapshot, left, result>>,
           pc \notin Snapshotted, pc' \notin Snapshotted,
           pc' = "taking_snapshot" => child' = "reaped",
           pc' = "over_limit" => \E s \in Streams : OverLimit(Len(file[s]))
    PROVE  IInv'
<1>1. Telling /\ Telling' /\ pc # "done" /\ pc' # "done" /\ result = "none"
  BY DEF Telling, Snapshotted, IInv, CallInv
<1>2. CallInv'
  BY <1>1 DEF IInv, CallInv, FilesKept, OverLimit
<1>3. ASSUME NEW s \in Streams PROVE LengthInv(s)' /\ ContentInv(s)'
  <2>1. pc' # ReadStep[s] /\ ~ReadOut(s)' /\ Unread(s) /\ Unread(s)'
    BY <1>1 DEF ReadStep, ReadOut, Streams, Snapshotted, Unread
  <2>2. LengthInv(s)'
    BY <2>1 DEF IInv, LengthInv, FilesKept
  <2>3. ContentInv(s)'
    BY <1>1, <2>1 DEF IInv, ContentInv, FilesKept
  <2> QED
    BY <2>2, <2>3
<1> QED
  BY <1>2, <1>3 DEF IInv

\* What happens around the call.
LEMMA Around ==
    ASSUME IInv, TypeOK', FilesKept, UNCHANGED <<pc, result, snapshot, left>>,
           child = "reaped" => child' = "reaped"
    PROVE  IInv'
<1>1. CallInv'
  BY DEF IInv, CallInv, FilesKept, OverLimit, Telling
<1>2. ASSUME NEW s \in Streams PROVE LengthInv(s)' /\ ContentInv(s)'
  <2>1. LengthInv(s)'
    BY DEF IInv, LengthInv, FilesKept, Unread
  <2>2. ContentInv(s)'
    BY DEF IInv, ContentInv, FilesKept, Telling, ReadOut, OverLimit
  <2> QED
    BY <2>1, <2>2
<1> QED
  BY <1>1, <1>2 DEF IInv

\* The call up to the lengths of the files, and what goes on around it.
LEMMA EarlySteps ==
    ASSUME IInv, TypeOK',
           \/ Start \/ Poll \/ CheckLimit \/ TerminateOverLimit \/ CheckDeadline
           \/ WaitForChild \/ WaitFails
           \/ ReapInBackground \/ ChildForks \/ ChildExits \/ DeadlinePasses
    PROVE  IInv'
<1> USE DEF Return, Goto, envVars, startVars, childVars, fileVars, readVars, Snapshotted, Results
<1>1. CASE Start
  <2>1. FilesKept /\ UNCHANGED <<snapshot, left>> /\ pc = "idle"
    BY <1>1 DEF Start, FilesKept
  <2>2. Plan(launch.req, launch.host).st \in {"ok", "command_not_found", "spawn_failed"}
    BY PlanAnswers
  <2>3. \/ pc' = "done" /\ result' \in {"command_not_found", "spawn_failed"}
        \/ pc' = "polling" /\ result' = result
    BY <1>1, <2>2 DEF Start
  <2> QED
    BY <2>1, <2>3, GivesUp, GoesOn
<1>2. CASE Poll
  <2>1. FilesKept /\ UNCHANGED <<snapshot, left>> /\ pc = "polling"
    BY <1>2 DEF Poll, FilesKept
  <2>2. \/ pc' = "done" /\ result' = "spawn_failed"
        \/ pc' = "checking_limit" /\ result' = result
        \/ pc' = "taking_snapshot" /\ child' = "reaped" /\ result' = result
    BY <1>2 DEF Poll, Reap
  <2> QED
    BY <2>1, <2>2, GivesUp, GoesOn
<1>3. CASE CheckLimit
  <2>1. FilesKept /\ UNCHANGED <<snapshot, left>> /\ pc = "checking_limit"
    BY <1>3 DEF CheckLimit, FilesKept
  <2>2. \/ pc' = "done" /\ result' = "spawn_failed"
        \/ pc' = "checking_deadline" /\ result' = result
        \/ /\ pc' = "over_limit" /\ result' = result
           /\ \E s \in Streams : OverLimit(Len(file[s]))
    BY <1>3 DEF CheckLimit
  <2> QED
    BY <2>1, <2>2, GivesUp, GoesOn
<1>4. CASE TerminateOverLimit
  <2>1. FilesKept /\ pc = "over_limit"
    BY <1>4 DEF TerminateOverLimit, FilesKept
  <2>2. pc' = "done" /\ result' \in {"over_limit", "spawn_failed"}
    BY <1>4 DEF TerminateOverLimit
  <2>3. \E s \in Streams : OverLimit(Len(file[s]))
    BY <2>1 DEF IInv, CallInv
  <2> QED
    BY <2>1, <2>2, <2>3, GivesUp
<1>5. CASE CheckDeadline
  <2>1. FilesKept /\ UNCHANGED <<snapshot, left, result>> /\ pc = "checking_deadline"
    BY <1>5 DEF CheckDeadline, FilesKept
  <2>2. pc' \in {"ending", "polling"}
    BY <1>5 DEF CheckDeadline, KillAndWait
  <2> QED
    BY <2>1, <2>2, GoesOn
<1>6. CASE WaitForChild
  BY <1>6, GoesOn DEF WaitForChild, Reap, FilesKept
<1>7. CASE WaitFails
  BY <1>7, GivesUp DEF WaitFails, FilesKept
<1>8. CASE ReapInBackground \/ ChildForks \/ ChildExits \/ DeadlinePasses
  <2>1. FilesKept /\ UNCHANGED <<pc, result, snapshot, left>>
    BY <1>8 DEF ReapInBackground, ChildForks, ChildExits, DeadlinePasses, callVars, FilesKept
  <2>2. child = "reaped" => child' = "reaped"
    BY <1>8 DEF ReapInBackground, ChildForks, ChildExits, DeadlinePasses, Reap
  <2> QED
    BY <2>1, <2>2, Around
<1> QED
  BY <1>1, <1>2, <1>3, <1>4, <1>5, <1>6, <1>7, <1>8

\* The snapshot is taken of files whose child has been reaped.
LEMMA SnapshotStep ==
    ASSUME IInv, TypeOK', TakeSnapshot
    PROVE  IInv'
<1> USE DEF Return, Goto, envVars, startVars, childVars, fileVars, readVars
<1>0. FilesKept /\ pc = "taking_snapshot" /\ child' = child
  BY DEF TakeSnapshot, FilesKept
<1>1. CASE Return("spawn_failed")
  BY <1>0, <1>1, GivesUp DEF Results
<1>2. CASE snapshot' = [s \in Streams |-> Len(file[s])] /\ Goto("seek_stdout")
  <2>1. /\ pc' = "seek_stdout" /\ UNCHANGED result /\ child = "reaped" /\ result = "none"
        /\ pc \notin Snapshotted /\ Telling /\ Telling'
    BY <1>0, <1>2 DEF IInv, CallInv, Telling, Snapshotted
  <2>2. CallInv'
    BY <1>0, <2>1 DEF CallInv, Snapshotted
  <2>3. ASSUME NEW s \in Streams PROVE LengthInv(s)' /\ ContentInv(s)'
    <3>1. pc' # ReadStep[s] /\ ~ReadOut(s)' /\ Unread(s)
      BY <2>1 DEF ReadStep, Streams, ReadOut, Unread
    <3>2. LengthInv(s)'
      BY <1>0, <2>1, <3>1 DEF IInv, LengthInv, FilesKept, Snapshotted
    <3>3. snapshot'[s] = Len(file'[s])
      BY <1>0, <1>2 DEF FilesKept
    <3>4. ContentInv(s)'
      BY <1>0, <2>1, <3>1, <3>3 DEF IInv, ContentInv, FilesKept
    <3> QED
      BY <3>2, <3>4
  <2> QED
    BY <2>2, <2>3 DEF IInv
<1> QED
  BY <1>1, <1>2 DEF TakeSnapshot
\* Reading one stream concerns the other one only by its place in the order.
LEMMA SeekStepKeeps ==
    ASSUME IInv, TypeOK', NEW s \in Streams, Seek(s)
    PROVE  IInv'
<1> USE DEF Return, Goto, envVars, startVars, childVars
<1>0. /\ pc = SeekStep[s] /\ pc \in Snapshotted /\ pc # "done" /\ Telling
      /\ child' = child /\ result = "none"
      /\ UNCHANGED <<opts, file, captured, written, disturbed, snapshot>>
  BY DEF Seek, SeekStep, Streams, Snapshotted, IInv, CallInv, Telling
<1>1. CASE Return("capture_failed") /\ UNCHANGED <<position, left>>
  BY <1>0, <1>1, GivesUp DEF Results, FilesKept
<1>2. CASE /\ position' = [position EXCEPT ![s] = 0]
           /\ left' = snapshot[s] /\ Goto(ReadStep[s])
  <2>1. /\ pc' = ReadStep[s] /\ pc' \in Snapshotted /\ pc' # "done" /\ result' = result /\ Telling'
        /\ position'[s] = 0 /\ \A t \in Streams \ {s} : position'[t] = position[t]
        /\ position[s] \in Nat /\ snapshot[s] \in Nat /\ Len(file[s]) \in Nat
    BY <1>0, <1>2 DEF ReadStep, Streams, Snapshotted, Telling, IInv, TypeOK
  <2>2. CallInv'
    <3>1. child = "reaped" /\ pc' # "over_limit" /\ result' # "over_limit"
      BY <1>0, <2>1 DEF IInv, CallInv, Snapshotted
    <3> QED
      BY <1>0, <2>1, <3>1 DEF CallInv
  <2>3. captured[s] = << >>
    BY <1>0 DEF IInv, LengthInv, Unread, SeekStep, Streams
  <2>4. LengthInv(s)' /\ ContentInv(s)'
    <3>1. ~Unread(s)' /\ ~ReadOut(s)'
      BY <2>1 DEF Unread, ReadOut, ReadStep, Streams
    <3>2. LengthInv(s)'
      BY <1>0, <2>1, <2>3, <3>1 DEF LengthInv
    <3>3. ContentInv(s)'
      BY <1>0, <1>2, <2>1, <2>3, <3>1 DEF IInv, ContentInv
    <3> QED
      BY <3>2, <3>3
  <2>5. ASSUME NEW t \in Streams \ {s} PROVE LengthInv(t)' /\ ContentInv(t)'
    <3>1. /\ pc # ReadStep[t] /\ pc' # ReadStep[t]
          /\ Unread(t)' => Unread(t)
          /\ ReadOut(t)' => ReadOut(t)
      BY <1>0, <2>1 DEF SeekStep, ReadStep, Streams, Unread, ReadOut, Snapshotted
    <3>2. LengthInv(t)'
      BY <1>0, <2>1, <3>1 DEF IInv, LengthInv
    <3>3. ContentInv(t)'
      BY <1>0, <2>1, <3>1 DEF IInv, ContentInv, OverLimit
    <3> QED
      BY <3>2, <3>3
  <2> QED
    BY <2>2, <2>4, <2>5 DEF IInv
<1> QED
  BY <1>1, <1>2 DEF Seek

\* A read takes the next block of the file, or what a descendant put there.
LEMMA ReadBlockKeeps ==
    ASSUME IInv, TypeOK', NEW s \in Streams, ReadBlock(s)
    PROVE  IInv'
<1> USE DEF Return, Goto, envVars, startVars, childVars
<1>0. /\ pc = ReadStep[s] /\ pc \in Snapshotted /\ pc # "done" /\ Telling /\ result = "none"
      /\ child' = child /\ UNCHANGED <<opts, file, written, disturbed, snapshot>>
  BY DEF ReadBlock, ReadStep, Streams, Snapshotted, IInv, CallInv, Telling
<1>1. CASE Return("capture_failed") /\ UNCHANGED <<captured, position, left>>
  BY <1>0, <1>1, GivesUp DEF Results, FilesKept
<1>2. CASE /\ captured' = [captured EXCEPT ![s] = Append(@, file[s][position[s] + 1])]
           /\ position' = [position EXCEPT ![s] = @ + 1]
           /\ left' = left - 1 /\ UNCHANGED <<pc, result>>
  <2> DEFINE block == file[s][position[s] + 1]
  <2>1. /\ position[s] \in Nat /\ left \in Nat /\ Len(file[s]) \in Nat
        /\ captured[s] \in Seq(Processes) /\ Len(captured[s]) \in Nat
        /\ file[s] \in Seq(Processes) /\ snapshot[s] \in Nat
        /\ position[s] <= Len(file[s]) /\ Len(captured[s]) <= position[s]
    BY <1>0 DEF IInv, TypeOK, LengthInv
  <2>2. left > 0 /\ position[s] + 1 \in 1 .. Len(file[s])
    BY <2>1 DEF ReadBlock, AtEnd
  <2>3. block \in Processes
    BY <2>1, <2>2
  <2>4. /\ captured'[s] = Append(captured[s], block) /\ position'[s] = position[s] + 1
        /\ \A t \in Streams \ {s} : captured'[t] = captured[t] /\ position'[t] = position[t]
    <3> HIDE DEF block
    <3>1. captured' = [captured EXCEPT ![s] = Append(@, block)]
      BY <1>2 DEF block
    <3> QED
      BY <1>2, <3>1 DEF IInv, TypeOK
  <2>5. Len(captured'[s]) = Len(captured[s]) + 1 /\ captured'[s][Len(captured[s]) + 1] = block
        /\ \A i \in 1 .. Len(captured[s]) : captured'[s][i] = captured[s][i]
    BY <2>1, <2>3, <2>4
  <2>6. Telling' = Telling /\ CallInv'
    BY <1>0, <1>2 DEF IInv, CallInv, Telling, OverLimit
  <2>7. LengthInv(s)' /\ ContentInv(s)'
    <3>1. ~Unread(s)' /\ ~ReadOut(s)'
      BY <1>0, <1>2 DEF Unread, ReadOut, ReadStep, Streams, Snapshotted
    <3>2. LengthInv(s)'
      BY <1>0, <1>2, <2>1, <2>2, <2>4, <2>5, <3>1 DEF LengthInv
    <3>3. ASSUME s \notin disturbed
          PROVE  /\ position'[s] = Len(captured'[s]) /\ position'[s] + left' = snapshot[s]
                 /\ \A i \in 1 .. position'[s] : captured'[s][i] = file[s][i]
      <4>1. /\ position[s] = Len(captured[s]) /\ position[s] + left = snapshot[s]
            /\ \A i \in 1 .. position[s] : captured[s][i] = file[s][i]
        BY <1>0, <3>3 DEF IInv, ContentInv
      <4>2. position'[s] = Len(captured'[s]) /\ position'[s] + left' = snapshot[s]
        BY <1>2, <2>1, <2>2, <2>4, <2>5, <4>1
      <4>3. \A i \in 1 .. position'[s] : i \in 1 .. position[s] \/ i = position[s] + 1
        BY <2>1, <2>4
      <4> QED
        BY <2>5, <4>1, <4>2, <4>3
    <3>4. ContentInv(s)'
      BY <1>0, <1>2, <2>6, <3>1, <3>3 DEF IInv, ContentInv
    <3> QED
      BY <3>2, <3>4
  <2>8. ASSUME NEW t \in Streams \ {s} PROVE LengthInv(t)' /\ ContentInv(t)'
    <3>1. pc # ReadStep[t]
      BY <1>0 DEF ReadStep, Streams
    <3>2. LengthInv(t)'
      BY <1>0, <1>2, <2>4, <3>1 DEF IInv, LengthInv, Unread
    <3>3. ContentInv(t)'
      BY <1>0, <1>2, <2>4, <2>6, <3>1 DEF IInv, ContentInv, ReadOut, OverLimit
    <3> QED
      BY <3>2, <3>3
  <2> QED
    BY <2>6, <2>7, <2>8 DEF IInv
<1> QED
  BY <1>1, <1>2 DEF ReadBlock

\* A read that ends has reached the snapshot, or been disturbed.
LEMMA ReadEndKeeps ==
    ASSUME IInv, TypeOK', NEW s \in Streams, ReadEnd(s)
    PROVE  IInv'
<1> USE DEF Return, Goto, envVars, startVars, childVars, fileVars, readVars
<1>0. /\ pc = ReadStep[s] /\ pc \in Snapshotted /\ pc # "done" /\ Telling /\ result = "none"
      /\ AtEnd(s) /\ child' = child /\ FilesKept /\ UNCHANGED <<snapshot, left>>
  BY DEF ReadEnd, ReadStep, Streams, Snapshotted, IInv, CallInv, Telling, FilesKept
<1>1. /\ Len(captured[s]) \in Nat /\ Len(file[s]) \in Nat /\ position[s] \in Nat
      /\ left \in Nat /\ snapshot[s] \in Nat /\ Len(captured[s]) <= Len(file[s])
      /\ captured[s] \in Seq(Processes) /\ file[s] \in Seq(Processes)
  BY DEF IInv, TypeOK, LengthInv
<1>2. CASE OverLimit(Len(captured[s])) /\ Return("over_limit")
  <2>1. OverLimit(Len(file[s]))
    <3>1. opts.limit # NoLimit => opts.limit \in Nat
      BY HostCommandAssumption DEF IInv, TypeOK, Options
    <3> QED
      BY <1>1, <1>2, <3>1 DEF OverLimit
  <2> QED
    BY <1>0, <1>2, <2>1, GivesUp DEF Results
<1>3. CASE /\ ~OverLimit(Len(captured[s]))
           /\ \/ s = "stdout" /\ Goto("seek_stderr")
              \/ s = "stderr" /\ pc' = "done" /\ result' \in {"timed_out", "ok"}
  <2>1. /\ pc' \in {"seek_stderr", "done"} /\ Telling' /\ (result' = "none" <=> pc' # "done")
        /\ pc' \in Snapshotted /\ result' # "over_limit" /\ pc' # "over_limit"
    BY <1>0, <1>3 DEF Telling, Snapshotted
  <2>2. child = "reaped"
    BY <1>0 DEF IInv, CallInv
  <2>3. CallInv'
    BY <1>0, <2>1, <2>2 DEF CallInv
  <2>4. ASSUME s \notin disturbed PROVE captured[s] = file[s]
    <3>1. /\ snapshot[s] = Len(file[s]) /\ position[s] = Len(captured[s])
          /\ position[s] + left = snapshot[s]
          /\ \A i \in 1 .. position[s] : captured[s][i] = file[s][i]
      BY <1>0, <2>4 DEF IInv, ContentInv
    <3>2. position[s] = Len(file[s])
      BY <1>0, <1>1, <3>1 DEF AtEnd
    <3>3. /\ Len(captured[s]) = Len(file[s])
          /\ \A i \in 1 .. Len(captured[s]) : captured[s][i] = file[s][i]
      BY <3>1, <3>2
    <3> QED
      BY <1>1, <3>3, SeqEqual
  <2>5. ASSUME NEW t \in Streams PROVE LengthInv(t)' /\ ContentInv(t)'
    <3>1. pc' # ReadStep[t] /\ (Unread(t)' => Unread(t))
      BY <1>0, <1>3, <2>1 DEF ReadStep, Streams, Unread, Snapshotted
    <3>2. ReadOut(t)' => t = s \/ ReadOut(t)
      BY <1>0, <1>3 DEF ReadOut, Streams, ReadStep
    <3>3. LengthInv(t)'
      BY <1>0, <2>1, <3>1 DEF IInv, LengthInv, FilesKept
    <3>4. ASSUME t \notin disturbed, ReadOut(t)' PROVE captured[t] = file[t] /\ ~OverLimit(Len(file[t]))
      <4>1. CASE t = s
        BY <1>3, <2>4, <3>4, <4>1
      <4>2. CASE ReadOut(t)
        BY <1>0, <3>4, <4>2 DEF IInv, ContentInv
      <4> QED
        BY <3>2, <3>4, <4>1, <4>2
    <3>5. ContentInv(t)'
      BY <1>0, <2>1, <3>1, <3>4 DEF IInv, ContentInv, FilesKept, OverLimit
    <3> QED
      BY <3>3, <3>5
  <2> QED
    BY <2>3, <2>5 DEF IInv
<1> QED
  BY <1>2, <1>3 DEF ReadEnd, Streams
\* The child writes only while nobody has taken the lengths of the files for
\* output to be returned; who writes later disturbs the stream.
LEMMA WriteKeeps ==
    ASSUME IInv, TypeOK', ChildWrites \/ BackgroundWrites
    PROVE  IInv'
<1>0. /\ UNCHANGED <<opts, pc, result, snapshot, left, captured, child>>
      /\ Telling' = Telling
  BY DEF ChildWrites, BackgroundWrites, callVars, Telling
<1>1. PICK s \in Streams, q \in Processes :
        /\ Write(q, s)
        /\ q = "child" => child = "running" /\ UNCHANGED disturbed
        /\ q # "child" => disturbed' = IF pc \in Snapshotted THEN disturbed \cup {s} ELSE disturbed
  BY DEF ChildWrites, BackgroundWrites, Processes
<1>2. /\ position[s] \in Nat /\ Len(file[s]) \in Nat /\ Len(captured[s]) \in Nat
      /\ position[s] <= Len(file[s]) /\ file[s] \in Seq(Processes)
      /\ Len(file'[s]) \in Nat
  BY DEF IInv, TypeOK, LengthInv
<1>3. /\ position'[s] = position[s] + 1
      /\ Len(file[s]) <= Len(file'[s]) /\ position'[s] <= Len(file'[s])
      /\ position[s] = Len(file[s]) => file'[s] = Append(file[s], q)
      /\ written'[s] = [written[s] EXCEPT ![q] = @ + 1]
      /\ \A t \in Streams \ {s} :
            file'[t] = file[t] /\ position'[t] = position[t] /\ written'[t] = written[t]
  BY <1>1, <1>2, WriteGrows DEF IInv
<1>4. \A t \in Streams : OverLimit(Len(file[t])) => OverLimit(Len(file[t]))'
  <2>1. opts.limit # NoLimit => opts.limit \in Nat
    BY HostCommandAssumption DEF IInv, TypeOK, Options
  <2> QED
    BY <1>0, <1>2, <1>3, <2>1, SMTT(20) DEF OverLimit
<1>5. CallInv'
  BY <1>0, <1>1, <1>4 DEF IInv, CallInv
<1>6. LengthInv(s)'
  <2>1. position[s] = Len(file[s]) => position'[s] = Len(file'[s])
    BY <1>2, <1>3
  <2>2. Len(captured[s]) <= Len(file'[s])
    BY <1>2, <1>3 DEF IInv, LengthInv
  <2> QED
    BY <1>0, <1>2, <1>3, <2>1, <2>2 DEF IInv, LengthInv, Unread
<1>7. ContentInv(s)'
  <2> SUFFICES ASSUME Telling, s \notin disturbed' PROVE ContentInv(s)'
    BY <1>0 DEF ContentInv
  <2>1. pc \notin Snapshotted
    <3>1. CASE q = "child"
      BY <1>1, <3>1 DEF IInv, CallInv
    <3>2. CASE q # "child"
      BY <1>1, <3>2
    <3> QED
      BY <3>1, <3>2
  <2>2. pc # ReadStep[s] /\ ~ReadOut(s)
    BY <2>1 DEF ReadStep, ReadOut, Streams, Snapshotted
  <2>3. file'[s] = Append(file[s], q)
    BY <1>3, <2>1 DEF IInv, LengthInv
  <2>4. BlocksOf("child", file[s]) = written[s]["child"]
    BY <1>1, <2>1 DEF IInv, CallInv, ContentInv
  <2>5. BlocksOf("child", file'[s]) = written'[s]["child"]
    <3>1. "child" \in Processes /\ written[s] \in [Processes -> 0 .. MaxWrites]
      BY DEF IInv, TypeOK, Processes
    <3>2. written'[s]["child"] = IF q = "child" THEN written[s]["child"] + 1 ELSE written[s]["child"]
      BY <1>3, <3>1
    <3>3. BlocksOf("child", Append(file[s], q)) =
            IF q = "child" THEN BlocksOf("child", file[s]) + 1 ELSE BlocksOf("child", file[s])
      BY <1>2, <3>1, BlocksOfAppend
    <3> QED
      BY <2>3, <2>4, <3>2, <3>3
  <2> QED
    BY <1>0, <2>1, <2>2, <2>5 DEF ContentInv, ReadOut
<1>8. ASSUME NEW t \in Streams \ {s} PROVE LengthInv(t)' /\ ContentInv(t)'
  <2>1. t \in disturbed' <=> t \in disturbed
    BY <1>1
  <2>2. LengthInv(t)'
    BY <1>0, <1>3 DEF IInv, LengthInv, Unread
  <2>3. ContentInv(t)'
    BY <1>0, <1>3, <2>1 DEF IInv, ContentInv, ReadOut, OverLimit
  <2> QED
    BY <2>2, <2>3
<1> QED
  BY <1>5, <1>6, <1>7, <1>8 DEF IInv

\* Every step keeps the invariant.
LEMMA StepIInv == IInv /\ [Next]_vars => IInv'
<1> SUFFICES ASSUME IInv, [Next]_vars PROVE IInv'
  OBVIOUS
<1>1. TypeOK'
  BY TypeStep
<1>2. CASE Next
  BY <1>1, <1>2, EarlySteps, SnapshotStep, SeekStepKeeps, ReadBlockKeeps, ReadEndKeeps,
     WriteKeeps DEF Next, Step
<1>3. CASE UNCHANGED vars
  BY <1>1, <1>3, Around DEF vars, FilesKept
<1> QED
  BY <1>2, <1>3

LEMMA Invariance == Spec => []IInv
BY InitIInv, StepIInv, PTL DEF Spec

-----------------------------------------------------------------------------
\* Every variable keeps its type.
THEOREM TypeCorrect == Spec => []TypeOK
<1>1. IInv => TypeOK
  BY DEF IInv
<1> QED
  BY <1>1, Invariance, PTL

\* A call that succeeds or runs into its deadline returns every block the
\* child wrote, within the capture limit, unless a descendant writes to the
\* stream while it is read; and only a call whose output is over the limit is
\* told so.
THEOREM OutputIsComplete == Spec => []OutputComplete
<1>1. IInv => OutputComplete
  <2> SUFFICES ASSUME IInv PROVE OutputComplete
    OBVIOUS
  <2>1. ASSUME result \in {"ok", "timed_out"}, NEW s \in Streams \ disturbed
        PROVE  /\ BlocksOf("child", captured[s]) = written[s]["child"]
               /\ Len(captured[s]) = snapshot[s] /\ ~OverLimit(snapshot[s])
    <3>1. pc = "done" /\ Telling
      BY <2>1 DEF IInv, CallInv, Telling
    <3> QED
      BY <2>1, <3>1 DEF IInv, ContentInv, ReadOut, Snapshotted
  <2>2. ASSUME result = "over_limit" PROVE \E s \in Streams : opts.limit < Len(file[s])
    <3>1. PICK s \in Streams : OverLimit(Len(file[s]))
      BY <2>2 DEF IInv, CallInv
    <3>2. opts.limit \in Nat /\ Len(file[s]) \in Nat
      <4>1. opts.limit \in Limits \cup {NoLimit} /\ opts.limit # NoLimit
        BY <3>1 DEF IInv, TypeOK, Options, OverLimit
      <4>2. opts.limit \in Nat
        BY <4>1, HostCommandAssumption
      <4>3. file[s] \in Seq(Processes)
        BY <3>1 DEF IInv, TypeOK
      <4> QED
        BY <4>2, <4>3
    <3> QED
      BY <3>1, <3>2 DEF OverLimit
  <2> QED
    BY <2>1, <2>2 DEF OutputComplete
<1> QED
  BY <1>1, Invariance, PTL

-----------------------------------------------------------------------------
\* What is launched.

\* A set of naturals that has an element has a smallest one.
LEMMA SmallestIndex ==
    ASSUME NEW S \in SUBSET Nat, S # {}
    PROVE  Min(S) \in S
<1> DEFINE Below == {pair \in Nat \X Nat : pair[1] < pair[2]}
<1>1. IsWellFoundedOn(Below, Nat)
  BY NatLessThanWellFounded DEF OpToRel
<1>2. PICK i \in S : \A j \in S : <<j, i>> \notin Below
  BY <1>1, WFMin
<1>3. ASSUME NEW j \in S PROVE i <= j
  <2>1. <<j, i>> \in Nat \X Nat /\ <<j, i>>[1] = j /\ <<j, i>>[2] = i
    OBVIOUS
  <2>2. ~(j < i)
    BY <1>2, <2>1
  <2> QED
    BY <2>2
<1> HIDE DEF Below
<1>4. \E k \in S : \A j \in S : k <= j
  BY <1>3
<1> QED
  BY <1>4 DEF Min

\* What the standard locations answer is in one of them, and can be run.
LEMMA StandardLocation ==
    ASSUME NEW host, NEW name, InStandardLocations(host, name) # NoPath
    PROVE  /\ FromStandard(InStandardLocations(host, name))
           /\ IsSpawnable(host, InStandardLocations(host, name))
<1> DEFINE found == {i \in DOMAIN StandardDirs : IsSpawnable(host, <<StandardDirs[i], name>>)}
           path == <<StandardDirs[Min(found)], name>>
<1>1. found # {} /\ InStandardLocations(host, name) = path
  BY DEF InStandardLocations, FirstIn
<1>2. DOMAIN StandardDirs = 1 .. Len(StandardDirs) /\ Len(StandardDirs) \in Nat
  BY LaunchAssumption
<1>3. Min(found) \in found
  <2>1. found \in SUBSET Nat
    BY <1>2
  <2>2. found # {}
    BY <1>1
  <2> HIDE DEF found
  <2> QED
    BY <2>1, <2>2, SmallestIndex
<1>4. FromStandard(path)
  <2>1. Min(found) \in 1 .. Len(StandardDirs)
    BY <1>2, <1>3
  <2> HIDE DEF found
  <2> QED
    BY <2>1 DEF FromStandard
<1> QED
  BY <1>1, <1>3, <1>4

\* A manager of the host is one by name, found in a standard location.
LEMMA HostManagerIs ==
    ASSUME NEW host, NEW name, HostManager(host, name) # NoPath
    PROVE  name \in Managers /\ HostManager(host, name) = InStandardLocations(host, name)
BY DEF HostManager

\* Who is eligible for sudo has its target: the file that standard locations
\* give, or one with the same identity.
LEMMA SudoTargetIsManager ==
    ASSUME NEW req, NEW host, SudoEligible(req, host)
    PROVE  LET trusted == InStandardLocations(host, req.name)
           IN  /\ req.name \in Managers /\ trusted # NoPath
               /\ host.files[SudoTarget(req, host)] = host.files[trusted]
               /\ Bare(req) => SudoTarget(req, host) # NoPath
               /\ ~Bare(req) => IsHostManager(req, host, SudoTarget(req, host))
<1>1. CASE Bare(req)
  BY <1>1, HostManagerIs DEF SudoEligible, SudoTarget
<1>2. CASE ~Bare(req)
  BY <1>2, HostManagerIs DEF SudoEligible, SudoTarget, IsHostManager
<1> QED
  BY <1>1, <1>2

\* The plan of a command that is run under sudo.
LEMMA SudoPlanIs ==
    ASSUME NEW req, NEW host \in Hosts, RequiresSudo(req, host)
    PROVE  LET p == Plan(req, host)
               trusted == InStandardLocations(host, req.name)
           IN  /\ p.st # "command_not_found"
               /\ p.st = "ok" =>
                    /\ p.sudo /\ FromStandard(p.launcher) /\ FromStandard(p.cleaner)
                    /\ req.name \in Managers /\ host.nonRoot
                    /\ trusted # NoPath /\ host.files[p.target] = host.files[trusted]
<1> DEFINE launcher == InStandardLocations(host, "sudo")
           cleaner == InStandardLocations(host, "env")
           trusted == InStandardLocations(host, req.name)
           target == SudoTarget(req, host)
           plan == Plan(req, host)
<1>1. SudoEligible(req, host) /\ host.nonRoot
  BY DEF RequiresSudo
<1>2. /\ req.name \in Managers /\ trusted # NoPath /\ host.files[target] = host.files[trusted]
      /\ Bare(req) => target # NoPath
      /\ ~Bare(req) => IsHostManager(req, host, target)
  BY <1>1, SudoTargetIsManager
<1>3. SudoTargetRefusal(req, host) = "none"
  <2>1. CASE Bare(req)
    BY <1>2, <2>1 DEF SudoTargetRefusal
  <2>2. CASE ~Bare(req)
    <3>1. target \in DOMAIN host.files
      BY <1>2, <2>2, HostCommandAssumption DEF IsHostManager, IsSpawnable
    <3> QED
      BY <1>2, <2>2, <3>1 DEF SudoTargetRefusal, Exists
  <2> QED
    BY <2>1, <2>2
<1>4. \/ plan = Refused("spawn_failed")
      \/ /\ launcher # NoPath /\ cleaner # NoPath
         /\ plan = Elevated(launcher, cleaner, target, SudoAssignments(req, host))
  BY <1>3 DEF Plan, SudoPlan
<1>5. Refused("spawn_failed").st = "spawn_failed"
  BY DEF Refused
<1>6. \A e : LET p == Elevated(launcher, cleaner, target, e)
             IN  p.sudo /\ p.st = "ok" /\ p.launcher = launcher /\ p.cleaner = cleaner
                 /\ p.target = target
  BY DEF Elevated
<1>7. /\ launcher # NoPath => FromStandard(launcher)
      /\ cleaner # NoPath => FromStandard(cleaner)
  BY StandardLocation
<1> QED
  BY <1>1, <1>2, <1>4, <1>5, <1>6, <1>7

\* The plan of a command that is run without it.
LEMMA DirectPlanIs ==
    ASSUME NEW req, NEW host \in Hosts, ~RequiresSudo(req, host)
    PROVE  LET p == Plan(req, host)
           IN  /\ ~p.sudo
               /\ p.st = "command_not_found" => ~Available(req, host)
               /\ p.st = "ok" => (Available(req, host) <=> IsSpawnable(host, p.launcher))
<1> DEFINE program == IF Bare(req) THEN OnPath(req, host) ELSE ExplicitPath(req)
           plan == Plan(req, host)
<1>1. Available(req, host) = IsSpawnable(host, program)
  BY DEF Available
<1>2. \/ plan = Refused("spawn_failed")
      \/ program = NoPath /\ plan = Refused("command_not_found")
      \/ \E e : plan = Direct(program, e)
  BY DEF Plan, DirectPlan
<1>3. \A why : Refused(why).st = why /\ Refused(why).sudo = FALSE
  BY DEF Refused
<1>4. \A e : LET p == Direct(program, e)
             IN  p.st = "ok" /\ p.sudo = FALSE /\ p.launcher = program
  BY DEF Direct, Refused
<1>5. ~IsSpawnable(host, NoPath)
  BY DEF IsSpawnable
<1> HIDE DEF program, plan
<1> QED
  BY <1>1, <1>2, <1>3, <1>4, <1>5 DEF plan

\* A request is planned once, before the call has started anything.
Planned == pc = "idle" => launch \in [req : Requests, host : Hosts]

\* The launch is fixed until the call starts, and the call starts once.
LEMMA PlannedAlways == Spec => []Planned
<1>1. Init => Planned
  BY DEF Init, Planned
<1>2. Planned /\ [Next]_vars => Planned'
  <2> SUFFICES ASSUME Planned, [Next]_vars PROVE Planned'
    OBVIOUS
  <2>1. CASE Step
    <3>1. pc' # "idle"
      BY <2>1 DEF Step, Start, Poll, CheckLimit, TerminateOverLimit, CheckDeadline, KillAndWait,
         WaitForChild, TakeSnapshot, Seek, SeekStep, ReadStep, ReadBlock, ReadEnd, Return, Goto, Streams
    <3> QED
      BY <3>1 DEF Planned
  <2>2. CASE WaitFails
    BY <2>2 DEF WaitFails, Return, Planned
  <2>3. CASE ~Step /\ ~WaitFails
    <3>1. UNCHANGED <<pc, launch>>
      BY <2>3 DEF Next, ReapInBackground, ChildWrites, BackgroundWrites, ChildForks, ChildExits,
         DeadlinePasses, callVars, startVars, vars
    <3> QED
      BY <3>1 DEF Planned
  <2> QED
    BY <2>1, <2>2, <2>3
<1> QED
  BY <1>1, <1>2, PTL DEF Spec

\* Under sudo, the launcher, the environment cleaner and the target are files of
\* the standard locations and the target is a manager; without sudo what runs is
\* what is reported as available, and what is reported as not found is not.
THEOREM ProgramIsAsAsked == Spec => ProgramAsAsked
<1> DEFINE req == launch.req
           host == launch.host
           p == Plan(req, host)
           trusted == InStandardLocations(host, req.name)
           Elevates == pc = "idle" /\ pc' = "polling" /\ sudo' =>
                         /\ FromStandard(p.launcher) /\ FromStandard(p.cleaner)
                         /\ req.name \in Managers /\ host.nonRoot
                         /\ trusted # NoPath /\ host.files[p.target] = host.files[trusted]
           Runs == pc = "idle" /\ pc' = "polling" /\ ~sudo' => Available(req, host)
           Misses == pc = "idle" /\ result' = "command_not_found" => ~Available(req, host)
<1>1. ASSUME IInv, Planned, Next, pc = "idle" PROVE Elevates /\ Runs /\ Misses
  <2>1. CASE Start
    <3>0. host \in Hosts
      BY <1>1 DEF Planned
    <3>1. pc' = "polling" => p.st = "ok" /\ CanSpawn(req, host, p) /\ sudo' = p.sudo
      BY <2>1 DEF Start, Return, Goto
    <3>2. result' = "command_not_found" =>
             \/ p.st = "command_not_found"
             \/ p.st = "ok" /\ ~p.sudo /\ ~Exists(host, p.launcher)
      BY <1>1, <2>1 DEF Start, Return, Goto, MissingProgram, IInv, CallInv
    <3>3. CASE RequiresSudo(req, host)
      BY <3>0, <3>1, <3>2, <3>3, SudoPlanIs
    <3>4. CASE ~RequiresSudo(req, host)
      <4>1. IsSpawnable(host, p.launcher) => Exists(host, p.launcher)
        BY <3>0, HostCommandAssumption DEF IsSpawnable, Exists
      <4> QED
        BY <3>0, <3>1, <3>2, <3>4, <4>1, DirectPlanIs DEF CanSpawn
    <3> QED
      BY <3>3, <3>4
  <2>2. CASE ~Start
    <3>1. UNCHANGED <<pc, result>>
      BY <1>1, <2>2 DEF Next, Step, Poll, CheckLimit, TerminateOverLimit, CheckDeadline,
         WaitForChild, WaitFails, TakeSnapshot, Seek, SeekStep, ReadStep, ReadBlock, ReadEnd,
         Streams, ReapInBackground, ChildWrites, BackgroundWrites, ChildForks, ChildExits,
         DeadlinePasses, callVars
    <3>2. result = "none"
      BY <1>1 DEF IInv, CallInv
    <3> QED
      BY <1>1, <3>1, <3>2
  <2> QED
    BY <2>1, <2>2
<1>2. IInv /\ Planned /\ [Next]_vars => [Elevates /\ Runs /\ Misses]_vars
  BY <1>1
<1> QED
  BY <1>2, Invariance, PlannedAlways, PTL DEF Spec, ProgramAsAsked
=============================================================================
