----------------------------- MODULE HostCommand -----------------------------
(***************************************************************************)
(* run_host_command_with_capture_options of omne-process-primitives        *)
(* (host_command.rs): a call starts a child whose output goes to two       *)
(* temporary files, polls it every 50 ms, ends it at the deadline or at    *)
(* the capture limit, and reads the files back.  The child may leave a     *)
(* descendant behind that keeps the files open and goes on writing.        *)
(*                                                                         *)
(* The handles of a file come from try_clone, so the call, the child and   *)
(* the descendant share one position in it.  A block of output is a cell   *)
(* that says who wrote it.                                                 *)
(***************************************************************************)
EXTENDS HostLaunch

CONSTANTS
    Requests,   \* what is to be run, see HostLaunch
    Hosts,      \* and on which host
    Variables,  \* names of environment variables
    Limits,     \* capture limits per stream the caller may choose
    NoLimit,    \* without_capture_limit
    MaxWrites   \* bound on the blocks one process writes to one stream

ASSUME HostCommandAssumption ==
    /\ Limits \subseteq Nat
    /\ NoLimit \notin Nat
    /\ MaxWrites \in Nat
    /\ \A host \in Hosts : host.executable \subseteq DOMAIN host.files

VARIABLES
    opts,       \* the options of the call: see Options; never change
    launch,     \* the request and the host, until the child is started
    sudo,       \* the child is started by sudo
    pc,         \* what the call does next
    result,     \* what it returns, "none" before that
    child,      \* the direct child
    signalled,  \* the child was sent SIGKILL
    background, \* the child's descendant
    late,       \* the deadline has passed
    ended,      \* the call found that it has
    reaper,     \* a background thread waits for the child
    file,       \* file[s]: the temporary file of stream s
    position,   \* position[s]: the shared position in it
    snapshot,   \* snapshot[s]: how much of it is output of this call
    left,       \* blocks of the snapshot not read yet
    captured,   \* captured[s]: what the call has read
    written,    \* written[s][p]: blocks that process p wrote (history)
    disturbed   \* the streams written to after the snapshot (history)

vars == <<opts, launch, sudo, pc, result, child, signalled, background, late, ended, reaper, file,
          position, snapshot, left, captured, written, disturbed>>
childVars == <<child, signalled, reaper>>
fileVars == <<file, position, written, disturbed>>
readVars == <<snapshot, left, captured>>
startVars == <<launch, sudo>>
envVars == <<opts, background, late>>

Streams == {"stdout", "stderr"}
Processes == {"child", "background"}
Options == [timeout : BOOLEAN, limit : Limits \cup {NoLimit}]
Pcs == {"idle", "polling", "checking_limit", "over_limit", "checking_deadline",
        "ending", "taking_snapshot", "seek_stdout", "read_stdout", "seek_stderr",
        "read_stderr", "done"}

SeekStep == [stdout |-> "seek_stdout", stderr |-> "seek_stderr"]
ReadStep == [stdout |-> "read_stdout", stderr |-> "read_stderr"]

\* "over_limit" and "capture_failed" are both HostCommandError::CaptureFailed.
Results == {"none", "ok", "command_not_found", "spawn_failed", "over_limit",
            "capture_failed", "timed_out"}

Init ==
    /\ opts \in Options
    /\ launch \in [req : Requests, host : Hosts] /\ sudo = FALSE
    /\ pc = "idle" /\ result = "none"
    /\ child = "none" /\ background = "none"
    /\ signalled = FALSE /\ late = FALSE /\ ended = FALSE /\ reaper = FALSE
    /\ file = [s \in Streams |-> << >>]
    /\ position = [s \in Streams |-> 0]
    /\ snapshot = [s \in Streams |-> 0]
    /\ left = 0
    /\ captured = [s \in Streams |-> << >>]
    /\ written = [s \in Streams |-> [p \in Processes |-> 0]]
    /\ disturbed = {}

-----------------------------------------------------------------------------
Return(told) ==
    /\ pc' = "done"
    /\ result' = told

Goto(step) ==
    /\ pc' = step
    /\ UNCHANGED result

NoLaunch == [req |-> << >>, host |-> << >>]
CanSpawn(req, host, plan) ==
    /\ IsSpawnable(host, plan.launcher)
    /\ req.cwd \in host.directories \cup {NoDirectory}

\* spawn_error_is_missing_program: only of a direct command.
MissingProgram(req, host, plan) ==
    /\ ~plan.sudo /\ ~Exists(host, plan.launcher)
    /\ req.cwd \in host.directories \cup {NoDirectory}

\* The request is refused or the spawn fails, or the child runs.
Start ==
    LET req  == launch.req
        host == launch.host
        plan == Plan(req, host)
    IN  /\ pc = "idle"
        /\ launch' = NoLaunch
        /\ \/ plan.st # "ok" /\ Return(plan.st) /\ UNCHANGED <<child, sudo>>
           \/ /\ plan.st = "ok" /\ UNCHANGED <<child, sudo>>
              /\ \/ Return("spawn_failed")
                 \/ MissingProgram(req, host, plan) /\ Return("command_not_found")
           \/ /\ plan.st = "ok" /\ CanSpawn(req, host, plan)
              /\ child' = "running" /\ sudo' = plan.sudo /\ Goto("polling")
        /\ UNCHANGED <<envVars, signalled, ended, reaper, fileVars, readVars>>

Reap ==
    /\ child = "exited"
    /\ child' = "reaped"

\* A round of wait_for_child begins with try_wait.
Poll ==
    /\ pc = "polling"
    /\ \/ Reap /\ Goto("taking_snapshot")
       \/ child = "running" /\ Goto("checking_limit") /\ UNCHANGED child
       \/ Return("spawn_failed") /\ UNCHANGED child
    /\ UNCHANGED <<envVars, startVars, signalled, ended, reaper, fileVars, readVars>>

\* Mutant: output of exactly the limit is too much.
AtLimit(n) == opts.limit # NoLimit /\ n >= opts.limit

\* capture_file_exceeded_limit, and exceeded_capture_limit of the reader.
OverLimit(n) == opts.limit # NoLimit /\ n > opts.limit

CheckLimit ==
    /\ pc = "checking_limit"
    /\ \/ Goto(IF \E s \in Streams : OverLimit(Len(file[s]))
               THEN "over_limit" ELSE "checking_deadline")
       \/ Return("spawn_failed")
    /\ UNCHANGED <<envVars, startVars, childVars, ended, fileVars, readVars>>

\* Mutant: the child is not killed, only waited for.
NotKilled == {signalled}

\* child.kill(): a caller without privileges may not signal what runs under
\* sudo, and the error is ignored.
Killed == IF sudo THEN BOOLEAN ELSE {TRUE}

\* Mutant: nobody waits for the child that is dropped.
NoReaper == FALSE

\* spawn_background_child_reaper
ReaperStarted == TRUE

\* terminate_child_after_capture_limit
TerminateOverLimit ==
    /\ pc = "over_limit"
    /\ signalled' \in Killed
    /\ \/ Reap /\ Return("over_limit") /\ UNCHANGED reaper
       \/ /\ child = "running"
          /\ reaper' = ReaperStarted
          /\ Return("over_limit")
          /\ UNCHANGED child
       \/ Return("spawn_failed") /\ UNCHANGED <<child, reaper>>
    /\ UNCHANGED <<envVars, startVars, ended, fileVars, readVars>>

\* Mutant: the output is taken without waiting for the killed child.
KillWithoutWait == "taking_snapshot"

KillAndWait == "ending"

\* At the deadline the child is killed; else the call sleeps and polls again.
CheckDeadline ==
    /\ pc = "checking_deadline"
    /\ IF late
       THEN ended' = TRUE /\ signalled' \in Killed /\ Goto(KillAndWait)
       ELSE Goto("polling") /\ UNCHANGED <<ended, signalled>>
    /\ UNCHANGED <<envVars, startVars, child, reaper, fileVars, readVars>>

\* child.wait() blocks until the child has gone.
WaitForChild ==
    /\ pc = "ending"
    /\ Reap
    /\ Goto("taking_snapshot")
    /\ UNCHANGED <<envVars, startVars, signalled, ended, reaper, fileVars, readVars>>

WaitFails ==
    /\ pc = "ending"
    /\ Return("spawn_failed")
    /\ UNCHANGED <<envVars, startVars, childVars, ended, fileVars, readVars>>

\* capture_output_snapshot: the lengths of both files.
TakeSnapshot ==
    /\ pc = "taking_snapshot"
    /\ \/ snapshot' = [s \in Streams |-> Len(file[s])] /\ Goto("seek_stdout")
       \/ Return("spawn_failed") /\ UNCHANGED snapshot
    /\ UNCHANGED <<envVars, startVars, childVars, ended, fileVars, left, captured>>

\* read_captured_output: back to the start, then no further than the snapshot.
Seek(s) ==
    /\ pc = SeekStep[s]
    /\ \/ /\ position' = [position EXCEPT ![s] = 0]
          /\ left' = snapshot[s]
          /\ Goto(ReadStep[s])
       \/ Return("capture_failed") /\ UNCHANGED <<position, left>>
    /\ UNCHANGED <<envVars, startVars, childVars, ended, file, written, disturbed, snapshot, captured>>

AtEnd(s) == left = 0 \/ position[s] = Len(file[s])

\* One round of read_stream_limited.  The code throws away what is over the
\* limit, here it is kept: both end in the same error.
ReadBlock(s) ==
    /\ pc = ReadStep[s]
    /\ ~AtEnd(s)
    /\ \/ /\ captured' = [captured EXCEPT ![s] = Append(@, file[s][position[s] + 1])]
          /\ position' = [position EXCEPT ![s] = @ + 1]
          /\ left' = left - 1
          /\ UNCHANGED <<pc, result>>
       \/ Return("capture_failed") /\ UNCHANGED <<captured, position, left>>
    /\ UNCHANGED <<envVars, startVars, childVars, ended, file, written, disturbed, snapshot>>

ReadEnd(s) ==
    /\ pc = ReadStep[s]
    /\ AtEnd(s)
    /\ CASE OverLimit(Len(captured[s])) -> Return("over_limit")
         [] ~OverLimit(Len(captured[s])) /\ s = "stdout" -> Goto("seek_stderr")
         [] OTHER -> Return(IF ended THEN "timed_out" ELSE "ok")
    /\ UNCHANGED <<envVars, startVars, childVars, ended, fileVars, readVars>>

Step ==
    \/ Start \/ Poll \/ CheckLimit \/ TerminateOverLimit \/ CheckDeadline
    \/ WaitForChild \/ TakeSnapshot
    \/ \E s \in Streams : Seek(s) \/ ReadBlock(s) \/ ReadEnd(s)

\* The thread of spawn_background_child_reaper.
ReapInBackground ==
    /\ reaper
    /\ Reap
    /\ UNCHANGED <<envVars, startVars, pc, result, signalled, ended, reaper, fileVars, readVars>>

-----------------------------------------------------------------------------
\* The environment.

callVars == <<opts, startVars, pc, result, ended, reaper, snapshot, left, captured>>

\* A write goes to the shared position and moves it.
Write(p, s) ==
    /\ written[s][p] < MaxWrites
    /\ written' = [written EXCEPT ![s][p] = @ + 1]
    /\ file' = [file EXCEPT ![s] =
                    [i \in 1 .. (IF position[s] = Len(@) THEN Len(@) + 1 ELSE Len(@)) |->
                        IF i = position[s] + 1 THEN p ELSE @[i]]]
    /\ position' = [position EXCEPT ![s] = @ + 1]

ChildWrites ==
    /\ child = "running"
    /\ \E s \in Streams : Write("child", s)
    /\ UNCHANGED <<callVars, child, signalled, background, late, disturbed>>

Snapshotted == {"seek_stdout", "read_stdout", "seek_stderr", "read_stderr", "done"}

BackgroundWrites ==
    /\ background = "running"
    /\ \E s \in Streams :
          /\ Write("background", s)
          /\ disturbed' = IF pc \in Snapshotted THEN disturbed \cup {s} ELSE disturbed
    /\ UNCHANGED <<callVars, child, signalled, background, late>>

ChildForks ==
    /\ child = "running" /\ background = "none"
    /\ background' = "running"
    /\ UNCHANGED <<callVars, child, signalled, late, fileVars>>

ChildExits ==
    /\ child = "running"
    /\ child' = "exited"
    /\ UNCHANGED <<callVars, signalled, background, late, fileVars>>

\* The signal takes effect.
ChildDies == signalled /\ ChildExits

DeadlinePasses ==
    /\ opts.timeout /\ pc # "idle" /\ ~late
    /\ late' = TRUE
    /\ UNCHANGED <<callVars, child, signalled, background, fileVars>>

Next ==
    \/ Step \/ WaitFails \/ ReapInBackground
    \/ ChildWrites \/ BackgroundWrites \/ ChildForks \/ ChildExits \/ DeadlinePasses

\* The threads of the caller run, time passes, and signals take effect.
\* Nothing is assumed of the child or its descendant.
Fairness ==
    /\ WF_vars(Step) /\ WF_vars(ReapInBackground)
    /\ WF_vars(DeadlinePasses) /\ WF_vars(ChildDies)

Spec == Init /\ [][Next]_vars /\ Fairness

-----------------------------------------------------------------------------
\* Properties.

TypeOK ==
    /\ opts \in Options /\ sudo \in BOOLEAN
    /\ launch \in [req : Requests, host : Hosts] \cup {NoLaunch}
    /\ pc \in Pcs /\ result \in Results
    /\ child \in {"none", "running", "exited", "reaped"}
    /\ background \in {"none", "running"}
    /\ {signalled, late, ended, reaper} \subseteq BOOLEAN
    /\ file \in [Streams -> Seq(Processes)]
    /\ position \in [Streams -> Nat]
    /\ snapshot \in [Streams -> Nat]
    /\ left \in Nat
    /\ captured \in [Streams -> Seq(Processes)]
    /\ written \in [Streams -> [Processes -> 0 .. MaxWrites]]
    /\ disturbed \subseteq Streams

\* What a variable is worth to who makes the request: the request's last word
\* on it, else what the process inherits and does not remove.
Wanted(req, host, v) ==
    LET given == {i \in 1 .. Len(req.env) : req.env[i][1] = v}
    IN  IF given # {} THEN {req.env[CHOOSE i \in given : \A j \in given : j <= i][2]}
        ELSE {host.variables[u] : u \in {v} \cap (DOMAIN host.variables \ req.removed)}
Given(env, v) == {env[u] : u \in {v} \cap DOMAIN env}
FromStandard(path) == path[1] \in {StandardDirs[i] : i \in 1 .. Len(StandardDirs)}

\* A direct child gets the environment its caller asked for, whatever is
\* inherited, removed and given how often.  Under sudo that is what `env -i` is
\* told, PATH excepted, which is the trusted one or none: whatever env runs then
\* runs with no other.  (build_command_with_resolved_programs and
\* effective_target_environment_assignments.)
EnvironmentAsAsked ==
    [][LET req  == launch.req
           host == launch.host
       IN  pc = "idle" /\ pc' = "polling" =>
               \A v \in Variables :
                  Given(Plan(req, host).env, v) =
                      IF sudo' /\ v = "PATH" THEN (IF v \in req.removed THEN {} ELSE {TrustedPath})
                      ELSE Wanted(req, host, v)]_vars

\* Under sudo, what runs in the end is the target, and it has the non-PATH pairs of
\* the request: "preserving non-PATH request env overlays" (README.md of the
\* crate).  env runs `--` instead as soon as there is a pair.
ElevatedTargetGetsOverlay ==
    [][LET p == Plan(launch.req, launch.host)
       IN  pc = "idle" /\ pc' = "polling" /\ sudo' =>
               /\ p.runs = p.target
               /\ \A v \in Variables \ {"PATH"} :
                     Given(p.env, v) = Wanted(launch.req, launch.host, v)]_vars

\* Under sudo only files of the standard locations are to be run, and as the
\* target the very manager found there; without it the program is one that
\* command_available_for_request answers for, and one that is reported as not
\* found is none.
ProgramAsAsked ==
    [][LET req  == launch.req
           host == launch.host
           p    == Plan(req, host)
           trusted == InStandardLocations(host, req.name)
       IN  /\ pc = "idle" /\ pc' = "polling" /\ sudo' =>
                 /\ FromStandard(p.launcher) /\ FromStandard(p.cleaner)
                 /\ req.name \in Managers /\ host.nonRoot
                 /\ trusted # NoPath /\ host.files[p.target] = host.files[trusted]
           /\ pc = "idle" /\ pc' = "polling" /\ ~sudo' => Available(req, host)
           /\ pc = "idle" /\ result' = "command_not_found" => ~Available(req, host)]_vars

BlocksOf(p, blocks) == Cardinality({i \in DOMAIN blocks : blocks[i] = p})

\* What a call returns, after success or a timeout, has every block that the
\* child wrote and is within the limit, as long as no descendant writes while
\* it is read; a call that reports too much output is right.
OutputComplete ==
    /\ result \in {"ok", "timed_out"} =>
         \A s \in Streams \ disturbed :
            /\ BlocksOf("child", captured[s]) = written[s]["child"]
            /\ Len(captured[s]) = snapshot[s] /\ ~OverLimit(snapshot[s])
    /\ result = "over_limit" => \E s \in Streams : opts.limit < Len(file[s])

\* The child's output is never lost: what a descendant writes after the
\* snapshot does not change what the call reads. The code does not have
\* this property (README, observed divergences): no run checks it.
NoOutputLost ==
    result \in {"ok", "timed_out"} =>
        \A s \in Streams : BlocksOf("child", captured[s]) = written[s]["child"]

\* A call comes to an end once its child has, whoever keeps the files open
\* and however much is written; with a timeout, or once there is too much
\* output, also without the child's doing (unless it runs under sudo).
CallReturns ==
    (/\ pc = "polling"
     /\ \/ child # "running"
        \/ ~sudo /\ opts.timeout
        \/ \E s \in Streams : OverLimit(Len(file[s]))) ~> pc = "done"

\* A child that was ended for its output or its time is reaped in the end,
\* although the call does not wait for it in the former case.
ChildReaped ==
    (~sudo /\ result \in {"over_limit", "timed_out"}) ~> child = "reaped"

\* Nothing of a call is left hanging, neither the caller nor a zombie.
\* (wait_for_child, spawn_background_child_reaper.)
NothingHangs == CallReturns /\ ChildReaped
=============================================================================
