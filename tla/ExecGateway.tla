---------------------------- MODULE ExecGateway ----------------------------
(***************************************************************************)
(* The life of a command in omne-execution-gateway (gateway.rs): execute() *)
(* and prepare_command() / PreparedCommand::spawn / PreparedChild, with    *)
(* what each writes to the audit log.  Between any two steps other         *)
(* programs may replace or rewrite the executable, replace the working     *)
(* directory or move the audit log; any file or process operation may      *)
(* fail; the process that hosts a call may be killed.                      *)
(*                                                                         *)
(* GatewayDecision says which requests preflight denies; here it may deny  *)
(* any.  AuditLog says what one append does; here it happens or fails.     *)
(***************************************************************************)
EXTENDS Naturals, Sequences

CONSTANTS
    Executions,         \* calls of execute()
    Preparations,       \* callers of prepare_command()
    Programs,           \* files that may be at the program path
    Cwds,               \* directories that may be at the cwd path
    Logs,               \* files that may be at the audit log path
    Nothing,
    MaxChanges          \* bound on the other programs' changes

Calls == Executions \cup Preparations

ASSUME ExecGatewayAssumption ==
    /\ Executions \cap Preparations = {}
    /\ MaxChanges \in Nat
    /\ Nothing \notin Logs

VARIABLES
    audited,        \* audit_log_path is set; never changes
    byDescriptor,   \* Linux: /proc/self/fd/N is executed, not the path; likewise
    pc,         \* pc[r]: the step call r takes next
    decision,   \* decision[r]: ExecEvent.decision
    results,    \* results[r]: what the caller was told
    bound,      \* bound[r]: what preflight bound the request to
    started,    \* started[r]: what the child was started with
    child,      \* child[r]: the child process
    sink,       \* sink[r]: the audit file call r holds open, or Nothing
    logs,       \* logs[f]: the records in audit file f
    fs,         \* the paths the request names, see Init
    moved,      \* moved[r]: what changed since call r last looked
    changes

vars == <<audited, byDescriptor, pc, decision, results, bound, started, child, sink, logs,
          fs, moved, changes>>
setup == <<audited, byDescriptor>>
fsVars == <<fs, changes, setup>>

Pcs == {"idle", "recording_denial", "opening_sink", "recording_prepare", "prepared",
        "checking_program", "checking_cwd", "spawning", "recording_failure", "waiting",
        "recording_exit", "holding", "dropping", "done", "dead"}
Decisions == {"run", "deny"}
Children == {"none", "running", "exited", "reaped"}
NotStarted == {"changed", "spawn_failed", "sandbox_failed"}
AuditFailures == {"audit_unavailable", "audit_failed"}
Results == {"denied", "ok", "wait_failed"} \cup NotStarted \cup AuditFailures
Terminal == {"exited", "spawn_error", "execution_error", "detached"}
Statuses == {"prepared", "prepare_error"} \cup Terminal
Entries == [call : Calls, status : Statuses, decision : Decisions]
FileSystems == [program : Programs, cwd : Cwds, log : Logs,
                version : [Programs -> 0 .. MaxChanges]]
Views == [program : Programs, version : 0 .. MaxChanges, cwd : Cwds]

Init ==
    /\ audited \in BOOLEAN /\ byDescriptor \in BOOLEAN
    /\ pc = [r \in Calls |-> "idle"]
    /\ decision = [r \in Calls |-> "none"]
    /\ results = [r \in Calls |-> {}]
    /\ bound = [r \in Calls |-> Nothing]
    /\ started = [r \in Calls |-> Nothing]
    /\ child = [r \in Calls |-> "none"]
    /\ sink = [r \in Calls |-> Nothing]
    /\ logs = [f \in Logs |-> << >>]
    /\ \E p \in Programs, d \in Cwds, f \in Logs :
          fs = [program |-> p, cwd |-> d, log |-> f,
                version |-> [q \in Programs |-> 0]]
    /\ moved = [r \in Calls |-> {}]
    /\ changes = 0

-----------------------------------------------------------------------------
At(r, step) == pc[r] = step
Goto(r, step) == pc' = [pc EXCEPT ![r] = step]
Tell(r, result) == results' = [results EXCEPT ![r] = @ \cup {result}]
Decide(r, d) == decision' = [decision EXCEPT ![r] = d]
DropSink(r) == sink' = [sink EXCEPT ![r] = Nothing]

View == [program |-> fs.program, version |-> fs.version[fs.program], cwd |-> fs.cwd]

\* A record is appended to the file the sink has open.
Record(r, status, d) ==
    logs' = [logs EXCEPT ![sink[r]] =
                Append(@, [call |-> r, status |-> status, decision |-> d])]

\* prepare_request: the request is denied, or bound to what its paths name.
Preflight(r) ==
    /\ At(r, "idle")
    /\ \/ /\ bound' = [bound EXCEPT ![r] = View]
          /\ Decide(r, "run")
          /\ Goto(r, "opening_sink")
          /\ UNCHANGED results
       \/ /\ Decide(r, "deny")
          /\ Tell(r, "denied")
          /\ Goto(r, IF audited THEN "recording_denial" ELSE "done")
          /\ UNCHANGED bound
    /\ UNCHANGED <<started, child, sink, logs, moved, fsVars>>

\* Without a retained sink the record goes to the file now at the path.
RecordDenial(r) ==
    /\ At(r, "recording_denial")
    /\ \/ /\ logs' = [logs EXCEPT ![fs.log] = Append(@,
                        [call |-> r, status |-> "prepare_error", decision |-> "deny"])]
          /\ UNCHANGED results
       \/ Tell(r, "audit_failed") /\ UNCHANGED logs
    /\ Goto(r, "done")
    /\ UNCHANGED <<decision, bound, started, child, sink, moved, fsVars>>

\* Mutant: a sink that cannot be opened does not stop the call.
SinkFailureIgnored(r) == "checking_program"

SinkFailure(r) == "done"

AfterSink(r) ==
    CASE r \in Executions -> "checking_program"
      [] r \in Preparations /\ audited -> "recording_prepare"
      [] OTHER -> "prepared"

\* prepare_audit_sink
OpenSink(r) ==
    /\ At(r, "opening_sink")
    /\ \/ /\ sink' = [sink EXCEPT ![r] = IF audited THEN fs.log ELSE Nothing]
          /\ Goto(r, AfterSink(r))
          /\ UNCHANGED <<decision, results>>
       \/ /\ audited
          /\ Decide(r, "deny")
          /\ Tell(r, "audit_unavailable")
          /\ Goto(r, SinkFailure(r))
          /\ UNCHANGED sink
    /\ UNCHANGED <<bound, started, child, logs, moved, fsVars>>

\* Mutant: a command whose prepare record failed is handed out.
PrepareFailureIgnored == "prepared"

PrepareFailure == "done"

RecordPrepare(r) ==
    /\ At(r, "recording_prepare")
    /\ \/ /\ Record(r, "prepared", "run")
          /\ Goto(r, "prepared")
          /\ UNCHANGED <<results, sink>>
       \/ /\ Tell(r, "audit_failed")
          /\ DropSink(r)
          /\ Goto(r, PrepareFailure)
          /\ UNCHANGED logs
    /\ UNCHANGED <<decision, bound, started, child, moved, fsVars>>

\* The caller spawns the prepared command, or drops it without a record.
SpawnPrepared(r) ==
    /\ At(r, "prepared")
    /\ \/ Goto(r, "checking_program") /\ UNCHANGED sink
       \/ Goto(r, "done") /\ DropSink(r)
    /\ UNCHANGED <<decision, results, bound, started, child, logs, moved, fsVars>>

\* Mutant: the event is recorded as preflight left it.
EventUnchanged == "run"

\* event_for_post_preflight_error
EventAfterError == "deny"

\* An error after preflight turns the event into a denial.
Fail(r, result) ==
    /\ Decide(r, EventAfterError)
    /\ Tell(r, result)
    /\ Goto(r, IF audited THEN "recording_failure" ELSE "done")

\* Mutant: the file's identity is compared, its contents are not.
SameFile(r) == bound[r].program = View.program

ProgramUnchanged(r) ==
    bound[r].program = View.program /\ bound[r].version = View.version

\* revalidate_bound_program
CheckProgram(r) ==
    /\ At(r, "checking_program")
    /\ \/ /\ ProgramUnchanged(r)
          /\ moved' = [moved EXCEPT ![r] = {}]
          /\ Goto(r, "checking_cwd")
          /\ UNCHANGED <<decision, results>>
       \/ Fail(r, "changed") /\ UNCHANGED moved
    /\ UNCHANGED <<bound, started, child, sink, logs, fsVars>>

\* revalidate_prepared_request_paths
CheckDirectories(r) ==
    /\ At(r, "checking_cwd")
    /\ \/ /\ bound[r].cwd = fs.cwd
          /\ moved' = [moved EXCEPT ![r] = @ \ {"cwd"}]
          /\ Goto(r, "spawning")
          /\ UNCHANGED <<decision, results>>
       \/ Fail(r, "changed") /\ UNCHANGED moved
    /\ UNCHANGED <<bound, started, child, sink, logs, fsVars>>

\* Mutant: the path is executed although a descriptor is bound.
PathExecuted(r) == fs.program

Executed(r) == IF byDescriptor THEN bound[r].program ELSE fs.program

\* apply_prepared_request and Command::spawn
Spawn(r) ==
    /\ At(r, "spawning")
    /\ \/ /\ started' = [started EXCEPT ![r] =
                [program |-> Executed(r), version |-> fs.version[Executed(r)],
                 cwd |-> fs.cwd]]
          /\ child' = [child EXCEPT ![r] = "running"]
          /\ Goto(r, IF r \in Executions THEN "waiting" ELSE "holding")
          /\ UNCHANGED <<decision, results>>
       \/ /\ \E e \in {"spawn_failed", "sandbox_failed"} : Fail(r, e)
          /\ UNCHANGED <<started, child>>
    /\ UNCHANGED <<bound, sink, logs, moved, fsVars>>

\* AuditResult::from_execution for execute(), from_execution_error for spawn.
FailureStatus(r) ==
    IF results[r] \cap {"spawn_failed", "wait_failed"} # {} THEN "spawn_error"
    ELSE IF r \in Executions THEN "prepare_error"
    ELSE "execution_error"

RecordFailure(r) ==
    /\ At(r, "recording_failure")
    /\ \/ Record(r, FailureStatus(r), decision[r]) /\ UNCHANGED results
       \/ Tell(r, "audit_failed") /\ UNCHANGED logs
    /\ DropSink(r)
    /\ Goto(r, "done")
    /\ UNCHANGED <<decision, bound, started, child, moved, fsVars>>

Reap(r) ==
    /\ child[r] \in {"exited", "reaped"}
    /\ child' = [child EXCEPT ![r] = "reaped"]

\* execute() blocks in Child::wait; an error of it is reported as Spawn.
Wait(r) ==
    /\ At(r, "waiting")
    /\ \/ /\ Reap(r)
          /\ Goto(r, "recording_exit")
          /\ UNCHANGED <<decision, results>>
       \/ Fail(r, "wait_failed") /\ UNCHANGED child
    /\ UNCHANGED <<bound, started, sink, logs, moved, fsVars>>

\* Mutant: a record that could not be written leaves the result as it was.
WriteFailureHidden == {"ok"}

WriteFailureTold == {"audit_failed"}

\* finalize_result: the terminal record goes through the sink and drops it;
\* its failure replaces the result.  Without a sink there is no record.
Finalize(r) ==
    /\ \/ /\ sink[r] # Nothing
          /\ Record(r, "exited", "run")
          /\ Tell(r, "ok")
       \/ /\ sink[r] # Nothing
          /\ results' = [results EXCEPT ![r] = @ \cup WriteFailureTold]
          /\ UNCHANGED logs
       \/ /\ sink[r] = Nothing
          /\ Tell(r, "ok")
          /\ UNCHANGED logs

RecordExit(r) ==
    /\ At(r, "recording_exit")
    /\ Finalize(r)
    /\ DropSink(r)
    /\ Goto(r, "done")
    /\ UNCHANGED <<decision, bound, started, child, moved, fsVars>>

\* Mutant: try_wait leaves the sink in place.
SinkKept(r) == sink[r]

SinkTaken(r) == Nothing

\* PreparedChild::try_wait of an exited child (of a running one: no effect).
TryWait(r) ==
    /\ At(r, "holding")
    /\ \/ /\ Reap(r)
          /\ Finalize(r)
          /\ sink' = [sink EXCEPT ![r] = SinkTaken(r)]
       \/ Tell(r, "wait_failed") /\ UNCHANGED <<child, sink, logs>>
    /\ UNCHANGED <<pc, decision, bound, started, moved, fsVars>>

\* PreparedChild::wait consumes the child; after an error, drop still runs.
WaitChild(r) ==
    /\ At(r, "holding")
    /\ \/ /\ Reap(r)
          /\ Finalize(r)
          /\ DropSink(r)
          /\ Goto(r, "done")
       \/ /\ Tell(r, "wait_failed")
          /\ Goto(r, "dropping")
          /\ UNCHANGED <<child, sink, logs>>
    /\ UNCHANGED <<decision, bound, started, moved, fsVars>>

\* finalize_on_drop: a try_wait, then a record whose failure nobody sees.
DropChild(r) ==
    /\ pc[r] \in {"holding", "dropping"}
    /\ \/ /\ sink[r] = Nothing
          /\ UNCHANGED <<child, logs>>
       \/ /\ sink[r] # Nothing
          /\ \/ Reap(r) /\ (Record(r, "exited", "run") \/ UNCHANGED logs)
             \/ /\ child[r] = "running"
                /\ Record(r, "detached", "run") \/ UNCHANGED logs
                /\ UNCHANGED child
             \/ /\ Record(r, "spawn_error", "run") \/ UNCHANGED logs
                /\ UNCHANGED child
    /\ DropSink(r)
    /\ Goto(r, "done")
    /\ UNCHANGED <<decision, results, bound, started, moved, fsVars>>

Step(r) ==
    \/ Preflight(r) \/ RecordDenial(r) \/ OpenSink(r) \/ RecordPrepare(r)
    \/ SpawnPrepared(r) \/ CheckProgram(r) \/ CheckDirectories(r) \/ Spawn(r)
    \/ RecordFailure(r) \/ Wait(r) \/ RecordExit(r) \/ TryWait(r)
    \/ WaitChild(r) \/ DropChild(r)

-----------------------------------------------------------------------------
\* The environment.

ChildExits(r) ==
    /\ child[r] = "running"
    /\ child' = [child EXCEPT ![r] = "exited"]
    /\ UNCHANGED <<pc, decision, results, bound, started, sink, logs, moved, fsVars>>

Kill(r) ==
    /\ pc[r] \notin {"idle", "done", "dead"}
    /\ Goto(r, "dead")
    /\ DropSink(r)
    /\ UNCHANGED <<decision, results, bound, started, child, logs, moved, fsVars>>

Change(what) ==
    /\ changes < MaxChanges
    /\ changes' = changes + 1
    /\ moved' = [r \in Calls |-> moved[r] \cup what]
    /\ UNCHANGED <<setup, pc, decision, results, bound, started, child, sink, logs>>

ChangeProgram ==
    /\ \/ \E p \in Programs \ {fs.program} : fs' = [fs EXCEPT !.program = p]
       \/ \E p \in Programs : fs' = [fs EXCEPT !.version[p] = @ + 1]
    /\ Change({"program"})

ReplaceCwd ==
    /\ \E d \in Cwds \ {fs.cwd} : fs' = [fs EXCEPT !.cwd = d]
    /\ Change({"cwd"})

MoveLog ==
    /\ \E f \in Logs \ {fs.log} : fs' = [fs EXCEPT !.log = f]
    /\ Change({})

Next ==
    \/ \E r \in Calls : Step(r) \/ ChildExits(r) \/ Kill(r)
    \/ ChangeProgram \/ ReplaceCwd \/ MoveLog

Spec == Init /\ [][Next]_vars

-----------------------------------------------------------------------------
\* Properties.

TypeOK ==
    /\ audited \in BOOLEAN /\ byDescriptor \in BOOLEAN
    /\ pc \in [Calls -> Pcs]
    /\ decision \in [Calls -> Decisions \cup {"none"}]
    /\ results \in [Calls -> SUBSET Results]
    /\ bound \in [Calls -> Views \cup {Nothing}]
    /\ started \in [Calls -> Views \cup {Nothing}]
    /\ child \in [Calls -> Children]
    /\ sink \in [Calls -> Logs \cup {Nothing}]
    /\ logs \in [Logs -> Seq(Entries)]
    /\ fs \in FileSystems
    /\ moved \in [Calls -> SUBSET {"program", "cwd"}]
    /\ changes \in 0 .. MaxChanges

\* The records of call r, with the file and the place they are at.
Trail(r) ==
    UNION {{[file |-> f, at |-> i, status |-> logs[f][i].status,
             decision |-> logs[f][i].decision] :
                i \in {j \in DOMAIN logs[f] : logs[f][j].call = r}} : f \in Logs}

\* A command that runs was audited first: a prepared one is in the log, one
\* of execute() has the log open for its terminal record (until it is killed).
NoUnauditedRun ==
    audited =>
        \A r \in Calls :
            started[r] # Nothing =>
                IF r \in Preparations THEN \E t \in Trail(r) : t.status = "prepared"
                ELSE pc[r] \in {"done", "dead"} \/ sink[r] # Nothing

\* A caller that was told a result and of no audit failure finds the terminal
\* record of that result in the log.
ResultsAreRecorded ==
    audited =>
        \A r \in Calls :
            pc[r] = "done" /\ results[r] \cap AuditFailures = {} =>
                /\ "ok" \in results[r] => \E t \in Trail(r) : t.status = "exited"
                /\ results[r] \cap (NotStarted \cup {"denied"}) # {} =>
                     \E t \in Trail(r) :
                         t.status \notin {"prepared", "exited"} /\ t.decision = "deny"

\* try_wait, wait and drop together write one terminal record, after the
\* prepared record and into the file that was bound then, wherever the path
\* leads by now.
OneTerminalRecord ==
    \A r \in Preparations :
        \A t \in Trail(r) : t.status \in Terminal =>
            /\ \E p \in Trail(r) : p.status = "prepared" /\ p.file = t.file /\ p.at < t.at
            /\ \A u \in Trail(r) : u.status \in Terminal => u = t

\* A command runs what preflight decided about, unless that changed after the
\* last check; on Linux not even then another file.
StaleBindingRefused ==
    \A r \in Calls :
        started[r] # Nothing =>
            /\ byDescriptor => started[r].program = bound[r].program
            /\ <<started[r].program, started[r].version>>
                    # <<bound[r].program, bound[r].version>> => "program" \in moved[r]
            /\ started[r].cwd # bound[r].cwd => "cwd" \in moved[r]

\* The event says Run and the error says that nothing was started: no record
\* does both.
NoContradictoryRecord ==
    \A r \in Calls :
        results[r] \cap NotStarted # {} =>
            \A t \in Trail(r) : t.status # "prepared" => t.decision = "deny"

\* The audit trail and the caller agree: every result told is on record, once,
\* after its prepared record, and no record contradicts it.
\* (combine_result_with_audit_write, combine_exit_status_with_audit_write.)
RecordsTruthful == ResultsAreRecorded /\ OneTerminalRecord /\ NoContradictoryRecord
=============================================================================
