-------------------------- MODULE GatewayDecision --------------------------
(***************************************************************************)
(* ExecGateway::prepare_request (omne-execution-gateway, gateway.rs): the  *)
(* decision about one request, under any policy and host.  The checks run  *)
(* in a fixed order and the first that fails gives the audited reason.     *)
(*                                                                         *)
(* A path is what the checks find out about it; the two allowlists are     *)
(* whether they name the executable the program path resolves to.  A       *)
(* command line is looked at twice: as the code reads it, by file names    *)
(* and by options it knows, and as what its files and wrappers really do.  *)
(***************************************************************************)
EXTENDS Naturals, Sequences, FiniteSetsExt

CONSTANTS
    Commands,       \* the command lines requests may have, see CommandLines
    PathFaults      \* what may be wrong with workspace_root and cwd

\* What a file name says the file is.  Wrappers (timeout, nice, nohup, setsid,
\* stdbuf) run the command their arguments name, launchers what they are told.
Names == {"tool", "wrapper", "launcher"}

\* What a file is: a stray launcher is one whose contents are not those of a
\* launcher that a standard directory holds under its name.
Kinds == Names \cup {"stray_launcher"}

CommandLines ==
    [typed : Names,                     \* the program's name as it was typed
     target : Names \cup {"none"},      \* the name of the file it resolves to
     is : Kinds,                        \* what that file is
     read : Seq(Names),                 \* the chain of subcommands the code reads
     runs : Seq(Kinds)]                 \* and the one that wrappers would run

ASSUME GatewayDecisionAssumption ==
    /\ Commands \subseteq CommandLines
    /\ PathFaults \subseteq {"workspace_root_invalid", "cwd_invalid",
                             "cwd_outside_workspace", "path_identity_unavailable"}

VARIABLES
    policy,     \* GatewayPolicy
    host,       \* ExecGateway.supported_isolation
    request,    \* ExecRequest
    answer      \* the denial's reason, "none" when it may run

decisionVars == <<policy, host, request, answer>>

\* ExecutionIsolation: None < BestEffort < Strict
None == 0
BestEffort == 1
Strict == 2
Isolations == {None, BestEffort, Strict}

Policies ==
    [allow_isolation_none : BOOLEAN,
     enforce : BOOLEAN,             \* enforce_allowlisted_program_for_mutation
     default_isolation : Isolations,
     audit_path : {"absolute", "relative"},
     mutating : BOOLEAN,            \* the program is on the mutating list
     non_mutating : BOOLEAN]        \* and on the other one

Requests ==
    [isolation : Isolations,
     source : {"request", "policy_default"},
     program : {"bare", "relative", "absolute"},
     command : Commands,
     declared : {"unset", "mutating", "non_mutating"},
     startup_env : BOOLEAN,         \* sets a loader or interpreter variable
     paths : PathFaults \cup {"ok"}]

-----------------------------------------------------------------------------
\* The command a chain of wrappers ends in, by the names that are read
\* (wrapped_subcommand); "none" when the arguments end first.
Wrapped(names) ==
    LET inner == {i \in DOMAIN names : names[i] # "wrapper"}
    IN  IF inner = {} THEN "none" ELSE names[Min(inner)]

\* Mutant: wrappers are not looked into.
OpaqueByName(names) == names[1] = "launcher"

OpaqueInvocation(names) == Wrapped(names) = "launcher"

\* Mutant: the name that was typed decides.
TypedNameOnly(r) == OpaqueInvocation(<<r.command.typed>> \o r.command.read)

\* Mutant: a copy of a launcher is known by its name only.
NamesOnly(command) == FALSE

\* bound_program_matches_trusted_opaque_launcher: the very file or the contents
\* of a launcher in a standard directory.  A stray launcher is not known, nor
\* is a wrapper that goes by another name.
IsTrustedLauncher(command) == command.is = "launcher"

\* request_uses_opaque_command_launcher: the name as typed, and for a path the
\* name and the contents of the file it resolves to.  What follows a wrapper is
\* judged by its name alone.
UsesOpaqueLauncher(r) ==
    LET command == r.command
    IN  \/ OpaqueInvocation(<<command.typed>> \o command.read)
        \/ /\ r.program # "bare"
           /\ \/ OpaqueInvocation(<<command.target>> \o command.read)
              \/ IsTrustedLauncher(command)

\* Mutant: a non-mutating request may use a program of either list.
EitherList(p, r) ==
    IF r.declared = "mutating" THEN p.mutating ELSE p.mutating \/ p.non_mutating

Listed(p, r) ==
    IF r.declared = "mutating" THEN p.mutating ELSE ~p.mutating /\ p.non_mutating

UnlistedReason(p, r) ==
    IF r.declared = "mutating" THEN "mutation_requires_allowlisted_program"
    ELSE IF p.mutating THEN "allowlisted_program_requires_declared_mutation"
    ELSE "non_mutating_requires_allowlisted_program"

Check(fails, reason) == [fails |-> fails, reason |-> reason]

FirstFailure(checks) ==
    LET failed == {i \in DOMAIN checks : checks[i].fails}
    IN  IF failed = {} THEN "none" ELSE checks[Min(failed)].reason

DefaultMismatch(p, r) == r.source = "policy_default" /\ r.isolation # p.default_isolation

\* authorize_mutation_controlled_request
AuthorizationChecks(p, r) ==
    << Check(UsesOpaqueLauncher(r), "opaque_command_forbidden"),
       Check(r.program = "bare", "allowlisted_execution_requires_explicit_program_path"),
       Check(r.declared = "unset", "mutation_declaration_required"),
       Check(r.startup_env, "startup_sensitive_env_forbidden"),
       Check(~Listed(p, r), UnlistedReason(p, r)) >>

IsolationChecks(p, h, r) ==
    << Check(DefaultMismatch(p, r), "policy_default_isolation_mismatch"),
       Check(r.isolation = None /\ ~p.allow_isolation_none, "isolation_none_forbidden"),
       Check(r.isolation > h, "isolation_not_supported") >>

\* resolve_request_paths, then bind_program_path
PathChecks(r) ==
    << Check(r.paths # "ok", r.paths),
       Check(r.program = "relative", "relative_program_path_forbidden"),
       Check(r.command.target = "none", "program_path_invalid") >>

Reason(p, h, r) ==
    FirstFailure(IsolationChecks(p, h, r)
                 \o << Check(p.audit_path = "relative", "audit_log_path_invalid") >>
                 \o PathChecks(r)
                 \o (IF p.enforce THEN AuthorizationChecks(p, r) ELSE << >>))

DecisionInit ==
    /\ policy \in Policies
    /\ host \in Isolations
    /\ request \in Requests
    /\ answer = "pending"

PrepareRequest ==
    /\ answer = "pending"
    /\ answer' = Reason(policy, host, request)
    /\ UNCHANGED <<policy, host, request>>

DecisionNext == PrepareRequest

DecisionSpec == DecisionInit /\ [][DecisionNext]_decisionVars

-----------------------------------------------------------------------------
\* Properties.

Reasons ==
    {"pending", "none", "policy_default_isolation_mismatch", "isolation_none_forbidden",
     "isolation_not_supported", "audit_log_path_invalid", "relative_program_path_forbidden",
     "program_path_invalid", "opaque_command_forbidden",
     "allowlisted_execution_requires_explicit_program_path",
     "mutation_declaration_required", "startup_sensitive_env_forbidden",
     "mutation_requires_allowlisted_program",
     "allowlisted_program_requires_declared_mutation",
     "non_mutating_requires_allowlisted_program"} \cup PathFaults

DecisionTypeOK ==
    /\ policy \in Policies
    /\ host \in Isolations
    /\ request \in Requests
    /\ answer \in Reasons

Allowed == answer = "none"

\* What is run in the end is a launcher: the target, or what wrappers lead to.
RunsLauncher(kinds) ==
    \E i \in DOMAIN kinds :
        /\ kinds[i] \in {"launcher", "stray_launcher"}
        /\ \A j \in 1 .. i - 1 : kinds[j] = "wrapper"

\* The command line is what the code reads: what wrappers run goes by its own
\* name and their options are read rightly, and so does the program itself,
\* unless it is a launcher of a standard directory under another name.
AsRead(command) ==
    command.runs = command.read /\ command.is \in {command.target, "launcher"}

\* With enforcement on, no launcher of other commands is authorized from an
\* allowlist, whichever name was typed for it: an alias, a link or a copy of a
\* launcher, or one behind any number of wrappers, as long as what stands
\* behind a wrapper goes by its own name.  (request_uses_opaque_command_launcher.)
LauncherNeverAuthorized ==
    Allowed /\ policy.enforce /\ AsRead(request.command) =>
        ~RunsLauncher(<<request.command.is>> \o request.command.runs)

\* The same of every command line. The code does not have this property: it
\* knows the files behind a wrapper, and wrappers, by their names only (README,
\* observed divergences). No run checks it.
NoLauncherRuns ==
    Allowed /\ policy.enforce =>
        ~RunsLauncher(<<request.command.is>> \o request.command.runs)

\* Whatever the allowlists say, one program never runs both for a request
\* that declares mutation and for one that denies it.
OneDeclarationPerProgram ==
    Allowed /\ policy.enforce =>
        \A d \in {"unset", "mutating", "non_mutating"} \ {request.declared} :
            Reason(policy, host, [request EXCEPT !.declared = d]) # "none"

\* What enforcement promises of a Run decision: it is not about a launcher that
\* the command line shows, and the program runs under one declaration only.
\* (prepare_request.)
EnforcementHolds == LauncherNeverAuthorized /\ OneDeclarationPerProgram
=============================================================================
