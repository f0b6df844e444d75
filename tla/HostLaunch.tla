----------------------------- MODULE HostLaunch -----------------------------
(***************************************************************************)
(* How a host command is launched (src/crates/omne-process-primitives/src, *)
(* host_command.rs and command_path.rs, as built for Unix): whether it     *)
(* runs under sudo, which files are executed and with which environment.   *)
(* A program is named by a bare name, by an absolute path or by a path    *)
(* relative to the working directory; files are pairs of a directory and a *)
(* name, and canonicalize tells links to one file apart from other files   *)
(* by an identity.                                                         *)
(***************************************************************************)
EXTENDS Naturals, SequencesExt

CONSTANTS Managers,      \* names SystemPackageManager::parse accepts
          Unprivileged,  \* those that install without privileges: brew
          StandardDirs,  \* the standard locations, in their order
          TrustedPath,   \* TRUSTED_SUDO_TARGET_PATH
          Here,          \* a directory that is relative in PATH
          NoDirectory    \* no working_directory in the request

ASSUME LaunchAssumption ==
  Unprivileged \subseteq Managers /\ StandardDirs \in Seq(STRING)

\* A request: [form, dir, name, mode, env, removed, cwd] and the host it is
\* made on: [files, executable, directories, variables, nonRoot], where files
\* gives every path the identity of the file it leads to.
Path == "PATH"
Bare(req) == req.form = "bare"
NoPath == <<>>
IsSpawnable(host, path) == path # NoPath /\ path \in host.executable
Exists(host, path) == path \in DOMAIN host.files

\* The first directory of a list that has an executable of that name.  An
\* entry that is relative is looked up below the base directory, if any.
EntryDirs(dirs, base) ==
  SelectSeq([i \in 1..Len(dirs) |-> IF dirs[i] = Here THEN base ELSE dirs[i]],
            LAMBDA d : d # NoDirectory)
FirstIn(host, dirs, name) ==
  LET found == {i \in DOMAIN dirs : IsSpawnable(host, <<dirs[i], name>>)}
  IN  IF found = {} THEN NoPath ELSE <<dirs[Min(found)], name>>

InStandardLocations(host, name) == FirstIn(host, StandardDirs, name)

\* effective_path_var: the request's last PATH, else the process's own.
EffectivePath(req, host) ==
  LET own == SelectSeq(req.env, LAMBDA v : v[1] = Path)
  IN  IF own # <<>> THEN Last(own)[2]
      ELSE IF Path \in DOMAIN host.variables THEN host.variables[Path] ELSE <<>>
OnPath(req, host) == FirstIn(host, EntryDirs(EffectivePath(req, host), req.cwd), req.name)

\* resolve_explicit_request_program: absolute, or joined to the directory.
ExplicitPath(req) ==
  IF req.form = "absolute" THEN <<req.dir, req.name>>
  ELSE IF req.cwd = NoDirectory THEN NoPath ELSE <<req.cwd, req.name>>

\* ------------------------------------------------------- with or without sudo
\* resolve_host_system_package_manager_path
HostManager(host, name) ==
  IF name \in Managers \ Unprivileged THEN InStandardLocations(host, name) ELSE NoPath

\* Mutant: an executable with the name of a manager will do.
ManagerByName(req, host, path) == IsSpawnable(host, path) /\ HostManager(host, req.name) # NoPath
\* explicit_system_package_manager_path: the file trusted locations give.
IsHostManager(req, host, path) ==
  /\ req.form = "absolute" /\ IsSpawnable(host, path)
  /\ LET trusted == HostManager(host, req.name)
     IN  trusted # NoPath /\ host.files[path] = host.files[trusted]

SudoEligible(req, host) ==
  IF Bare(req) THEN HostManager(host, req.name) # NoPath
  ELSE req.name \in Managers \ Unprivileged /\ IsHostManager(req, host, ExplicitPath(req))

\* A recipe asks for sudo when its program is eligible.
SudoMode(req, host) ==
  IF req.mode # "recipe" THEN req.mode
  ELSE IF SudoEligible(req, host) THEN "IfNonRootSystemCommand" ELSE "Never"

RequiresSudo(req, host) ==
  /\ SudoMode(req, host) = "IfNonRootSystemCommand" /\ host.nonRoot /\ SudoEligible(req, host)

\* --------------------------------------------------------------- environment
Overlay(variables, v) == (v[1] :> v[2]) @@ variables
Without(variables, names) == Restrict(variables, DOMAIN variables \ names)

\* A direct child inherits what is not removed; the request's pairs come on top.
DirectEnvironment(req, host) ==
  FoldLeft(Overlay, Without(host.variables, req.removed), req.env)

\* Mutant: a variable that is inherited is not replaced.
InheritedStays(variables, v) ==
  IF v[1] = Path THEN variables ELSE variables @@ (v[1] :> v[2])
\* The pairs under sudo: PATH is never the request's.
Assign(variables, v) == IF v[1] = Path THEN variables ELSE Overlay(variables, v)

\* effective_target_environment_assignments: the NAME=VALUE arguments of `env -i`.
SudoAssignments(req, host) ==
  LET overlaid == FoldLeft(Assign, Without(host.variables, req.removed \cup {Path}), req.env)
  IN  IF Path \in req.removed THEN overlaid ELSE (Path :> TrustedPath) @@ overlaid

\* ------------------------------------------------------------ what is executed
\* append_sudo_target_command puts `--` between the assignments and the target.
Separator == <<"--">>

\* External: env takes `--` for the end of its options only where they end; after
\* an assignment it is the first operand that is none, so the command to run.
CleanerRuns(assignments, target) ==
  IF DOMAIN assignments = {} THEN target ELSE Separator

\* Under sudo the launcher runs the cleaner, which runs the target, or `--`; env
\* is the environment of what is run in the end.
Refused(why) == [st |-> why, sudo |-> FALSE, launcher |-> NoPath, cleaner |-> NoPath,
                 target |-> NoPath, runs |-> NoPath, env |-> <<>>]
Direct(path, env) ==
  [Refused("ok") EXCEPT !.launcher = path, !.target = path, !.runs = path, !.env = env]
Elevated(launcher, cleaner, target, assignments) ==
  [st |-> "ok", sudo |-> TRUE, launcher |-> launcher, cleaner |-> cleaner, target |-> target,
   runs |-> CleanerRuns(assignments, target), env |-> assignments]

\* resolve_program_for_direct_spawn
DirectPlan(req, host) ==
  LET program == IF Bare(req) THEN OnPath(req, host) ELSE ExplicitPath(req)
  IN  IF program = NoPath THEN Refused("command_not_found")
      ELSE Direct(program, DirectEnvironment(req, host))

\* resolve_program_for_sudo_target and ensure_resolved_sudo_target_is_available.
SudoTarget(req, host) ==
  IF Bare(req) THEN HostManager(host, req.name) ELSE ExplicitPath(req)
SudoTargetRefusal(req, host) ==
  LET target == SudoTarget(req, host)
  IN  IF Bare(req) /\ target = NoPath THEN "command_not_found"
      ELSE IF Bare(req) THEN "none"
      ELSE IF ~Exists(host, target) THEN "command_not_found"
      ELSE IF ~IsHostManager(req, host, target) THEN "spawn_failed"
      ELSE "none"

SudoPlan(req, host) ==
  LET launcher == InStandardLocations(host, "sudo")
      cleaner  == InStandardLocations(host, "env")
      refusal  == SudoTargetRefusal(req, host)
  IN  IF launcher = NoPath \/ cleaner = NoPath THEN Refused("spawn_failed")
      ELSE IF refusal # "none" THEN Refused(refusal)
      ELSE Elevated(launcher, cleaner, SudoTarget(req, host), SudoAssignments(req, host))

\* validate_direct_request_program, select_execution, resolve_execution_programs.
Plan(req, host) ==
  IF req.form = "relative" /\ req.cwd = NoDirectory THEN Refused("spawn_failed")
  ELSE IF RequiresSudo(req, host) THEN SudoPlan(req, host) ELSE DirectPlan(req, host)

\* command_available_for_request
Available(req, host) ==
  IsSpawnable(host, IF Bare(req) THEN OnPath(req, host) ELSE ExplicitPath(req))

=============================================================================
