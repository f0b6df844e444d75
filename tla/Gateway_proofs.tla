---------------------------- MODULE Gateway_proofs ----------------------------
(***************************************************************************)
(* What is proved of the execution gateway, for every value of the         *)
(* constants.                                                              *)
(*                                                                         *)
(* GatewayDecision: for every policy, host and request, argument vectors   *)
(* of any length among them, no launcher that the command line shows is    *)
(* authorized, and no program both to mutate and not to.                   *)
(*                                                                         *)
(* AuditLog: for any number of sinks and records of any length, the log    *)
(* only grows, its records never mix, and a record reported as written is  *)
(* there in full.                                                          *)
(*                                                                         *)
(* ExecGateway: for any number of calls, programs, directories and logs,   *)
(* and any number of changes by other programs, no command runs without    *)
(* its audit record, what is recorded is what the caller is told, and what *)
(* runs is what preflight decided about.  All that its properties say of   *)
(* the log they say of one call's records: the proofs look at the trail of *)
(* a call, which only its own steps change.                                *)
(***************************************************************************)
EXTENDS ExecGateway, GatewayDecision, AuditLog, TLAPS, SequenceTheorems, WellFoundedInduction

\* ---------------------------------------------------------------- decision
\* The answer is the decision about this request.
Decided == answer # "pending" => answer = Reason(policy, host, request)

DecisionInv == DecisionTypeOK /\ Decided

-----------------------------------------------------------------------------
\* What the operators the decision is built from return.

\* A set of naturals that has an element has a smallest one.
LEMMA SmallestIndex ==
    ASSUME NEW S \in SUBSET Nat, S # {}
    PROVE  Min(S) \in S /\ \A i \in S : Min(S) <= i
<1> DEFINE Below == {pair \in Nat \X Nat : pair[1] < pair[2]}
<1>1. IsWellFoundedOn(Below, Nat)
  BY NatLessThanWellFounded DEF OpToRel
<1>2. PICK i \in S : \A j \in S : <<j, i>> \notin Below
  BY <1>1, WFMin
<1>3. ASSUME NEW j \in S PROVE i <= j
  <2>1. <<j, i>> \in Nat \X Nat /\ <<j, i>>[1] = j /\ <<j, i>>[2] = i
    OBVIOUS
  <2>2. ~(j < i)
    BY <1>2, <2>1
  <2> QED
    BY <2>2
<1> HIDE DEF Below
<1>4. \E k \in S : \A j \in S : k <= j
  BY <1>3
<1> QED
  BY <1>4 DEF Min

\* FirstFailure answers "none" or with the reason of a check that fails.
LEMMA FirstFailureReason ==
    ASSUME NEW checks, NEW n \in Nat, DOMAIN checks = 1 .. n
    PROVE  \/ FirstFailure(checks) = "none" /\ \A i \in 1 .. n : ~checks[i].fails
           \/ \E i \in 1 .. n : checks[i].fails /\ FirstFailure(checks) = checks[i].reason
<1> DEFINE failed == {i \in DOMAIN checks : checks[i].fails}
<1>1. CASE failed = {}
  BY <1>1 DEF FirstFailure
<1>2. CASE failed # {}
  <2>1. Min(failed) \in failed
    BY <1>2, SmallestIndex
  <2>2. FirstFailure(checks) = checks[Min(failed)].reason
    BY <1>2 DEF FirstFailure
  <2> QED
    BY <2>1, <2>2
<1> QED
  BY <1>1, <1>2

\* A chain of wrappers that leads to a launcher is looked into to its end.
LEMMA LauncherIsOpaque ==
    ASSUME NEW names \in Seq(Names), RunsLauncher(names)
    PROVE  OpaqueInvocation(names)
<1> DEFINE inner == {i \in DOMAIN names : names[i] # "wrapper"}
<1>1. PICK i \in DOMAIN names :
         names[i] = "launcher" /\ \A j \in 1 .. i - 1 : names[j] = "wrapper"
  BY DEF RunsLauncher, Names
<1>2. i \in inner /\ inner \in SUBSET Nat /\ DOMAIN names = 1 .. Len(names) /\ Len(names) \in Nat
  BY <1>1
<1>3. Min(inner) \in inner /\ Min(inner) <= i
  BY <1>2, SmallestIndex
<1>4. Min(inner) \in 1 .. i
  BY <1>2, <1>3
<1>5. Min(inner) = i
  BY <1>1, <1>2, <1>3, <1>4
<1> QED
  BY <1>1, <1>2, <1>5 DEF OpaqueInvocation, Wrapped
Denials == Reasons \ {"pending", "none"}
CheckSet == [fails : BOOLEAN, reason : Denials \cup {"ok"}]

Pass(checks) == \A i \in 1 .. Len(checks) : ~checks[i].fails

\* Checks that deny for a reason which is one.
Sound(checks) ==
    /\ checks \in Seq(CheckSet)
    /\ \A i \in 1 .. Len(checks) : checks[i].fails => checks[i].reason \in Denials

\* Two sequences of checks, one after the other, pass when both do.
LEMMA ChecksInTurn ==
    ASSUME NEW s, NEW t, Sound(s), Sound(t)
    PROVE  Sound(s \o t) /\ (Pass(s \o t) <=> Pass(s) /\ Pass(t))
<1> DEFINE m == Len(s)
           n == Len(t)
           both == s \o t
<1>1. /\ m \in Nat /\ n \in Nat /\ Len(both) = m + n /\ both \in Seq(CheckSet)
      /\ \A i \in 1 .. m : both[i] = s[i]
      /\ \A i \in m + 1 .. m + n : both[i] = t[i - m]
  BY DEF Sound
<1>2. \A i \in 1 .. n : m + i \in m + 1 .. m + n /\ both[m + i] = t[i]
  BY <1>1
<1>3. \A i \in 1 .. m + n : i \in 1 .. m \/ (i \in m + 1 .. m + n /\ i - m \in 1 .. n)
  BY <1>1
<1> HIDE DEF m, n, both
<1>4. \A i \in 1 .. m : i \in 1 .. m + n
  BY <1>1
<1>5. \A i \in 1 .. n : m + i \in 1 .. m + n
  BY <1>1
<1>6. Pass(both) <=> Pass(s) /\ Pass(t)
  BY <1>1, <1>2, <1>3, <1>4, <1>5 DEF Pass, m, n
<1>7. \A i \in 1 .. m + n : both[i].fails => both[i].reason \in Denials
  BY <1>1, <1>3 DEF Sound, m, n
<1> QED
  BY <1>1, <1>6, <1>7 DEF Sound, both

\* The first of some checks to fail: the answer is a denial unless all pass.
LEMMA SoundAnswer ==
    ASSUME NEW checks, Sound(checks)
    PROVE  /\ FirstFailure(checks) \in Denials \cup {"none"}
           /\ FirstFailure(checks) = "none" <=> Pass(checks)
<1>1. DOMAIN checks = 1 .. Len(checks) /\ Len(checks) \in Nat
  BY DEF Sound
<1> QED
  BY <1>1, FirstFailureReason DEF Sound, Pass, Denials

SoundCheck(check) == check \in CheckSet /\ (check.fails => check.reason \in Denials)

\* A check fails when its condition holds, and for its reason.
LEMMA CheckIs ==
    ASSUME NEW fails \in BOOLEAN, NEW reason \in Denials \cup {"ok"}, fails => reason \in Denials
    PROVE  SoundCheck(Check(fails, reason)) /\ Check(fails, reason).fails = fails
BY DEF Check, CheckSet, SoundCheck

\* What a policy, a host and a request allow.
LEMMA ReasonAnswers ==
    ASSUME NEW p \in Policies, NEW h \in Isolations, NEW r \in Requests
    PROVE  /\ Reason(p, h, r) \in Denials \cup {"none"}
           /\ Reason(p, h, r) = "none" <=>
                /\ Pass(IsolationChecks(p, h, r)) /\ p.audit_path # "relative"
                /\ Pass(PathChecks(r))
                /\ p.enforce => Pass(AuthorizationChecks(p, r))
<1> USE GatewayDecisionAssumption
<1>0. /\ {"policy_default_isolation_mismatch", "isolation_none_forbidden",
          "isolation_not_supported", "audit_log_path_invalid",
          "relative_program_path_forbidden", "program_path_invalid",
          "opaque_command_forbidden",
          "allowlisted_execution_requires_explicit_program_path",
          "mutation_declaration_required", "startup_sensitive_env_forbidden",
          "mutation_requires_allowlisted_program",
          "allowlisted_program_requires_declared_mutation",
          "non_mutating_requires_allowlisted_program"} \subseteq Denials
      /\ PathFaults \subseteq Denials
  <2>1. PathFaults \subseteq {"workspace_root_invalid", "cwd_invalid",
                              "cwd_outside_workspace", "path_identity_unavailable"}
    BY DEF GatewayDecisionAssumption
  <2>2. PathFaults \subseteq Denials
    BY <2>1 DEF Denials, Reasons
  <2> QED
    BY <2>2 DEF Denials, Reasons
<1>1. Sound(IsolationChecks(p, h, r))
  <2> DEFINE a == Check(DefaultMismatch(p, r), "policy_default_isolation_mismatch")
             b == Check(r.isolation = None /\ ~p.allow_isolation_none, "isolation_none_forbidden")
             c == Check(r.isolation > h, "isolation_not_supported")
  <2>1. /\ DefaultMismatch(p, r) \in BOOLEAN /\ (r.isolation = None /\ ~p.allow_isolation_none) \in BOOLEAN
        /\ (r.isolation > h) \in BOOLEAN
    BY DEF DefaultMismatch, Isolations, None, BestEffort, Strict, Requests
  <2>2. SoundCheck(a)
    BY <1>0, <2>1, CheckIs
  <2>3. SoundCheck(b)
    BY <1>0, <2>1, CheckIs
  <2>4. SoundCheck(c)
    BY <1>0, <2>1, CheckIs
  <2>5. IsolationChecks(p, h, r) = <<a, b, c>>
    BY DEF IsolationChecks
  <2> HIDE DEF a, b, c
  <2> QED
    BY <2>2, <2>3, <2>4, <2>5 DEF Sound, SoundCheck
<1>2. /\ Sound(<<Check(p.audit_path = "relative", "audit_log_path_invalid")>>)
      /\ Pass(<<Check(p.audit_path = "relative", "audit_log_path_invalid")>>)
            <=> p.audit_path # "relative"
  <2> DEFINE a == Check(p.audit_path = "relative", "audit_log_path_invalid")
  <2>1. SoundCheck(a) /\ a.fails = (p.audit_path = "relative")
    BY <1>0, CheckIs
  <2> HIDE DEF a
  <2>2. Sound(<<a>>) /\ (Pass(<<a>>) <=> ~a.fails)
    BY <2>1 DEF Sound, SoundCheck, Pass
  <2> QED
    BY <2>1, <2>2 DEF a
<1>3. Sound(PathChecks(r))
  <2> DEFINE a == Check(r.paths # "ok", r.paths)
             b == Check(r.program = "relative", "relative_program_path_forbidden")
             c == Check(r.command.target = "none", "program_path_invalid")
  <2>0. r.paths \in PathFaults \cup {"ok"}
    BY DEF Requests
  <2>1. r.paths \in Denials \cup {"ok"} /\ (r.paths # "ok" => r.paths \in Denials)
    BY <1>0, <2>0
  <2>2. SoundCheck(a)
    BY <2>1, CheckIs
  <2>3. SoundCheck(b)
    BY <1>0, CheckIs
  <2>4. SoundCheck(c)
    BY <1>0, CheckIs
  <2>5. PathChecks(r) = <<a, b, c>>
    BY DEF PathChecks
  <2> HIDE DEF a, b, c
  <2> QED
    BY <2>2, <2>3, <2>4, <2>5 DEF Sound, SoundCheck
<1>4. Sound(AuthorizationChecks(p, r))
  <2> DEFINE a == Check(UsesOpaqueLauncher(r), "opaque_command_forbidden")
             b == Check(r.program = "bare", "allowlisted_execution_requires_explicit_program_path")
             c == Check(r.declared = "unset", "mutation_declaration_required")
             d == Check(r.startup_env, "startup_sensitive_env_forbidden")
             e == Check(~Listed(p, r), UnlistedReason(p, r))
  <2>1. UnlistedReason(p, r) \in Denials
    BY <1>0 DEF UnlistedReason
  <2>2. UsesOpaqueLauncher(r) \in BOOLEAN /\ r.startup_env \in BOOLEAN /\ (~Listed(p, r)) \in BOOLEAN
    BY DEF UsesOpaqueLauncher, OpaqueInvocation, IsTrustedLauncher, Requests
  <2>3. SoundCheck(a)
    BY <1>0, <2>2, CheckIs
  <2>4. SoundCheck(b)
    BY <1>0, CheckIs
  <2>5. SoundCheck(c)
    BY <1>0, CheckIs
  <2>6. SoundCheck(d)
    BY <1>0, <2>2, CheckIs
  <2>7. SoundCheck(e)
    BY <1>0, <2>1, <2>2, CheckIs
  <2>8. AuthorizationChecks(p, r) = <<a, b, c, d, e>>
    BY DEF AuthorizationChecks
  <2> HIDE DEF a, b, c, d, e
  <2> QED
    BY <2>3, <2>4, <2>5, <2>6, <2>7, <2>8 DEF Sound, SoundCheck
<1>5. Sound(<< >>) /\ Pass(<< >>)
  BY DEF Sound, Pass
<1> DEFINE last == IF p.enforce THEN AuthorizationChecks(p, r) ELSE << >>
<1>6. Sound(last) /\ (Pass(last) <=> (p.enforce => Pass(AuthorizationChecks(p, r))))
  BY <1>4, <1>5
<1> QED
  BY <1>1, <1>2, <1>3, <1>6, ChecksInTurn, SoundAnswer DEF Reason
\* What enforcement has checked of a request it allows.
LEMMA EnforcedChecks ==
    ASSUME NEW p \in Policies, NEW h \in Isolations, NEW r \in Requests,
           p.enforce, Reason(p, h, r) = "none"
    PROVE  /\ ~UsesOpaqueLauncher(r) /\ r.program # "bare"
           /\ r.declared # "unset" /\ Listed(p, r) /\ r.command.target # "none"
<1>0. Pass(PathChecks(r)) /\ Pass(AuthorizationChecks(p, r))
  BY ReasonAnswers
<1>1. r.command.target # "none"
  <2> DEFINE checks == PathChecks(r)
  <2>1. Len(checks) = 3 /\ checks[3].fails = (r.command.target = "none")
    BY DEF PathChecks, Check
  <2>2. Pass(checks) => ~checks[3].fails
    <3> HIDE DEF checks
    <3> QED
      BY <2>1 DEF Pass
  <2> QED
    BY <1>0, <2>1, <2>2
<1> DEFINE checks == AuthorizationChecks(p, r)
<1>2. /\ Len(checks) = 5
      /\ checks[1].fails = UsesOpaqueLauncher(r) /\ checks[2].fails = (r.program = "bare")
      /\ checks[3].fails = (r.declared = "unset") /\ checks[5].fails = ~Listed(p, r)
  BY DEF AuthorizationChecks, Check
<1>3. Pass(checks) =>
        ~checks[1].fails /\ ~checks[2].fails /\ ~checks[3].fails /\ ~checks[5].fails
  <2>1. Len(checks) = 5
    BY <1>2
  <2> HIDE DEF checks
  <2> QED
    BY <2>1 DEF Pass
<1> QED
  BY <1>0, <1>1, <1>2, <1>3

-----------------------------------------------------------------------------
\* A request is answered once, and with the decision about it.
LEMMA DecisionInvariance == DecisionSpec => []DecisionInv
<1>1. DecisionInit => DecisionInv
  BY DEF DecisionInit, DecisionInv, DecisionTypeOK, Decided, Reasons
<1>2. DecisionInv /\ [DecisionNext]_decisionVars => DecisionInv'
  <2> SUFFICES ASSUME DecisionInv, [DecisionNext]_decisionVars PROVE DecisionInv'
    OBVIOUS
  <2>1. CASE PrepareRequest
    <3>1. Reason(policy, host, request) \in Reasons
      BY ReasonAnswers DEF DecisionInv, DecisionTypeOK, Denials, Reasons
    <3> QED
      BY <2>1, <3>1 DEF PrepareRequest, DecisionInv, DecisionTypeOK, Decided
  <2>2. CASE UNCHANGED decisionVars
    BY <2>2 DEF decisionVars, DecisionInv, DecisionTypeOK, Decided
  <2> QED
    BY <2>1, <2>2 DEF DecisionNext
<1> QED
  BY <1>1, <1>2, PTL DEF DecisionSpec

\* Every answer is one of the audited reasons.
THEOREM DecisionTypeCorrect == DecisionSpec => []DecisionTypeOK
<1>1. DecisionInv => DecisionTypeOK
  BY DEF DecisionInv
<1> QED
  BY <1>1, DecisionInvariance, PTL

\* Under any policy with enforcement, on any host, and for any arguments: no
\* launcher of other commands is authorized, under whatever name it was typed
\* or behind however many wrappers it goes by its own, and no program is for
\* two declarations.
THEOREM EnforcementAlwaysHolds == DecisionSpec => []EnforcementHolds
<1>1. DecisionInv => EnforcementHolds
  <2> SUFFICES ASSUME DecisionInv, Allowed, policy.enforce PROVE EnforcementHolds
    BY DEF EnforcementHolds, LauncherNeverAuthorized, OneDeclarationPerProgram
  <2>0. policy \in Policies /\ host \in Isolations /\ request \in Requests
    BY DEF DecisionInv, DecisionTypeOK
  <2>1. Reason(policy, host, request) = "none"
    BY DEF DecisionInv, Decided, Allowed
  <2>2. /\ ~UsesOpaqueLauncher(request) /\ request.program # "bare"
        /\ request.declared # "unset" /\ Listed(policy, request) /\ request.command.target # "none"
    BY <2>0, <2>1, EnforcedChecks
  <2>3. LauncherNeverAuthorized
    <3> DEFINE command == request.command
               names == <<command.target>> \o command.read
    <3> SUFFICES ASSUME AsRead(command), RunsLauncher(<<command.is>> \o command.runs)
                 PROVE  FALSE
      BY DEF LauncherNeverAuthorized
    <3>1. command \in CommandLines
      BY <2>0, GatewayDecisionAssumption DEF Requests, GatewayDecisionAssumption
    <3>2. command.target \in Names /\ command.read \in Seq(Names)
      BY <2>2, <3>1 DEF CommandLines
    <3>3. command.is # "launcher"
      BY <2>2 DEF UsesOpaqueLauncher, IsTrustedLauncher
    <3>4. names = <<command.is>> \o command.runs
      BY <3>3 DEF AsRead
    <3>5. names \in Seq(Names)
      BY <3>2
    <3>6. RunsLauncher(names)
      <4> HIDE DEF names
      <4> QED
        BY <3>4
    <3>7. OpaqueInvocation(names)
      BY <3>5, <3>6, LauncherIsOpaque
    <3> QED
      BY <2>2, <3>7 DEF UsesOpaqueLauncher
  <2>4. OneDeclarationPerProgram
    <3> SUFFICES ASSUME NEW d \in {"unset", "mutating", "non_mutating"} \ {request.declared},
                        Reason(policy, host, [request EXCEPT !.declared = d]) = "none"
                 PROVE  FALSE
      BY DEF OneDeclarationPerProgram
    <3> DEFINE other == [request EXCEPT !.declared = d]
    <3>1. other \in Requests /\ other.declared = d
      BY <2>0 DEF Requests
    <3>2. d # "unset" /\ Listed(policy, other)
      BY <2>0, <3>1, EnforcedChecks
    <3>3. request.declared \in {"unset", "mutating", "non_mutating"}
      BY <2>0 DEF Requests
    <3> QED
      BY <2>2, <3>1, <3>2, <3>3 DEF Listed
  <2> QED
    BY <2>3, <2>4 DEF EnforcementHolds
<1> QED
  BY <1>1, DecisionInvariance, PTL

\* --------------------------------------------------------------- audit log
Cell(s) == [sink |-> s, record |-> record[s], block |-> next[s]]

\* Who seeks, writes or unlocks holds the lock.
HoldersLock ==
    \A s \in Sinks : stage[s] \in {"seeking", "writing", "unlocking"} => lock = s

\* A writer is at the end of the file, right behind what it wrote before.
WriterAtEnd ==
    \A s \in Sinks :
        stage[s] = "writing" =>
            /\ position[s] = Len(content)
            /\ next[s] > 1 =>
                 /\ Len(content) > 0
                 /\ content[Len(content)] = [Cell(s) EXCEPT !.block = @ - 1]

\* Written records have their newline in the file; only they are acknowledged.
WrittenInFile ==
    \A s \in Sinks, r \in Numbers :
        <<s, r>> \in written =>
            \E i \in DOMAIN content :
                content[i] = [sink |-> s, record |-> r, block |-> Newline]

AckedIsWritten ==
    \A s \in Sinks, r \in Numbers : outcome[s][r] = "ok" => <<s, r>> \in written

LogInv ==
    /\ LogTypeOK
    /\ HoldersLock
    /\ WriterAtEnd
    /\ RecordsContiguous
    /\ WrittenInFile
    /\ AckedIsWritten

-----------------------------------------------------------------------------
\* A step that leaves the file alone, leaves what is said about it alone.
LEMMA FileUntouched ==
    ASSUME LogInv, UNCHANGED <<content, written>>
    PROVE  RecordsContiguous' /\ WrittenInFile'
BY DEF LogInv, RecordsContiguous, WrittenInFile, Newline

\* The invariant holds of an empty log, and every step keeps it.
LEMMA LogInitInv == LogInit => LogInv
<1> SUFFICES ASSUME LogInit PROVE LogInv
    OBVIOUS
<1>1. LogTypeOK
    BY AuditLogAssumption DEF LogInit, LogTypeOK, SinkStages, Numbers, Newline
<1>2. HoldersLock /\ WriterAtEnd
    BY DEF LogInit, HoldersLock, WriterAtEnd
<1>3. RecordsContiguous
    BY DEF LogInit, RecordsContiguous
<1>4. WrittenInFile /\ AckedIsWritten
    BY DEF LogInit, WrittenInFile, AckedIsWritten
<1> QED
    BY <1>1, <1>2, <1>3, <1>4 DEF LogInv

\* Every step keeps the types.
LEMMA LogTypeStep ==
    ASSUME LogInv, [LogNext]_logVars
    PROVE  LogTypeOK'
<1> USE AuditLogAssumption DEF LogInv, LogTypeOK, SinkStages, Numbers, Newline, SinkAt, SinkGoto
<1>1. ASSUME NEW s \in Sinks, AcquireLock(s) PROVE LogTypeOK'
    BY <1>1 DEF AcquireLock
<1>2. ASSUME NEW s \in Sinks, LockFails(s) PROVE LogTypeOK'
    BY <1>2 DEF LockFails
<1>3. ASSUME NEW s \in Sinks, Seek(s) PROVE LogTypeOK'
  <2>1. Len(content) \in Nat /\ 1 \in 1 .. Newline
    OBVIOUS
  <2>2. position' \in [Sinks -> Nat]
    BY <1>3, <2>1 DEF Seek, EndOfFile
  <2>3. next' \in [Sinks -> 1 .. Newline]
    BY <1>3, <2>1 DEF Seek
  <2>4. stage' \in [Sinks -> SinkStages]
    BY <1>3 DEF Seek
  <2> QED
    BY <1>3, <2>2, <2>3, <2>4 DEF Seek
<1>4. ASSUME NEW s \in Sinks, WriteBlock(s) PROVE LogTypeOK'
  <2>1. content' \in Seq(Cells)
    <3>1. CASE UNCHANGED content
        BY <3>1
    <3>2. CASE content' = Append(content, Cell(s))
        BY <3>2 DEF Cells, Cell
    <3> QED
        BY <1>4, <3>1, <3>2 DEF WriteBlock, Put, Cell, WriterAtEnd
  <2>2. next' \in [Sinks -> 1 .. Newline]
    <3>1. next[s] \in 1 .. Newline /\ Newline \in Nat
        OBVIOUS
    <3>2. CASE UNCHANGED next
        BY <3>2
    <3>3. CASE next[s] # Newline /\ next' = [next EXCEPT ![s] = @ + 1]
      <4>1. next[s] + 1 \in 1 .. Newline
        BY <3>1, <3>3
      <4> QED
        BY <3>3, <4>1
    <3> QED
        BY <1>4, <3>2, <3>3 DEF WriteBlock, LastBlock
  <2>3. stage' \in [Sinks -> SinkStages]
    BY <1>4 DEF WriteBlock
  <2>4. position' \in [Sinks -> Nat]
    BY <1>4 DEF WriteBlock
  <2>5. written' \subseteq Sinks \X Numbers
    <3>1. <<s, record[s]>> \in Sinks \X Numbers
        OBVIOUS
    <3> QED
        BY <1>4, <3>1 DEF WriteBlock
  <2> QED
    BY <1>4, <2>1, <2>2, <2>3, <2>4, <2>5 DEF WriteBlock
<1>5. ASSUME NEW s \in Sinks, Unlock(s) PROVE LogTypeOK'
  <2> DEFINE Told(ok) == [outcome EXCEPT ![s][record[s]] = IF ok THEN "ok" ELSE "failed"]
  <2>1. PICK ok \in BOOLEAN : outcome' = Told(ok)
    BY <1>5 DEF Unlock
  <2>2. Told(ok) \in [Sinks -> [Numbers -> {"none", "ok", "failed"}]]
    OBVIOUS
  <2>3. stage' \in [Sinks -> SinkStages] /\ lock' \in Sinks \cup {Free}
    BY <1>5 DEF Unlock, LockReleased
  <2> QED
    BY <1>5, <2>1, <2>2, <2>3 DEF Unlock
<1>6. ASSUME NEW s \in Sinks, WriteTerminalRecord(s) PROVE LogTypeOK'
    BY <1>6 DEF WriteTerminalRecord
<1>7. ASSUME NEW s \in Sinks, KillWriter(s) PROVE LogTypeOK'
    BY <1>7 DEF KillWriter
<1>8. CASE UNCHANGED logVars
    BY <1>8 DEF logVars
<1> QED
    BY <1>1, <1>2, <1>3, <1>4, <1>5, <1>6, <1>7, <1>8 DEF LogNext, SinkStep

\* The one step that writes: the cell goes behind the file's last one, which
\* is the record's previous cell unless the record begins.
LEMMA WriteStep ==
    ASSUME LogInv, NEW s \in Sinks, WriteBlock(s)
    PROVE  /\ content' = content \/ content' = Append(content, Cell(s))
           /\ HoldersLock' /\ WriterAtEnd' /\ RecordsContiguous'
           /\ WrittenInFile' /\ AckedIsWritten'
<1> USE DEF LogInv
<1>0. /\ content \in Seq(Cells) /\ Cell(s) \in Cells
      /\ next[s] \in Nat \ {0} /\ Newline \in Nat \ {0}
      /\ Len(content) \in Nat /\ stage[s] = "writing" /\ lock = s
      /\ DOMAIN content = 1 .. Len(content)
    BY AuditLogAssumption DEF LogTypeOK, Cells, Cell, Newline, WriteBlock, SinkAt, HoldersLock
<1>1. content' = content \/ content' = Append(content, Cell(s))
    BY <1>0 DEF WriteBlock, Put, Cell, WriterAtEnd
<1>2. HoldersLock'
    BY <1>0 DEF HoldersLock, WriteBlock, SinkGoto, LogTypeOK
<1>3. AckedIsWritten'
    BY DEF AckedIsWritten, WriteBlock
<1>4. CASE content' = Append(content, Cell(s))
  <2>1. /\ DOMAIN content' = 1 .. Len(content) + 1 /\ Len(content') = Len(content) + 1
        /\ content'[Len(content) + 1] = Cell(s)
        /\ \A i \in 1 .. Len(content) : content'[i] = content[i]
    BY <1>0, <1>4
  <2> DEFINE Grown == /\ position' = [position EXCEPT ![s] = @ + 1]
                      /\ IF next[s] = LastBlock
                         THEN /\ written' = written \cup {<<s, record[s]>>}
                              /\ SinkGoto(s, "unlocking") /\ UNCHANGED next
                         ELSE /\ next' = [next EXCEPT ![s] = @ + 1]
                              /\ UNCHANGED <<stage, written>>
  <2>2. Grown /\ UNCHANGED record
    <3>1. content' # content
        BY <1>0, <2>1
    <3> QED
        BY <3>1 DEF WriteBlock
  <2>3. WriterAtEnd'
    <3> SUFFICES ASSUME NEW t \in Sinks, stage'[t] = "writing"
                 PROVE  /\ position'[t] = Len(content')
                        /\ next'[t] > 1 =>
                             /\ Len(content') > 0
                             /\ content'[Len(content')] = [Cell(t)' EXCEPT !.block = @ - 1]
        BY DEF WriterAtEnd
    <3>1. t = s /\ next[s] # LastBlock
        BY <1>0, <1>2, <2>2 DEF HoldersLock, SinkGoto, LogTypeOK, SinkStages, WriteBlock
    <3>2. position'[s] = Len(content')
        BY <1>0, <2>1, <2>2 DEF LogTypeOK, WriterAtEnd
    <3>3. next'[s] = next[s] + 1 /\ record'[s] = record[s]
        BY <3>1, <2>2 DEF LogTypeOK
    <3>4. [Cell(s)' EXCEPT !.block = @ - 1] = Cell(s)
        BY <3>3, <1>0 DEF Cell
    <3> QED
        BY <3>1, <3>2, <3>4, <2>1, <1>0
  <2>4. RecordsContiguous'
    <3> SUFFICES ASSUME NEW i \in DOMAIN content', content'[i].block > 1
                 PROVE  i > 1 /\ content'[i - 1] = [content'[i] EXCEPT !.block = @ - 1]
        BY DEF RecordsContiguous
    <3>1. CASE i = Len(content) + 1
      <4>1. content'[i] = Cell(s) /\ next[s] > 1
        BY <3>1, <2>1 DEF Cell
      <4>2. /\ Len(content) > 0
            /\ content[Len(content)] = [Cell(s) EXCEPT !.block = @ - 1]
        BY <4>1, <1>0 DEF WriterAtEnd
      <4>3. content'[i - 1] = content[Len(content)]
        BY <3>1, <4>2, <2>1, <1>0
      <4> QED
        BY <3>1, <4>1, <4>2, <4>3, <1>0
    <3>2. CASE i # Len(content) + 1
      <4>1. i \in 1 .. Len(content) /\ content'[i] = content[i]
        BY <3>2, <2>1, <1>0
      <4>2. i > 1 /\ content[i - 1] = [content[i] EXCEPT !.block = @ - 1]
        BY <4>1, <1>0 DEF RecordsContiguous
      <4>3. content'[i - 1] = content[i - 1]
        BY <4>1, <4>2, <2>1, <1>0
      <4> QED
        BY <4>1, <4>2, <4>3
    <3> QED
        BY <3>1, <3>2
  <2>5. WrittenInFile'
    <3> SUFFICES ASSUME NEW t \in Sinks, NEW r \in Numbers, <<t, r>> \in written'
                 PROVE  \E i \in DOMAIN content' :
                            content'[i] = [sink |-> t, record |-> r, block |-> Newline]
        BY DEF WrittenInFile, Newline
    <3>1. CASE <<t, r>> \in written
        BY <3>1, <2>1, <1>0 DEF WrittenInFile
    <3>2. CASE <<t, r>> \notin written
      <4>1. t = s /\ r = record[s] /\ next[s] = Newline
        BY <3>2, <2>2 DEF LastBlock
      <4> QED
        BY <4>1, <2>1, <1>0, SMTT(20) DEF Cell
    <3> QED
        BY <3>1, <3>2
  <2> QED
    BY <1>1, <1>2, <1>3, <2>3, <2>4, <2>5
<1>5. CASE content' = content
  <2>1. UNCHANGED written /\ stage' = [stage EXCEPT ![s] = "unlocking"]
        /\ UNCHANGED <<position, next, record>>
    <3>1. content # Append(content, Cell(s))
      <4> DEFINE longer == Append(content, Cell(s))
      <4>1. Len(longer) = Len(content) + 1
        BY <1>0
      <4>2. Len(content) \in Nat
        BY <1>0
      <4> HIDE DEF longer
      <4>3. content # longer
        BY <4>1, <4>2
      <4> QED
        BY <4>3 DEF longer
    <3> QED
        BY <1>0, <1>5, <3>1, Zenon DEF WriteBlock, Put, Cell, WriterAtEnd, SinkGoto
  <2>2. WriterAtEnd'
    BY <2>1, <1>5 DEF WriterAtEnd, Cell, LogTypeOK
  <2> QED
    BY <1>1, <1>2, <1>3, <2>1, <2>2, <1>5, FileUntouched
<1> QED
    BY <1>1, <1>4, <1>5

\* The other steps: only the lock's holder moves on, and it leaves the file's
\* end where it is.
LEMMA OtherSteps ==
    ASSUME LogInv, LogTypeOK', [LogNext]_logVars, UNCHANGED <<content, written>>
    PROVE  HoldersLock' /\ WriterAtEnd' /\ AckedIsWritten'
<1> USE DEF LogInv, SinkAt, SinkGoto
<1>0. stage \in [Sinks -> SinkStages] /\ Free \notin Sinks
    BY AuditLogAssumption DEF LogTypeOK
<1>1. ASSUME NEW s \in Sinks, AcquireLock(s)
      PROVE  HoldersLock' /\ WriterAtEnd' /\ AckedIsWritten'
  <2>1. HoldersLock'
    BY <1>0, <1>1 DEF AcquireLock, HoldersLock, LockFree
  <2>2. WriterAtEnd' /\ AckedIsWritten'
    BY <1>0, <1>1 DEF AcquireLock, WriterAtEnd, AckedIsWritten, Cell
  <2> QED
    BY <2>1, <2>2
<1>2. ASSUME NEW s \in Sinks, LockFails(s)
      PROVE  HoldersLock' /\ WriterAtEnd' /\ AckedIsWritten'
  <2>1. HoldersLock' /\ WriterAtEnd'
    BY <1>0, <1>2 DEF LockFails, HoldersLock, WriterAtEnd, Cell
  <2>2. AckedIsWritten'
    BY <1>2 DEF LockFails, AckedIsWritten, LogTypeOK
  <2> QED
    BY <2>1, <2>2
<1>3. ASSUME NEW s \in Sinks, Seek(s)
      PROVE  HoldersLock' /\ WriterAtEnd' /\ AckedIsWritten'
  <2>1. HoldersLock' /\ AckedIsWritten'
    BY <1>0, <1>3 DEF Seek, HoldersLock, AckedIsWritten
  <2>2. WriterAtEnd'
    <3> SUFFICES ASSUME NEW t \in Sinks, stage'[t] = "writing"
                 PROVE  /\ position'[t] = Len(content')
                        /\ next'[t] > 1 =>
                             /\ Len(content') > 0
                             /\ content'[Len(content')] = [Cell(t)' EXCEPT !.block = @ - 1]
        BY DEF WriterAtEnd
    <3>1. CASE t = s
      <4>1. position'[s] = Len(content) /\ next'[s] = 1
        BY <1>0, <1>3, <3>1 DEF Seek, EndOfFile, LogTypeOK
      <4> QED
        BY <3>1, <4>1
    <3>2. CASE t # s
      <4>1. /\ stage[t] = "writing" /\ position'[t] = position[t]
            /\ next'[t] = next[t] /\ record' = record
        BY <1>0, <1>3, <3>2 DEF Seek, LogTypeOK
      <4> QED
        BY <4>1 DEF WriterAtEnd, Cell
    <3> QED
        BY <3>1, <3>2
  <2> QED
    BY <2>1, <2>2
<1>4. ASSUME NEW s \in Sinks, WriteBlock(s)
      PROVE  HoldersLock' /\ WriterAtEnd' /\ AckedIsWritten'
    BY <1>4, WriteStep
<1>5. ASSUME NEW s \in Sinks, Unlock(s)
      PROVE  HoldersLock' /\ WriterAtEnd' /\ AckedIsWritten'
  <2>1. HoldersLock'
    BY <1>0, <1>5 DEF Unlock, HoldersLock
  <2>2. WriterAtEnd'
    BY <1>0, <1>5 DEF Unlock, WriterAtEnd, Cell
  <2>3. AckedIsWritten'
    <3>1. PICK ok \in {WriteSucceeded(s), FALSE} :
            outcome' = [outcome EXCEPT ![s][record[s]] = IF ok THEN "ok" ELSE "failed"]
        BY <1>5 DEF Unlock
    <3> SUFFICES ASSUME NEW t \in Sinks, NEW r \in Numbers, outcome'[t][r] = "ok"
                 PROVE  <<t, r>> \in written
        BY DEF AckedIsWritten
    <3>2. CASE t = s /\ r = record[s]
      <4>1. outcome'[s][record[s]] = IF ok THEN "ok" ELSE "failed"
        BY <3>1 DEF LogTypeOK
      <4>2. ok = WriteSucceeded(s) \/ ok = FALSE
        BY <3>1
      <4>3. CASE ok = FALSE
        BY <3>2, <4>1, <4>3
      <4>4. CASE ok = WriteSucceeded(s)
        <5>1. WriteSucceeded(s)
            BY <3>2, <4>1, <4>4
        <5> QED
            BY <3>2, <5>1 DEF WriteSucceeded
      <4> QED
        BY <4>2, <4>3, <4>4
    <3>3. CASE ~(t = s /\ r = record[s])
      <4>1. outcome'[t][r] = outcome[t][r]
        BY <3>1, <3>3 DEF LogTypeOK
      <4> QED
        BY <4>1 DEF AckedIsWritten
    <3> QED
        BY <3>2, <3>3
  <2> QED
    BY <2>1, <2>2, <2>3
<1>6. ASSUME NEW s \in Sinks, WriteTerminalRecord(s)
      PROVE  HoldersLock' /\ WriterAtEnd' /\ AckedIsWritten'
    BY <1>0, <1>6 DEF WriteTerminalRecord, HoldersLock, WriterAtEnd, AckedIsWritten,
                      Cell, LogTypeOK
<1>7. ASSUME NEW s \in Sinks, KillWriter(s)
      PROVE  HoldersLock' /\ WriterAtEnd' /\ AckedIsWritten'
    BY <1>0, <1>7 DEF KillWriter, HoldersLock, WriterAtEnd, AckedIsWritten, Cell
<1>8. CASE UNCHANGED logVars
    BY <1>8 DEF logVars, HoldersLock, WriterAtEnd, AckedIsWritten, Cell
<1> QED
    BY <1>1, <1>2, <1>3, <1>4, <1>5, <1>6, <1>7, <1>8 DEF LogNext, SinkStep

LEMMA StepIInv ==
    ASSUME LogInv, [LogNext]_logVars
    PROVE  LogInv'
<1>1. LogTypeOK'
    BY LogTypeStep
<1>2. CASE \E s \in Sinks : WriteBlock(s)
    BY <1>1, <1>2, WriteStep DEF LogInv
<1>3. CASE ~ \E s \in Sinks : WriteBlock(s)
  <2>1. UNCHANGED <<content, written>>
    BY <1>3 DEF LogNext, SinkStep, AcquireLock, LockFails, Seek, Unlock,
                WriteTerminalRecord, KillWriter, logVars
  <2> QED
    BY <1>1, <2>1, OtherSteps, FileUntouched DEF LogInv
<1> QED
    BY <1>2, <1>3

LEMMA IInvAlways == LogSpec => []LogInv
    BY LogInitInv, StepIInv, PTL DEF LogSpec

-----------------------------------------------------------------------------
\* What stands at the end of the file.  A record is reported once, after its
\* last write call, so until then nothing is said about it.
Unreported(s) == outcome[s][record[s]] = "none"
Unwritten(s) == <<s, record[s]>> \notin written

RecordInv(s) ==
    /\ stage[s] \in {"locking", "seeking", "writing", "unlocking"} => Unreported(s)
    /\ stage[s] \in {"locking", "seeking", "writing"} => Unwritten(s)
    /\ stage[s] = "held" => record[s] = 1
    /\ record[s] = 1 => outcome[s][2] = "none" /\ <<s, 2>> \notin written

Torn(cell) == outcome[cell.sink][cell.record] = "failed" \/ stage[cell.sink] = "dead"

\* The cell is the last one so far of the record its sink is writing.
InProgress(cell) ==
    /\ stage[cell.sink] \in {"writing", "unlocking"}
    /\ cell.record = record[cell.sink]
    /\ Unwritten(cell.sink)
    /\ stage[cell.sink] = "writing" => next[cell.sink] = cell.block + 1

EndInv ==
    Len(content) > 0 =>
        LET cell == content[Len(content)]
        IN  cell.block = Newline \/ Torn(cell) \/ InProgress(cell)

LineInv ==
    /\ \A s \in Sinks : RecordInv(s)
    /\ EndInv
    /\ OnlyTornRecordsSpoilLines

\* A step of one sink says nothing about the others' records.
OtherSinksKept(s) ==
    \A t \in Sinks \ {s} :
        /\ stage'[t] = stage[t] /\ record'[t] = record[t] /\ next'[t] = next[t]
        /\ outcome'[t] = outcome[t]
        /\ \A r \in Numbers : <<t, r>> \in written' => <<t, r>> \in written

\* What a sink reported or died with stays, and a record in progress stays so
\* until it fails.
OwnKept(s) ==
    /\ stage[s] = "dead" => stage'[s] = "dead"
    /\ \A r \in Numbers : outcome[s][r] = "failed" => outcome'[s][r] = "failed"
    /\ content' = content =>
         \A cell \in Cells :
            cell.sink = s /\ InProgress(cell) => InProgress(cell)' \/ Torn(cell)'

Act(s) == SinkStep(s) \/ LockFails(s) \/ WriteTerminalRecord(s) \/ KillWriter(s)

\* A step of a sink, or its death, concerns its own record only.
LEMMA RecordStep ==
    ASSUME LogInv, LineInv, NEW s \in Sinks, Act(s)
    PROVE  OtherSinksKept(s) /\ OwnKept(s) /\ RecordInv(s)'
<1> USE DEF SinkAt, SinkGoto
<1>0. /\ stage \in [Sinks -> SinkStages] /\ record \in [Sinks -> Numbers]
      /\ position \in [Sinks -> Nat] /\ next \in [Sinks -> 1 .. Newline]
      /\ outcome \in [Sinks -> [Numbers -> {"none", "ok", "failed"}]]
      /\ RecordInv(s) /\ record[s] \in Numbers /\ Records[s] \in {1, 2}
      /\ Numbers = {1, 2}
  BY AuditLogAssumption DEF LogInv, LogTypeOK, LineInv, Numbers
<1>1. CASE AcquireLock(s) \/ KillWriter(s) \/ Seek(s) \/ WriteTerminalRecord(s)
  <2>1. UNCHANGED <<written, outcome, content>>
    BY <1>1 DEF AcquireLock, KillWriter, Seek, WriteTerminalRecord
  <2>2. OtherSinksKept(s)
    BY <1>0, <1>1, <2>1 DEF OtherSinksKept, AcquireLock, KillWriter, Seek, WriteTerminalRecord
  <2>3. CASE ~WriteTerminalRecord(s)
    <3>1. /\ record' = record /\ stage[s] # "dead"
          /\ \/ stage[s] = "locking" /\ stage'[s] = "seeking"
             \/ stage[s] = "seeking" /\ stage'[s] \in {"writing", "unlocking"}
             \/ stage'[s] = "dead"
      BY <1>0, <1>1, <2>3 DEF AcquireLock, KillWriter, Seek
    <3>2. RecordInv(s)'
      BY <1>0, <2>1, <3>1 DEF RecordInv, Unreported, Unwritten
    <3>3. OwnKept(s)
      BY <2>1, <3>1 DEF OwnKept, InProgress, Torn
    <3> QED
      BY <2>2, <3>2, <3>3
  <2>4. CASE WriteTerminalRecord(s)
    <3>1. stage[s] = "held" /\ stage'[s] = "locking" /\ record[s] = 1 /\ record'[s] = 2
      BY <1>0, <2>4 DEF WriteTerminalRecord, RecordInv
    <3>2. RecordInv(s)'
      BY <1>0, <2>1, <3>1 DEF RecordInv, Unreported, Unwritten
    <3>3. OwnKept(s)
      BY <2>1, <3>1 DEF OwnKept, InProgress
    <3> QED
      BY <2>2, <3>2, <3>3
  <2> QED
    BY <2>3, <2>4
<1>2. CASE LockFails(s)
  <2>1. /\ stage[s] = "locking" /\ stage'[s] = "closed" /\ UNCHANGED <<record, next, written>>
        /\ outcome'[s] = [outcome[s] EXCEPT ![record[s]] = "failed"]
        /\ \A t \in Sinks \ {s} : stage'[t] = stage[t] /\ outcome'[t] = outcome[t]
    BY <1>0, <1>2 DEF LockFails
  <2>2. OtherSinksKept(s)
    BY <2>1 DEF OtherSinksKept
  <2>3. RecordInv(s)'
    BY <1>0, <2>1 DEF RecordInv, Unreported, Unwritten
  <2>4. OwnKept(s)
    BY <1>0, <2>1 DEF OwnKept, InProgress
  <2> QED
    BY <2>2, <2>3, <2>4
<1>3. CASE WriteBlock(s)
  <2>1. /\ stage[s] = "writing" /\ UNCHANGED <<record, outcome>>
        /\ \A t \in Sinks \ {s} : stage'[t] = stage[t] /\ next'[t] = next[t]
        /\ \/ stage'[s] = "unlocking"
           \/ stage'[s] = "writing" /\ written' = written
        /\ written' \in {written, written \cup {<<s, record[s]>>}}
        /\ content' = content => written' = written /\ stage'[s] = "unlocking"
    <3>1. content' = content => UNCHANGED written /\ SinkGoto(s, "unlocking")
      <4>1. Append(content, Cell(s)) # content
        <5>1. /\ content \in Seq(Cells) /\ Cell(s) \in Cells
          BY <1>0, AuditLogAssumption DEF LogInv, LogTypeOK, Cells, Cell
        <5>2. Len(Append(content, Cell(s))) = Len(content) + 1 /\ Len(content) \in Nat
          BY <5>1
        <5> QED
          BY <5>2
      <4>2. position[s] = Len(content)
        BY <1>3 DEF LogInv, WriterAtEnd, WriteBlock
      <4> QED
        BY <1>3, <4>1, <4>2 DEF WriteBlock, Put, Cell
    <3> QED
      BY <1>0, <1>3, <3>1 DEF WriteBlock
  <2>2. OtherSinksKept(s)
    BY <2>1 DEF OtherSinksKept
  <2>3. RecordInv(s)'
    BY <1>0, <2>1 DEF RecordInv, Unreported, Unwritten
  <2>4. OwnKept(s)
    BY <1>0, <2>1 DEF OwnKept, InProgress, Unwritten
  <2> QED
    BY <2>2, <2>3, <2>4
<1>4. CASE Unlock(s)
  <2>1. PICK ok \in {WriteSucceeded(s), FALSE} :
            /\ outcome' = [outcome EXCEPT ![s][record[s]] = IF ok THEN "ok" ELSE "failed"]
            /\ stage' = [stage EXCEPT ![s] = IF ok /\ record[s] < Records[s] THEN "held" ELSE "closed"]
    BY <1>4 DEF Unlock
  <2>2. /\ stage[s] = "unlocking" /\ UNCHANGED <<record, next, written, content>>
        /\ stage'[s] \in {"held", "closed"} /\ (stage'[s] = "held" => record[s] = 1)
        /\ outcome'[s] = [outcome[s] EXCEPT ![record[s]] = IF ok THEN "ok" ELSE "failed"]
        /\ \A t \in Sinks \ {s} : stage'[t] = stage[t] /\ outcome'[t] = outcome[t]
    <3> DEFINE told == IF ok THEN "ok" ELSE "failed"
               step == IF ok /\ record[s] < Records[s] THEN "held" ELSE "closed"
    <3>1. stage[s] = "unlocking" /\ UNCHANGED <<record, next, written, content>>
      BY <1>4 DEF Unlock
    <3>2. step \in {"held", "closed"} /\ (step = "held" => record[s] = 1)
      BY <1>0
    <3>3. outcome' = [outcome EXCEPT ![s][record[s]] = told] /\ stage' = [stage EXCEPT ![s] = step]
      BY <2>1
    <3> HIDE DEF told, step
    <3>4. stage'[s] = step /\ \A t \in Sinks \ {s} : stage'[t] = stage[t]
      BY <1>0, <3>3
    <3>5. /\ outcome'[s] = [outcome[s] EXCEPT ![record[s]] = told]
          /\ \A t \in Sinks \ {s} : outcome'[t] = outcome[t]
      BY <1>0, <3>3
    <3> QED
      BY <3>1, <3>2, <3>4, <3>5 DEF told
  <2>3. OtherSinksKept(s)
    BY <2>2 DEF OtherSinksKept
  <2>4. RecordInv(s)'
    BY <1>0, <2>2 DEF RecordInv, Unreported, Unwritten
  <2>5. OwnKept(s)
    <3>1. \A r \in Numbers : outcome[s][r] = "failed" => outcome'[s][r] = "failed"
      BY <1>0, <2>2 DEF RecordInv, Unreported
    <3>2. Unwritten(s) => outcome'[s][record[s]] = "failed"
      BY <1>0, <2>1, <2>2 DEF Unwritten, WriteSucceeded
    <3> QED
      BY <2>2, <3>1, <3>2 DEF OwnKept, InProgress, Torn
  <2> QED
    BY <2>3, <2>4, <2>5
<1> QED
  BY <1>1, <1>2, <1>3, <1>4 DEF Act, SinkStep

\* What is torn stays torn.
LEMMA TornStays ==
    ASSUME NEW s \in Sinks, NEW cell \in Cells, OtherSinksKept(s), OwnKept(s), Torn(cell)
    PROVE  Torn(cell)'
BY DEF OtherSinksKept, OwnKept, Torn, Cells

\* The lines of an empty log, and of the log after every step.
LEMMA LineInvInit == LogInit => LineInv
BY DEF LogInit, LineInv, RecordInv, Unreported, Unwritten, EndInv, OnlyTornRecordsSpoilLines, Numbers

LEMMA LineInvStep == LogInv /\ LineInv /\ [LogNext]_logVars => LineInv'
<1> SUFFICES ASSUME LogInv, LineInv, [LogNext]_logVars PROVE LineInv'
  OBVIOUS
<1>0. /\ content \in Seq(Cells) /\ Len(content) \in Nat /\ DOMAIN content = 1 .. Len(content)
      /\ \A i \in DOMAIN content : content[i] \in Cells
  BY DEF LogInv, LogTypeOK
<1>1. ASSUME NEW s \in Sinks, Act(s) PROVE LineInv'
  <2>1. OtherSinksKept(s) /\ OwnKept(s) /\ RecordInv(s)'
    BY <1>1, RecordStep
  <2>2. \A t \in Sinks : RecordInv(t)'
    <3> SUFFICES ASSUME NEW t \in Sinks, t # s PROVE RecordInv(t)'
      BY <2>1
    <3>1. RecordInv(t) /\ record[t] \in Numbers /\ Numbers = {1, 2}
      BY DEF LineInv, LogInv, LogTypeOK, Numbers
    <3>2. /\ stage'[t] = stage[t] /\ record'[t] = record[t] /\ outcome'[t] = outcome[t]
          /\ \A n \in Numbers : <<t, n>> \in written' => <<t, n>> \in written
      BY <2>1 DEF OtherSinksKept
    <3> QED
      BY <3>1, <3>2 DEF RecordInv, Unreported, Unwritten
  <2>3. \A cell \in Cells : Torn(cell) => Torn(cell)'
    BY <2>1, TornStays
  <2>4. CASE content' = content
    <3>1. EndInv'
      <4> SUFFICES ASSUME Len(content) > 0 PROVE EndInv'
        BY <2>4 DEF EndInv
      <4>1. PICK cell \in Cells : cell = content[Len(content)]
        BY <1>0
      <4>2. cell.block = Newline \/ Torn(cell) \/ InProgress(cell)
        BY <4>1 DEF EndInv, LineInv
      <4>3. CASE InProgress(cell) /\ cell.sink = s
        BY <2>1, <2>4, <4>1, <4>3 DEF OwnKept, EndInv, InProgress, Torn, Unwritten
      <4>4. CASE InProgress(cell) /\ cell.sink # s
        <5>1. cell.sink \in Sinks \ {s} /\ record[cell.sink] \in Numbers
          BY <4>4 DEF Cells, LogInv, LogTypeOK
        <5>2. InProgress(cell)'
          BY <2>1, <4>4, <5>1 DEF OtherSinksKept, InProgress, Unwritten
        <5> QED
          BY <2>4, <4>1, <5>2 DEF EndInv, InProgress, Unwritten
      <4>5. CASE Torn(cell)
        BY <2>3, <2>4, <4>1, <4>5 DEF EndInv, Torn
      <4>6. CASE cell.block = Newline
        BY <2>4, <4>1, <4>6 DEF EndInv, Newline
      <4> QED
        BY <4>2, <4>3, <4>4, <4>5, <4>6
    <3>2. OnlyTornRecordsSpoilLines'
      <4> SUFFICES ASSUME NEW i \in DOMAIN content, content[i].block = 1,
                          i # 1, content[i - 1].block # Newline
                   PROVE  (outcome[content[i - 1].sink][content[i - 1].record] = "failed")'
                          \/ (stage[content[i - 1].sink] = "dead")'
        BY <2>4 DEF OnlyTornRecordsSpoilLines, StartsLine, Newline
      <4>1. PICK cell \in Cells : cell = content[i - 1]
        BY <1>0
      <4>2. Torn(cell)
        BY <4>1 DEF LineInv, OnlyTornRecordsSpoilLines, StartsLine, Torn
      <4> QED
        BY <2>3, <2>4, <4>1, <4>2 DEF Torn
    <3> QED
      BY <2>2, <3>1, <3>2 DEF LineInv
  <2>5. CASE content' = Append(content, Cell(s)) /\ WriteBlock(s)
    <3>0. /\ Cell(s) \in Cells /\ Newline \in Nat /\ stage[s] = "writing" /\ lock = s
          /\ next[s] \in Nat \ {0} /\ Unwritten(s)
      <4>1. stage[s] = "writing" /\ lock = s /\ Unwritten(s)
        BY <2>5 DEF WriteBlock, SinkAt, LogInv, HoldersLock, LineInv, RecordInv
      <4>2. Newline \in Nat /\ next[s] \in Nat \ {0} /\ next[s] \in 1 .. Newline /\ record[s] \in Numbers
        BY AuditLogAssumption DEF LogInv, LogTypeOK, Newline
      <4> QED
        BY <4>1, <4>2 DEF Cells, Cell
    <3>1. /\ DOMAIN content' = 1 .. Len(content) + 1 /\ Len(content') = Len(content) + 1
          /\ content'[Len(content) + 1] = Cell(s)
          /\ \A i \in 1 .. Len(content) : content'[i] = content[i]
      BY <1>0, <2>5, <3>0
    <3>2. EndInv'
      <4>1. CASE next[s] = Newline
        BY <1>0, <3>1, <4>1 DEF EndInv, Cell, Newline
      <4>2. CASE next[s] # Newline
        <5>1. content' # content
          BY <1>0, <3>1
        <5>2. /\ next' = [next EXCEPT ![s] = @ + 1] /\ UNCHANGED <<stage, written, record>>
          BY <2>5, <4>2, <5>1 DEF WriteBlock, LastBlock
        <5>3. next'[s] = next[s] + 1
          BY <5>2 DEF LogInv, LogTypeOK
        <5>4. /\ Cell(s).sink = s /\ Cell(s).record = record[s] /\ Cell(s).block = next[s]
          BY DEF Cell
        <5>5. /\ stage'[s] \in {"writing", "unlocking"} /\ record'[s] = record[s] /\ Unwritten(s)'
              /\ stage'[s] = "writing" => next'[s] = next[s] + 1
          BY <3>0, <5>2, <5>3 DEF Unwritten
        <5> QED
          BY <1>0, <3>1, <5>4, <5>5 DEF EndInv, InProgress, Unwritten
      <4> QED
        BY <4>1, <4>2
    <3>3. OnlyTornRecordsSpoilLines'
      <4> DEFINE Spoiled(i) == content'[i].block = 1 /\ i # 1 /\ content'[i - 1].block # Newline
                 TornNow(i) == \/ outcome'[content'[i - 1].sink][content'[i - 1].record] = "failed"
                               \/ stage'[content'[i - 1].sink] = "dead"
      <4> SUFFICES ASSUME NEW i \in DOMAIN content', Spoiled(i) PROVE TornNow(i)
        BY DEF OnlyTornRecordsSpoilLines, StartsLine, Newline
      <4>1. CASE i \in 1 .. Len(content)
        <5>1. /\ content'[i] = content[i] /\ i - 1 \in DOMAIN content
              /\ content'[i - 1] = content[i - 1]
          BY <1>0, <3>1, <4>1
        <5>2. PICK cell \in Cells : cell = content[i - 1]
          BY <1>0, <5>1
        <5>3. Torn(cell)
          BY <1>0, <4>1, <5>1, <5>2 DEF LineInv, OnlyTornRecordsSpoilLines, StartsLine, Torn
        <5> QED
          BY <2>3, <5>1, <5>2, <5>3 DEF Torn
      <4>2. CASE i = Len(content) + 1
        <5>1. /\ content'[i] = Cell(s) /\ Len(content) > 0
              /\ content'[i - 1] = content[Len(content)] /\ Len(content) \in DOMAIN content
          BY <1>0, <3>1, <4>2
        <5>2. PICK last \in Cells : last = content[Len(content)]
          BY <1>0, <5>1
        <5>3. next[s] = 1
          BY <5>1 DEF Cell
        <5>4. last.block # Newline => Torn(last) \/ InProgress(last)
          BY <5>1, <5>2 DEF LineInv, EndInv
        <5>5. ~InProgress(last)
          <6> SUFFICES ASSUME InProgress(last) PROVE FALSE
            OBVIOUS
          <6>1. last.sink \in Sinks /\ last.block \in 1 .. Newline
            BY DEF Cells
          <6>2. last.sink = s
            BY <3>0, <6>1 DEF InProgress, LogInv, HoldersLock
          <6>3. next[s] = last.block + 1
            BY <3>0, <6>2 DEF InProgress
          <6> QED
            BY <3>0, <5>3, <6>1, <6>3
        <5> QED
          BY <2>3, <5>1, <5>2, <5>4, <5>5 DEF Torn
      <4> QED
        BY <1>0, <3>1, <4>1, <4>2
    <3> QED
      BY <2>2, <3>2, <3>3 DEF LineInv
  <2>6. content' = content \/ (content' = Append(content, Cell(s)) /\ WriteBlock(s))
    BY <1>1, WriteStep DEF Act, SinkStep, AcquireLock, LockFails, Seek, Unlock,
                           WriteTerminalRecord, KillWriter
  <2> QED
    BY <2>4, <2>5, <2>6
<1>2. CASE UNCHANGED logVars
  BY <1>2 DEF logVars, LineInv, RecordInv, Unreported, Unwritten, EndInv, Torn, InProgress,
              OnlyTornRecordsSpoilLines, StartsLine, Newline
<1> QED
  BY <1>1, <1>2 DEF LogNext, Act

-----------------------------------------------------------------------------
\* Every variable keeps its type.
THEOREM LogTypeCorrect == LogSpec => []LogTypeOK
<1>1. LogInv => LogTypeOK
    BY DEF LogInv
<1> QED
    BY <1>1, IInvAlways, PTL

\* However many gateways write, fail and die, the bytes of their records
\* never mix.
THEOREM RecordsNeverMix == LogSpec => []RecordsContiguous
<1>1. LogInv => RecordsContiguous
    BY DEF LogInv
<1> QED
    BY <1>1, IInvAlways, PTL

\* A record whose write was reported as done is in the log, newline included.
THEOREM AcknowledgedInFull == LogSpec => []AckedInFull
<1>1. LogInv => AckedInFull
    BY DEF LogInv, AckedIsWritten, WrittenInFile, AckedInFull
<1> QED
    BY <1>1, IInvAlways, PTL

\* A record can share its line only with what was torn before it: a record in
\* front of another one, without a newline, is of a write that was reported as
\* failed or of a process that died.
THEOREM OnlyTornSpoil == LogSpec => []OnlyTornRecordsSpoilLines
<1>1. LineInv => OnlyTornRecordsSpoilLines
    BY DEF LineInv
<1> QED
    BY <1>1, IInvAlways, LineInvInit, LineInvStep, PTL DEF LogSpec

\* No step takes back or overwrites what is in the log, although the file is
\* not opened for append.
THEOREM LogIsAppendOnly == LogSpec => AppendOnly
<1> DEFINE Grows == /\ Len(content) <= Len(content')
                    /\ \A i \in DOMAIN content : content'[i] = content[i]
<1>1. ASSUME LogInv, [LogNext]_logVars PROVE [Grows]_logVars
  <2>1. content \in Seq(Cells) /\ Len(content) \in Nat
    BY <1>1 DEF LogInv, LogTypeOK
  <2>2. CASE \E s \in Sinks : WriteBlock(s)
    <3>1. PICK s \in Sinks : WriteBlock(s)
        BY <2>2
    <3>2. content' = content \/ content' = Append(content, Cell(s))
        BY <1>1, <3>1, WriteStep
    <3>3. Cell(s) \in Cells
        BY <1>1, AuditLogAssumption DEF LogInv, LogTypeOK, Cells, Cell
    <3> QED
        BY <2>1, <3>2, <3>3
  <2>3. CASE ~ \E s \in Sinks : WriteBlock(s)
    <3>1. content' = content
        BY <1>1, <2>3 DEF LogNext, SinkStep, AcquireLock, LockFails, Seek, Unlock,
                          WriteTerminalRecord, KillWriter, logVars
    <3> QED
        BY <2>1, <3>1
  <2> QED
    BY <2>2, <2>3
<1> QED
    BY <1>1, IInvAlways, PTL DEF LogSpec, AppendOnly

\* ------------------------------------------------------ command life cycle
\* Before the child is started: the steps that follow a bound request.
Launching == {"checking_program", "checking_cwd", "spawning"}
Launched == {"waiting", "recording_exit", "holding", "dropping", "recording_failure",
             "done", "dead"}

\* The steps that only one kind of call takes, and when it takes them.
FlowInv(r) ==
    /\ r \in Executions =>
         pc[r] \notin {"recording_prepare", "prepared", "holding", "dropping"}
    /\ r \in Preparations => pc[r] \notin {"waiting", "recording_exit"}
    /\ pc[r] \in {"recording_denial", "recording_failure", "recording_prepare"} => audited
    /\ pc[r] = "recording_failure" => decision[r] = "deny"
    /\ pc[r] \in Launching \cup {"opening_sink", "recording_prepare", "prepared"}
         => bound[r] \in Views
    /\ started[r] # Nothing => pc[r] \in Launched

\* An audited call keeps its log open from the time it is allowed to run.
SinkInv(r) ==
    audited /\ pc[r] \in Launching \cup {"recording_prepare", "prepared", "waiting",
                                         "recording_exit", "recording_failure"}
        => sink[r] \in Logs

\* A prepared command is on record in the log it holds open.
PreparedInv(r) ==
    r \in Preparations =>
        /\ pc[r] \in Launching \cup {"prepared", "holding", "dropping", "recording_failure"}
              /\ sink[r] # Nothing
             => \E t \in Trail(r) : t.file = sink[r] /\ t.status = "prepared"
        /\ audited /\ started[r] # Nothing => \E t \in Trail(r) : t.status = "prepared"

\* Until the call comes to its end nothing but the prepared record is written.
UnfinishedInv(r) ==
    (\/ pc[r] \notin {"holding", "dropping", "done", "dead"}
     \/ pc[r] \in {"holding", "dropping"} /\ sink[r] # Nothing)
    => \A t \in Trail(r) : t.status = "prepared"

\* OneTerminalRecord, of a trail.
TerminalInv(r) ==
    r \in Preparations =>
        \A t \in Trail(r) :
            t.status \in Terminal =>
                /\ \E p \in Trail(r) : p.status = "prepared" /\ p.file = t.file /\ p.at < t.at
                /\ \A u \in Trail(r) : u.status \in Terminal => u = t

\* NoContradictoryRecord, of a trail.
DenialInv(r) ==
    results[r] \cap NotStarted # {} =>
        /\ pc[r] \in {"recording_failure", "done", "dead"}
        /\ \A t \in Trail(r) : t.status # "prepared" => t.decision = "deny"

Denial(t) == t.status \notin {"prepared", "exited"} /\ t.decision = "deny"

\* ResultsAreRecorded, of a trail and at every step.
RecordedInv(r) ==
    audited /\ results[r] \cap AuditFailures = {} =>
        /\ (\/ "ok" \in results[r]
            \/ pc[r] \in {"holding", "dropping"} /\ sink[r] = Nothing)
           => \E t \in Trail(r) : t.status = "exited"
        /\ results[r] \cap (NotStarted \cup {"denied"}) # {} =>
             \/ pc[r] \in {"recording_denial", "recording_failure", "dead"}
             \/ \E t \in Trail(r) : Denial(t)

\* What was checked is still there, unless somebody changed it since.
BindingInv(r) ==
    /\ pc[r] \in {"checking_cwd", "spawning"} /\ "program" \notin moved[r] =>
         fs.program = bound[r].program /\ fs.version[bound[r].program] = bound[r].version
    /\ pc[r] = "spawning" /\ "cwd" \notin moved[r] => fs.cwd = bound[r].cwd
    /\ started[r] # Nothing =>
         /\ byDescriptor => started[r].program = bound[r].program
         /\ "program" \notin moved[r] =>
              started[r].program = bound[r].program /\ started[r].version = bound[r].version
         /\ "cwd" \notin moved[r] => started[r].cwd = bound[r].cwd

CallInv(r) ==
    /\ FlowInv(r) /\ SinkInv(r) /\ PreparedInv(r) /\ UnfinishedInv(r)
    /\ TerminalInv(r) /\ DenialInv(r) /\ RecordedInv(r) /\ BindingInv(r)

\* Every change counts, so no version is beyond their number.
VersionInv == \A p \in Programs : fs.version[p] <= changes

IInv == TypeOK /\ VersionInv /\ \A r \in Calls : CallInv(r)
-----------------------------------------------------------------------------
(***************************************************************************)
(* Trails.                                                                 *)
(***************************************************************************)

\* A record joins the trail of call r, behind all the others in its file.
Joins(r, new, file, status, d) ==
    /\ Trail(r)' = Trail(r) \cup {new}
    /\ new.file = file /\ new.status = status /\ new.decision = d
    /\ \A t \in Trail(r) : t.file = file => t.at < new.at

\* What is in a trail, in terms of the log files.
LEMMA TrailOf ==
    ASSUME NEW r \in Calls
    PROVE  \A t : t \in Trail(r) <=>
               \E f \in Logs : \E i \in DOMAIN logs[f] :
                   /\ logs[f][i].call = r
                   /\ t = [file |-> f, at |-> i, status |-> logs[f][i].status,
                          decision |-> logs[f][i].decision]
BY DEF Trail

\* An append to a log file adds one record, to one trail.
LEMMA RecordAdds ==
    ASSUME TypeOK, NEW r \in Calls, NEW f \in Logs,
           NEW st \in Statuses, NEW d \in Decisions,
           logs' = [logs EXCEPT ![f] =
                       Append(@, [call |-> r, status |-> st, decision |-> d])]
    PROVE  /\ logs' \in [Logs -> Seq(Entries)]
           /\ \A q \in Calls \ {r} : Trail(q)' = Trail(q)
           /\ \E new : Joins(r, new, f, st, d)
<1> DEFINE e == [call |-> r, status |-> st, decision |-> d]
           n == Len(logs[f]) + 1
<1>1. logs \in [Logs -> Seq(Entries)] /\ e \in Entries
  BY DEF TypeOK, Entries
<1>2. /\ logs[f] \in Seq(Entries) /\ n \in Nat
      /\ DOMAIN logs[f] = 1 .. Len(logs[f])
      /\ DOMAIN Append(logs[f], e) = 1 .. n
      /\ \A i \in 1 .. Len(logs[f]) : Append(logs[f], e)[i] = logs[f][i]
      /\ Append(logs[f], e)[n] = e
  BY <1>1
<1>3. /\ logs' \in [Logs -> Seq(Entries)]
      /\ logs'[f] = Append(logs[f], e)
      /\ \A g \in Logs \ {f} : logs'[g] = logs[g]
  BY <1>1, <1>2
<1>4. ASSUME NEW q \in Calls, NEW g \in Logs, NEW i \in DOMAIN logs[g]
      PROVE  i \in DOMAIN logs'[g] /\ logs'[g][i] = logs[g][i]
  BY <1>2, <1>3
<1>5. ASSUME NEW g \in Logs, NEW i \in DOMAIN logs'[g]
      PROVE  i \in DOMAIN logs[g] \/ (g = f /\ i = n /\ logs'[g][i] = e)
  BY <1>2, <1>3
<1>6. n \in DOMAIN logs'[f] /\ logs'[f][n] = e
  BY <1>2, <1>3
<1> HIDE DEF n
<1>7. ASSUME NEW q \in Calls \ {r}
      PROVE  Trail(q)' = Trail(q)
  BY <1>4, <1>5 DEF Trail
<1>8. Trail(r)' = Trail(r) \cup {[file |-> f, at |-> n, status |-> st, decision |-> d]}
  <2>1. ASSUME NEW t \in Trail(r)' 
        PROVE  t \in Trail(r) \/ t = [file |-> f, at |-> n, status |-> st, decision |-> d]
    BY <1>4, <1>5 DEF Trail
  <2>2. ASSUME NEW t \in Trail(r) PROVE t \in Trail(r)'
    BY <1>4 DEF Trail
  <2>3. [file |-> f, at |-> n, status |-> st, decision |-> d] \in Trail(r)'
    BY <1>6 DEF Trail
  <2> QED
    BY <2>1, <2>2, <2>3
<1>9. \A t \in Trail(r) : t.file = f => t.at < n
  BY <1>2, TrailOf DEF n
<1>10. \E new : Joins(r, new, f, st, d)
  <2> DEFINE new == [file |-> f, at |-> n, status |-> st, decision |-> d]
  <2>1. /\ Trail(r)' = Trail(r) \cup {new}
        /\ new.file = f /\ new.status = st /\ new.decision = d /\ new.at = n
    BY <1>8
  <2> HIDE DEF new
  <2> QED
    BY <1>9, <2>1 DEF Joins
<1> QED
  BY <1>3, <1>7, <1>10

LEMMA QuietTrails == ASSUME UNCHANGED logs PROVE \A q \in Calls : Trail(q)' = Trail(q)
BY DEF Trail
\* A record of call r through its sink: none when it has no sink.
LEMMA SinkRecord ==
    ASSUME TypeOK, NEW r \in Calls, NEW st \in Statuses, NEW d \in Decisions,
           Record(r, st, d)
    PROVE  /\ logs' \in [Logs -> Seq(Entries)]
           /\ \A q \in Calls \ {r} : Trail(q)' = Trail(q)
           /\ sink[r] = Nothing => Trail(r)' = Trail(r)
           /\ sink[r] # Nothing =>
                \E new : Joins(r, new, sink[r], st, d)
<1>1. CASE sink[r] = Nothing
  <2>1. logs' = logs
    BY <1>1, ExecGatewayAssumption DEF Record, TypeOK
  <2> QED
    BY <1>1, <2>1, QuietTrails DEF TypeOK
<1>2. CASE sink[r] # Nothing
  <2>1. sink[r] \in Logs
    BY <1>2 DEF TypeOK
  <2>2. logs' = [logs EXCEPT ![sink[r]] =
                    Append(@, [call |-> r, status |-> st, decision |-> d])]
    BY DEF Record
  <2> QED
    BY <1>2, <2>1, <2>2, RecordAdds
<1> QED
  BY <1>1, <1>2

-----------------------------------------------------------------------------
(***************************************************************************)
(* Types.                                                                  *)
(***************************************************************************)

\* What is told joins what was told before.
LEMMA ToldType ==
    ASSUME results \in [Calls -> SUBSET Results], NEW r \in Calls, NEW told \in SUBSET Results,
           results' = [results EXCEPT ![r] = @ \cup told]
    PROVE  results' \in [Calls -> SUBSET Results]
<1>1. results[r] \cup told \in SUBSET Results
  OBVIOUS
<1> QED
  BY <1>1

\* A failure is never recorded as a preparation or as an exit.
LEMMA FailureStatusType == ASSUME NEW r \in Calls PROVE FailureStatus(r) \in Statuses \ {"prepared", "exited"}
BY DEF FailureStatus, Statuses, Terminal

\* The invariant holds at first.
LEMMA InitIInv == Init => IInv
<1> SUFFICES ASSUME Init PROVE IInv
  OBVIOUS
<1>1. TypeOK
  <2>1. fs \in FileSystems
    BY ExecGatewayAssumption DEF Init, FileSystems
  <2>2. results \in [Calls -> SUBSET Results] /\ moved \in [Calls -> SUBSET {"program", "cwd"}]
    BY DEF Init
  <2> QED
    BY <2>1, <2>2, ExecGatewayAssumption DEF Init, TypeOK, Pcs, Children
<1>2. VersionInv
  BY ExecGatewayAssumption DEF Init, VersionInv
<1>3. ASSUME NEW r \in Calls PROVE CallInv(r)
  <2>1. Trail(r) = {}
    BY <1>3 DEF Init, Trail
  <2> QED
    BY <1>3, <2>1 DEF Init, CallInv, FlowInv, SinkInv, PreparedInv, UnfinishedInv,
       TerminalInv, DenialInv, RecordedInv, BindingInv, Launching, Launched
<1> QED
  BY <1>1, <1>2, <1>3 DEF IInv

\* Every step keeps the types: one case for each action.
LEMMA TypeStep ==
    ASSUME IInv, [Next]_vars
    PROVE  TypeOK' /\ VersionInv'
<1> USE ExecGatewayAssumption DEF IInv, TypeOK, VersionInv, fsVars, setup, At, Goto,
        Decide, DropSink, EventAfterError
<1>a. ASSUME NEW r \in Calls, NEW x \in Results, Tell(r, x)
      PROVE  results' \in [Calls -> SUBSET Results]
  BY <1>a, ToldType DEF Tell
<1>b. ASSUME NEW r \in Calls, NEW x \in NotStarted \cup {"wait_failed"}, Fail(r, x)
      PROVE  /\ results' \in [Calls -> SUBSET Results]
             /\ pc' \in [Calls -> Pcs]
             /\ decision' \in [Calls -> Decisions \cup {"none"}]
  <2>1. results' \in [Calls -> SUBSET Results]
    BY <1>a, <1>b DEF Fail, Results
  <2> QED
    BY <1>b, <2>1 DEF Fail, Pcs, Decisions
<1>1. ASSUME NEW r \in Calls, Preflight(r) PROVE TypeOK' /\ VersionInv'
  <2>1. View \in Views
    BY DEF View, Views, FileSystems
  <2>2. results' \in [Calls -> SUBSET Results]
    BY <1>1, <1>a DEF Preflight, Results
  <2>3. pc' \in [Calls -> Pcs] /\ decision' \in [Calls -> Decisions \cup {"none"}]
    BY <1>1 DEF Preflight, Pcs, Decisions
  <2> QED
    BY <1>1, <2>1, <2>2, <2>3 DEF Preflight
<1>2. ASSUME NEW r \in Calls, RecordDenial(r) PROVE TypeOK' /\ VersionInv'
  <2>0. fs.log \in Logs
    <3>1. fs \in FileSystems
      OBVIOUS
    <3> QED
      BY ONLY <3>1 DEF FileSystems
  <2>1. logs' \in [Logs -> Seq(Entries)]
    <3>1. CASE UNCHANGED logs
      BY <3>1
    <3>2. CASE logs' = [logs EXCEPT ![fs.log] = Append(@,
                    [call |-> r, status |-> "prepare_error", decision |-> "deny"])]
      BY <2>0, <3>2, RecordAdds DEF Statuses, Decisions
    <3> QED
      BY <1>2, <3>1, <3>2 DEF RecordDenial
  <2>2. results' \in [Calls -> SUBSET Results]
    BY <1>2, <1>a DEF RecordDenial, Results, AuditFailures
  <2> QED
    BY <1>2, <2>1, <2>2 DEF RecordDenial, Pcs
<1>3. ASSUME NEW r \in Calls, OpenSink(r) PROVE TypeOK' /\ VersionInv'
  <2>1. results' \in [Calls -> SUBSET Results]
    BY <1>3, <1>a DEF OpenSink, Results, AuditFailures
  <2>2. pc' \in [Calls -> Pcs] /\ decision' \in [Calls -> Decisions \cup {"none"}]
    BY <1>3 DEF OpenSink, AfterSink, SinkFailure, Pcs, Decisions
  <2>3. sink' \in [Calls -> Logs \cup {Nothing}]
    BY <1>3 DEF OpenSink, FileSystems
  <2> QED
    BY <1>3, <2>1, <2>2, <2>3 DEF OpenSink
<1>4. ASSUME NEW r \in Calls, RecordPrepare(r) PROVE TypeOK' /\ VersionInv'
  <2>1. logs' \in [Logs -> Seq(Entries)]
    BY <1>4, SinkRecord DEF RecordPrepare, Statuses, Decisions
  <2>2. results' \in [Calls -> SUBSET Results]
    BY <1>4, <1>a DEF RecordPrepare, Results, AuditFailures
  <2> QED
    BY <1>4, <2>1, <2>2 DEF RecordPrepare, PrepareFailure, Pcs
<1>5. ASSUME NEW r \in Calls, SpawnPrepared(r) PROVE TypeOK' /\ VersionInv'
  BY <1>5 DEF SpawnPrepared, Pcs
<1>6. ASSUME NEW r \in Calls, CheckProgram(r) PROVE TypeOK' /\ VersionInv'
  <2>1. /\ results' \in [Calls -> SUBSET Results]
        /\ pc' \in [Calls -> Pcs]
        /\ decision' \in [Calls -> Decisions \cup {"none"}]
    BY <1>6, <1>b DEF CheckProgram, NotStarted, Pcs
  <2> QED
    BY <1>6, <2>1 DEF CheckProgram
<1>7. ASSUME NEW r \in Calls, CheckDirectories(r) PROVE TypeOK' /\ VersionInv'
  <2>1. /\ results' \in [Calls -> SUBSET Results]
        /\ pc' \in [Calls -> Pcs]
        /\ decision' \in [Calls -> Decisions \cup {"none"}]
    BY <1>7, <1>b DEF CheckDirectories, NotStarted, Pcs
  <2>2. moved' \in [Calls -> SUBSET {"program", "cwd"}]
    BY <1>7 DEF CheckDirectories
  <2> QED
    BY <1>7, <2>1, <2>2 DEF CheckDirectories
<1>8. ASSUME NEW r \in Calls, Spawn(r) PROVE TypeOK' /\ VersionInv'
  <2>1. Executed(r) \in Programs
    BY <1>8 DEF Spawn, Executed, CallInv, FlowInv, Launching, Views, FileSystems
  <2>2. [program |-> Executed(r), version |-> fs.version[Executed(r)], cwd |-> fs.cwd] \in Views
    BY <2>1 DEF Views, FileSystems
  <2>3. /\ results' \in [Calls -> SUBSET Results]
        /\ pc' \in [Calls -> Pcs]
        /\ decision' \in [Calls -> Decisions \cup {"none"}]
    BY <1>8, <1>b DEF Spawn, NotStarted, Pcs
  <2>4. started' \in [Calls -> Views \cup {Nothing}] /\ child' \in [Calls -> Children]
    BY <1>8, <2>2 DEF Spawn, Children
  <2> QED
    BY <1>8, <2>3, <2>4 DEF Spawn
<1>9. ASSUME NEW r \in Calls, RecordFailure(r) PROVE TypeOK' /\ VersionInv'
  <2>1. decision[r] = "deny"
    BY <1>9 DEF RecordFailure, CallInv, FlowInv
  <2>2. logs' \in [Logs -> Seq(Entries)]
    BY <1>9, <2>1, SinkRecord, FailureStatusType DEF RecordFailure, Decisions
  <2>3. results' \in [Calls -> SUBSET Results]
    BY <1>9, <1>a DEF RecordFailure, Results, AuditFailures
  <2> QED
    BY <1>9, <2>2, <2>3 DEF RecordFailure, Pcs
<1>10. ASSUME NEW r \in Calls, Wait(r) PROVE TypeOK' /\ VersionInv'
  <2>1. /\ results' \in [Calls -> SUBSET Results]
        /\ pc' \in [Calls -> Pcs]
        /\ decision' \in [Calls -> Decisions \cup {"none"}]
    BY <1>10, <1>b DEF Wait, Pcs
  <2> QED
    BY <1>10, <2>1 DEF Wait, Reap, Children
<1>11. ASSUME NEW r \in Calls, Finalize(r)
       PROVE  logs' \in [Logs -> Seq(Entries)] /\ results' \in [Calls -> SUBSET Results]
  <2>1. logs' \in [Logs -> Seq(Entries)]
    BY <1>11, SinkRecord DEF Finalize, Statuses, Terminal, Decisions
  <2>2. "ok" \in Results /\ WriteFailureTold \in SUBSET Results
    BY DEF Results, AuditFailures, WriteFailureTold
  <2>3. results' \in [Calls -> SUBSET Results]
    BY <1>11, <1>a, <2>2, ToldType DEF Finalize
  <2> QED
    BY <2>1, <2>3
<1>12. ASSUME NEW r \in Calls, RecordExit(r) PROVE TypeOK' /\ VersionInv'
  BY <1>11, <1>12 DEF RecordExit, Pcs
<1>13. ASSUME NEW r \in Calls, TryWait(r) PROVE TypeOK' /\ VersionInv'
  <2>1. logs' \in [Logs -> Seq(Entries)] /\ results' \in [Calls -> SUBSET Results]
    BY <1>11, <1>13, <1>a DEF TryWait, Results
  <2> QED
    BY <1>13, <2>1 DEF TryWait, Reap, SinkTaken, Children
<1>14. ASSUME NEW r \in Calls, WaitChild(r) PROVE TypeOK' /\ VersionInv'
  <2>1. logs' \in [Logs -> Seq(Entries)] /\ results' \in [Calls -> SUBSET Results]
    BY <1>11, <1>14, <1>a DEF WaitChild, Results
  <2> QED
    BY <1>14, <2>1 DEF WaitChild, Reap, Children, Pcs
<1>15. ASSUME NEW r \in Calls, DropChild(r) PROVE TypeOK' /\ VersionInv'
  <2>1. logs' \in [Logs -> Seq(Entries)]
    BY <1>15, SinkRecord DEF DropChild, Statuses, Terminal, Decisions
  <2> QED
    BY <1>15, <2>1 DEF DropChild, Reap, Children, Pcs
<1>16. ASSUME NEW r \in Calls, ChildExits(r) \/ Kill(r) PROVE TypeOK' /\ VersionInv'
  <2>1. CASE ChildExits(r)
    BY <2>1 DEF ChildExits, Children
  <2>2. CASE Kill(r)
    BY <2>2 DEF Kill, Pcs
  <2> QED
    BY <1>16, <2>1, <2>2
<1>17. CASE ChangeProgram
  <2>0. /\ moved' \in [Calls -> SUBSET {"program", "cwd"}]
        /\ changes' = changes + 1 /\ changes' \in 0 .. MaxChanges
    BY <1>17 DEF ChangeProgram, Change
  <2>1. ASSUME NEW p \in Programs, fs' = [fs EXCEPT !.program = p]
        PROVE  TypeOK' /\ VersionInv'
    <3>1. fs' \in FileSystems /\ fs'.version = fs.version
      BY <2>1 DEF FileSystems
    <3>2. VersionInv'
      BY <2>0, <3>1 DEF FileSystems
    <3> QED
      BY <1>17, <2>0, <3>1, <3>2 DEF ChangeProgram, Change
  <2>2. ASSUME NEW p \in Programs, fs' = [fs EXCEPT !.version[p] = @ + 1]
        PROVE  TypeOK' /\ VersionInv'
    <3>1. fs.version[p] + 1 \in 0 .. MaxChanges /\ fs.version \in [Programs -> 0 .. MaxChanges]
      BY <1>17, <2>0 DEF ChangeProgram, Change, FileSystems
    <3>2. fs'.version = [fs.version EXCEPT ![p] = @ + 1]
      BY <2>2 DEF FileSystems
    <3>3. fs' \in FileSystems
      BY <2>2, <3>1 DEF FileSystems
    <3>4. VersionInv'
      BY <2>0, <3>1, <3>2
    <3> QED
      BY <1>17, <2>0, <3>3, <3>4 DEF ChangeProgram, Change
  <2> QED
    BY <1>17, <2>1, <2>2 DEF ChangeProgram
<1>18. CASE ReplaceCwd \/ MoveLog
  <2>1. moved' \in [Calls -> SUBSET {"program", "cwd"}]
    BY <1>18 DEF ReplaceCwd, MoveLog, Change
  <2>2. fs' \in FileSystems /\ fs'.version = fs.version
    BY <1>18 DEF ReplaceCwd, MoveLog, FileSystems
  <2>3. changes' = changes + 1 /\ changes' \in 0 .. MaxChanges
    BY <1>18 DEF ReplaceCwd, MoveLog, Change
  <2>4. VersionInv'
    BY <2>2, <2>3 DEF FileSystems
  <2> QED
    BY <1>18, <2>1, <2>2, <2>3, <2>4 DEF ReplaceCwd, MoveLog, Change
<1>19. CASE UNCHANGED vars
  BY <1>19 DEF vars
<1> QED
  BY <1>1, <1>2, <1>3, <1>4, <1>5, <1>6, <1>7, <1>8, <1>9, <1>10, <1>12, <1>13, <1>14,
     <1>15, <1>16, <1>17, <1>18, <1>19 DEF Next, Step
-----------------------------------------------------------------------------
(***************************************************************************)
(* The steps of a call.  Each lemma says first what the     *)
(* step does to the call that takes it, then looks at the parts of the     *)
(* invariant, which are about that call alone.                             *)
(***************************************************************************)

\* What a step does not touch keeps its invariant: that of a call, when the
\* step is another call's, and when it changes a path and marks it as moved.
LEMMA CallKept ==
    ASSUME IInv, NEW q \in Calls, UNCHANGED <<audited, byDescriptor>>,
           pc'[q] = pc[q], decision'[q] = decision[q], results'[q] = results[q],
           bound'[q] = bound[q], started'[q] = started[q], sink'[q] = sink[q],
           Trail(q)' = Trail(q), moved[q] \subseteq moved'[q],
           "program" \notin moved'[q] => fs'.program = fs.program /\ fs'.version = fs.version,
           "cwd" \notin moved'[q] => fs'.cwd = fs.cwd
    PROVE  CallInv(q)'
<1>1. CallInv(q)
  BY DEF IInv
<1>2. FlowInv(q)' /\ SinkInv(q)'
  BY <1>1 DEF CallInv, FlowInv, SinkInv
<1>3. PreparedInv(q)' /\ UnfinishedInv(q)' /\ TerminalInv(q)'
  BY <1>1 DEF CallInv, PreparedInv, UnfinishedInv, TerminalInv
<1>4. DenialInv(q)' /\ RecordedInv(q)'
  BY <1>1 DEF CallInv, DenialInv, RecordedInv
<1>5. BindingInv(q)'
  BY <1>1 DEF CallInv, BindingInv
<1> QED
  BY <1>2, <1>3, <1>4, <1>5 DEF CallInv

\* A terminal record is the only one when none was there, and comes after the
\* prepared one of its file.
LEMMA FirstTerminal ==
    ASSUME NEW r \in Calls, NEW new, NEW f, NEW st, NEW d, Joins(r, new, f, st, d),
           r \in Preparations => \E p \in Trail(r) : p.file = f /\ p.status = "prepared",
           \A t \in Trail(r) : t.status = "prepared"
    PROVE  TerminalInv(r)'
BY DEF TerminalInv, Joins, Terminal

\* The steps of a call, each with what it keeps of its own call.
LEMMA PreflightCall == ASSUME IInv, NEW r \in Calls, Preflight(r) PROVE CallInv(r)'
<1>0. View \in Views
  BY DEF IInv, TypeOK, View, Views, FileSystems
<1>1. CallInv(r)
  BY DEF IInv
<1>2. /\ pc[r] = "idle" /\ UNCHANGED <<audited, byDescriptor, fs>>
      /\ started'[r] = started[r] /\ sink'[r] = sink[r] /\ moved'[r] = moved[r]
      /\ Trail(r)' = Trail(r)
      /\ \/ /\ pc'[r] = "opening_sink" /\ results'[r] = results[r] /\ bound'[r] \in Views
         \/ /\ pc'[r] = IF audited THEN "recording_denial" ELSE "done"
            /\ results'[r] = results[r] \cup {"denied"}
  BY <1>0, QuietTrails DEF Preflight, At, Goto, Tell, Decide, fsVars, setup, IInv, TypeOK
<1>3. FlowInv(r)' /\ SinkInv(r)'
  BY <1>1, <1>2 DEF CallInv, FlowInv, SinkInv, Launching, Launched
<1>4. PreparedInv(r)'
  BY <1>1, <1>2 DEF CallInv, FlowInv, PreparedInv, Launching, Launched
<1>5. UnfinishedInv(r)'
  BY <1>1, <1>2 DEF CallInv, FlowInv, UnfinishedInv
<1>6. TerminalInv(r)'
  BY <1>1, <1>2 DEF CallInv, TerminalInv
<1>7. DenialInv(r)'
  BY <1>1, <1>2 DEF CallInv, DenialInv, UnfinishedInv, NotStarted
<1>8. RecordedInv(r)'
  BY <1>1, <1>2 DEF CallInv, FlowInv, SinkInv, RecordedInv, AuditFailures, NotStarted, Denial
<1>9. BindingInv(r)'
  BY <1>1, <1>2 DEF CallInv, FlowInv, BindingInv, Launching, Launched
<1> QED
  BY <1>3, <1>4, <1>5, <1>6, <1>7, <1>8, <1>9 DEF CallInv

LEMMA RecordDenialCall == ASSUME IInv, NEW r \in Calls, RecordDenial(r) PROVE CallInv(r)'
<1>1. CallInv(r)
  BY DEF IInv
<1>2. /\ pc[r] = "recording_denial" /\ pc'[r] = "done" /\ UNCHANGED <<audited, byDescriptor, fs>>
      /\ decision'[r] = decision[r] /\ bound'[r] = bound[r]
      /\ started'[r] = started[r] /\ sink'[r] = sink[r] /\ moved'[r] = moved[r]
  BY DEF RecordDenial, At, Goto, fsVars, setup, IInv, TypeOK
<1>3. \/ /\ results'[r] = results[r]
         /\ \E new : Joins(r, new, fs.log, "prepare_error", "deny")
      \/ results'[r] = results[r] \cup {"audit_failed"} /\ Trail(r)' = Trail(r)
  <2>0. fs.log \in Logs
    BY DEF IInv, TypeOK, FileSystems
  <2>1. CASE /\ UNCHANGED results
             /\ logs' = [logs EXCEPT ![fs.log] = Append(@,
                    [call |-> r, status |-> "prepare_error", decision |-> "deny"])]
    BY <2>0, <2>1, RecordAdds DEF IInv, Statuses, Decisions
  <2>2. CASE Tell(r, "audit_failed") /\ UNCHANGED logs
    BY <2>2, QuietTrails DEF Tell, IInv, TypeOK
  <2> QED
    BY <2>1, <2>2 DEF RecordDenial
<1>r. /\ Trail(r) \subseteq Trail(r)'
      /\ "audit_failed" \notin results'[r] => \E t \in Trail(r)' : Denial(t)
  BY <1>3 DEF Joins, Denial
<1>4. FlowInv(r)' /\ SinkInv(r)'
  BY <1>1, <1>2, <1>3 DEF CallInv, FlowInv, SinkInv, Launching, Launched
<1>5. PreparedInv(r)'
  BY <1>1, <1>2, <1>3 DEF CallInv, Joins, FlowInv, PreparedInv, Launching, Launched
<1>6. UnfinishedInv(r)'
  BY <1>1, <1>2, <1>3 DEF CallInv, Joins, FlowInv, UnfinishedInv
<1>7. TerminalInv(r)'
  BY <1>1, <1>2, <1>3 DEF CallInv, Joins, TerminalInv, FlowInv, UnfinishedInv, Terminal
<1>8. DenialInv(r)'
  BY <1>1, <1>2, <1>3 DEF CallInv, Joins, DenialInv, UnfinishedInv, NotStarted
<1>9. RecordedInv(r)'
  BY <1>1, <1>2, <1>3, <1>r DEF CallInv, Joins, RecordedInv, AuditFailures
<1>10. BindingInv(r)'
  BY <1>1, <1>2, <1>3 DEF CallInv, FlowInv, BindingInv, Launching, Launched
<1> QED
  BY <1>4, <1>5, <1>6, <1>7, <1>8, <1>9, <1>10 DEF CallInv

LEMMA OpenSinkCall == ASSUME IInv, NEW r \in Calls, OpenSink(r) PROVE CallInv(r)'
<1>1. CallInv(r) /\ fs.log \in Logs /\ fs.log # Nothing
  BY ExecGatewayAssumption DEF IInv, TypeOK, FileSystems
<1>2. /\ pc[r] = "opening_sink" /\ UNCHANGED <<audited, byDescriptor, fs>>
      /\ bound'[r] = bound[r] /\ started'[r] = started[r] /\ moved'[r] = moved[r] /\ Trail(r)' = Trail(r)
      /\ \/ /\ sink'[r] = IF audited THEN fs.log ELSE Nothing
            /\ pc'[r] = AfterSink(r) /\ results'[r] = results[r]
         \/ /\ pc'[r] = "done" /\ results'[r] = results[r] \cup {"audit_unavailable"}
  BY QuietTrails DEF OpenSink, SinkFailure, At, Goto, Tell, fsVars, setup, IInv, TypeOK
<1>3. /\ r \in Executions => AfterSink(r) = "checking_program"
      /\ r \in Preparations => AfterSink(r) = IF audited THEN "recording_prepare" ELSE "prepared"
      /\ r \in Executions \/ r \in Preparations
  BY ExecGatewayAssumption DEF AfterSink, Calls
<1>4. bound[r] \in Views
  BY <1>1, <1>2 DEF CallInv, FlowInv
<1>5. FlowInv(r)' /\ SinkInv(r)'
  BY <1>1, <1>2, <1>3, <1>4 DEF CallInv, FlowInv, SinkInv, Launching, Launched
<1>6. PreparedInv(r)'
  BY <1>1, <1>2, <1>3, <1>4 DEF CallInv, FlowInv, PreparedInv, Launching, Launched
<1>7. UnfinishedInv(r)'
  BY <1>1, <1>2, <1>3, <1>4 DEF CallInv, FlowInv, UnfinishedInv
<1>8. TerminalInv(r)'
  BY <1>1, <1>2, <1>3, <1>4 DEF CallInv, TerminalInv
<1>9. DenialInv(r)'
  BY <1>1, <1>2, <1>3, <1>4 DEF CallInv, DenialInv, UnfinishedInv, NotStarted
<1>10. RecordedInv(r)'
  BY <1>1, <1>2, <1>3, <1>4 DEF CallInv, FlowInv, SinkInv, RecordedInv, AuditFailures, NotStarted, Denial
<1>11. BindingInv(r)'
  BY <1>1, <1>2, <1>3, <1>4 DEF CallInv, FlowInv, BindingInv, Launching, Launched
<1> QED
  BY <1>5, <1>6, <1>7, <1>8, <1>9, <1>10, <1>11 DEF CallInv

LEMMA RecordPrepareCall == ASSUME IInv, NEW r \in Calls, RecordPrepare(r) PROVE CallInv(r)'
<1>1. CallInv(r)
  BY DEF IInv
<1>2. /\ pc[r] = "recording_prepare" /\ UNCHANGED <<audited, byDescriptor, fs>>
      /\ decision'[r] = decision[r] /\ bound'[r] = bound[r] /\ started'[r] = started[r] /\ moved'[r] = moved[r]
      /\ sink[r] \in Logs /\ sink[r] # Nothing
  BY <1>1, ExecGatewayAssumption DEF RecordPrepare, At, fsVars, setup, CallInv, FlowInv, SinkInv
<1>3. \/ /\ pc'[r] = "prepared" /\ results'[r] = results[r] /\ sink'[r] = sink[r]
         /\ \E new : Joins(r, new, sink[r], "prepared", "run")
      \/ /\ pc'[r] = "done" /\ sink'[r] = Nothing
         /\ results'[r] = results[r] \cup {"audit_failed"} /\ Trail(r)' = Trail(r)
  <2>1. CASE Record(r, "prepared", "run") /\ Goto(r, "prepared") /\ UNCHANGED <<results, sink>>
    BY <1>2, <2>1, SinkRecord DEF Goto, IInv, TypeOK, Statuses, Decisions
  <2>2. CASE Tell(r, "audit_failed") /\ DropSink(r) /\ Goto(r, "done") /\ UNCHANGED logs
    BY <2>2, QuietTrails DEF Tell, DropSink, Goto, IInv, TypeOK
  <2> QED
    BY <2>1, <2>2 DEF RecordPrepare, PrepareFailure
<1>p. pc'[r] = "prepared" => \E t \in Trail(r)' : t.file = sink[r] /\ t.status = "prepared"
  BY <1>3 DEF Joins
<1>4. FlowInv(r)' /\ SinkInv(r)'
  BY <1>1, <1>2, <1>3 DEF CallInv, FlowInv, SinkInv, Launching, Launched
<1>5. PreparedInv(r)'
  BY <1>1, <1>2, <1>3, <1>p DEF CallInv, Joins, FlowInv, PreparedInv, Launching, Launched
<1>6. UnfinishedInv(r)'
  BY <1>1, <1>2, <1>3 DEF CallInv, Joins, FlowInv, UnfinishedInv
<1>7. TerminalInv(r)'
  BY <1>1, <1>2, <1>3 DEF CallInv, Joins, TerminalInv, FlowInv, UnfinishedInv, Terminal
<1>8. DenialInv(r)'
  BY <1>1, <1>2, <1>3 DEF CallInv, Joins, DenialInv, UnfinishedInv, NotStarted
<1>9. RecordedInv(r)'
  BY <1>1, <1>2, <1>3 DEF CallInv, Joins, FlowInv, SinkInv, RecordedInv, AuditFailures, NotStarted, Denial
<1>10. BindingInv(r)'
  BY <1>1, <1>2, <1>3 DEF CallInv, FlowInv, BindingInv, Launching, Launched
<1> QED
  BY <1>4, <1>5, <1>6, <1>7, <1>8, <1>9, <1>10 DEF CallInv

LEMMA SpawnPreparedCall == ASSUME IInv, NEW r \in Calls, SpawnPrepared(r) PROVE CallInv(r)'
<1>1. CallInv(r)
  BY DEF IInv
<1>2. /\ pc[r] = "prepared" /\ UNCHANGED <<audited, byDescriptor, fs>>
      /\ decision'[r] = decision[r] /\ results'[r] = results[r] /\ bound'[r] = bound[r]
      /\ started'[r] = started[r] /\ moved'[r] = moved[r] /\ Trail(r)' = Trail(r)
      /\ \/ pc'[r] = "checking_program" /\ sink'[r] = sink[r]
         \/ pc'[r] = "done" /\ sink'[r] = Nothing
  BY QuietTrails DEF SpawnPrepared, At, Goto, DropSink, fsVars, setup, IInv, TypeOK
<1>3. FlowInv(r)' /\ SinkInv(r)'
  BY <1>1, <1>2 DEF CallInv, FlowInv, SinkInv, Launching, Launched
<1>4. PreparedInv(r)'
  BY <1>1, <1>2 DEF CallInv, FlowInv, PreparedInv, Launching, Launched
<1>5. UnfinishedInv(r)'
  BY <1>1, <1>2 DEF CallInv, FlowInv, UnfinishedInv
<1>6. TerminalInv(r)'
  BY <1>1, <1>2 DEF CallInv, TerminalInv
<1>7. DenialInv(r)'
  BY <1>1, <1>2 DEF CallInv, DenialInv, UnfinishedInv, NotStarted
<1>8. RecordedInv(r)'
  BY <1>1, <1>2 DEF CallInv, FlowInv, SinkInv, RecordedInv, AuditFailures, NotStarted, Denial
<1>9. BindingInv(r)'
  BY <1>1, <1>2 DEF CallInv, FlowInv, BindingInv, Launching, Launched
<1> QED
  BY <1>3, <1>4, <1>5, <1>6, <1>7, <1>8, <1>9 DEF CallInv

\* An error before the child is started.
LEMMA FailedLaunch ==
    ASSUME IInv, NEW r \in Calls, pc[r] \in Launching, NEW x \in NotStarted, Fail(r, x),
           UNCHANGED <<audited, byDescriptor, fs, bound, started, sink, moved, logs>>
    PROVE  CallInv(r)'
<1>1. CallInv(r)
  BY DEF IInv
<1>2. /\ bound'[r] = bound[r] /\ started'[r] = started[r] /\ sink'[r] = sink[r]
      /\ moved'[r] = moved[r] /\ Trail(r)' = Trail(r) /\ decision'[r] = "deny"
      /\ results'[r] = results[r] \cup {x}
      /\ pc'[r] = IF audited THEN "recording_failure" ELSE "done"
  BY QuietTrails DEF Fail, Tell, Goto, Decide, EventAfterError, IInv, TypeOK
<1>3. x \notin AuditFailures \cup {"ok", "denied"}
  BY DEF NotStarted, AuditFailures
<1>4. FlowInv(r)' /\ SinkInv(r)'
  BY <1>1, <1>2, <1>3 DEF CallInv, FlowInv, SinkInv, Launching, Launched
<1>5. PreparedInv(r)'
  BY <1>1, <1>2, <1>3 DEF CallInv, FlowInv, PreparedInv, Launching, Launched
<1>6. UnfinishedInv(r)'
  BY <1>1, <1>2, <1>3 DEF CallInv, UnfinishedInv, Launching
<1>7. TerminalInv(r)'
  BY <1>1, <1>2, <1>3 DEF CallInv, TerminalInv
<1>8. DenialInv(r)'
  BY <1>1, <1>2, <1>3 DEF CallInv, DenialInv, UnfinishedInv, Launching
<1>9. RecordedInv(r)'
  BY <1>1, <1>2, <1>3 DEF CallInv, FlowInv, SinkInv, RecordedInv, AuditFailures, NotStarted, Denial
<1>10. BindingInv(r)'
  BY <1>1, <1>2, <1>3 DEF CallInv, FlowInv, BindingInv, Launching, Launched
<1> QED
  BY <1>4, <1>5, <1>6, <1>7, <1>8, <1>9, <1>10 DEF CallInv

LEMMA CheckProgramCall == ASSUME IInv, NEW r \in Calls, CheckProgram(r) PROVE CallInv(r)'
<1>1. CallInv(r)
  BY DEF IInv
<1>2. CASE Fail(r, "changed") /\ UNCHANGED moved
  BY <1>2, FailedLaunch DEF CheckProgram, At, fsVars, setup, Launching, NotStarted
<1>3. CASE /\ ProgramUnchanged(r) /\ Goto(r, "checking_cwd")
           /\ moved' = [moved EXCEPT ![r] = {}] /\ UNCHANGED <<decision, results>>
  <2>1. /\ pc[r] = "checking_program" /\ pc'[r] = "checking_cwd" /\ UNCHANGED <<audited, byDescriptor, fs>>
        /\ decision'[r] = decision[r] /\ results'[r] = results[r] /\ bound'[r] = bound[r]
        /\ started'[r] = started[r] /\ sink'[r] = sink[r] /\ Trail(r)' = Trail(r)
        /\ bound[r].program = fs.program /\ bound[r].version = fs.version[bound[r].program]
    BY <1>3, QuietTrails DEF CheckProgram, ProgramUnchanged, View, At, Goto, fsVars, setup, IInv, TypeOK
  <2>2. FlowInv(r)' /\ SinkInv(r)'
    BY <1>1, <2>1 DEF CallInv, FlowInv, SinkInv, Launching, Launched
  <2>3. PreparedInv(r)' /\ UnfinishedInv(r)' /\ TerminalInv(r)'
    BY <1>1, <2>1 DEF CallInv, FlowInv, PreparedInv, UnfinishedInv, TerminalInv, Launching, Launched
  <2>4. DenialInv(r)' /\ RecordedInv(r)'
    BY <1>1, <2>1 DEF CallInv, DenialInv, RecordedInv
  <2>5. BindingInv(r)'
    BY <1>1, <2>1 DEF CallInv, FlowInv, BindingInv, Launching, Launched
  <2> QED
    BY <2>2, <2>3, <2>4, <2>5 DEF CallInv
<1> QED
  BY <1>2, <1>3 DEF CheckProgram

LEMMA CheckDirectoriesCall == ASSUME IInv, NEW r \in Calls, CheckDirectories(r) PROVE CallInv(r)'
<1>1. CallInv(r)
  BY DEF IInv
<1>2. CASE Fail(r, "changed") /\ UNCHANGED moved
  BY <1>2, FailedLaunch DEF CheckDirectories, At, fsVars, setup, Launching, NotStarted
<1>3. CASE /\ bound[r].cwd = fs.cwd /\ Goto(r, "spawning")
           /\ moved' = [moved EXCEPT ![r] = @ \ {"cwd"}] /\ UNCHANGED <<decision, results>>
  <2>1. /\ pc[r] = "checking_cwd" /\ pc'[r] = "spawning" /\ UNCHANGED <<audited, byDescriptor, fs>>
        /\ decision'[r] = decision[r] /\ results'[r] = results[r] /\ bound'[r] = bound[r]
        /\ started'[r] = started[r] /\ sink'[r] = sink[r] /\ Trail(r)' = Trail(r)
        /\ bound[r].cwd = fs.cwd /\ moved'[r] = moved[r] \ {"cwd"}
    BY <1>3, QuietTrails DEF CheckDirectories, At, Goto, fsVars, setup, IInv, TypeOK
  <2>2. FlowInv(r)' /\ SinkInv(r)'
    BY <1>1, <2>1 DEF CallInv, FlowInv, SinkInv, Launching, Launched
  <2>3. PreparedInv(r)' /\ UnfinishedInv(r)' /\ TerminalInv(r)'
    BY <1>1, <2>1 DEF CallInv, FlowInv, PreparedInv, UnfinishedInv, TerminalInv, Launching, Launched
  <2>4. DenialInv(r)' /\ RecordedInv(r)'
    BY <1>1, <2>1 DEF CallInv, DenialInv, RecordedInv
  <2>5. BindingInv(r)'
    BY <1>1, <2>1 DEF CallInv, FlowInv, BindingInv, Launching, Launched
  <2> QED
    BY <2>2, <2>3, <2>4, <2>5 DEF CallInv
<1> QED
  BY <1>2, <1>3 DEF CheckDirectories

LEMMA SpawnCall == ASSUME IInv, NEW r \in Calls, Spawn(r) PROVE CallInv(r)'
<1>1. CallInv(r)
  BY DEF IInv
<1>2. ASSUME NEW e \in {"spawn_failed", "sandbox_failed"}, Fail(r, e), UNCHANGED <<started, child>>
      PROVE  CallInv(r)'
  BY <1>2, FailedLaunch DEF Spawn, At, fsVars, setup, Launching, NotStarted
<1> DEFINE what == [program |-> Executed(r), version |-> fs.version[Executed(r)], cwd |-> fs.cwd]
<1>3. CASE /\ started' = [started EXCEPT ![r] = what]
           /\ Goto(r, IF r \in Executions THEN "waiting" ELSE "holding")
           /\ UNCHANGED <<decision, results>>
  <2>1. /\ pc[r] = "spawning" /\ UNCHANGED <<audited, byDescriptor, fs>>
        /\ decision'[r] = decision[r] /\ results'[r] = results[r] /\ bound'[r] = bound[r]
        /\ moved'[r] = moved[r] /\ sink'[r] = sink[r] /\ Trail(r)' = Trail(r)
        /\ started'[r] = what
        /\ pc'[r] = IF r \in Executions THEN "waiting" ELSE "holding"
    BY <1>3, QuietTrails DEF Spawn, At, Goto, fsVars, setup, IInv, TypeOK
  <2>2. (r \in Preparations <=> r \notin Executions) /\ (audited => sink[r] \in Logs /\ sink[r] # Nothing)
    BY <1>1, <2>1, ExecGatewayAssumption DEF Calls, CallInv, SinkInv, Launching
  <2> HIDE DEF what
  <2>3. FlowInv(r)' /\ SinkInv(r)'
    BY <1>1, <2>1, <2>2 DEF CallInv, FlowInv, SinkInv, Launching, Launched
  <2>4. PreparedInv(r)'
    BY <1>1, <2>1, <2>2 DEF CallInv, PreparedInv, Launching
  <2>5. UnfinishedInv(r)' /\ TerminalInv(r)'
    BY <1>1, <2>1 DEF CallInv, UnfinishedInv, TerminalInv
  <2>6. DenialInv(r)' /\ RecordedInv(r)'
    BY <1>1, <2>1, <2>2 DEF CallInv, DenialInv, RecordedInv
  <2>7. BindingInv(r)'
    <3>1. /\ what.program = IF byDescriptor THEN bound[r].program ELSE fs.program
          /\ what.version = fs.version[what.program] /\ what.cwd = fs.cwd
      BY DEF what, Executed
    <3> QED
      BY <1>1, <2>1, <3>1 DEF CallInv, BindingInv
  <2> QED
    BY <2>3, <2>4, <2>5, <2>6, <2>7 DEF CallInv
<1> QED
  BY <1>2, <1>3 DEF Spawn

LEMMA RecordFailureCall == ASSUME IInv, NEW r \in Calls, RecordFailure(r) PROVE CallInv(r)'
<1>1. CallInv(r)
  BY DEF IInv
<1>2. /\ pc[r] = "recording_failure" /\ pc'[r] = "done" /\ UNCHANGED <<audited, byDescriptor, fs>>
      /\ decision'[r] = decision[r] /\ bound'[r] = bound[r] /\ started'[r] = started[r] /\ moved'[r] = moved[r]
      /\ decision[r] = "deny" /\ sink'[r] = Nothing /\ sink[r] \in Logs /\ sink[r] # Nothing
  BY <1>1, ExecGatewayAssumption DEF RecordFailure, At, Goto, DropSink, fsVars, setup,
     IInv, TypeOK, CallInv, FlowInv, SinkInv
<1>3. \/ /\ results'[r] = results[r]
         /\ \E st \in Statuses \ {"prepared", "exited"} :
              \E new : Joins(r, new, sink[r], st, "deny")
      \/ results'[r] = results[r] \cup {"audit_failed"} /\ Trail(r)' = Trail(r)
  <2>1. CASE Record(r, FailureStatus(r), decision[r]) /\ UNCHANGED results
    <3>1. FailureStatus(r) \in Statuses \ {"prepared", "exited"}
      BY FailureStatusType
    <3>2. Record(r, FailureStatus(r), "deny") /\ TypeOK /\ results' = results
      BY <1>2, <2>1 DEF IInv
    <3> QED
      BY <1>2, <3>1, <3>2, SinkRecord DEF Decisions
  <2>2. CASE Tell(r, "audit_failed") /\ UNCHANGED logs
    BY <2>2, QuietTrails DEF Tell, IInv, TypeOK
  <2> QED
    BY <2>1, <2>2 DEF RecordFailure
<1>r. /\ Trail(r) \subseteq Trail(r)'
      /\ "audit_failed" \notin results'[r] => \E t \in Trail(r)' : Denial(t)
  BY <1>3 DEF Joins, Denial
<1>h. /\ r \in Preparations => \E p \in Trail(r) : p.file = sink[r] /\ p.status = "prepared"
      /\ \A t \in Trail(r) : t.status = "prepared"
  BY <1>1, <1>2 DEF CallInv, PreparedInv, UnfinishedInv
<1>4. FlowInv(r)' /\ SinkInv(r)'
  BY <1>1, <1>2, <1>3 DEF CallInv, FlowInv, SinkInv, Launching, Launched
<1>5. PreparedInv(r)'
  BY <1>1, <1>2, <1>3 DEF CallInv, Joins, FlowInv, PreparedInv, Launching, Launched
<1>6. UnfinishedInv(r)'
  BY <1>1, <1>2, <1>3 DEF CallInv, Joins, FlowInv, UnfinishedInv
<1>7. TerminalInv(r)'
  <2>1. ASSUME NEW new, NEW st, Joins(r, new, sink[r], st, "deny")
        PROVE  TerminalInv(r)'
    BY <1>h, <2>1, FirstTerminal
  <2>2. CASE Trail(r)' = Trail(r)
    BY <1>1, <2>2 DEF CallInv, TerminalInv
  <2> QED
    BY <1>3, <2>1, <2>2
<1>8. DenialInv(r)'
  BY <1>1, <1>2, <1>3 DEF CallInv, Joins, DenialInv, UnfinishedInv, NotStarted
<1>9. RecordedInv(r)'
  BY <1>1, <1>2, <1>3, <1>r DEF CallInv, Joins, RecordedInv, AuditFailures
<1>10. BindingInv(r)'
  BY <1>1, <1>2, <1>3 DEF CallInv, FlowInv, BindingInv, Launching, Launched
<1> QED
  BY <1>4, <1>5, <1>6, <1>7, <1>8, <1>9, <1>10 DEF CallInv

LEMMA WaitCall == ASSUME IInv, NEW r \in Calls, Wait(r) PROVE CallInv(r)'
<1>1. CallInv(r)
  BY DEF IInv
<1>2. /\ pc[r] = "waiting" /\ UNCHANGED <<audited, byDescriptor, fs>>
      /\ bound'[r] = bound[r] /\ started'[r] = started[r] /\ moved'[r] = moved[r] /\ sink'[r] = sink[r]
      /\ Trail(r)' = Trail(r)
      /\ \/ pc'[r] = "recording_exit" /\ decision'[r] = decision[r] /\ results'[r] = results[r]
         \/ /\ pc'[r] = IF audited THEN "recording_failure" ELSE "done"
            /\ decision'[r] = "deny" /\ results'[r] = results[r] \cup {"wait_failed"}
  BY QuietTrails DEF Wait, Fail, Tell, Decide, EventAfterError, At, Goto, fsVars, setup, IInv, TypeOK
<1>3. r \notin Preparations /\ results[r] \cap NotStarted = {}
  BY <1>1, <1>2 DEF CallInv, FlowInv, DenialInv
<1>4. FlowInv(r)' /\ SinkInv(r)'
  BY <1>1, <1>2, <1>3 DEF CallInv, FlowInv, SinkInv, Launching, Launched
<1>5. PreparedInv(r)'
  BY <1>1, <1>2, <1>3 DEF CallInv, FlowInv, PreparedInv, Launching, Launched
<1>6. UnfinishedInv(r)'
  BY <1>1, <1>2, <1>3 DEF CallInv, FlowInv, UnfinishedInv
<1>7. TerminalInv(r)'
  BY <1>1, <1>2, <1>3 DEF CallInv, TerminalInv
<1>8. DenialInv(r)'
  BY <1>1, <1>2, <1>3 DEF CallInv, DenialInv, UnfinishedInv, NotStarted
<1>9. RecordedInv(r)'
  BY <1>1, <1>2, <1>3 DEF CallInv, FlowInv, SinkInv, RecordedInv, AuditFailures, NotStarted, Denial
<1>10. BindingInv(r)'
  BY <1>1, <1>2, <1>3 DEF CallInv, FlowInv, BindingInv, Launching, Launched
<1> QED
  BY <1>4, <1>5, <1>6, <1>7, <1>8, <1>9, <1>10 DEF CallInv

\* finalize_result, of a call that holds its log open or has written before.
LEMMA Finalized ==
    ASSUME IInv, NEW r \in Calls, Finalize(r), pc[r] \in {"recording_exit", "holding"},
           sink'[r] = Nothing, pc'[r] \in {"done", "holding"},
           pc'[r] = "holding" => pc[r] = "holding",
           UNCHANGED <<audited, byDescriptor, fs>>,
           decision'[r] = decision[r], bound'[r] = bound[r], started'[r] = started[r],
           moved'[r] = moved[r]
    PROVE  CallInv(r)'
<1>1. /\ CallInv(r) /\ results[r] \cap NotStarted = {} /\ sink[r] \in Logs \cup {Nothing}
      /\ pc[r] = "recording_exit" => r \notin Preparations /\ (audited => sink[r] # Nothing)
  BY ExecGatewayAssumption DEF IInv, TypeOK, CallInv, DenialInv, FlowInv, SinkInv
<1>2. \/ /\ sink[r] # Nothing /\ results'[r] = results[r] \cup {"ok"}
         /\ \E new : Joins(r, new, sink[r], "exited", "run")
      \/ /\ sink[r] # Nothing /\ results'[r] = results[r] \cup {"audit_failed"}
         /\ Trail(r)' = Trail(r)
      \/ /\ sink[r] = Nothing /\ results'[r] = results[r] \cup {"ok"}
         /\ Trail(r)' = Trail(r)
  <2>1. CASE sink[r] # Nothing /\ Record(r, "exited", "run") /\ Tell(r, "ok")
    BY <2>1, SinkRecord DEF Tell, IInv, TypeOK, Statuses, Terminal, Decisions
  <2>2. CASE UNCHANGED logs
    BY <2>2, QuietTrails DEF Finalize, WriteFailureTold, Tell, Record, IInv, TypeOK
  <2> QED
    BY <2>1, <2>2 DEF Finalize
<1>r. /\ Trail(r) \subseteq Trail(r)'
      /\ sink[r] # Nothing /\ "audit_failed" \notin results'[r] =>
            \E t \in Trail(r)' : t.status = "exited"
  BY <1>2 DEF Joins
<1>h. sink[r] # Nothing =>
          /\ r \in Preparations => \E p \in Trail(r) : p.file = sink[r] /\ p.status = "prepared"
          /\ \A t \in Trail(r) : t.status = "prepared"
  BY <1>1 DEF CallInv, PreparedInv, UnfinishedInv
<1>3. FlowInv(r)' /\ SinkInv(r)'
  BY <1>1, <1>2 DEF CallInv, FlowInv, SinkInv, Launching, Launched
<1>4. PreparedInv(r)'
  BY <1>1, <1>2 DEF CallInv, Joins, FlowInv, PreparedInv, Launching, Launched
<1>5. UnfinishedInv(r)'
  BY <1>1, <1>2 DEF CallInv, Joins, FlowInv, UnfinishedInv
<1>6. TerminalInv(r)'
  <2>1. ASSUME NEW new, sink[r] # Nothing, Joins(r, new, sink[r], "exited", "run")
        PROVE  TerminalInv(r)'
    BY <1>h, <2>1, FirstTerminal
  <2>2. CASE Trail(r)' = Trail(r)
    BY <1>1, <2>2 DEF CallInv, TerminalInv
  <2> QED
    BY <1>2, <2>1, <2>2
<1>7. DenialInv(r)'
  BY <1>1, <1>2 DEF CallInv, Joins, DenialInv, UnfinishedInv, NotStarted
<1>8. RecordedInv(r)'
  BY <1>1, <1>2, <1>r DEF CallInv, Joins, RecordedInv, AuditFailures, NotStarted
<1>9. BindingInv(r)'
  BY <1>1, <1>2 DEF CallInv, FlowInv, BindingInv, Launching, Launched
<1> QED
  BY <1>3, <1>4, <1>5, <1>6, <1>7, <1>8, <1>9 DEF CallInv

LEMMA RecordExitCall == ASSUME IInv, NEW r \in Calls, RecordExit(r) PROVE CallInv(r)'
<1>1. /\ pc[r] = "recording_exit" /\ pc'[r] = "done" /\ sink'[r] = Nothing /\ Finalize(r)
      /\ decision'[r] = decision[r] /\ bound'[r] = bound[r] /\ started'[r] = started[r] /\ moved'[r] = moved[r]
      /\ UNCHANGED <<audited, byDescriptor, fs>>
  BY DEF RecordExit, At, Goto, DropSink, fsVars, setup, IInv, TypeOK
<1> QED
  BY <1>1, Finalized

\* An error of wait leaves everything but what the caller is told.
LEMMA WaitFailed ==
    ASSUME IInv, NEW r \in Calls, pc[r] = "holding", pc'[r] \in {"holding", "dropping"},
           Tell(r, "wait_failed"), UNCHANGED <<audited, byDescriptor, fs, logs, sink>>,
           decision'[r] = decision[r], bound'[r] = bound[r], started'[r] = started[r],
           moved'[r] = moved[r]
    PROVE  CallInv(r)'
<1>1. CallInv(r)
  BY DEF IInv
<1>2. /\ results'[r] = results[r] \cup {"wait_failed"} /\ sink'[r] = sink[r]
      /\ Trail(r)' = Trail(r)
  BY QuietTrails DEF Tell, IInv, TypeOK
<1>3. FlowInv(r)' /\ SinkInv(r)'
  BY <1>1, <1>2 DEF CallInv, FlowInv, SinkInv, Launching, Launched
<1>4. PreparedInv(r)'
  BY <1>1, <1>2 DEF CallInv, FlowInv, PreparedInv, Launching, Launched
<1>5. UnfinishedInv(r)'
  BY <1>1, <1>2 DEF CallInv, FlowInv, UnfinishedInv
<1>6. TerminalInv(r)'
  BY <1>1, <1>2 DEF CallInv, TerminalInv
<1>7. DenialInv(r)'
  BY <1>1, <1>2 DEF CallInv, DenialInv, UnfinishedInv, NotStarted
<1>8. RecordedInv(r)'
  BY <1>1, <1>2 DEF CallInv, FlowInv, SinkInv, RecordedInv, AuditFailures, NotStarted, Denial
<1>9. BindingInv(r)'
  BY <1>1, <1>2 DEF CallInv, FlowInv, BindingInv, Launching, Launched
<1> QED
  BY <1>3, <1>4, <1>5, <1>6, <1>7, <1>8, <1>9 DEF CallInv

LEMMA TryWaitCall == ASSUME IInv, NEW r \in Calls, TryWait(r) PROVE CallInv(r)'
<1>1. /\ pc[r] = "holding" /\ pc'[r] = "holding"
      /\ decision'[r] = decision[r] /\ bound'[r] = bound[r] /\ started'[r] = started[r] /\ moved'[r] = moved[r]
      /\ UNCHANGED <<audited, byDescriptor, fs>>
  BY DEF TryWait, At, fsVars, setup
<1>2. CASE Finalize(r) /\ sink' = [sink EXCEPT ![r] = Nothing]
  <2>1. sink'[r] = Nothing
    BY <1>2 DEF IInv, TypeOK
  <2> QED
    BY <1>1, <1>2, <2>1, Finalized
<1>3. CASE Tell(r, "wait_failed") /\ UNCHANGED <<child, sink, logs>>
  BY <1>1, <1>3, WaitFailed
<1> QED
  BY <1>2, <1>3 DEF TryWait, SinkTaken

LEMMA WaitChildCall == ASSUME IInv, NEW r \in Calls, WaitChild(r) PROVE CallInv(r)'
<1>1. /\ pc[r] = "holding" /\ UNCHANGED <<audited, byDescriptor, fs>>
      /\ decision'[r] = decision[r] /\ bound'[r] = bound[r] /\ started'[r] = started[r] /\ moved'[r] = moved[r]
  BY DEF WaitChild, At, fsVars, setup
<1>2. CASE Finalize(r) /\ DropSink(r) /\ Goto(r, "done")
  <2>1. sink'[r] = Nothing /\ pc'[r] = "done"
    BY <1>2 DEF DropSink, Goto, IInv, TypeOK
  <2> QED
    BY <1>1, <1>2, <2>1, Finalized
<1>3. CASE Tell(r, "wait_failed") /\ Goto(r, "dropping") /\ UNCHANGED <<child, sink, logs>>
  <2>1. pc'[r] = "dropping"
    BY <1>3 DEF Goto, IInv, TypeOK
  <2> QED
    BY <1>1, <1>3, <2>1, WaitFailed
<1> QED
  BY <1>2, <1>3 DEF WaitChild

LEMMA DropChildCall == ASSUME IInv, NEW r \in Calls, DropChild(r) PROVE CallInv(r)'
<1>1. CallInv(r)
  BY DEF IInv
<1>2. /\ pc[r] \in {"holding", "dropping"} /\ pc'[r] = "done" /\ sink'[r] = Nothing
      /\ decision'[r] = decision[r] /\ results'[r] = results[r] /\ bound'[r] = bound[r]
      /\ started'[r] = started[r] /\ moved'[r] = moved[r] /\ UNCHANGED <<audited, byDescriptor, fs>>
  BY DEF DropChild, Goto, DropSink, fsVars, setup, IInv, TypeOK
<1>3. \/ Trail(r)' = Trail(r)
      \/ /\ sink[r] # Nothing
         /\ \E st \in Terminal :
              \E new : Joins(r, new, sink[r], st, "run")
  <2>1. ASSUME NEW st \in Terminal, sink[r] # Nothing, Record(r, st, "run")
        PROVE  <1>3
    BY <2>1, SinkRecord DEF IInv, Statuses, Decisions
  <2>2. CASE UNCHANGED logs
    BY <2>2, QuietTrails
  <2> QED
    BY <2>1, <2>2 DEF DropChild, Terminal
<1>4. /\ results[r] \cap NotStarted = {}
      /\ sink[r] # Nothing =>
          /\ r \in Preparations => \E p \in Trail(r) : p.file = sink[r] /\ p.status = "prepared"
          /\ \A t \in Trail(r) : t.status = "prepared"
  BY <1>1, <1>2 DEF CallInv, Joins, DenialInv, PreparedInv, UnfinishedInv
<1>5. FlowInv(r)' /\ SinkInv(r)'
  BY <1>1, <1>2, <1>3, <1>4 DEF CallInv, FlowInv, SinkInv, Launching, Launched
<1>6. PreparedInv(r)'
  BY <1>1, <1>2, <1>3, <1>4 DEF CallInv, Joins, FlowInv, PreparedInv, Launching, Launched
<1>7. UnfinishedInv(r)'
  BY <1>1, <1>2, <1>3, <1>4 DEF CallInv, Joins, FlowInv, UnfinishedInv
<1>8. TerminalInv(r)'
  <2>1. ASSUME sink[r] # Nothing, NEW new, NEW st, Joins(r, new, sink[r], st, "run")
        PROVE  TerminalInv(r)'
    BY <1>4, <2>1, FirstTerminal
  <2>2. CASE Trail(r)' = Trail(r)
    BY <1>1, <2>2 DEF CallInv, TerminalInv
  <2> QED
    BY <1>3, <2>1, <2>2
<1>9. DenialInv(r)'
  BY <1>1, <1>2, <1>3, <1>4 DEF CallInv, Joins, DenialInv, UnfinishedInv, NotStarted
<1>10. RecordedInv(r)'
  BY <1>1, <1>2, <1>3, <1>4 DEF CallInv, Joins, FlowInv, SinkInv, RecordedInv, AuditFailures, NotStarted, Denial
<1>11. BindingInv(r)'
  BY <1>1, <1>2, <1>3, <1>4 DEF CallInv, FlowInv, BindingInv, Launching, Launched
<1> QED
  BY <1>5, <1>6, <1>7, <1>8, <1>9, <1>10, <1>11 DEF CallInv

LEMMA KillCall == ASSUME IInv, NEW r \in Calls, Kill(r) PROVE CallInv(r)'
<1>1. CallInv(r)
  BY DEF IInv
<1>2. /\ pc[r] \notin {"idle", "done", "dead"} /\ pc'[r] = "dead" /\ sink'[r] = Nothing
      /\ decision'[r] = decision[r] /\ results'[r] = results[r] /\ bound'[r] = bound[r]
      /\ started'[r] = started[r] /\ moved'[r] = moved[r] /\ UNCHANGED <<audited, byDescriptor, fs>>
      /\ Trail(r)' = Trail(r)
  BY QuietTrails DEF Kill, Goto, DropSink, fsVars, setup, IInv, TypeOK
<1>3. FlowInv(r)' /\ SinkInv(r)'
  BY <1>1, <1>2 DEF CallInv, FlowInv, SinkInv, Launching, Launched
<1>4. PreparedInv(r)'
  BY <1>1, <1>2 DEF CallInv, FlowInv, PreparedInv, Launching, Launched
<1>5. UnfinishedInv(r)'
  BY <1>1, <1>2 DEF CallInv, FlowInv, UnfinishedInv
<1>6. TerminalInv(r)'
  BY <1>1, <1>2 DEF CallInv, TerminalInv
<1>7. DenialInv(r)'
  BY <1>1, <1>2 DEF CallInv, DenialInv, UnfinishedInv, NotStarted
<1>8. RecordedInv(r)'
  BY <1>1, <1>2 DEF CallInv, FlowInv, SinkInv, RecordedInv, AuditFailures, NotStarted, Denial
<1>9. BindingInv(r)'
  BY <1>1, <1>2 DEF CallInv, FlowInv, BindingInv, Launching, Launched
<1> QED
  BY <1>3, <1>4, <1>5, <1>6, <1>7, <1>8, <1>9 DEF CallInv

-----------------------------------------------------------------------------
(***************************************************************************)
(* The whole system: a step of one call leaves the others, and the steps   *)
(* of other programs leave every call with what it checked marked as moved.*)
(***************************************************************************)

\* A step of call r is no step of another call.
LEMMA OthersKept ==
    ASSUME IInv, NEW r \in Calls, Step(r) \/ ChildExits(r) \/ Kill(r), NEW q \in Calls \ {r}
    PROVE  CallInv(q)'
<1>1. UNCHANGED <<audited, byDescriptor, fs>>
  BY DEF Step, Preflight, RecordDenial, OpenSink, RecordPrepare, SpawnPrepared, CheckProgram,
     CheckDirectories, Spawn, RecordFailure, Wait, RecordExit, TryWait, WaitChild, DropChild,
     ChildExits, Kill, fsVars, setup
<1>2. /\ pc'[q] = pc[q] /\ decision'[q] = decision[q] /\ sink'[q] = sink[q]
      /\ bound'[q] = bound[q] /\ started'[q] = started[q] /\ moved'[q] = moved[q]
  BY DEF Step, Preflight, RecordDenial, OpenSink, RecordPrepare, SpawnPrepared, CheckProgram,
     CheckDirectories, Spawn, RecordFailure, Wait, RecordExit, TryWait, WaitChild, DropChild,
     ChildExits, Kill, Goto, Decide, DropSink, Fail, IInv, TypeOK
<1>3. results'[q] = results[q]
  BY DEF Step, Preflight, RecordDenial, OpenSink, RecordPrepare, SpawnPrepared, CheckProgram,
     CheckDirectories, Spawn, RecordFailure, Wait, RecordExit, TryWait, WaitChild, DropChild,
     Finalize, ChildExits, Kill, Tell, Fail, IInv, TypeOK
<1>4. Trail(q)' = Trail(q)
  <2>1. ASSUME NEW st \in Statuses, NEW d \in Decisions, Record(r, st, d)
        PROVE  Trail(q)' = Trail(q)
    BY <2>1, SinkRecord DEF IInv
  <2>2. CASE UNCHANGED logs
    BY <2>2, QuietTrails
  <2>3. ASSUME Finalize(r) PROVE Trail(q)' = Trail(q)
    BY <2>1, <2>2, <2>3 DEF Finalize, Statuses, Terminal, Decisions
  <2>4. CASE RecordDenial(r)
    <3>1. fs.log \in Logs
      BY DEF IInv, TypeOK, FileSystems
    <3>2. CASE logs' = [logs EXCEPT ![fs.log] = Append(@,
                    [call |-> r, status |-> "prepare_error", decision |-> "deny"])]
      BY <3>1, <3>2, RecordAdds DEF IInv, Statuses, Decisions
    <3> QED
      BY <2>2, <2>4, <3>2 DEF RecordDenial
  <2>5. CASE RecordPrepare(r)
    BY <2>1, <2>2, <2>5 DEF RecordPrepare, Statuses, Decisions
  <2>6. CASE RecordFailure(r)
    <3>1. decision[r] = "deny"
      BY <2>6 DEF RecordFailure, At, IInv, CallInv, FlowInv
    <3> QED
      BY <2>1, <2>2, <2>6, <3>1, FailureStatusType DEF RecordFailure, Decisions
  <2>7. CASE RecordExit(r) \/ TryWait(r) \/ WaitChild(r)
    BY <2>2, <2>3, <2>7 DEF RecordExit, TryWait, WaitChild
  <2>8. CASE DropChild(r)
    BY <2>1, <2>2, <2>8 DEF DropChild, Statuses, Terminal, Decisions
  <2>9. CASE \/ Preflight(r) \/ OpenSink(r) \/ SpawnPrepared(r) \/ CheckProgram(r)
             \/ CheckDirectories(r) \/ Spawn(r) \/ Wait(r) \/ ChildExits(r) \/ Kill(r)
    BY <2>2, <2>9 DEF Preflight, OpenSink, SpawnPrepared, CheckProgram, CheckDirectories,
       Spawn, Wait, ChildExits, Kill
  <2> QED
    BY <2>4, <2>5, <2>6, <2>7, <2>8, <2>9 DEF Step
<1> QED
  BY <1>1, <1>2, <1>3, <1>4, CallKept

\* A step of call r keeps its own part of the invariant.
LEMMA OwnStep ==
    ASSUME IInv, NEW r \in Calls, Step(r) \/ ChildExits(r) \/ Kill(r)
    PROVE  CallInv(r)'
<1>1. ASSUME ChildExits(r) PROVE CallInv(r)'
  <2>1. /\ UNCHANGED <<audited, byDescriptor, fs, pc, decision, results, bound, started, sink,
                       moved>>
        /\ Trail(r)' = Trail(r)
    BY <1>1, QuietTrails DEF ChildExits, fsVars, setup
  <2> QED
    BY <2>1, CallKept
<1> QED
  BY <1>1, PreflightCall, RecordDenialCall, OpenSinkCall, RecordPrepareCall, SpawnPreparedCall,
     CheckProgramCall, CheckDirectoriesCall, SpawnCall, RecordFailureCall, WaitCall,
     RecordExitCall, TryWaitCall, WaitChildCall, DropChildCall, KillCall DEF Step

\* A step keeps the invariant of its call, and those of the others, which
\* it does not touch.
LEMMA IInvStep == ASSUME IInv, [Next]_vars PROVE IInv'
<1>1. TypeOK' /\ VersionInv'
  BY TypeStep
<1>2. ASSUME NEW r \in Calls, Step(r) \/ ChildExits(r) \/ Kill(r), NEW q \in Calls
      PROVE  CallInv(q)'
  BY <1>2, OthersKept, OwnStep
<1>3. ASSUME ChangeProgram \/ ReplaceCwd \/ MoveLog, NEW q \in Calls
      PROVE  CallInv(q)'
  <2>1. /\ UNCHANGED <<audited, byDescriptor, pc, decision, results, bound, started, sink, logs>>
        /\ moved[q] \subseteq moved'[q]
    BY <1>3 DEF ChangeProgram, ReplaceCwd, MoveLog, Change, setup, IInv, TypeOK
  <2>2. /\ "program" \notin moved'[q] => fs'.program = fs.program /\ fs'.version = fs.version
        /\ "cwd" \notin moved'[q] => fs'.cwd = fs.cwd
    <3>1. fs \in FileSystems
      BY DEF IInv, TypeOK
    <3>2. CASE ChangeProgram
      <4>1. "program" \in moved'[q]
        BY <3>2 DEF ChangeProgram, Change
      <4>2. fs'.cwd = fs.cwd
        BY <3>1, <3>2 DEF ChangeProgram, FileSystems
      <4> QED
        BY <4>1, <4>2
    <3>3. CASE ReplaceCwd
      <4>1. "cwd" \in moved'[q]
        BY <3>3 DEF ReplaceCwd, Change
      <4>2. fs'.program = fs.program /\ fs'.version = fs.version
        BY <3>1, <3>3 DEF ReplaceCwd, FileSystems
      <4> QED
        BY <4>1, <4>2
    <3>4. CASE MoveLog
      BY <3>1, <3>4 DEF MoveLog, FileSystems
    <3> QED
      BY <1>3, <3>2, <3>3, <3>4
  <2>3. Trail(q)' = Trail(q)
    BY <2>1, QuietTrails
  <2> QED
    BY <2>1, <2>2, <2>3, CallKept
<1>4. ASSUME UNCHANGED vars, NEW q \in Calls PROVE CallInv(q)'
  <2>1. Trail(q)' = Trail(q)
    BY <1>4, QuietTrails DEF vars
  <2> QED
    BY <1>4, <2>1, CallKept DEF vars
<1> QED
  BY <1>1, <1>2, <1>3, <1>4 DEF Next, IInv

\* The inductive invariant holds in every state.
THEOREM Invariance == Spec => []IInv
<1>1. Init => IInv
  BY InitIInv
<1>2. IInv /\ [Next]_vars => IInv'
  BY IInvStep
<1> QED
  BY <1>1, <1>2, PTL DEF Spec
-----------------------------------------------------------------------------
(***************************************************************************)
(* What the properties say.                                                *)
(***************************************************************************)

\* Every variable keeps its type.
THEOREM TypeCorrect == Spec => []TypeOK
<1>1. IInv => TypeOK
  BY DEF IInv
<1> QED
  BY <1>1, Invariance, PTL

\* No command runs unless its prepared record, or the log its terminal record
\* goes to, is there already: prepare_command, PreparedCommand::spawn, execute.
THEOREM NothingRunsUnaudited == Spec => []NoUnauditedRun
<1>1. IInv => NoUnauditedRun
  <2> SUFFICES ASSUME IInv, audited, NEW r \in Calls, started[r] # Nothing
               PROVE  IF r \in Preparations THEN \E t \in Trail(r) : t.status = "prepared"
                      ELSE pc[r] \in {"done", "dead"} \/ sink[r] # Nothing
    BY DEF NoUnauditedRun
  <2>1. CallInv(r)
    BY DEF IInv
  <2>2. CASE r \in Preparations
    BY <2>1, <2>2 DEF CallInv, PreparedInv
  <2>3. CASE r \notin Preparations
    <3>1. r \in Executions
      BY <2>3 DEF Calls
    <3>2. pc[r] \in {"waiting", "recording_exit", "recording_failure", "done", "dead"}
      BY <2>1, <3>1 DEF CallInv, FlowInv, Launched
    <3> QED
      BY <2>1, <2>3, <3>2, ExecGatewayAssumption DEF CallInv, SinkInv
  <2> QED
    BY <2>2, <2>3
<1> QED
  BY <1>1, Invariance, PTL

\* The log and the caller agree: each result told is on record, once, after its
\* prepared record, and nothing on record contradicts it.
THEOREM TrailsAreTruthful == Spec => []RecordsTruthful
<1>1. IInv => RecordsTruthful
  <2> SUFFICES ASSUME IInv PROVE RecordsTruthful
    OBVIOUS
  <2>1. ResultsAreRecorded
    <3> SUFFICES ASSUME audited, NEW r \in Calls, pc[r] = "done",
                        results[r] \cap AuditFailures = {}
                 PROVE  /\ "ok" \in results[r] => \E t \in Trail(r) : t.status = "exited"
                        /\ results[r] \cap (NotStarted \cup {"denied"}) # {} =>
                             \E t \in Trail(r) : Denial(t)
      BY DEF ResultsAreRecorded, Denial
    <3> QED
      BY DEF IInv, CallInv, RecordedInv
  <2>2. OneTerminalRecord
    BY DEF IInv, CallInv, TerminalInv, OneTerminalRecord, Calls
  <2>3. NoContradictoryRecord
    BY DEF IInv, CallInv, DenialInv, NoContradictoryRecord
  <2> QED
    BY <2>1, <2>2, <2>3 DEF RecordsTruthful
<1> QED
  BY <1>1, Invariance, PTL

\* A command runs what preflight decided about, unless that changed after the
\* last look; with the program bound by descriptor never another file.
THEOREM BindingsAreChecked == Spec => []StaleBindingRefused
<1>1. IInv => StaleBindingRefused
  BY DEF IInv, CallInv, BindingInv, StaleBindingRefused
<1> QED
  BY <1>1, Invariance, PTL
=============================================================================
