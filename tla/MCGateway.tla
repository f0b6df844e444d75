------------------------------ MODULE MCGateway ------------------------------
\* The gateway for TLC: requests are decided about, and commands live.  A
\* command's life depends on its request by whether it may run, so one request
\* (Followed) is followed through every life a command may have; of all others
\* the decision is looked at.  A command may be denied even so: each call looks
\* at its paths when it is made.
EXTENDS ExecGateway, GatewayDecision, TLC

CONSTANTS e1, p1, program1, program2, dir1, dir2, log1, log2

MCPrograms == {program1, program2}
MCCwds == {dir1, dir2}
MCLogs == {log1, log2}

\* The paths' contents are interchangeable.
MCSymmetry == Permutations(MCPrograms) \cup Permutations(MCCwds) \cup Permutations(MCLogs)

Line(typed, target, is, read, runs) ==
    [typed |-> typed, target |-> target, is |-> is, read |-> read, runs |-> runs]

Honest(name, chain) == Line(name, name, name, chain, chain)

\* Programs under their own names, alone and behind one and two wrappers;
\* names, links and copies that stand for another file; a name nothing has;
\* and command lines that the code reads differently from the wrappers.
MCCommands ==
    {Honest("tool", << >>), Honest("launcher", << >>), Honest("wrapper", <<"tool">>),
     Honest("wrapper", <<"wrapper", "launcher">>),
     Line("tool", "launcher", "launcher", << >>, << >>),
     Line("tool", "tool", "launcher", << >>, << >>),
     Line("tool", "wrapper", "wrapper", <<"launcher">>, <<"launcher">>),
     Line("launcher", "tool", "tool", << >>, << >>),
     Line("tool", "none", "tool", << >>, << >>),
     Line("tool", "tool", "stray_launcher", << >>, << >>),
     Line("wrapper", "wrapper", "wrapper", <<"tool">>, <<"launcher">>),
     Line("wrapper", "wrapper", "wrapper", <<"launcher">>, <<"tool">>)}

\* The path faults are alike, one stands for all.
MCPathFaults == {"cwd_invalid"}

Followed ==
    /\ policy = [allow_isolation_none |-> FALSE, enforce |-> TRUE, default_isolation |-> Strict,
                 audit_path |-> "absolute", mutating |-> FALSE, non_mutating |-> TRUE]
    /\ host = Strict
    /\ request = [isolation |-> Strict, source |-> "request", program |-> "absolute",
                  command |-> Honest("tool", << >>), declared |-> "non_mutating",
                  startup_env |-> FALSE, paths |-> "ok"]

\* Where the commands of the other requests would start.
OneStart ==
    /\ ~audited /\ ~byDescriptor
    /\ fs.program = program1 /\ fs.cwd = dir1 /\ fs.log = log1

GatewayInit ==
    \/ Init /\ Followed /\ answer = "pending"
    \/ Init /\ OneStart /\ DecisionInit

GatewayNext ==
    \/ DecisionNext /\ UNCHANGED vars
    \/ Followed /\ answer = "none" /\ Next /\ UNCHANGED decisionVars

GatewaySpec == GatewayInit /\ [][GatewayNext]_<<vars, decisionVars>>
==============================================================================
