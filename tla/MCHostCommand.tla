---------------------------- MODULE MCHostCommand ----------------------------
\* A small instance of HostCommand for TLC.
EXTENDS HostCommand, TLC

MCLimits == {1, 2}
MCStandardDirs == <<"local", "bin">>
MCTrustedPath == <<"local", "bin", "sbin">>

\* The working directory has a link to the manager, the caller's PATH leads to
\* another program of its name, and in "other" there is a tool that is no
\* executable.
Files == (<<"bin", "sudo">> :> 1) @@ (<<"bin", "env">> :> 2) @@ (<<"bin", "apt-get">> :> 3)
           @@ (<<"work", "apt-get">> :> 3) @@ (<<"path", "apt-get">> :> 4) @@ (<<"local", "brew">> :> 5)
           @@ (<<"work", "tool">> :> 6) @@ (<<"path", "tool">> :> 7) @@ (<<"other", "tool">> :> 8)
Ambient == ("PATH" :> <<"other", "path", "bin">>) @@ ("A" :> "ambient") @@ ("B" :> "ambient")
Host(absent, nonRoot, variables) ==
  [files |-> [p \in DOMAIN Files \ absent |-> Files[p]],
   executable |-> DOMAIN Files \ (absent \cup {<<"other", "tool">>}),
   directories |-> {"work", "path", "other", "bin", "local"}, variables |-> variables, nonRoot |-> nonRoot]
MCHosts == {Host({}, TRUE, Ambient), Host({}, FALSE, Ambient), Host({}, TRUE, "A" :> "ambient"),
            Host({<<"bin", "sudo">>}, TRUE, Ambient), Host({<<"bin", "env">>}, TRUE, Ambient),
            Host({<<"bin", "apt-get">>}, TRUE, Ambient)}
Programs == {<<"bare", "", "apt-get">>, <<"bare", "", "brew">>, <<"bare", "", "tool">>, <<"bare", "", "none">>,
             <<"absolute", "bin", "apt-get">>, <<"absolute", "work", "apt-get">>, <<"absolute", "path", "apt-get">>,
             <<"absolute", "other", "tool">>, <<"absolute", "local", "none">>,
             <<"relative", "", "tool">>, <<"relative", "", "apt-get">>}
Environments == {<<>>, <<<<"A", "1">>, <<"A", "2">>>>, <<<<"PATH", <<Here, "path">>>>, <<"B", "1">>>>}
MCRequests ==
  {[form |-> p[1], dir |-> p[2], name |-> p[3], mode |-> m, env |-> e, removed |-> r, cwd |-> c] :
     p \in Programs, m \in {"Never", "IfNonRootSystemCommand", "recipe"}, e \in Environments,
     r \in {{}, {"PATH"}, {"A", "B"}, {"PATH", "A", "B"}}, c \in {NoDirectory, "work", "gone"}}
==============================================================================
