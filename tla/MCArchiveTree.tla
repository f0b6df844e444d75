---------------------------- MODULE MCArchiveTree ----------------------------
EXTENDS ArchiveTree
MCNames == {"a", "A", "ae", "AE", "b", "c", "d", "l", "p", "q", "t", "bin", "tool", "up", "stage", "lock", "tmp"}
\* "ae" and "AE" stand for a letter that is not of ASCII, in its two cases.
MCFold == [n \in MCNames |-> CASE n = "A" -> "a" [] n = "AE" -> "ae" [] OTHER -> n]
MCKey  == [n \in MCNames |-> IF n = "A" THEN "a" ELSE n]
Nothing == [n \in Names |-> Absent]
Tree(k) == [i \in Dirs |->
  CASE i = 0 -> [Nothing EXCEPT !["p"] = DirEntry(1), !["l"] = LinkEntry(<<"up">>), !["up"] = DirEntry(9)]
    [] i = 1 -> [Nothing EXCEPT !["t"] = IF k = 1 THEN DirEntry(8) ELSE Absent, !["l"] = LinkEntry(<<"up">>),
                                !["c"] = FileEntry(51, "other"), !["b"] = DirEntry(6),
                                !["q"] = IF k = 2 THEN DirEntry(7) ELSE Absent]
    [] i = 6 -> [Nothing EXCEPT !["lock"] = LinkEntry(<<"p", "c">>)]
    [] i = 9 -> [Nothing EXCEPT !["a"] = FileEntry(50, "hidden")]
    [] OTHER -> Nothing]
MCTrees == {Tree(1), Tree(2)}
E(p, t, s, x, to) == [path |-> p, type |-> t, size |-> s, data |-> x, target |-> to]
F(p, x)  == E(p, "file", 1, x, <<>>)
D(p)     == E(p, "dir", 0, "", <<>>)
S(p, to) == E(p, "link", 1, "", to)
H(p, to) == E(p, "hard", 0, "", to)
X(t)     == E(<<"a">>, t, 0, "", <<>>)
Lim(e, b) == [entries |-> e, bytes |-> b]
Req(op, f, es, dest, hint, buf, lim) ==
  [op |-> op, format |-> f, entries |-> es, dest |-> dest, hint |-> hint, buffered |-> buf, limits |-> lim]
T(f, es) == Req("tree", f, es, <<"p", "t">>, <<>>, TRUE, Lim(6, 6))
\* Every archive of up to four entries that writes and links a few names.
Mixed == UNION {[1..k -> {F(<<"a">>, "v"), F(<<"c">>, "w"), H(<<"b">>, <<"c">>), H(<<"c">>, <<"a">>), H(<<"a">>, <<"b">>)}]
                : k \in 1..4}
\* Archives that are extracted, that are refused, and ones for other destinations.
MCRequests == {T("tar.gz", es) : es \in Mixed}
  \cup {T("tar.gz", es) : es \in {
     <<F(<<"a">>, "v"), F(<<"d", "b">>, "w"), S(<<"l">>, <<"d", "b">>)>>,
     <<H(<<"c">>, <<"b">>), H(<<"b">>, <<"a">>), F(<<".", "a">>, "v")>>,
     <<H(<<"d", "c">>, <<"a">>), F(<<"a">>, "v"), F(<<"a">>, "w")>>,
     <<H(<<"b">>, <<"a">>), H(<<"a">>, <<"b">>)>>,
     <<F(<<"a">>, "v"), H(<<"b">>, <<"a">>), H(<<"b">>, <<"a">>)>>,
     <<H(<<"b">>, <<"d", "a">>), D(<<"c">>)>>,
     <<S(<<"d">>, <<"b">>), F(<<"d", "a">>, "v")>>,
     <<F(<<"a">>, "v"), F(<<"A">>, "w")>>, <<F(<<"a">>, "v"), H(<<"b">>, <<"A">>)>>,
     <<F(<<"d", "a">>, "v"), F(<<"d">>, "w")>>, <<S(<<"a">>, <<"..", "a">>)>>, <<S(<<"a">>, <<"/", "a">>)>>,
     <<H(<<"a">>, <<"..", "a">>)>>, <<F(<<"..", "a">>, "v")>>, <<F(<<".">>, "v")>>,
     <<S(<<"a">>, <<".", "b">>), H(<<"b">>, <<"a">>)>>, <<S(<<"d">>, <<"c">>), H(<<"b">>, <<"d", "a">>)>>,
     <<F(<<"a">>, "v"), S(<<"l">>, <<"a">>), F(<<"b">>, "w"), H(<<"c">>, <<"a">>)>>,
     <<D(<<"d">>), F(<<"a">>, "v"), F(<<"c">>, "w"), H(<<"c">>, <<"a">>)>>,
     <<H(<<"c">>, <<"b">>), F(<<"a">>, "v"), H(<<"b">>, <<"a">>), F(<<"c">>, "w"), S(<<"l">>, <<"c">>)>>,
     <<F(<<"ae">>, "v"), F(<<"AE">>, "w")>>, <<F(<<"ae">>, "v"), H(<<"b">>, <<"AE">>)>>,
     <<D(<<"ae">>), F(<<"AE", "a">>, "v")>>,
     <<F(<<"a">>, "corrupt")>>, <<X("special")>>, <<D(<<"d">>), X("broken")>>,
     <<E(<<"a">>, "file", 4, "v", <<>>), E(<<"b">>, "file", 3, "w", <<>>)>>,
     <<D(<<"d">>), D(<<"d">>), D(<<"d">>), D(<<"d">>), D(<<"d">>), D(<<"d">>), D(<<"d">>)>>}}
  \cup {T("zip", <<S(<<"a">>, <<"b">>), F(<<"d", "b">>, "v")>>), T("other", <<>>), Req("binary", "other", <<>>, <<"t">>, <<>>, TRUE, Lim(3, 2)),
        T("zip", <<E(<<"a">>, "link", 3, "", <<"b">>)>>),
        T("zip", <<E(<<"a">>, "special", 1, "v", <<>>), F(<<"b">>, "w")>>), T("zip", <<E(<<"a">>, "special", 7, "v", <<>>)>>)}
  \cup {Req("tree", "tar.xz", <<F(<<"a">>, "v")>>, d, <<>>, TRUE, Lim(6, 6)) :
          d \in {<<"p", "q", "t">>, <<"l", "q", "t">>, <<"p", "l", "t">>, <<"l", "t">>, <<"..", "t">>, <<"p", "c", "q", "t">>, <<"p", "b", "t">>,
                  <<"p", "c">>}}
  \cup {Req("binary", f, es, <<"t">>, h, b, Lim(3, 2)) : f \in {"tar.gz", "tar.xz", "zip"}, b \in BOOLEAN, h \in {<<>>, <<"bin", "tool">>, <<".", "bin", "tool">>},
          es \in {<<F(<<"a", "tool">>, "w"), F(<<"bin", "tool">>, "v")>>, <<D(<<"bin", "tool">>)>>,
                  <<F(<<".", "bin", "tool">>, "v"), F(<<"bin", "tool">>, "w")>>,
                  <<F(<<"bin", "tool">>, "v"), F(<<"bin", "tool">>, "w")>>, <<F(<<"tool">>, "v")>>,
                  <<E(<<"bin", "tool">>, "file", 3, "v", <<>>)>>, <<F(<<"bin", "tool">>, "corrupt")>>,
                  <<F(<<"bin", "tool">>, "v"), X("broken")>>,
                  <<D(<<"a">>), D(<<"a">>), D(<<"a">>), F(<<"bin", "tool">>, "v")>>}}
\* Destination's ancestors, and entries of the staged directory (id 2, 3).
MCForeignSlots == {<<0, "p", "l">>, <<1, "q", "l">>, <<2, "a", "b">>, <<2, "d", "l">>, <<2, "a", "l">>, <<2, "c", "d">>}
=============================================================================
