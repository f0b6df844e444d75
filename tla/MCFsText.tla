------------------------------ MODULE MCFsText ------------------------------
EXTENDS FsText
MCFormats == [toml |-> "toml", json |-> "json", none |-> "toml", yaml |-> "unsupported"]
MCCalls == {[ext |-> "toml", max |-> 7], [ext |-> "none", max |-> 5], [ext |-> "json", max |-> 0],
            [ext |-> "json", max |-> 9], [ext |-> "yaml", max |-> 7]}
MCCaps == [read |-> 9, patch |-> 9, write |-> 9, results |-> 9, files |-> 9, entries |-> 9, line |-> 9,
           response |-> 20]
L(read, write, results, line, glob, patch) ==
  [read |-> read, write |-> write, results |-> results, files |-> 3, entries |-> 5, line |-> line,
   glob |-> glob, patch |-> patch]
MCDefaultLimits == L(5, 5, 2, 2, {}, {})
MCDefaultDeny == <<<<".git", "**">>, <<"**", ".git", "**">>>>

Root(id, path) == [is |-> "root", id |-> id, path |-> path, absolute |-> path # <<"rel">>]
LimitsItem(l)  == [is |-> "limits", v |-> l]
Deny(g)        == [is |-> "deny", glob |-> g]
Skip(g)        == [is |-> "skip", glob |-> g]
Redacts(w)     == [is |-> "redact", word |-> w]
R1 == Root("one", <<"a">>)
R2 == Root("two", <<"b">>)
MCTexts == {
  <<R1>>,
  <<R1, R2, Root("three", <<"a", "x">>)>>,
  <<Root("one", <<"a", "x">>), Root("two", <<"b", "x">>)>>,
  <<R1, Root("two", <<"l">>)>>,
  <<R1, Root("two", <<"f">>)>>,
  <<R1, Root("one", <<"b">>)>>,
  <<Root("bad id", <<"a">>)>>,
  <<R1, LimitsItem(L(4, 4, 9, 9, {}, {}))>>,
  <<R1, LimitsItem(L(4, 6, 1, 3, {20}, {3})), Redacts(<<"a", "b">>), Redacts(<<"x", "x">>)>>,
  <<R1, LimitsItem(L(6, 0, 1, 3, {}, {}))>>,
  <<R1, LimitsItem(L(6, 6, 3, 2, {}, {})), Redacts(<<"a">>), Redacts(<<"b", "x">>), Deny(<<".", "d", "**">>)>>,
  <<R1, Redacts(<<"a">>), Redacts(<<"x">>), Redacts(<<"b">>)>>,
  <<R1, Deny(<<"d", "..", "e">>)>>,
  <<R1, Deny(<<"d", "**">>), Deny(<<"e", "*">>), Skip(<<"d">>), Skip(<<"e", "**">>)>>,
  <<R1, Skip(<<"", "x">>)>>,
  <<R1, Deny(<<"e", "e", "e", "e", "e", "**">>)>>,
  <<R1, [is |-> "unknown"]>>}
MCAdditions == {Root("two", <<"b">>), Deny(<<"s", "**">>), [is |-> "unknown"]}
MCValidIds == {"one", "two", "three"}
MCCanonical ==
  (<<"a">> :> [kind |-> "dir", path |-> <<"a">>]) @@ (<<"b">> :> [kind |-> "dir", path |-> <<"b">>])
  @@ (<<"a", "x">> :> [kind |-> "dir", path |-> <<"a", "x">>]) @@ (<<"b", "x">> :> [kind |-> "dir", path |-> <<"b", "x">>])
  @@ (<<"l">> :> [kind |-> "dir", path |-> <<"a", "x">>]) @@ (<<"f">> :> [kind |-> "file", path |-> <<"f">>])
MCNameOrder == ("a" :> 1) @@ ("b" :> 2) @@ ("f" :> 3) @@ ("x" :> 4)
MCReplacement == <<"x", "x">>
MCProbes == UNION {[1..n -> {"d", "e", "s", ".", "..", "x"}] : n \in 1..3}

Words(alphabet, n) == UNION {[1..k -> alphabet] : k \in 0..n}
MCFiles == Words({"a", "CR", "LF", "2", "c"}, 3)
  \cup {<<"a", "b">>, <<"a", "a", "b">>, <<"a", "b", "LF", "a">>, <<"a", "CR", "LF", "b", "a", "b">>, <<"3", "c", "c", "LF", "a">>,
        <<"a", "LF", "3", "c", "LF">>, <<"b", "a", "a", "b", "LF">>, <<"a", "LF", "a", "LF", "a">>,
        <<"a", "b", "CR", "2", "c">>, <<"b", "3", "c", "c">>, <<"a", "CR", "LF", "LF">>, <<"a", "CR", "LF", "c">>,
        <<"a", "b", "a", "b", "LF">>, <<"b", "b", "b", "b", "b", "b", "a">>, <<"LF", "a", "2", "c", "LF", "b">>}
Read(f, t)    == [op |-> "read", from |-> f, to |-> t]
Grep(q, r)    == [op |-> "grep", query |-> q, regex |-> r]
EditOf(f, t, x) == [op |-> "edit", from |-> f, to |-> t, text |-> x]
Line(tag, t)  == [tag |-> tag, text |-> t]
Hunk == <<Line("-", <<"a", "LF">>), Line("+", <<"b", "b", "LF">>)>>
Less == <<Line(" ", <<"a">>), Line("-", <<"b", "LF">>), Line("+", <<"LF">>)>>
PatchOf(o, m, h, n) == [op |-> "patch", path |-> <<"b", "f">>, original |-> o, modified |-> m, hunk |-> h, size |-> n]
Git == PatchOf(<<"a", "b", "f">>, <<"b", ".", "b", "f">>, Hunk, 3)
MCRequests ==
  {Read(1, 1), Read(1, 2), Read(2, 2), Read(2, 3), Read(0, 1), Read(3, 3), [op |-> "full"], [op |-> "stat"],
   Grep(<<"a">>, FALSE), Grep(<<"a", "a", "b">>, FALSE), Grep(<<"a", "CR", "LF">>, FALSE), Grep(<<"2", "c">>, FALSE),
   Grep(<<"a", "b">>, TRUE), Grep(<<"LF">>, FALSE),
   EditOf(1, 1, <<>>), EditOf(1, 2, <<"b">>), EditOf(2, 2, <<"LF", "b">>), EditOf(2, 2, <<"b", "CR", "LF", "b", "CR">>),
   EditOf(2, 1, <<>>), EditOf(1, 1, <<"2", "c", "LF">>),
   Git, PatchOf(<<"original">>, <<"modified">>, Less, 3), PatchOf(<<"b", "f">>, <<"b", "f">>, Less, 6),
   PatchOf(<<"a", "b", "f">>, <<"a", "b", "f">>, Hunk, 3), PatchOf(<<>>, <<"b", "f">>, Hunk, 3),
   PatchOf(<<".", "b", "f">>, <<"b", "..", "f">>, Hunk, 3), PatchOf(<<"b", "f">>, <<"", "b", "f">>, Less, 1),
   PatchOf(<<"b", "f">>, <<"b", "f">>, <<Line("-", <<"a", "a", "a", "a", "a", "a">>)>>, 1)}
=============================================================================
