------------------------------ MODULE MCFsOps ------------------------------
EXTENDS FsOps
MCNames == {"d", "s", "l", "e", "x", "up"}
MCDenied == {p \in Seq(MCNames) : StartsWith(p, <<"s">>) \/ StartsWith(p, <<"e", "s">>)}
Nothing == [n \in Names \cup Calls |-> Absent]
\* A directory d with a file, a denied directory s with a file, a link l to
\* one of them or out of the root, a directory outside.
TreeWith(to) == [k \in Dirs |->
  CASE k = 0 -> [Nothing EXCEPT !["d"] = DirEntry(1), !["s"] = DirEntry(2),
                                !["l"] = LinkEntry(to), !["up"] = DirEntry(3)]
    [] k \in {1, 2} -> [Nothing EXCEPT !["x"] = FileEntry(k, "old")]
    [] OTHER -> Nothing]
MCTrees == {TreeWith(<<"s">>), TreeWith(<<"up">>)}
Create(o, p, over, parents, ignore) ==
  [op |-> o, path |-> p, over |-> over, parents |-> parents, ignoreExisting |-> ignore,
   data |-> "new"]
Edit(p, d) == [op |-> "edit", path |-> p, data |-> d]
Transfer(o, f, t, over, parents) ==
  [op |-> o, from |-> f, to |-> t, over |-> over, parents |-> parents]
All ==
  {Create("write", <<"d", "x">>, TRUE, FALSE, FALSE),
   Create("write", <<"e", "s", "x">>, FALSE, TRUE, FALSE),
   Create("write", <<"l", "e">>, FALSE, TRUE, FALSE),
   Create("mkdir", <<"d", "e">>, FALSE, TRUE, TRUE),
   Create("mkdir", <<"e", "d">>, FALSE, TRUE, FALSE),
   Edit(<<"d", "x">>, "new"), Edit(<<"d", "x">>, "old"), Edit(<<"l", "x">>, "new"), Edit(<<"d", "x">>, "large"),
   Create("write", <<"d", "..", "..", "x">>, TRUE, FALSE, FALSE),
   Create("write", <<"up", "x">>, TRUE, FALSE, FALSE),
   Transfer("move", <<"d", "x">>, <<"e", "x">>, FALSE, TRUE),
   Transfer("move", <<"d">>, <<"e">>, TRUE, FALSE),
   Transfer("copy", <<"d", "x">>, <<"d", "e">>, TRUE, FALSE),
   Transfer("copy", <<"l", "x">>, <<"d", "e">>, FALSE, FALSE)}
Second == {Create("write", <<"d", "x">>, TRUE, FALSE, FALSE), Edit(<<"d", "x">>, "new"),
           Transfer("move", <<"d">>, <<"e">>, TRUE, FALSE),
           Create("mkdir", <<"e", "d">>, FALSE, TRUE, FALSE)}
MCRequestsOf == [c \in Calls |-> IF c = "c1" THEN All ELSE Second]
MCSlots == {<<1, "x">>, <<1, "e">>, <<0, "e">>}
=============================================================================
