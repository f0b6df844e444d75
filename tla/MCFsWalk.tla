------------------------------ MODULE MCFsWalk ------------------------------
EXTENDS FsWalk
MCNames == {"a", "d", "e", "l", "s", "x", "y", "up", "probe"}
MCPosition == ("a" :> 1) @@ ("d" :> 2) @@ ("e" :> 3) @@ ("l" :> 4) @@ ("probe" :> 5)
                @@ ("s" :> 6) @@ ("up" :> 7) @@ ("x" :> 8) @@ ("y" :> 9)
\* Deny "s/**" and "s", and "d/y"; skip "e/**" inside d.
MCDenied == {<<"s">>, <<"d", "y">>} \cup {<<"s", n>> : n \in MCNames}
MCSkipped == {<<"d", "e", n>> : n \in MCNames}
MCLinesOf == [hits |-> <<"miss", "hit", "hit">>, bad |-> <<"hit", "bad">>,
              long |-> <<"long", "hit">>, big |-> <<"hit", "hit", "hit", "hit">>]
Nothing == [n \in Names \cup Calls |-> Absent]
DiskWith(k) == [i \in Dirs |->
  CASE i = 0 -> [Nothing EXCEPT !["a"] = FileEntry(1, "hits"), !["d"] = DirEntry(1), !["s"] = DirEntry(2),
                                !["l"] = IF k = 1 THEN LinkEntry(<<"d">>) ELSE LinkEntry(<<"s", "x">>),
                                !["x"] = LinkEntry(<<"a">>), !["up"] = DirEntry(4)]
    [] i = 1 -> [Nothing EXCEPT !["e"] = DirEntry(3), !["x"] = FileEntry(2, IF k = 1 THEN "bad" ELSE "long"),
                                !["y"] = FileEntry(3, "hits"),
                                !["l"] = IF k = 1 THEN LinkEntry(<<"up", "x">>) ELSE LinkEntry(<<"e", "a">>),
                                !["a"] = IF k = 1 THEN Absent ELSE LinkEntry(<<"s">>)]
    [] i = 2 -> [Nothing EXCEPT !["x"] = FileEntry(4, "hits")]
    [] i = 3 -> [Nothing EXCEPT !["a"] = FileEntry(5, "hits")]
    [] i = 4 -> [Nothing EXCEPT !["x"] = FileEntry(6, "hits")]
    [] OTHER -> Nothing]
MCDisks == {DiskWith(1), DiskWith(2)}
Glob(p)    == [op |-> "glob", path |-> <<>>, pattern |-> p, regex |-> FALSE]
Grep(p, r) == [op |-> "grep", path |-> <<>>, pattern |-> p, regex |-> r]
List(p)    == [op |-> "list", path |-> p, pattern |-> <<>>, regex |-> FALSE]
Stat(p)    == [op |-> "stat", path |-> p, pattern |-> <<>>, regex |-> FALSE]
MCRequests == {Glob(<<"**">>), Glob(<<"*", "x">>), Glob(<<"d", "**">>), Glob(<<"l", "x">>), Glob(<<"l", "*">>),
               Glob(<<"d", "e", "a">>), Glob(<<"s", "x">>), Glob(<<"y">>), Glob(<<"a", "x">>),
               Grep(<<>>, TRUE), Grep(<<>>, FALSE), Grep(<<"**">>, FALSE), Grep(<<"x">>, FALSE),
               Grep(<<"l", "x">>, TRUE), Grep(<<"d", "a", "a">>, TRUE), Grep(<<"d", "l">>, TRUE),
               List(<<".">>), List(<<"d">>), List(<<"l">>), List(<<"d", "x">>), List(<<"d", "..", "a">>),
               Stat(<<"a">>), Stat(<<"x">>), Stat(<<"l">>), Stat(<<"d", "x">>), Stat(<<"s", "x">>), Stat(<<"up", "x">>)}
L(e, f, r, b, t, s) == [entries |-> e, files |-> f, results |-> r, bytes |-> b, timed |-> t, stable |-> s]
MCLimits == {L(9, 9, 9, 30, FALSE, TRUE), L(4, 3, 2, 9, FALSE, TRUE), L(6, 0, 9, 4, FALSE, FALSE),
             L(9, 9, 0, 9, TRUE, TRUE), L(9, 5, 9, 3, FALSE, TRUE)}
MCCreatorSlots == {<<0, "y">>, <<3, "x">>, <<2, "a">>}
=============================================================================
