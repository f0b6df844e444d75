----------------------------- MODULE MCFsDelete -----------------------------
EXTENDS FsDelete
MCNames == {"d", "e", "s", "l", "x", "y", "up"}
\* Two deny rules: a name inside the tree to delete, and a directory.
MCDenied == {<<"d", "y">>, <<"d", "e", "y">>, <<"s">>} \cup {<<"s", n>> : n \in MCNames}
Nothing == [n \in Names |-> Absent]
\* d holds a file, a link and a directory e with a file; perhaps a denied file.
TreeWith(deep) == [k \in Dirs |->
  CASE k = 0 -> [Nothing EXCEPT !["d"] = DirEntry(1), !["s"] = DirEntry(2), !["l"] = LinkEntry(<<"d">>),
                                !["up"] = DirEntry(4)]
    [] k = 1 -> [Nothing EXCEPT !["x"] = FileEntry(1, "old"), !["e"] = DirEntry(3),
                                !["l"] = LinkEntry(<<"s">>)]
    [] k = 2 -> [Nothing EXCEPT !["x"] = FileEntry(2, "old")]
    [] k = 3 -> [Nothing EXCEPT !["x"] = deep, !["y"] = IF deep = Absent THEN FileEntry(3, "old") ELSE Absent]
    [] OTHER -> Nothing]
MCTrees == {TreeWith(FileEntry(3, "old")), TreeWith(Absent)}
Ask(p, r, i) == [path |-> p, recursive |-> r, ignoreMissing |-> i]
MCRequests == {Ask(<<"d">>, TRUE, TRUE), Ask(<<"d">>, TRUE, FALSE), Ask(<<"d">>, FALSE, TRUE),
               Ask(<<"d", ".", "x">>, FALSE, FALSE), Ask(<<"l", "x">>, FALSE, TRUE),
               Ask(<<"l">>, TRUE, TRUE), Ask(<<"s", "x">>, TRUE, TRUE),
               Ask(<<"e", "x">>, TRUE, TRUE), Ask(<<"d", "..">>, TRUE, FALSE)}
MCCreatorSlots == {<<3, "x">>, <<1, "y">>}
=============================================================================
