------------------------------- MODULE FsShape -------------------------------
(***************************************************************************)
(* What file trees hold and how they are shaped, for the operations of     *)
(* omne-fs that change them: FsOps and FsDelete.                           *)
(***************************************************************************)
EXTENDS FsTree, FiniteSets

CONSTANTS Calls,        \* running calls that stage files: the names of those
          Inos,         \* identities files can have
          Contents      \* contents of files

\* The name of a temporary file is random, and "." and ".." are no names.
ASSUME ShapeAssumption == Calls \cap Names = {} /\ {".", ".."} \cap Names = {}

Entry == {Absent} \cup [kind : {"file"}, ino : Inos, data : Contents]
           \cup [kind : {"dir"}, ino : Dirs] \cup [kind : {"link"}, to : Paths]
Tree     == [Dirs -> [Names \cup Calls -> Entry]]
Segments == Seq(Names \cup {".", ".."})

\* A directory has one name, the root none; what is no longer anywhere is empty,
\* and only files have the names of temporary ones.
Live(t, d) == d = Root \/ \E e \in Dirs, n \in Names : t[e][n] = DirEntry(d)
Bare(t, d) == \A n \in Names : t[d][n].kind \notin {"dir", "link"}
WellShaped(t) ==
  /\ \A d, e \in Dirs, n, m \in Names : t[d][n].kind = "dir" /\ t[e][m] = t[d][n] => d = e /\ n = m
  /\ \A d \in Dirs, n \in Names : t[d][n] # DirEntry(Root)
  /\ \A d \in Dirs : ~Live(t, d) => Bare(t, d)
  /\ \A d \in Dirs, c \in Calls : t[d][c].kind \in {"absent", "file"}

\* Directories and links, which every path resolution depends on.
Structure(t) == [d \in Dirs |-> [n \in Names |-> IF t[d][n].kind \in {"dir", "link"}
                                                 THEN t[d][n] ELSE Absent]]

\* The paths, up to two names long, that lead to a directory without a link.
PathsTo(t, d) == {p \in {<<>>} \cup {<<n>> : n \in Names} \cup {<<n, m>> : n, m \in Names} :
                    DirectoryAt(t, p) = DirEntry(d) /\ Canonicalize(t, p).path = p}
=============================================================================
