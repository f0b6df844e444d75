--------------------------- MODULE FsDelete_proofs ---------------------------
(***************************************************************************)
(* What is proved of FsDelete, for every tree, every request and any       *)
(* number of changes by other programs: that nothing denied is removed,    *)
(* that a delete which is refused for what it finds has removed nothing,   *)
(* and that what is reported as deleted is gone.                           *)
(***************************************************************************)
EXTENDS FsDelete, FsTree_proofs, FiniteSetTheorems

\* ---------------------------------------------------------------- invariant
Stages == {"start", "capture", "revalidate", "unlink", "scan", "delete", "done"}
Listed == [name : Names, kind : {"file", "dir", "link"}]
Frames == [path : Paths, todo : SUBSET Listed, at : {"read", "entries", "rmdir"}]

TypeOK == /\ fs \in Tree /\ req \in Request /\ timed \in BOOLEAN
          /\ pc \in Stages /\ path \in Paths /\ pid \in Directory \cup {NoDir}
          /\ target \in Entry \cup {None} /\ stack \in Seq(Frames) /\ scanned \in Nat
          /\ removed \subseteq Dirs \X Names
          /\ foreign \in Nat /\ touched \in BOOLEAN /\ moved \in BOOLEAN

Walking == pc \in {"scan", "delete"}

\* What the call knows at its stages; only the removal removes.
CallInv == /\ pc \notin {"delete", "done"} => removed = {}
           /\ pc # "done" => res = "none"
           /\ pc \notin {"start", "done"} =>
                /\ path # <<>> /\ ~IsPathDenied(path)
                /\ NormalizeLexical(req.path) \in Paths \ {<<>>}
           /\ pc \in {"revalidate", "unlink"} \/ Walking => target.kind \in {"file", "dir", "link"}
           /\ Walking => stack # <<>> /\ scanned <= MaxWalkEntries
           /\ ~Walking => stack = <<>> /\ scanned = 0

\* The frames of the walk go down from the target one name at a time, none of
\* it denied; all but the last are at the entry that the next one is for.
StackInv(s, p) ==
  /\ s # <<>> => s[1].path = p
  /\ \A i \in 1 .. Len(s) : ~IsPathDenied(s[i].path) /\ Len(s[i].path) = Len(p) + i - 1
  /\ \A i, j \in 1 .. Len(s) : i <= j => IsPrefix(s[i].path, s[j].path)
  /\ \A i \in 2 .. Len(s) : /\ Front(s[i].path) = s[i - 1].path /\ s[i - 1].at = "entries"
                            /\ [name |-> Last(s[i].path), kind |-> "dir"] \notin s[i - 1].todo

\* There is no link on it, and directories to be entered are still there ...
Where(t, p) == NoLinks(t)[p].entry.ino
StillThere(t, f) == \A e \in f.todo : e.kind = "dir" => t[Where(t, f.path)][e.name].kind = "dir"
PlainOn(t, s, p) == /\ PlainDir(t, Front(p))
                    /\ \A i \in 1 .. Len(s) : PlainDir(t, s[i].path) /\ StillThere(t, s[i])
\* ... as long as nobody moves a directory or a link, or since the last look.
Steady   == ~moved \/ ~touched
PlainInv == (pc = "unlink" \/ Walking) /\ Steady => PlainOn(fs, stack, path)

\* What there is at a path, reached without a link.
There(t, q) == /\ q # <<>> /\ PlainDir(t, Front(q))
               /\ t[Where(t, Front(q))][Last(q)].kind # "absent"

\* What there is below the target, and what of it a walk has still to come to.
Beneath(t, p) == {q \in Paths : IsPrefix(p, q) /\ q # p /\ There(t, q)}
Open(f, q) == /\ IsPrefix(f.path, q) /\ Len(f.path) < Len(q)
              /\ \/ f.at = "read"
                 \/ f.at = "entries" /\ \E e \in f.todo : e.name = q[Len(f.path) + 1]
Ahead(s, q) == \E i \in 1 .. Len(s) : Open(s[i], q)
Seen(t, s, p) == {q \in Beneath(t, p) : ~Ahead(s, q)}
Left(t, s, p) == {q \in Beneath(t, p) : Ahead(s, q)}

\* While nobody else changes the tree, entries are as they were read; the scan
\* has counted whatever is no longer ahead of it; and for what is still ahead
\* of the removal, and nothing else is left, its budget is enough.
AsRead(t, f) == \A e \in f.todo : t[Where(t, f.path)][e.name].kind = e.kind
FramesRead(t) == {f \in Frames : AsRead(t, f)}
AtMost(S, n) == IsFiniteSet(S) /\ Cardinality(S) <= n
ScanKnows(t, s, p, k) == /\ AtMost(Seen(t, s, p), k)
                         /\ \A q \in Seen(t, s, p) : ~IsPathDenied(q)
DeleteKnows(t, s, p, k) ==
  /\ AtMost(Left(t, s, p), MaxWalkEntries - k)
  /\ \A q \in Beneath(t, p) : ~IsPathDenied(q) /\ (Ahead(s, q) \/ \E i \in 1 .. Len(s) : s[i].path = q)
ExactOn(t, s, p, k) == /\ s \in Seq(FramesRead(t))
                       /\ pc = "scan" => ScanKnows(t, s, p, k)
                       /\ pc = "delete" => DeleteKnows(t, s, p, k)
ExactInv == Walking /\ ~touched => ExactOn(fs, stack, path, scanned)

IInv == /\ TypeOK /\ WellShaped(fs) /\ CallInv /\ StackInv(stack, path)
        /\ PlainInv /\ ExactInv /\ RefusedBeforeRemoval

\* -------------------------------------------------------------------- paths
\* What a prefix is, name by name.
LEMMA PrefixParts ==
    ASSUME NEW p \in Paths, NEW q \in Paths
    PROVE  /\ Len(p) \in Nat /\ Len(q) \in Nat
           /\ IsPrefix(p, q) <=> Len(p) <= Len(q) /\ \A i \in 1 .. Len(p) : p[i] = q[i]
<1>1. Len(p) \in Nat /\ Len(q) \in Nat
  BY DEF Paths
<1>2. ASSUME Len(p) <= Len(q)
      PROVE  /\ Len(SubSeq(p, 1, Len(p))) = Len(p) /\ Len(SubSeq(q, 1, Len(p))) = Len(p)
             /\ SubSeq(p, 1, Len(p)) \in Paths /\ SubSeq(q, 1, Len(p)) \in Paths
             /\ \A i \in 1 .. Len(p) : SubSeq(p, 1, Len(p))[i] = p[i] /\ SubSeq(q, 1, Len(p))[i] = q[i]
  BY <1>1, <1>2 DEF Paths
<1>3. ASSUME Len(p) <= Len(q), \A i \in 1 .. Len(p) : p[i] = q[i]
      PROVE  SubSeq(p, 1, Len(p)) = SubSeq(q, 1, Len(p))
  <2> DEFINE a == SubSeq(p, 1, Len(p))
             b == SubSeq(q, 1, Len(p))
  <2>1. Len(a) = Len(b) /\ a \in Paths /\ b \in Paths /\ \A i \in 1 .. Len(a) : a[i] = b[i]
    BY <1>2, <1>3
  <2> HIDE DEF a, b
  <2>2. a = b
    BY <2>1, SeqEqual DEF Paths
  <2> QED
    BY <2>2 DEF a, b
<1> QED
  BY <1>1, <1>2, <1>3, Zenon DEF IsPrefix

\* Prefixes of each other are the same path.
LEMMA SamePath ==
    ASSUME NEW p \in Paths, NEW q \in Paths, IsPrefix(p, q), Len(p) = Len(q)
    PROVE  p = q
<1>1. Len(p) = Len(q) /\ \A i \in 1 .. Len(p) : p[i] = q[i]
  BY PrefixParts
<1> QED
  BY <1>1, SeqEqual DEF Paths

\* A path is its directory's with the last name.
LEMMA SeqOfFront ==
    ASSUME NEW p \in Paths, p # <<>>
    PROVE  Append(Front(p), Last(p)) = p
<1>1. /\ Front(p) \in Paths /\ Last(p) \in Names /\ Len(p) \in Nat \ {0}
      /\ Len(Front(p)) = Len(p) - 1 /\ Last(p) = p[Len(p)]
      /\ \A i \in 1 .. Len(p) - 1 : Front(p)[i] = p[i]
  BY FrontAndLast DEF Paths
<1> DEFINE a == Append(Front(p), Last(p))
<1>2. /\ a \in Paths /\ Len(a) = Len(p)
      /\ \A i \in 1 .. Len(p) : a[i] = IF i = Len(p) THEN Last(p) ELSE Front(p)[i]
  BY <1>1 DEF Paths
<1> HIDE DEF a
<1>3. \A i \in 1 .. Len(p) : a[i] = p[i]
  BY <1>1, <1>2
<1>4. a = p
  BY <1>2, <1>3, SeqEqual DEF Paths
<1> QED
  BY <1>4 DEF a

\* Prefixes of prefixes.
LEMMA PrefixOn ==
    ASSUME NEW p \in Paths, NEW q \in Paths, NEW r \in Paths, IsPrefix(p, q), IsPrefix(q, r)
    PROVE  IsPrefix(p, r)
<1>1. /\ Len(p) \in Nat /\ Len(q) \in Nat /\ Len(r) \in Nat /\ Len(p) <= Len(q) /\ Len(q) <= Len(r)
      /\ \A i \in 1 .. Len(p) : p[i] = q[i]
      /\ \A i \in 1 .. Len(q) : q[i] = r[i]
  BY PrefixParts
<1>2. Len(p) <= Len(r) /\ \A i \in 1 .. Len(p) : p[i] = r[i]
  BY <1>1
<1> QED
  BY <1>2, PrefixParts

\* A path is below the directories on its way.
LEMMA PrefixFront ==
    ASSUME NEW p \in Paths, NEW q \in Paths, q # <<>>
    PROVE  /\ Front(q) \in Paths /\ Last(q) \in Names /\ Len(Front(q)) = Len(q) - 1
           /\ Len(p) \in Nat /\ Len(q) \in Nat \ {0} /\ Last(q) = q[Len(q)]
           /\ IsPrefix(p, q) /\ p # q <=> IsPrefix(p, Front(q))
           /\ \A i \in 1 .. Len(q) - 1 : Front(q)[i] = q[i]
<1>1. /\ Front(q) \in Paths /\ Last(q) \in Names /\ Len(q) \in Nat \ {0}
      /\ Len(Front(q)) = Len(q) - 1 /\ Last(q) = q[Len(q)]
      /\ \A i \in 1 .. Len(q) - 1 : Front(q)[i] = q[i]
  BY FrontAndLast DEF Paths
<1>2. /\ Len(p) \in Nat
      /\ IsPrefix(p, q) <=> Len(p) <= Len(q) /\ \A i \in 1 .. Len(p) : p[i] = q[i]
  BY PrefixParts
<1>3. IsPrefix(p, Front(q)) <=> Len(p) <= Len(q) - 1 /\ \A i \in 1 .. Len(p) : p[i] = Front(q)[i]
  BY <1>1, PrefixParts
<1>4. ASSUME IsPrefix(p, q), p # q
      PROVE  IsPrefix(p, Front(q))
  <2>1. Len(p) # Len(q)
    BY <1>4, SamePath
  <2>2. Len(p) <= Len(q) - 1 /\ \A i \in 1 .. Len(p) : p[i] = Front(q)[i]
    BY <1>1, <1>2, <1>4, <2>1
  <2> QED
    BY <1>3, <2>2
<1>5. ASSUME IsPrefix(p, Front(q))
      PROVE  IsPrefix(p, q) /\ p # q
  <2>1. Len(p) <= Len(q) - 1 /\ \A i \in 1 .. Len(p) : p[i] = Front(q)[i]
    BY <1>3, <1>5
  <2>2. Len(p) <= Len(q) /\ \A i \in 1 .. Len(p) : p[i] = q[i]
    BY <1>1, <1>2, <2>1
  <2> QED
    BY <1>1, <1>2, <2>1, <2>2
<1> QED
  BY <1>1, <1>2, <1>4, <1>5

\* Prefixes with a name more.
LEMMA PrefixAppended ==
    ASSUME NEW p \in Paths, NEW q \in Paths, NEW n \in Names
    PROVE  /\ Append(p, n) \in Paths /\ Len(Append(p, n)) = Len(p) + 1
           /\ Len(p) \in Nat /\ Len(q) \in Nat
           /\ IsPrefix(Append(p, n), q) <=> IsPrefix(p, q) /\ Len(p) < Len(q) /\ q[Len(p) + 1] = n
           /\ IsPrefix(p, Append(p, n))
           /\ IsPrefix(q, p) => IsPrefix(q, Append(p, n))
<1> DEFINE a == Append(p, n)
<1>1. /\ a \in Paths /\ Len(a) = Len(p) + 1 /\ a[Len(p) + 1] = n /\ Len(p) \in Nat
      /\ \A i \in 1 .. Len(p) : a[i] = p[i]
  BY DEF Paths
<1> HIDE DEF a
<1>2. /\ Len(q) \in Nat
      /\ IsPrefix(a, q) <=> Len(a) <= Len(q) /\ \A i \in 1 .. Len(a) : a[i] = q[i]
      /\ IsPrefix(p, q) <=> Len(p) <= Len(q) /\ \A i \in 1 .. Len(p) : p[i] = q[i]
      /\ IsPrefix(p, a) <=> Len(p) <= Len(a) /\ \A i \in 1 .. Len(p) : p[i] = a[i]
  BY <1>1, PrefixParts
<1>3. ASSUME IsPrefix(a, q)
      PROVE  IsPrefix(p, q) /\ Len(p) < Len(q) /\ q[Len(p) + 1] = n
  BY <1>1, <1>2, <1>3
<1>4. ASSUME IsPrefix(p, q), Len(p) < Len(q), q[Len(p) + 1] = n
      PROVE  IsPrefix(a, q)
  <2>1. ASSUME NEW i \in 1 .. Len(a)
        PROVE  a[i] = q[i]
    <3>1. CASE i = Len(p) + 1
      BY <1>1, <1>4, <3>1
    <3>2. CASE i \in 1 .. Len(p)
      BY <1>1, <1>2, <1>4, <3>2
    <3> QED
      BY <1>1, <3>1, <3>2
  <2> QED
    BY <1>1, <1>2, <1>4, <2>1
<1>5. IsPrefix(p, a)
  BY <1>1, <1>2
<1>6. IsPrefix(q, p) => IsPrefix(q, a)
  BY <1>1, <1>5, PrefixOn
<1> QED
  BY <1>1, <1>2, <1>3, <1>4, <1>5, <1>6 DEF a

\* There is no link on the way to a directory that is reached without one.
LEMMA PlainPrefix ==
    ASSUME NEW t \in Tree, NEW p \in Paths, NEW q \in Paths, IsPrefix(p, q), PlainDir(t, q)
    PROVE  PlainDir(t, p)
<1> DEFINE Clear == {x \in Paths : PlainDir(t, x) /\ IsPrefix(p, x) => PlainDir(t, p)}
<1>1. <<>> \in Clear
  <2>1. <<>> \in Paths
    BY DEF Paths
  <2>2. ASSUME IsPrefix(p, <<>>)
        PROVE  p = <<>>
    <3>1. Len(p) <= Len(<<>>) /\ Len(p) \in Nat
      BY <2>1, <2>2, PrefixParts
    <3>2. Len(p) = 0
      BY <3>1
    <3> QED
      BY <3>2 DEF Paths
  <2> QED
    BY <2>1, <2>2
<1>2. ASSUME NEW x \in Paths, x # <<>>, Front(x) \in Clear
      PROVE  x \in Clear
  <2> SUFFICES ASSUME PlainDir(t, x), IsPrefix(p, x), p # x
               PROVE  PlainDir(t, p)
    OBVIOUS
  <2>1. IsPrefix(p, Front(x))
    BY <1>2, PrefixFront
  <2>2. PlainDir(t, Front(x))
    BY <1>2, StepUp DEF PlainDir, IsDirectory
  <2> QED
    BY <1>2, <2>1, <2>2
<1> HIDE DEF Clear
<1>3. Paths \subseteq Clear
  BY <1>1, <1>2, EverySequence DEF Paths
<1>4. q \in Clear
  BY <1>3
<1> QED
  BY <1>4 DEF Clear

\* Then there are directories all the way down to it.
LEMMA OnTheWay ==
    ASSUME NEW t \in Tree, NEW q \in Paths, There(t, q),
           NEW a \in Paths, IsPrefix(a, q), Len(a) < Len(q)
    PROVE  LET e == t[Where(t, a)][q[Len(a) + 1]]
           IN  /\ PlainDir(t, a) /\ q[Len(a) + 1] \in Names /\ e.kind # "absent"
               /\ Len(q) # Len(a) + 1 => e.kind = "dir"
               /\ Len(q) = Len(a) + 1 => q = Append(a, q[Len(a) + 1])
<1> DEFINE n == q[Len(a) + 1]
           c == Append(a, n)
<1>1. Len(a) \in Nat /\ Len(q) \in Nat /\ n \in Names
  BY DEF Paths
<1>2. IsPrefix(a, Front(q))
  BY PrefixFront DEF There
<1>3. PlainDir(t, a)
  BY <1>2, PrefixFront, PlainPrefix DEF There
<1>4. c \in Paths /\ c # <<>> /\ IsPrefix(c, q) /\ Front(c) = a /\ Last(c) = n /\ Len(c) = Len(a) + 1
  BY <1>1, PrefixAppended, FrontOfAppend DEF Paths
<1>5. CASE c = q
  BY <1>1, <1>3, <1>4, <1>5 DEF There
<1>6. CASE c # q
  <2>1. PlainDir(t, c)
    BY <1>4, <1>6, PrefixFront, PlainPrefix DEF There
  <2>2. NoLinks(t)[c].entry.kind = "dir" /\ NoLinks(t)[c].st = "ok"
    BY <2>1 DEF PlainDir, IsDirectory
  <2>3. NoLinks(t)[c] = Resolved(Append(NoLinks(t)[a].path, n), t[Where(t, a)][n])
    BY <1>4, <2>2, StepUp DEF Where
  <2>4. t[Where(t, a)][n].kind = "dir"
    BY <2>2, <2>3 DEF Resolved
  <2>5. Len(q) # Len(a) + 1
    BY <1>4, <1>6, SamePath
  <2> QED
    BY <1>1, <1>3, <2>4, <2>5
<1> QED
  BY <1>5, <1>6

\* And they are those that a directory on the way leads to.
LEMMA NextDown ==
    ASSUME NEW t \in Tree, NEW p \in Paths, p # <<>>, PlainDir(t, p)
    PROVE  /\ Front(p) \in Paths /\ PlainDir(t, Front(p)) /\ Where(t, Front(p)) \in Dirs /\ Last(p) \in Names
           /\ t[Where(t, Front(p))][Last(p)] = DirEntry(Where(t, p)) /\ Where(t, p) \in Dirs
<1>1. NoLinks(t)[p].st = "ok" /\ NoLinks(t)[p].entry.kind = "dir"
  BY DEF PlainDir, IsDirectory
<1>2. /\ Front(p) \in Paths /\ Last(p) \in Names /\ PlainDir(t, Front(p)) /\ Where(t, Front(p)) \in Dirs
      /\ NoLinks(t)[p] = Resolved(Append(NoLinks(t)[Front(p)].path, Last(p)), t[Where(t, Front(p))][Last(p)])
  BY <1>1, StepUp DEF Where
<1>3. NoLinks(t)[p].entry = t[Where(t, Front(p))][Last(p)]
  BY <1>2 DEF Resolved
<1>4. NoLinks(t)[p].entry = DirEntry(Where(t, p)) /\ Where(t, p) \in Dirs
  BY Sight DEF Where
<1> QED
  BY <1>2, <1>3, <1>4

\* ---------------------------------------------------------------- the stack
\* A stack with another frame on top.
LEMMA NewTop ==
    ASSUME NEW s \in Seq(Frames), s # <<>>, NEW f \in Frames
    PROVE  LET u == Append(Front(s), f)
           IN  /\ u \in Seq(Frames) /\ u # <<>> /\ Len(u) = Len(s) /\ Last(s) \in Frames
               /\ Len(s) \in Nat \ {0} /\ Last(s) = s[Len(s)]
               /\ \A i \in 1 .. Len(s) : u[i] = IF i = Len(s) THEN f ELSE s[i]
<1>1. /\ Front(s) \in Seq(Frames) /\ Last(s) \in Frames /\ Len(s) \in Nat \ {0}
      /\ Len(Front(s)) = Len(s) - 1 /\ Last(s) = s[Len(s)]
      /\ \A i \in 1 .. Len(s) - 1 : Front(s)[i] = s[i]
  BY FrontAndLast
<1> HIDE DEF Frames
<1> DEFINE u == Append(Front(s), f)
<1>2. u \in Seq(Frames) /\ Len(u) = Len(Front(s)) + 1
  BY <1>1
<1>3. \A i \in 1 .. Len(u) : u[i] = IF i = Len(u) THEN f ELSE Front(s)[i]
  BY <1>1, <1>2
<1> HIDE DEF u
<1>4. u # <<>> /\ Len(u) = Len(s)
  BY <1>1, <1>2
<1>5. \A i \in 1 .. Len(s) : u[i] = IF i = Len(s) THEN f ELSE s[i]
  BY <1>1, <1>3, <1>4
<1> QED
  BY <1>1, <1>2, <1>4, <1>5 DEF u

\* And with one frame more.
LEMMA OneMore ==
    ASSUME NEW s \in Seq(Frames), NEW f \in Frames
    PROVE  LET u == Append(s, f)
           IN  /\ u \in Seq(Frames) /\ u # <<>> /\ Len(u) = Len(s) + 1 /\ Len(s) \in Nat
               /\ \A i \in 1 .. Len(s) : u[i] = s[i]
               /\ u[Len(s) + 1] = f
<1> HIDE DEF Frames
<1> QED
  OBVIOUS

\* Or one less.
LEMMA OneLess ==
    ASSUME NEW s \in Seq(Frames), s # <<>>
    PROVE  LET u == Front(s)
           IN  /\ u \in Seq(Frames) /\ Len(u) = Len(s) - 1 /\ Len(s) \in Nat \ {0}
               /\ \A i \in 1 .. Len(s) - 1 : u[i] = s[i]
               /\ Len(s) > 1 => u # <<>>
<1>1. /\ Front(s) \in Seq(Frames) /\ Len(s) \in Nat \ {0} /\ Len(Front(s)) = Len(s) - 1
      /\ \A i \in 1 .. Len(s) - 1 : Front(s)[i] = s[i]
  BY FrontAndLast
<1> HIDE DEF Frames
<1>2. Len(s) > 1 => Front(s) # <<>>
  BY <1>1
<1> QED
  BY <1>1, <1>2

\* What a frame has.
LEMMA FrameParts ==
    ASSUME NEW f \in Frames
    PROVE  f.path \in Paths /\ f.todo \subseteq Listed /\ f.at \in {"read", "entries", "rmdir"}
BY DEF Frames

\* What the frames of a stack are.
LEMMA FramesOf ==
    ASSUME NEW s \in Seq(Frames), NEW i \in 1 .. Len(s)
    PROVE  /\ s[i] \in Frames /\ s[i].path \in Paths /\ s[i].todo \subseteq Listed
           /\ Len(s) \in Nat /\ i \in Nat
<1>1. s[i] \in Frames /\ Len(s) \in Nat /\ i \in Nat
  <2> HIDE DEF Frames
  <2> QED
    OBVIOUS
<1> QED
  BY <1>1, FrameParts

\* A frame with less to do, or with what was read, on top.
LEMMA TopChanged ==
    ASSUME NEW s \in Seq(Frames), s # <<>>, NEW p \in Paths, StackInv(s, p),
           NEW f \in Frames, f.path = Last(s).path
    PROVE  StackInv(Append(Front(s), f), p)
<1> DEFINE u == Append(Front(s), f)
<1>1. /\ u \in Seq(Frames) /\ u # <<>> /\ Len(u) = Len(s) /\ Len(s) \in Nat \ {0} /\ Last(s) = s[Len(s)]
      /\ \A i \in 1 .. Len(s) : u[i] = IF i = Len(s) THEN f ELSE s[i]
  BY NewTop
<1> HIDE DEF u
<1>2. \A i \in 1 .. Len(s) : u[i].path = s[i].path
  BY <1>1
<1>3. u[1].path = p
  BY <1>1, <1>2 DEF StackInv
<1>4. \A i \in 1 .. Len(u) : ~IsPathDenied(u[i].path) /\ Len(u[i].path) = Len(p) + i - 1
  BY <1>1, <1>2 DEF StackInv
<1>5. ASSUME NEW i \in 2 .. Len(u)
      PROVE  /\ Front(u[i].path) = u[i - 1].path /\ u[i - 1].at = "entries"
             /\ [name |-> Last(u[i].path), kind |-> "dir"] \notin u[i - 1].todo
  <2>1. i \in 1 .. Len(s) /\ i - 1 \in 1 .. Len(s) /\ i \in 2 .. Len(s) /\ i - 1 # Len(s)
    BY <1>1
  <2>2. u[i].path = s[i].path /\ u[i - 1] = s[i - 1]
    BY <1>1, <1>2, <2>1
  <2> QED
    BY <2>1, <2>2 DEF StackInv
<1>6. ASSUME NEW i \in 1 .. Len(u), NEW j \in 1 .. Len(u), i <= j
      PROVE  IsPrefix(u[i].path, u[j].path)
  BY <1>1, <1>2, <1>6 DEF StackInv
<1>7. StackInv(u, p)
  BY <1>3, <1>4, <1>5, <1>6 DEF StackInv
<1> QED
  BY <1>7 DEF u

\* A stack without its last frame.
LEMMA TopGone ==
    ASSUME NEW s \in Seq(Frames), s # <<>>, NEW p \in Paths, StackInv(s, p)
    PROVE  StackInv(Front(s), p)
<1> DEFINE u == Front(s)
<1>1. /\ u \in Seq(Frames) /\ Len(u) = Len(s) - 1 /\ Len(s) \in Nat \ {0}
      /\ \A i \in 1 .. Len(s) - 1 : u[i] = s[i]
  BY OneLess
<1> HIDE DEF u
<1>2. \A i \in 1 .. Len(u) : i \in 1 .. Len(s) /\ u[i] = s[i]
  BY <1>1
<1>3. u # <<>> => u[1].path = p
  <2>1. u # <<>> => 1 \in 1 .. Len(u)
    <3> HIDE DEF Frames
    <3> QED
      BY <1>1
  <2>2. s[1].path = p
    BY DEF StackInv
  <2> QED
    BY <1>2, <2>1, <2>2
<1>4. ASSUME NEW i \in 2 .. Len(u)
      PROVE  /\ Front(u[i].path) = u[i - 1].path /\ u[i - 1].at = "entries"
             /\ [name |-> Last(u[i].path), kind |-> "dir"] \notin u[i - 1].todo
  <2>1. i \in 1 .. Len(u) /\ i - 1 \in 1 .. Len(u) /\ i \in 2 .. Len(s)
    BY <1>1
  <2> QED
    BY <1>2, <2>1 DEF StackInv
<1>5. \A i \in 1 .. Len(u) : ~IsPathDenied(u[i].path) /\ Len(u[i].path) = Len(p) + i - 1
  BY <1>2 DEF StackInv
<1>6. \A i, j \in 1 .. Len(u) : i <= j => IsPrefix(u[i].path, u[j].path)
  BY <1>2 DEF StackInv
<1>7. StackInv(u, p)
  BY <1>3, <1>4, <1>5, <1>6 DEF StackInv
<1> QED
  BY <1>7 DEF u

\* The frame that a directory is entered with.
Entered(s, e) == Append(Append(Front(s), [Last(s) EXCEPT !.todo = @ \ {e}]),
                        Frame(Append(Last(s).path, e.name)))

\* It is the next frame of the stack.
LEMMA EnteredStack ==
    ASSUME NEW s \in Seq(Frames), s # <<>>, NEW e \in Last(s).todo
    PROVE  LET u == Entered(s, e)
               f == [Last(s) EXCEPT !.todo = @ \ {e}]
               child == Append(Last(s).path, e.name)
           IN  /\ u \in Seq(Frames) /\ u # <<>> /\ Len(u) = Len(s) + 1 /\ Len(s) \in Nat \ {0}
               /\ \A i \in 1 .. Len(s) : u[i] = IF i = Len(s) THEN f ELSE s[i]
               /\ u[Len(s) + 1] = Frame(child) /\ child \in Paths /\ child # <<>>
               /\ Front(child) = Last(s).path /\ Last(child) = e.name /\ Len(child) = Len(Last(s).path) + 1
               /\ f \in Frames /\ f.path = Last(s).path /\ f.todo = Last(s).todo \ {e} /\ f.at = Last(s).at
               /\ Frame(child) \in Frames /\ Last(s) = s[Len(s)] /\ e.name \in Names
<1> DEFINE f == [Last(s) EXCEPT !.todo = @ \ {e}]
           child == Append(Last(s).path, e.name)
           v == Append(Front(s), f)
<1>1. Last(s) \in Frames /\ Last(s).path \in Paths /\ e.name \in Names
  <2>1. Last(s) \in Frames
    BY FrontAndLast
  <2>2. Last(s).path \in Paths /\ Last(s).todo \subseteq Listed
    BY <2>1, FrameParts
  <2> QED
    BY <2>1, <2>2 DEF Listed
<1>2. f \in Frames /\ f.path = Last(s).path /\ f.todo = Last(s).todo \ {e} /\ f.at = Last(s).at
  BY <1>1 DEF Frames
<1>3. child \in Paths /\ child # <<>> /\ Front(child) = Last(s).path /\ Last(child) = e.name
  BY <1>1, PathAppended, FrontOfAppend DEF Paths
<1>4. Len(child) = Len(Last(s).path) + 1
  BY <1>1 DEF Paths
<1>5. Frame(child) \in Frames
  BY <1>3 DEF Frame, Frames
<1> HIDE DEF f, child
<1>6. /\ v \in Seq(Frames) /\ Len(v) = Len(s) /\ Len(s) \in Nat \ {0} /\ Last(s) = s[Len(s)]
      /\ \A i \in 1 .. Len(s) : v[i] = IF i = Len(s) THEN f ELSE s[i]
  BY <1>2, NewTop
<1> DEFINE u == Append(v, Frame(child))
<1> HIDE DEF v
<1>7. /\ u \in Seq(Frames) /\ u # <<>> /\ Len(u) = Len(v) + 1
      /\ \A i \in 1 .. Len(v) : u[i] = v[i]
      /\ u[Len(v) + 1] = Frame(child)
  BY <1>5, <1>6, OneMore
<1>8. u = Entered(s, e)
  BY DEF Entered, v, f, child
<1> HIDE DEF u
<1>9. /\ Len(u) = Len(s) + 1 /\ \A i \in 1 .. Len(s) : u[i] = IF i = Len(s) THEN f ELSE s[i]
      /\ u[Len(s) + 1] = Frame(child)
  BY <1>6, <1>7
<1> QED
  BY <1>1, <1>2, <1>3, <1>4, <1>5, <1>6, <1>7, <1>8, <1>9 DEF f, child

\* And it is one name further down.
LEMMA EnteredOn ==
    ASSUME NEW s \in Seq(Frames), s # <<>>, NEW p \in Paths, StackInv(s, p), Last(s).at = "entries",
           NEW e \in Last(s).todo, e.kind = "dir", ~IsPathDenied(Append(Last(s).path, e.name))
    PROVE  StackInv(Entered(s, e), p)
<1> DEFINE u == Entered(s, e)
           f == [Last(s) EXCEPT !.todo = @ \ {e}]
           child == Append(Last(s).path, e.name)
<1>1. /\ u \in Seq(Frames) /\ u # <<>> /\ Len(u) = Len(s) + 1 /\ Len(s) \in Nat \ {0}
      /\ \A i \in 1 .. Len(s) : u[i] = IF i = Len(s) THEN f ELSE s[i]
      /\ u[Len(s) + 1] = Frame(child) /\ child \in Paths /\ child # <<>>
      /\ Front(child) = Last(s).path /\ Last(child) = e.name /\ Len(child) = Len(Last(s).path) + 1
      /\ f \in Frames /\ f.path = Last(s).path /\ f.todo = Last(s).todo \ {e} /\ f.at = Last(s).at
      /\ Frame(child) \in Frames /\ Last(s) = s[Len(s)] /\ e.name \in Names
  BY EnteredStack
<1>2. Last(s).path \in Paths /\ e \in Listed
  BY <1>1, FramesOf
<1>3. ~IsPathDenied(child) /\ Frame(child).path = child
  BY DEF Frame
<1>4. \A q \in Paths : IsPrefix(q, Last(s).path) => IsPrefix(q, child)
  BY <1>1, <1>2, PrefixAppended
<1> HIDE DEF u, f, child
<1>5. \A i \in 1 .. Len(s) : u[i].path = s[i].path
  BY <1>1
<1>6. u[Len(s) + 1].path = child
  BY <1>1, <1>3
<1>7. u[1].path = p
  BY <1>1, <1>5 DEF StackInv
<1>8. ASSUME NEW i \in 1 .. Len(u)
      PROVE  ~IsPathDenied(u[i].path) /\ Len(u[i].path) = Len(p) + i - 1
  <2>1. CASE i = Len(s) + 1
    <3>1. Len(Last(s).path) = Len(p) + Len(s) - 1 /\ Len(p) \in Nat
      BY <1>1 DEF StackInv, Paths
    <3> QED
      BY <1>1, <1>3, <1>6, <2>1, <3>1
  <2>2. CASE i \in 1 .. Len(s)
    BY <1>5, <2>2 DEF StackInv
  <2> QED
    BY <1>1, <2>1, <2>2
<1>9. ASSUME NEW i \in 1 .. Len(u), NEW j \in 1 .. Len(u), i <= j
      PROVE  IsPrefix(u[i].path, u[j].path)
  <2>1. CASE j \in 1 .. Len(s)
    <3>1. i \in 1 .. Len(s)
      BY <1>9, <2>1
    <3> QED
      BY <1>5, <1>9, <2>1, <3>1 DEF StackInv
  <2>2. CASE j = Len(s) + 1 /\ i = j
    BY <1>1, <1>6, <2>2, PrefixParts
  <2>3. CASE j = Len(s) + 1 /\ i \in 1 .. Len(s)
    <3>1. IsPrefix(s[i].path, Last(s).path) /\ s[i].path \in Paths
      <4>1. Len(s) \in 1 .. Len(s) /\ i <= Len(s)
        BY <1>1, <2>3
      <4> QED
        BY <1>1, <2>3, <4>1, FramesOf DEF StackInv
    <3> QED
      BY <1>4, <1>5, <1>6, <2>3, <3>1
  <2> QED
    BY <1>1, <1>9, <2>1, <2>2, <2>3
<1>10. ASSUME NEW i \in 2 .. Len(u)
       PROVE  /\ Front(u[i].path) = u[i - 1].path /\ u[i - 1].at = "entries"
              /\ [name |-> Last(u[i].path), kind |-> "dir"] \notin u[i - 1].todo
  <2>1. CASE i = Len(s) + 1
    <3>1. u[i - 1] = f
      BY <1>1, <2>1
    <3>2. e = [name |-> e.name, kind |-> "dir"]
      BY <1>2 DEF Listed
    <3> QED
      BY <1>1, <1>6, <2>1, <3>1, <3>2
  <2>2. CASE i \in 2 .. Len(s)
    <3>1. i \in 1 .. Len(s) /\ i - 1 \in 1 .. Len(s) /\ i - 1 # Len(s)
      BY <1>1, <2>2
    <3>2. u[i].path = s[i].path /\ u[i - 1] = s[i - 1]
      BY <1>1, <1>5, <3>1
    <3> QED
      BY <2>2, <3>2 DEF StackInv
  <2> QED
    BY <1>1, <2>1, <2>2
<1>11. StackInv(u, p)
  BY <1>7, <1>8, <1>9, <1>10 DEF StackInv
<1> QED
  BY <1>11 DEF u

\* ------------------------------------------------------------- without links
\* A path that ends in a directory, in terms of what it leads to.
LEMMA Seeing ==
    ASSUME NEW t \in Tree, NEW p \in Paths, PlainDir(t, p)
    PROVE  /\ Where(t, p) \in Dirs /\ NoLinks(t)[p] = Resolved(p, DirEntry(Where(t, p)))
           /\ Canonicalize(t, p) = Resolved(p, DirEntry(Where(t, p))) /\ DirectoryAt(t, p) = DirEntry(Where(t, p))
           /\ \A n \in Names : /\ Holder(t, Append(p, n)) = DirEntry(Where(t, p))
                               /\ Lstat(t, Append(p, n)) = t[Where(t, p)][n]
BY Sight DEF Where

\* Where a directory's own path leads to.
LEMMA SeeingDown ==
    ASSUME NEW t \in Tree, NEW p \in Paths, PlainDir(t, p), NEW n \in Names,
           t[Where(t, p)][n].kind = "dir"
    PROVE  PlainDir(t, Append(p, n)) /\ NoLinks(t)[Append(p, n)] = Resolved(Append(p, n), t[Where(t, p)][n])
<1>1. NoLinks(t)[Append(p, n)] = Resolved(Append(p, n), t[Where(t, p)][n])
  BY StepDown DEF Where
<1> QED
  BY <1>1 DEF PlainDir, IsDirectory, Resolved

\* Reading a directory.
LEMMA ReadThere ==
    ASSUME NEW t \in Tree, NEW p \in Paths, PlainDir(t, p)
    PROVE  ReadDir(t, p) = [st |-> "ok", entries |-> EntriesOf(t, Where(t, p))]
<1>1. Canonicalize(t, p).st = "ok" /\ Canonicalize(t, p).entry.kind = "dir"
      /\ Canonicalize(t, p).entry.ino = Where(t, p)
  <2>1. Canonicalize(t, p) = Resolved(p, DirEntry(Where(t, p)))
    BY Seeing
  <2> QED
    BY <2>1 DEF Resolved, DirEntry
<1> QED
  BY <1>1 DEF ReadDir, ListingOf

\* What is read of a directory.
LEMMA EntriesRead ==
    ASSUME NEW t \in Tree, NEW d \in Dirs
    PROVE  /\ EntriesOf(t, d) \subseteq Listed
           /\ \A e \in EntriesOf(t, d) : t[d][e.name].kind = e.kind
           /\ \A n \in Names : t[d][n].kind # "absent" => \E e \in EntriesOf(t, d) : e.name = n
<1>1. \A n \in Names : t[d][n].kind \in {"absent", "file", "dir", "link"}
  BY TreeEntry, EntryKinds
<1>2. ASSUME NEW e \in EntriesOf(t, d)
      PROVE  e \in Listed /\ t[d][e.name].kind = e.kind
  <2>1. PICK n \in Names : t[d][n].kind # "absent" /\ e = [name |-> n, kind |-> t[d][n].kind]
    BY DEF EntriesOf
  <2>2. t[d][n].kind \in {"file", "dir", "link"}
    BY <1>1, <2>1
  <2> QED
    BY <2>1, <2>2 DEF Listed
<1>3. ASSUME NEW n \in Names, t[d][n].kind # "absent"
      PROVE  \E e \in EntriesOf(t, d) : e.name = n
  <2>1. [name |-> n, kind |-> t[d][n].kind] \in EntriesOf(t, d)
    BY <1>3 DEF EntriesOf
  <2> QED
    BY <2>1
<1> QED
  BY <1>2, <1>3

\* Directories that stay keep the walk on its path.
LEMMA PlainKept ==
    ASSUME NEW t \in Tree, NEW u \in Tree,
           \A d \in Dirs, n \in Names : t[d][n].kind = "dir" => u[d][n] = t[d][n],
           NEW s \in Seq(Frames), NEW p \in Paths, p # <<>>, PlainOn(t, s, p)
    PROVE  PlainOn(u, s, p)
<1>1. \A q \in Paths : PlainDir(t, q) => PlainDir(u, q) /\ Where(u, q) = Where(t, q)
  BY Grown DEF Where
<1>2. PlainDir(u, Front(p))
  BY <1>1, PathParts DEF PlainOn
<1>3. ASSUME NEW i \in 1 .. Len(s)
      PROVE  PlainDir(u, s[i].path) /\ StillThere(u, s[i])
  <2>1. s[i].path \in Paths /\ s[i].todo \subseteq Listed /\ PlainDir(t, s[i].path) /\ StillThere(t, s[i])
    BY FramesOf DEF PlainOn
  <2>2. PlainDir(u, s[i].path) /\ Where(u, s[i].path) = Where(t, s[i].path) /\ Where(t, s[i].path) \in Dirs
    BY <1>1, <2>1, Seeing
  <2>3. ASSUME NEW e \in s[i].todo, e.kind = "dir"
        PROVE  u[Where(u, s[i].path)][e.name].kind = "dir"
    <3>1. e.name \in Names /\ t[Where(t, s[i].path)][e.name].kind = "dir"
      BY <2>1, <2>3 DEF Listed, StillThere
    <3> QED
      BY <2>2, <3>1
  <2> QED
    BY <2>2, <2>3 DEF StillThere
<1> QED
  BY <1>2, <1>3 DEF PlainOn

\* The frame at the top can change.
LEMMA PlainTop ==
    ASSUME NEW t \in Tree, NEW s \in Seq(Frames), s # <<>>, NEW p \in Paths, PlainOn(t, s, p),
           NEW f \in Frames, f.path = Last(s).path, StillThere(t, f)
    PROVE  PlainOn(t, Append(Front(s), f), p)
<1> DEFINE u == Append(Front(s), f)
<1>1. /\ u \in Seq(Frames) /\ Len(u) = Len(s) /\ Len(s) \in Nat \ {0} /\ Last(s) = s[Len(s)]
      /\ \A i \in 1 .. Len(s) : u[i] = IF i = Len(s) THEN f ELSE s[i]
  BY NewTop
<1> HIDE DEF u
<1>2. ASSUME NEW i \in 1 .. Len(u)
      PROVE  PlainDir(t, u[i].path) /\ StillThere(t, u[i])
  <2>1. u[i] = IF i = Len(s) THEN f ELSE s[i]
    BY <1>1
  <2> QED
    BY <1>1, <2>1 DEF PlainOn
<1>3. PlainOn(t, u, p)
  BY <1>2 DEF PlainOn
<1> QED
  BY <1>3 DEF u

\* Or go.
LEMMA PlainGone ==
    ASSUME NEW t \in Tree, NEW s \in Seq(Frames), s # <<>>, NEW p \in Paths, PlainOn(t, s, p)
    PROVE  PlainOn(t, Front(s), p)
<1> DEFINE u == Front(s)
<1>1. /\ Len(u) = Len(s) - 1 /\ Len(s) \in Nat \ {0}
      /\ \A i \in 1 .. Len(s) - 1 : u[i] = s[i]
  BY OneLess
<1> HIDE DEF u
<1>2. ASSUME NEW i \in 1 .. Len(u)
      PROVE  PlainDir(t, u[i].path) /\ StillThere(t, u[i])
  <2>1. u[i] = s[i] /\ i \in 1 .. Len(s)
    BY <1>1
  <2> QED
    BY <2>1 DEF PlainOn
<1>3. PlainOn(t, u, p)
  BY <1>2 DEF PlainOn
<1> QED
  BY <1>3 DEF u

\* A directory that was read is entered without a link.
LEMMA PlainEntered ==
    ASSUME NEW t \in Tree, NEW s \in Seq(Frames), s # <<>>, NEW p \in Paths, PlainOn(t, s, p),
           NEW e \in Last(s).todo, e.kind = "dir"
    PROVE  PlainOn(t, Entered(s, e), p)
<1> DEFINE u == Entered(s, e)
           f == [Last(s) EXCEPT !.todo = @ \ {e}]
           child == Append(Last(s).path, e.name)
<1>1. /\ u \in Seq(Frames) /\ u # <<>> /\ Len(u) = Len(s) + 1 /\ Len(s) \in Nat \ {0}
      /\ \A i \in 1 .. Len(s) : u[i] = IF i = Len(s) THEN f ELSE s[i]
      /\ u[Len(s) + 1] = Frame(child) /\ child \in Paths
      /\ f.path = Last(s).path /\ f.todo = Last(s).todo \ {e}
      /\ Last(s) = s[Len(s)] /\ e.name \in Names
  BY EnteredStack, ZenonT(40)
<1>2. /\ Last(s).path \in Paths /\ PlainDir(t, Last(s).path) /\ StillThere(t, Last(s))
  BY <1>1, FramesOf DEF PlainOn
<1>3. PlainDir(t, child)
  BY <1>1, <1>2, SeeingDown DEF StillThere
<1>4. StillThere(t, f)
  BY <1>1, <1>2 DEF StillThere
<1>5. PlainDir(t, Frame(child).path) /\ StillThere(t, Frame(child))
  BY <1>3 DEF Frame, StillThere
<1> HIDE DEF u, f, child
<1>6. ASSUME NEW i \in 1 .. Len(u)
      PROVE  PlainDir(t, u[i].path) /\ StillThere(t, u[i])
  <2>1. CASE i = Len(s) + 1
    BY <1>1, <1>5, <2>1
  <2>2. CASE i = Len(s)
    BY <1>1, <1>2, <1>4, <2>2
  <2>3. CASE i \in 1 .. Len(s) /\ i # Len(s)
    BY <1>1, <2>3 DEF PlainOn
  <2> QED
    BY <1>1, <2>1, <2>2, <2>3
<1>7. PlainOn(t, u, p)
  BY <1>6 DEF PlainOn
<1> QED
  BY <1>7 DEF u

\* A directory has one path.
LEMMA OneWhere ==
    ASSUME NEW t \in Tree, WellShaped(t), NEW p \in Paths, NEW q \in Paths,
           PlainDir(t, p), PlainDir(t, q), Where(t, p) = Where(t, q)
    PROVE  p = q
<1>1. NoLinks(t)[p].entry = DirEntry(Where(t, p)) /\ NoLinks(t)[q].entry = DirEntry(Where(t, q))
  BY Sight DEF Where
<1> QED
  BY <1>1, OnePath

\* Directories that are no deeper than the one that is removed stay.
LEMMA Remains ==
    ASSUME NEW t \in Tree, WellShaped(t), NEW b \in Paths, PlainDir(t, b), NEW n \in Names,
           NEW p \in Paths, PlainDir(t, p), Len(p) <= Len(b)
    PROVE  LET u == Put(t, Where(t, b), n, Absent)
           IN  PlainDir(u, p) /\ Where(u, p) = Where(t, p)
<1> DEFINE u == Put(t, Where(t, b), n, Absent)
           Same == {x \in Paths : PlainDir(t, x) /\ Len(x) <= Len(b) =>
                                    PlainDir(u, x) /\ Where(u, x) = Where(t, x)}
<1>1. /\ Where(t, b) \in Dirs /\ u \in Tree
      /\ \A k \in Dirs, m \in Names : u[k][m] = IF k = Where(t, b) /\ m = n THEN Absent ELSE t[k][m]
  BY Seeing, PutTree, EntriesMade
<1> HIDE DEF u
<1>2. <<>> \in Same
  <2>1. <<>> \in Paths
    BY DEF Paths
  <2>2. NoLinks(u)[<<>>] = NoLinks(t)[<<>>]
    BY <1>1, <2>1, NoLinksUnfolds
  <2> QED
    BY <2>1, <2>2 DEF PlainDir, Where
<1>3. ASSUME NEW x \in Paths, x # <<>>, Front(x) \in Same
      PROVE  x \in Same
  <2> SUFFICES ASSUME PlainDir(t, x), Len(x) <= Len(b)
               PROVE  PlainDir(u, x) /\ Where(u, x) = Where(t, x)
    OBVIOUS
  <2> DEFINE y == Front(x)
             d == Where(t, y)
  <2>1. /\ y \in Paths /\ PlainDir(t, y) /\ d \in Dirs /\ Last(x) \in Names
        /\ t[d][Last(x)] = DirEntry(Where(t, x)) /\ Where(t, x) \in Dirs
    BY <1>3, NextDown
  <2>2. Len(y) = Len(x) - 1 /\ Len(x) \in Nat /\ Len(b) \in Nat
    BY <1>3, FrontAndLast, SMTT(20) DEF Paths
  <2>3. PlainDir(u, y) /\ Where(u, y) = d
    BY <1>3, <2>1, <2>2
  <2>4. d # Where(t, b)
    <3> SUFFICES ASSUME d = Where(t, b)
                 PROVE  FALSE
      OBVIOUS
    <3>2. y = b
      BY <2>1, OneWhere
    <3> QED
      BY <2>2, <3>2
  <2>5. u[d][Last(x)] = DirEntry(Where(t, x))
    BY <1>1, <2>1, <2>4
  <2>6. Append(y, Last(x)) = x
    BY <1>3, SeqOfFront
  <2>7. u[Where(u, y)][Last(x)].kind = "dir" /\ u[Where(u, y)][Last(x)] = DirEntry(Where(t, x))
    BY <2>3, <2>5 DEF DirEntry
  <2> HIDE DEF d, y
  <2>8. /\ PlainDir(u, Append(y, Last(x)))
        /\ NoLinks(u)[Append(y, Last(x))] = Resolved(Append(y, Last(x)), u[Where(u, y)][Last(x)])
    BY <1>1, <2>1, <2>3, <2>7, SeeingDown
  <2>9. PlainDir(u, x) /\ NoLinks(u)[x] = Resolved(x, DirEntry(Where(t, x)))
    BY <2>6, <2>7, <2>8
  <2> QED
    BY <2>9 DEF Where, Resolved, DirEntry
<1> HIDE DEF Same
<1>4. Paths \subseteq Same
  BY <1>2, <1>3, EverySequence DEF Paths
<1>5. p \in Same
  BY <1>4
<1> QED
  BY <1>5 DEF Same, u

\* The directory at the end of the walk.
LEMMA TopSeen ==
    ASSUME NEW t \in Tree, NEW p \in Paths, p # <<>>, NEW s \in Seq(Frames), s # <<>>,
           StackInv(s, p), PlainOn(t, s, p)
    PROVE  LET q == Last(s).path
           IN  /\ Last(s) \in Frames /\ q \in Paths /\ q # <<>> /\ Len(q) = Len(p) + Len(s) - 1
               /\ Len(s) \in Nat \ {0} /\ Last(s) = s[Len(s)] /\ Len(p) \in Nat \ {0}
               /\ PlainDir(t, q) /\ StillThere(t, Last(s)) /\ Where(t, q) \in Dirs
               /\ Front(q) \in Paths /\ Last(q) \in Names /\ PlainDir(t, Front(q)) /\ Where(t, Front(q)) \in Dirs
               /\ Len(Front(q)) = Len(q) - 1 /\ Append(Front(q), Last(q)) = q
               /\ t[Where(t, Front(q))][Last(q)] = DirEntry(Where(t, q))
<1> DEFINE q == Last(s).path
<1>1. Last(s) \in Frames /\ Len(s) \in Nat \ {0} /\ Last(s) = s[Len(s)]
  BY FrontAndLast
<1>2. q \in Paths /\ Len(q) = Len(p) + Len(s) - 1 /\ PlainDir(t, q) /\ StillThere(t, Last(s))
  BY <1>1, FrameParts DEF StackInv, PlainOn
<1>3. Len(p) \in Nat \ {0}
  BY DEF Paths
<1> HIDE DEF q
<1>4. Len(q) \in Nat \ {0} /\ q # <<>>
  BY <1>1, <1>2, <1>3
<1> QED
  BY <1>1, <1>2, <1>3, <1>4, NextDown, SeqOfFront, PrefixFront, Seeing, SMTT(20) DEF q

\* Once it is removed, the rest of the walk is on its path.
LEMMA PlainAfter ==
    ASSUME NEW t \in Tree, WellShaped(t), NEW p \in Paths, p # <<>>, NEW s \in Seq(Frames), s # <<>>,
           StackInv(s, p), PlainOn(t, s, p)
    PROVE  LET q == Last(s).path
           IN  PlainOn(Put(t, Where(t, Front(q)), Last(q), Absent), Front(s), p)
<1> DEFINE q == Last(s).path
           b == Front(q)
           n == Last(q)
           u == Put(t, Where(t, b), n, Absent)
           f == Front(s)
<1>1. /\ q \in Paths /\ Len(q) = Len(p) + Len(s) - 1 /\ Len(s) \in Nat \ {0} /\ Len(p) \in Nat \ {0}
      /\ Last(s) = s[Len(s)] /\ b \in Paths /\ n \in Names /\ PlainDir(t, b) /\ Where(t, b) \in Dirs
      /\ Len(b) = Len(q) - 1
  BY TopSeen
<1>2. /\ f \in Seq(Frames) /\ Len(f) = Len(s) - 1 /\ \A i \in 1 .. Len(s) - 1 : f[i] = s[i]
  BY OneLess
<1>3. \A k \in Dirs, m \in Names : u[k][m] = IF k = Where(t, b) /\ m = n THEN Absent ELSE t[k][m]
  BY <1>1, PutTree, EntriesMade, SMTT(20)
<1> HIDE DEF f
<1>4. \A x \in Paths : PlainDir(t, x) /\ Len(x) <= Len(b) => PlainDir(u, x) /\ Where(u, x) = Where(t, x)
  BY <1>1, Remains
<1>5. PlainDir(u, Front(p))
  <2>1. Front(p) \in Paths /\ Len(Front(p)) = Len(p) - 1 /\ PlainDir(t, Front(p))
    BY PrefixFront DEF PlainOn
  <2> QED
    BY <1>1, <1>4, <2>1
<1> HIDE DEF u
<1>6. ASSUME NEW i \in 1 .. Len(f)
      PROVE  PlainDir(u, f[i].path) /\ StillThere(u, f[i])
  <2>1. i \in 1 .. Len(s) /\ i \in 1 .. Len(s) - 1 /\ f[i] = s[i] /\ i + 1 \in 2 .. Len(s)
    BY <1>1, <1>2
  <2>2. /\ s[i].path \in Paths /\ s[i].todo \subseteq Listed /\ Len(s[i].path) = Len(p) + i - 1
        /\ PlainDir(t, s[i].path) /\ StillThere(t, s[i]) /\ Where(t, s[i].path) \in Dirs
    BY <2>1, FramesOf, Seeing DEF StackInv, PlainOn
  <2>3. Len(s[i].path) <= Len(b)
    BY <1>1, <2>1, <2>2, SMTT(40)
  <2>4. PlainDir(u, s[i].path) /\ Where(u, s[i].path) = Where(t, s[i].path)
    BY <1>4, <2>2, <2>3
  <2>5. ASSUME NEW e \in s[i].todo, e.kind = "dir"
        PROVE  u[Where(t, s[i].path)][e.name].kind = "dir"
    <3>1. e.name \in Names /\ t[Where(t, s[i].path)][e.name].kind = "dir" /\ e = [name |-> e.name, kind |-> "dir"]
      BY <2>2, <2>5 DEF Listed, StillThere
    <3>2. ASSUME Where(t, s[i].path) = Where(t, b), e.name = n
          PROVE  FALSE
      <4>1. s[i].path = b
        BY <1>1, <2>2, <3>2, OneWhere
      <4>2. i = Len(s) - 1
        <5>1. Len(b) = Len(p) + i - 1
          BY <2>2, <4>1
        <5>2. Len(b) = Len(p) + Len(s) - 1 - 1 /\ Len(s) \in Nat /\ Len(p) \in Nat /\ i \in Nat
          BY <1>1, <2>1
        <5> HIDE DEF b
        <5> QED
          BY <5>1, <5>2
      <4>3. [name |-> Last(s[i + 1].path), kind |-> "dir"] \notin s[(i + 1) - 1].todo
        BY <2>1 DEF StackInv
      <4>4. s[i + 1] = Last(s) /\ (i + 1) - 1 = i
        BY <1>1, <2>1, <4>2
      <4> QED
        BY <2>5, <3>1, <3>2, <4>3, <4>4
    <3> QED
      BY <1>3, <2>2, <3>1, <3>2
  <2> QED
    BY <2>1, <2>4, <2>5 DEF StillThere
<1>7. PlainOn(u, f, p)
  BY <1>5, <1>6 DEF PlainOn
<1> QED
  BY <1>7 DEF u, f

\* ------------------------------------------------------------ what is ahead
\* No frame but the last has something ahead in the directory of the last.
LEMMA Sideways ==
    ASSUME NEW t \in Tree, NEW p \in Paths, p # <<>>, NEW s \in Seq(Frames), s # <<>>,
           StackInv(s, p), PlainOn(t, s, p), NEW i \in 1 .. Len(s), i # Len(s), AsRead(t, s[i]),
           NEW q \in Paths, IsPrefix(Last(s).path, q)
    PROVE  ~Open(s[i], q)
<1> DEFINE a == s[i].path
           c == s[i + 1].path
<1>1. /\ Len(s) \in Nat \ {0} /\ Last(s) = s[Len(s)] /\ Last(s).path \in Paths
  BY TopSeen
<1>2. i \in Nat /\ i + 1 \in 1 .. Len(s) /\ i + 1 \in 2 .. Len(s) /\ Len(s) \in 1 .. Len(s) /\ i + 1 <= Len(s)
      /\ (i + 1) - 1 = i
  BY <1>1
<1>3. a \in Paths /\ c \in Paths /\ s[i].todo \subseteq Listed
  BY <1>2, FramesOf
<1>4. Len(a) = Len(p) + i - 1 /\ Len(c) = Len(p) + (i + 1) - 1 /\ Len(p) \in Nat \ {0}
  <2>1. Len(p) \in Nat \ {0}
    BY TopSeen
  <2> QED
    BY <1>2, <2>1 DEF StackInv
<1>5. IsPrefix(c, s[Len(s)].path)
  BY <1>2 DEF StackInv
<1>6. /\ Front(c) = a /\ s[i].at = "entries" /\ [name |-> Last(c), kind |-> "dir"] \notin s[i].todo
  BY <1>2 DEF StackInv
<1>7. IsPrefix(c, q)
  BY <1>1, <1>3, <1>5, PrefixOn
<1>8. PlainDir(t, c)
  BY <1>2 DEF PlainOn
<1> HIDE DEF c, a
<1>9. Len(c) = Len(a) + 1 /\ c # <<>> /\ Last(c) = c[Len(c)]
  <2>1. Len(c) = Len(a) + 1 /\ Len(c) # 0
    BY <1>2, <1>4
  <2>2. c # <<>>
    BY <2>1
  <2> QED
    BY <1>3, <2>1, <2>2, FrontAndLast DEF Paths
<1>10. q[Len(a) + 1] = Last(c)
  <2>1. Len(c) \in 1 .. Len(c) /\ \A k \in 1 .. Len(c) : c[k] = q[k]
    BY <1>2, <1>3, <1>4, <1>7, PrefixParts, SMTT(40)
  <2> QED
    BY <1>9, <2>1
<1>11. t[Where(t, a)][Last(c)].kind = "dir"
  <2>1. t[Where(t, a)][Last(c)] = DirEntry(Where(t, c))
    BY <1>3, <1>6, <1>8, <1>9, NextDown
  <2> QED
    BY <2>1 DEF DirEntry
<1>12. ASSUME NEW e \in s[i].todo, e.name = q[Len(a) + 1]
       PROVE  FALSE
  <2>1. e.kind = "dir"
    BY <1>10, <1>11, <1>12 DEF AsRead, a
  <2>2. e = [name |-> Last(c), kind |-> "dir"]
    BY <1>3, <1>10, <1>12, <2>1 DEF Listed
  <2> QED
    BY <1>6, <1>12, <2>2
<1> QED
  BY <1>6, <1>12 DEF Open, a

\* What is ahead, by the frames at the top.
LEMMA AheadTop ==
    ASSUME NEW s \in Seq(Frames), s # <<>>, NEW f \in Frames
    PROVE  \A q : /\ Ahead(s, q) <=> Open(Last(s), q) \/ Ahead(Front(s), q)
                  /\ Ahead(Append(Front(s), f), q) <=> Open(f, q) \/ Ahead(Front(s), q)
<1> DEFINE b == Front(s)
           u == Append(b, f)
<1>1. /\ u \in Seq(Frames) /\ Len(u) = Len(s) /\ Len(s) \in Nat \ {0} /\ Last(s) = s[Len(s)]
      /\ \A i \in 1 .. Len(s) : u[i] = IF i = Len(s) THEN f ELSE s[i]
  BY NewTop
<1>2. /\ b \in Seq(Frames) /\ Len(b) = Len(s) - 1 /\ \A i \in 1 .. Len(s) - 1 : b[i] = s[i]
  BY OneLess
<1> HIDE DEF u, b
<1>3. \A i \in 1 .. Len(s) : i = Len(s) \/ i \in 1 .. Len(b)
  BY <1>1, <1>2
<1>4. Len(s) \in 1 .. Len(s) /\ \A i \in 1 .. Len(b) : i \in 1 .. Len(s) /\ i # Len(s) /\ b[i] = s[i]
  BY <1>1, <1>2
<1>5. ASSUME NEW q
      PROVE  /\ Ahead(s, q) <=> Open(Last(s), q) \/ Ahead(b, q)
             /\ Ahead(u, q) <=> Open(f, q) \/ Ahead(b, q)
  <2>1. Ahead(s, q) => Open(Last(s), q) \/ Ahead(b, q)
    BY <1>1, <1>3, <1>4 DEF Ahead
  <2>2. Open(Last(s), q) \/ Ahead(b, q) => Ahead(s, q)
    BY <1>1, <1>4 DEF Ahead
  <2>3. Ahead(u, q) => Open(f, q) \/ Ahead(b, q)
    BY <1>1, <1>3, <1>4 DEF Ahead
  <2>4. Open(f, q) \/ Ahead(b, q) => Ahead(u, q)
    BY <1>1, <1>4 DEF Ahead
  <2> QED
    BY <2>1, <2>2, <2>3, <2>4
<1> QED
  BY <1>5 DEF u, b

\* The same when a directory is entered.
LEMMA AheadEntered ==
    ASSUME NEW s \in Seq(Frames), s # <<>>, NEW e \in Last(s).todo
    PROVE  \A q : Ahead(Entered(s, e), q) <=>
                    \/ Open(Frame(Append(Last(s).path, e.name)), q)
                    \/ Open([Last(s) EXCEPT !.todo = @ \ {e}], q)
                    \/ Ahead(Front(s), q)
<1> DEFINE f == [Last(s) EXCEPT !.todo = @ \ {e}]
           g == Frame(Append(Last(s).path, e.name))
           v == Append(Front(s), f)
           w == Append(v, g)
<1>1. f \in Frames /\ g \in Frames
  BY EnteredStack
<1> HIDE DEF f, g
<1>2. v \in Seq(Frames)
  BY <1>1, NewTop
<1>3. \A q : Ahead(v, q) <=> Open(f, q) \/ Ahead(Front(s), q)
  BY <1>1, AheadTop
<1> HIDE DEF v
<1>4. w \in Seq(Frames) /\ w # <<>>
  BY <1>1, <1>2, OneMore
<1>5. Last(w) = g /\ Front(w) = v
  BY <1>1, <1>2, FrontOfAppend
<1> HIDE DEF w
<1>6. \A q : Ahead(w, q) <=> Open(Last(w), q) \/ Ahead(Front(w), q)
  BY <1>1, <1>4, AheadTop
<1>7. w = Entered(s, e)
  BY DEF w, v, f, g, Entered
<1> QED
  BY <1>3, <1>5, <1>6, <1>7 DEF f, g

\* The frames, of which each has been read.
LEMMA ReadFrames ==
    ASSUME NEW t \in Tree, NEW s \in Seq(FramesRead(t)), NEW i \in 1 .. Len(s)
    PROVE  AsRead(t, s[i]) /\ s \in Seq(Frames) /\ s[i] \in Frames
<1>1. s[i] \in FramesRead(t)
  <2> HIDE DEF FramesRead
  <2> QED
    OBVIOUS
<1>2. s \in Seq(Frames)
  BY SeqMonotonic DEF FramesRead
<1> QED
  BY <1>1, <1>2 DEF FramesRead

\* A stack of frames that have been read.
LEMMA AllRead ==
    ASSUME NEW t \in Tree, NEW s \in Seq(Frames), \A i \in 1 .. Len(s) : AsRead(t, s[i])
    PROVE  s \in Seq(FramesRead(t))
<1>1. \A i \in 1 .. Len(s) : s[i] \in FramesRead(t)
  BY FramesOf DEF FramesRead
<1>2. Len(s) \in Nat /\ s = [i \in 1 .. Len(s) |-> s[i]]
  <2> HIDE DEF Frames
  <2> QED
    OBVIOUS
<1> QED
  BY <1>1, <1>2, IsASeq

\* So nothing is ahead in other frames than the last of what is in its directory.
LEMMA OnlyTop ==
    ASSUME NEW t \in Tree, NEW p \in Paths, p # <<>>, NEW s \in Seq(FramesRead(t)), s # <<>>,
           StackInv(s, p), PlainOn(t, s, p), NEW q \in Paths, IsPrefix(Last(s).path, q)
    PROVE  ~Ahead(Front(s), q)
<1>1. s \in Seq(Frames)
  BY SeqMonotonic DEF FramesRead
<1>2. /\ Len(Front(s)) = Len(s) - 1 /\ Len(s) \in Nat \ {0} /\ \A i \in 1 .. Len(s) - 1 : Front(s)[i] = s[i]
  BY <1>1, OneLess
<1>3. ASSUME NEW i \in 1 .. Len(s) - 1
      PROVE  ~Open(s[i], q)
  <2>1. i \in 1 .. Len(s) /\ i # Len(s)
    BY <1>2
  <2>2. AsRead(t, s[i])
    BY <2>1, ReadFrames
  <2> QED
    BY <1>1, <2>1, <2>2, Sideways
<1> QED
  BY <1>2, <1>3 DEF Ahead

\* A count that is not exceeded.
LEMMA CountLess ==
    ASSUME NEW S, NEW T, T \subseteq S, NEW n \in Int, AtMost(S, n)
    PROVE  AtMost(T, n)
BY FS_Subset, FS_CardinalityType DEF AtMost

\* Nor with one more, or one less.
LEMMA CountOne ==
    ASSUME NEW S, NEW T, NEW x, NEW n \in Int, AtMost(S, n)
    PROVE  /\ T \subseteq S \cup {x} => AtMost(T, n + 1)
           /\ x \in S => n >= 1 /\ (T \subseteq S \ {x} => AtMost(T, n - 1))
<1>1. IsFiniteSet(S) /\ Cardinality(S) \in Nat /\ Cardinality(S) <= n
  BY FS_CardinalityType DEF AtMost
<1>2. /\ IsFiniteSet(S \cup {x}) /\ Cardinality(S \cup {x}) <= n + 1
  BY <1>1, FS_AddElement
<1>3. ASSUME x \in S
      PROVE  IsFiniteSet(S \ {x}) /\ Cardinality(S \ {x}) <= n - 1
  BY <1>1, <1>3, FS_RemoveElement
<1>4. ASSUME x \in S
      PROVE  n >= 1
  <2>1. Cardinality(S) # 0
    BY <1>1, <1>4, FS_EmptySet
  <2> QED
    BY <1>1, <2>1
<1>5. T \subseteq S \cup {x} => AtMost(T, n + 1)
  BY <1>1, <1>2, CountLess DEF AtMost
<1>6. ASSUME x \in S, T \subseteq S \ {x}
      PROVE  AtMost(T, n - 1)
  BY <1>1, <1>3, <1>6, CountLess DEF AtMost
<1> QED
  BY <1>4, <1>5, <1>6

\* Nothing at all is below a frame that has been read to the end.
LEMMA Worked ==
    ASSUME NEW f, f.at = "rmdir" \/ (f.at = "entries" /\ f.todo = {})
    PROVE  \A q : ~Open(f, q)
BY DEF Open

\* An entry that is counted is no longer ahead, nor is what is below it.
LEMMA CountedOff ==
    ASSUME NEW t \in Tree, NEW f \in Frames, AsRead(t, f), f.at = "entries", NEW e \in f.todo, NEW q \in Paths
    PROVE  LET g == [f EXCEPT !.todo = @ \ {e}]
               child == Append(f.path, e.name)
           IN  /\ Open(f, q) <=> Open(g, q) \/ IsPrefix(child, q)
               /\ ~(Open(g, q) /\ IsPrefix(child, q))
<1> DEFINE g == [f EXCEPT !.todo = @ \ {e}]
           child == Append(f.path, e.name)
           n == q[Len(f.path) + 1]
           On == IsPrefix(f.path, q) /\ Len(f.path) < Len(q)
<1>1. f.path \in Paths /\ f.todo \subseteq Listed /\ e.name \in Names
  BY FrameParts DEF Listed
<1>2. g.path = f.path /\ g.todo = f.todo \ {e} /\ g.at = "entries"
  BY DEF Frames
<1>3. \A a, b \in f.todo : a.name = b.name => a = b
  <2> SUFFICES ASSUME NEW a \in f.todo, NEW b \in f.todo, a.name = b.name
               PROVE  a = b
    OBVIOUS
  <2>1. a.kind = b.kind
    BY DEF AsRead
  <2>2. a = [name |-> a.name, kind |-> a.kind] /\ b = [name |-> b.name, kind |-> b.kind]
    BY <1>1 DEF Listed
  <2> QED
    BY <2>1, <2>2
<1>4. IsPrefix(child, q) <=> On /\ n = e.name
  BY <1>1, PrefixAppended
<1>5. Open(f, q) <=> On /\ \E a \in f.todo : a.name = n
  BY DEF Open
<1> HIDE DEF g, child
<1>6. Open(g, q) <=> On /\ \E a \in f.todo \ {e} : a.name = n
  BY <1>2 DEF Open
<1> HIDE DEF On, n
<1>7. Open(f, q) <=> Open(g, q) \/ IsPrefix(child, q)
  BY <1>3, <1>4, <1>5, <1>6
<1>8. ~(Open(g, q) /\ IsPrefix(child, q))
  BY <1>3, <1>4, <1>6
<1> QED
  BY <1>7, <1>8 DEF g, child

\* What is below the target is a descendant of what is in it.
LEMMA BeneathParts ==
    ASSUME NEW t \in Tree, NEW p \in Paths, NEW q \in Beneath(t, p)
    PROVE  q \in Paths /\ There(t, q) /\ IsPrefix(p, q) /\ q # p /\ Len(p) < Len(q)
<1>1. q \in Paths /\ There(t, q) /\ IsPrefix(p, q) /\ q # p
  BY DEF Beneath
<1>2. Len(p) <= Len(q) /\ Len(p) \in Nat /\ Len(q) \in Nat
  BY <1>1, PrefixParts
<1> QED
  BY <1>1, <1>2, SamePath

\* A directory is read: what was ahead in it is now ahead by name.
LEMMA AheadRead ==
    ASSUME NEW t \in Tree, NEW p \in Paths, NEW f \in Frames, f.at = "read", PlainDir(t, f.path),
           NEW q \in Beneath(t, p)
    PROVE  LET g == [f EXCEPT !.todo = EntriesOf(t, Where(t, f.path)), !.at = "entries"]
           IN  g \in Frames /\ g.path = f.path /\ AsRead(t, g) /\ StillThere(t, g) /\ (Open(f, q) <=> Open(g, q))
<1> DEFINE a == f.path
           g == [f EXCEPT !.todo = EntriesOf(t, Where(t, f.path)), !.at = "entries"]
<1>1. a \in Paths /\ Where(t, a) \in Dirs
  BY FrameParts, Seeing
<1>2. /\ EntriesOf(t, Where(t, a)) \subseteq Listed
      /\ \A e \in EntriesOf(t, Where(t, a)) : t[Where(t, a)][e.name].kind = e.kind
      /\ \A n \in Names : t[Where(t, a)][n].kind # "absent" => \E e \in EntriesOf(t, Where(t, a)) : e.name = n
  BY <1>1, EntriesRead
<1> HIDE DEF a
<1>3. g \in Frames /\ g.path = a /\ g.todo = EntriesOf(t, Where(t, a)) /\ g.at = "entries"
  BY <1>2 DEF Frames, a
<1> HIDE DEF g
<1>4. AsRead(t, g) /\ StillThere(t, g)
  BY <1>2, <1>3 DEF AsRead, StillThere
<1>5. q \in Paths /\ There(t, q)
  BY BeneathParts
<1>6. ASSUME IsPrefix(a, q), Len(a) < Len(q)
      PROVE  \E e \in g.todo : e.name = q[Len(a) + 1]
  <2>1. q[Len(a) + 1] \in Names /\ t[Where(t, a)][q[Len(a) + 1]].kind # "absent"
    BY <1>1, <1>5, <1>6, OnTheWay
  <2> QED
    BY <1>2, <1>3, <2>1
<1>7. Open(f, q) <=> Open(g, q)
  BY <1>3, <1>6 DEF Open, a
<1> QED
  BY <1>3, <1>4, <1>7 DEF g, a

\* An entry is counted and, if it is a directory, entered.
LEMMA AheadCounted ==
    ASSUME NEW t \in Tree, NEW p \in Paths, p # <<>>, NEW s \in Seq(FramesRead(t)), s # <<>>,
           StackInv(s, p), PlainOn(t, s, p), Last(s).at = "entries", NEW e \in Last(s).todo,
           NEW q \in Beneath(t, p)
    PROVE  LET child == Append(Last(s).path, e.name)
               u == Append(Front(s), [Last(s) EXCEPT !.todo = @ \ {e}])
           IN  /\ e.kind # "dir" => (Ahead(u, q) <=> Ahead(s, q) /\ q # child)
               /\ e.kind = "dir" => (Ahead(Entered(s, e), q) <=> Ahead(s, q) /\ q # child)
<1> DEFINE f == Last(s)
           a == f.path
           child == Append(a, e.name)
           g == [f EXCEPT !.todo = @ \ {e}]
           u == Append(Front(s), g)
           v == Entered(s, e)
<1>1. s \in Seq(Frames)
  BY SeqMonotonic DEF FramesRead
<1>2. f \in Frames /\ a \in Paths /\ Len(s) \in Nat \ {0} /\ f = s[Len(s)] /\ PlainDir(t, a) /\ Where(t, a) \in Dirs
  BY <1>1, TopSeen
<1>3. AsRead(t, f) /\ e \in Listed
  <2>1. Len(s) \in 1 .. Len(s)
    BY <1>2
  <2> QED
    BY <1>2, <2>1, ReadFrames, FrameParts
<1>4. q \in Paths /\ There(t, q)
  BY BeneathParts
<1>5. g \in Frames /\ child \in Paths /\ e.name \in Names
  BY <1>1, EnteredStack
<1>6. /\ Open(f, q) <=> Open(g, q) \/ IsPrefix(child, q)
      /\ ~(Open(g, q) /\ IsPrefix(child, q))
  BY <1>2, <1>3, <1>4, CountedOff
<1>7. IsPrefix(child, q) => IsPrefix(a, q) /\ Len(a) < Len(q) /\ q[Len(a) + 1] = e.name
  BY <1>2, <1>4, <1>5, PrefixAppended
<1>8. IsPrefix(child, q) => ~Ahead(Front(s), q)
  BY <1>1, <1>4, <1>7, OnlyTop
<1>9. IsPrefix(child, q) /\ e.kind # "dir" => q = child
  <2> SUFFICES ASSUME IsPrefix(child, q), e.kind # "dir"
               PROVE  q = child
    OBVIOUS
  <2>1. t[Where(t, a)][e.name].kind # "dir"
    BY <1>3 DEF AsRead
  <2>2. Len(q) = Len(a) + 1 /\ q = Append(a, e.name)
    BY <1>2, <1>4, <1>7, <2>1, OnTheWay
  <2> QED
    BY <2>2
<1>10. q = child => IsPrefix(child, q)
  BY <1>4, PrefixParts
<1>11. Open(Frame(child), q) <=> IsPrefix(child, q) /\ q # child
  <2>1. Open(Frame(child), q) <=> IsPrefix(child, q) /\ Len(child) < Len(q)
    BY DEF Open, Frame
  <2>2. Len(child) \in Nat /\ Len(q) \in Nat /\ (IsPrefix(child, q) => Len(child) <= Len(q))
    BY <1>4, <1>5, PrefixParts
  <2>3. IsPrefix(child, q) /\ Len(child) = Len(q) => q = child
    BY <1>4, <1>5, SamePath
  <2> QED
    BY <2>1, <2>2, <2>3
<1> HIDE DEF child
<1>12. /\ Ahead(s, q) <=> Open(f, q) \/ Ahead(Front(s), q)
       /\ Ahead(u, q) <=> Open(g, q) \/ Ahead(Front(s), q)
  BY <1>1, <1>5, AheadTop
<1>13. Ahead(v, q) <=> Open(Frame(child), q) \/ Open(g, q) \/ Ahead(Front(s), q)
  BY <1>1, AheadEntered DEF child
<1> HIDE DEF f, g, a, u, v
<1>14. e.kind # "dir" => (Ahead(u, q) <=> Ahead(s, q) /\ q # child)
  BY <1>6, <1>8, <1>9, <1>10, <1>12
<1>15. e.kind = "dir" => (Ahead(v, q) <=> Ahead(s, q) /\ q # child)
  BY <1>6, <1>8, <1>10, <1>11, <1>12, <1>13
<1> QED
  BY <1>14, <1>15 DEF f, g, a, u, v, child

\* Where less is left, less is below the target.
LEMMA BeneathLess ==
    ASSUME NEW t \in Tree, NEW u \in Tree, NEW p \in Paths,
           \A d \in Dirs, n \in Names : u[d][n].kind # "absent" => u[d][n] = t[d][n]
    PROVE  /\ Beneath(u, p) \subseteq Beneath(t, p)
           /\ \A x \in Paths : PlainDir(u, x) => PlainDir(t, x) /\ Where(t, x) = Where(u, x)
<1>1. ASSUME NEW x \in Paths, PlainDir(u, x)
      PROVE  PlainDir(t, x) /\ Where(t, x) = Where(u, x)
  <2>1. \A d \in Dirs, n \in Names : u[d][n].kind = "dir" => t[d][n] = u[d][n]
    OBVIOUS
  <2> QED
    BY <1>1, <2>1, Grown DEF Where
<1>2. ASSUME NEW q \in Beneath(u, p)
      PROVE  q \in Beneath(t, p)
  <2>1. q \in Paths /\ There(u, q) /\ IsPrefix(p, q) /\ q # p
    BY BeneathParts
  <2>2. q # <<>> /\ PlainDir(u, Front(q)) /\ u[Where(u, Front(q))][Last(q)].kind # "absent"
    BY <2>1 DEF There
  <2>3. Front(q) \in Paths /\ Last(q) \in Names /\ Where(u, Front(q)) \in Dirs
    BY <2>1, <2>2, PathParts, Seeing
  <2>4. There(t, q)
    BY <1>1, <2>2, <2>3 DEF There
  <2> QED
    BY <2>1, <2>4 DEF Beneath
<1> QED
  BY <1>1, <1>2

\* An entry that was read is below the target, and ahead.
LEMMA EntryAhead ==
    ASSUME NEW t \in Tree, NEW p \in Paths, p # <<>>, NEW s \in Seq(FramesRead(t)), s # <<>>,
           StackInv(s, p), PlainOn(t, s, p), Last(s).at = "entries", NEW e \in Last(s).todo
    PROVE  LET child == Append(Last(s).path, e.name)
           IN  /\ child \in Beneath(t, p) /\ Ahead(s, child)
               /\ Lstat(t, child) = t[Where(t, Last(s).path)][e.name] /\ Lstat(t, child).kind = e.kind
               /\ Holder(t, child) = DirEntry(Where(t, Last(s).path)) /\ e \in Listed
<1> DEFINE f == Last(s)
           a == f.path
           child == Append(a, e.name)
<1>1. s \in Seq(Frames)
  BY SeqMonotonic DEF FramesRead
<1>2. /\ f \in Frames /\ a \in Paths /\ Len(s) \in Nat \ {0} /\ f = s[Len(s)] /\ PlainDir(t, a) /\ Where(t, a) \in Dirs
      /\ Len(s) \in 1 .. Len(s) /\ 1 \in 1 .. Len(s) /\ 1 <= Len(s)
  BY <1>1, TopSeen
<1>3. AsRead(t, f) /\ e \in Listed /\ e.name \in Names /\ e.kind # "absent"
  <2>1. AsRead(t, f) /\ e \in Listed
    BY <1>2, ReadFrames, FrameParts
  <2> QED
    BY <2>1 DEF Listed
<1>4. IsPrefix(p, a)
  BY <1>2 DEF StackInv
<1>5. /\ child \in Paths /\ child # <<>> /\ Front(child) = a /\ Last(child) = e.name /\ Len(child) = Len(a) + 1
      /\ IsPrefix(p, child) /\ Len(a) \in Nat
      /\ \A q \in Paths : IsPrefix(child, q) => IsPrefix(a, q) /\ Len(a) < Len(q) /\ q[Len(a) + 1] = e.name
  BY <1>2, <1>3, <1>4, PrefixAppended, FrontOfAppend DEF Paths
<1>6. p # child
  <2>1. Len(p) <= Len(a) /\ Len(p) \in Nat
    BY <1>2, <1>4, PrefixParts
  <2> QED
    BY <1>5, <2>1
<1>7. t[Where(t, a)][e.name].kind = e.kind
  BY <1>3 DEF AsRead
<1>8. There(t, child)
  BY <1>2, <1>3, <1>5, <1>7 DEF There
<1>9. child \in Beneath(t, p)
  BY <1>5, <1>6, <1>8 DEF Beneath
<1>10. IsPrefix(child, child)
  BY <1>5, PrefixParts
<1>11. Open(f, child)
  BY <1>5, <1>10 DEF Open
<1>12. Ahead(s, child)
  BY <1>2, <1>11 DEF Ahead
<1>13. Lstat(t, child) = t[Where(t, a)][e.name] /\ Holder(t, child) = DirEntry(Where(t, a))
  BY <1>2, <1>3, Seeing
<1> QED
  BY <1>3, <1>7, <1>9, <1>12, <1>13

\* What is known while nothing is counted.
LEMMA KnowsSame ==
    ASSUME NEW t, NEW w, NEW s, NEW u, NEW p, NEW k \in Nat,
           Beneath(w, p) \subseteq Beneath(t, p),
           \A q \in Beneath(w, p) : Ahead(s, q) <=> Ahead(u, q),
           \A q \in Beneath(w, p) : (\E i \in 1 .. Len(s) : s[i].path = q) => \E i \in 1 .. Len(u) : u[i].path = q
    PROVE  /\ ScanKnows(t, s, p, k) => ScanKnows(w, u, p, k)
           /\ DeleteKnows(t, s, p, k) => DeleteKnows(w, u, p, k)
<1>1. Seen(w, u, p) \subseteq Seen(t, s, p) /\ Left(w, u, p) \subseteq Left(t, s, p)
  BY DEF Seen, Left
<1>2. ASSUME ScanKnows(t, s, p, k)
      PROVE  ScanKnows(w, u, p, k)
  BY <1>1, <1>2, CountLess DEF ScanKnows
<1>3. ASSUME DeleteKnows(t, s, p, k)
      PROVE  DeleteKnows(w, u, p, k)
  <2>1. AtMost(Left(w, u, p), MaxWalkEntries - k)
    BY <1>1, <1>3, CountLess, DeleteAssumption DEF DeleteKnows
  <2>2. \A q \in Beneath(w, p) : ~IsPathDenied(q) /\ (Ahead(u, q) \/ \E i \in 1 .. Len(u) : u[i].path = q)
    BY <1>3 DEF DeleteKnows
  <2> QED
    BY <2>1, <2>2 DEF DeleteKnows
<1> QED
  BY <1>2, <1>3

\* And when an entry is counted.
LEMMA KnowsCounted ==
    ASSUME NEW t, NEW w, NEW s, NEW u, NEW p, NEW k \in Nat, NEW x \in Beneath(t, p), Ahead(s, x),
           Beneath(w, p) \subseteq Beneath(t, p),
           \A q \in Beneath(w, p) : Ahead(u, q) <=> Ahead(s, q) /\ q # x,
           \A q \in Beneath(w, p) : q = x \/ (\E i \in 1 .. Len(s) : s[i].path = q) =>
                                    \E i \in 1 .. Len(u) : u[i].path = q
    PROVE  /\ ScanKnows(t, s, p, k) /\ ~IsPathDenied(x) => ScanKnows(w, u, p, k + 1)
           /\ DeleteKnows(t, s, p, k) => DeleteKnows(w, u, p, k + 1)
<1>1. Seen(w, u, p) \subseteq Seen(t, s, p) \cup {x} /\ Left(w, u, p) \subseteq Left(t, s, p) \ {x}
      /\ x \in Left(t, s, p)
  BY DEF Seen, Left
<1>2. ASSUME ScanKnows(t, s, p, k), ~IsPathDenied(x)
      PROVE  ScanKnows(w, u, p, k + 1)
  BY <1>1, <1>2, CountOne DEF ScanKnows
<1>3. ASSUME DeleteKnows(t, s, p, k)
      PROVE  DeleteKnows(w, u, p, k + 1)
  <2>1. AtMost(Left(w, u, p), (MaxWalkEntries - k) - 1)
    <3>1. MaxWalkEntries - k \in Int /\ AtMost(Left(t, s, p), MaxWalkEntries - k)
      BY <1>3, DeleteAssumption DEF DeleteKnows
    <3> QED
      BY <1>1, <3>1, CountOne
  <2>2. (MaxWalkEntries - k) - 1 = MaxWalkEntries - (k + 1)
    BY DeleteAssumption
  <2>3. \A q \in Beneath(w, p) : ~IsPathDenied(q) /\ (Ahead(u, q) \/ \E i \in 1 .. Len(u) : u[i].path = q)
    BY <1>3 DEF DeleteKnows
  <2> QED
    BY <2>1, <2>2, <2>3 DEF DeleteKnows
<1> QED
  BY <1>2, <1>3

\* The removal still has the budget for what is ahead of it, none of it denied.
LEMMA WithinBudget ==
    ASSUME NEW t, NEW s, NEW p, NEW k \in Nat, NEW x \in Beneath(t, p), Ahead(s, x), DeleteKnows(t, s, p, k)
    PROVE  k + 1 <= MaxWalkEntries /\ ~IsPathDenied(x)
<1>1. x \in Left(t, s, p) /\ MaxWalkEntries - k \in Int
  BY DeleteAssumption DEF Left
<1>2. MaxWalkEntries - k >= 1
  BY <1>1, CountOne DEF DeleteKnows
<1> QED
  BY <1>2, DeleteAssumption DEF DeleteKnows

\* The paths of the frames when the one at the top changes.
LEMMA PathsStay ==
    ASSUME NEW s \in Seq(Frames), s # <<>>, NEW f \in Frames, f.path = Last(s).path, NEW q
    PROVE  LET u == Append(Front(s), f)
           IN  (\E i \in 1 .. Len(s) : s[i].path = q) => \E i \in 1 .. Len(u) : u[i].path = q
<1> DEFINE u == Append(Front(s), f)
<1>1. /\ u \in Seq(Frames) /\ Len(u) = Len(s) /\ Len(s) \in Nat \ {0} /\ Last(s) = s[Len(s)]
      /\ \A i \in 1 .. Len(s) : u[i] = IF i = Len(s) THEN f ELSE s[i]
  BY NewTop
<1> HIDE DEF u
<1>2. \A i \in 1 .. Len(s) : u[i].path = s[i].path
  BY <1>1
<1>3. (\E i \in 1 .. Len(s) : s[i].path = q) => \E i \in 1 .. Len(u) : u[i].path = q
  BY <1>1, <1>2
<1> QED
  BY <1>3 DEF u

\* When a directory has been worked off, there is nothing in it.
LEMMA NothingLeft ==
    ASSUME NEW t \in Tree, NEW p \in Paths, p # <<>>, NEW s \in Seq(FramesRead(t)), s # <<>>,
           StackInv(s, p), PlainOn(t, s, p), NEW k, DeleteKnows(t, s, p, k),
           Last(s).at = "rmdir" \/ (Last(s).at = "entries" /\ Last(s).todo = {})
    PROVE  EntriesOf(t, Where(t, Last(s).path)) = {}
<1> DEFINE f == Last(s)
           a == f.path
<1>1. s \in Seq(Frames)
  BY SeqMonotonic DEF FramesRead
<1>2. /\ f \in Frames /\ a \in Paths /\ Len(s) \in Nat \ {0} /\ f = s[Len(s)] /\ PlainDir(t, a) /\ Where(t, a) \in Dirs
      /\ Len(s) \in 1 .. Len(s) /\ 1 \in 1 .. Len(s) /\ 1 <= Len(s) /\ Len(a) = Len(p) + Len(s) - 1
      /\ Len(p) \in Nat
  BY <1>1, TopSeen
<1>3. IsPrefix(p, a)
  BY <1>2 DEF StackInv
<1>4. ASSUME NEW n \in Names, t[Where(t, a)][n].kind # "absent"
      PROVE  FALSE
  <2> DEFINE q == Append(a, n)
  <2>1. /\ q \in Paths /\ q # <<>> /\ Front(q) = a /\ Last(q) = n /\ Len(q) = Len(a) + 1
        /\ IsPrefix(p, q) /\ IsPrefix(a, q)
    BY <1>2, <1>3, PrefixAppended, FrontOfAppend DEF Paths
  <2>2. p # q
    BY <1>2, <1>3, <2>1, PrefixFront
  <2>3. q \in Beneath(t, p)
    BY <1>2, <1>4, <2>1, <2>2 DEF Beneath, There
  <2>4. ~Ahead(s, q)
    BY <1>1, <1>2, <2>1, AheadTop, OnlyTop, Worked
  <2>5. ASSUME NEW i \in 1 .. Len(s)
        PROVE  s[i].path # q
    <3>1. Len(s[i].path) = Len(p) + i - 1
      BY DEF StackInv
    <3> QED
      BY <1>2, <2>1, <3>1
  <2> QED
    BY <2>3, <2>4, <2>5 DEF DeleteKnows
<1> QED
  BY <1>4 DEF EntriesOf

\* ----------------------------------------------------------- what a walk knows
\* All that is known of a walk while nobody else changes the tree.
Exact(t, s, p) == /\ t \in Tree /\ p \in Paths /\ p # <<>> /\ s \in Seq(FramesRead(t)) /\ s # <<>>
                  /\ StackInv(s, p) /\ PlainOn(t, s, p)

\* A walk begins.
LEMMA KnowsFirst ==
    ASSUME NEW t \in Tree, NEW p \in Paths
    PROVE  /\ <<Frame(p)>> \in Seq(FramesRead(t)) /\ <<Frame(p)>> \in Seq(Frames) /\ <<Frame(p)>> # <<>>
           /\ ~IsPathDenied(p) => StackInv(<<Frame(p)>>, p)
           /\ PlainDir(t, p) /\ PlainDir(t, Front(p)) => PlainOn(t, <<Frame(p)>>, p)
           /\ \A q \in Beneath(t, p) : Ahead(<<Frame(p)>>, q)
           /\ \A k \in Nat : ScanKnows(t, <<Frame(p)>>, p, k)
<1> DEFINE f == Frame(p)
           s == <<f>>
<1>1. f \in Frames /\ AsRead(t, f) /\ StillThere(t, f) /\ f.path = p /\ f.at = "read"
  BY DEF Frame, Frames, AsRead, StillThere
<1> HIDE DEF f
<1>2. f \in FramesRead(t)
  BY <1>1 DEF FramesRead
<1>3. s \in Seq(FramesRead(t)) /\ s \in Seq(Frames) /\ s # <<>> /\ Len(s) = 1 /\ s[1] = f
  <2> HIDE DEF Frames, FramesRead
  <2> QED
    BY <1>1, <1>2
<1> HIDE DEF s
<1>4. ~IsPathDenied(p) => StackInv(s, p)
  <2>1. Len(p) \in Nat /\ IsPrefix(p, p)
    BY PrefixParts
  <2>2. \A i \in 1 .. Len(s) : i = 1 /\ s[i].path = p
    BY <1>1, <1>3
  <2>3. \A i \in 2 .. Len(s) : FALSE
    BY <1>3
  <2> QED
    BY <1>1, <1>3, <2>1, <2>2, <2>3 DEF StackInv
<1>5. PlainDir(t, p) /\ PlainDir(t, Front(p)) => PlainOn(t, s, p)
  <2>1. \A i \in 1 .. Len(s) : s[i] = f
    BY <1>3
  <2> QED
    BY <1>1, <2>1 DEF PlainOn
<1>6. ASSUME NEW q \in Beneath(t, p)
      PROVE  Ahead(s, q)
  <2>1. Open(s[1], q) /\ 1 \in 1 .. Len(s)
    BY <1>1, <1>3, BeneathParts DEF Open
  <2> QED
    BY <2>1 DEF Ahead
<1>7. ASSUME NEW k \in Nat
      PROVE  ScanKnows(t, s, p, k)
  <2>1. Seen(t, s, p) = {}
    BY <1>6 DEF Seen
  <2> QED
    BY <2>1, FS_EmptySet DEF ScanKnows, AtMost
<1> QED
  BY <1>3, <1>4, <1>5, <1>6, <1>7 DEF s, f

\* The scan ends: everything has been counted, and the removal begins.
LEMMA KnowsScanned ==
    ASSUME NEW t, NEW s, NEW p, Exact(t, s, p), NEW k \in Nat, k <= MaxWalkEntries,
           ScanKnows(t, s, p, k), Len(s) = 1, Last(s).at = "entries", Last(s).todo = {}
    PROVE  DeleteKnows(t, <<Frame(p)>>, p, 0)
<1>1. t \in Tree /\ p \in Paths /\ s \in Seq(Frames) /\ s # <<>>
  BY SeqMonotonic DEF Exact, FramesRead
<1>2. Last(s) = s[1]
  BY <1>1, FrontAndLast
<1>3. \A q : ~Ahead(s, q)
  BY <1>2, Worked DEF Ahead
<1>4. Seen(t, s, p) = Beneath(t, p)
  BY <1>3 DEF Seen
<1>5. AtMost(Left(t, <<Frame(p)>>, p), k)
  <2>1. Left(t, <<Frame(p)>>, p) \subseteq Beneath(t, p)
    BY DEF Left
  <2> QED
    BY <1>4, <2>1, CountLess DEF ScanKnows
<1>6. AtMost(Left(t, <<Frame(p)>>, p), MaxWalkEntries - 0)
  <2>1. IsFiniteSet(Left(t, <<Frame(p)>>, p)) /\ Cardinality(Left(t, <<Frame(p)>>, p)) <= k
    BY <1>5 DEF AtMost
  <2>2. Cardinality(Left(t, <<Frame(p)>>, p)) \in Nat
    BY <2>1, FS_CardinalityType
  <2> QED
    BY <2>1, <2>2, DeleteAssumption DEF AtMost
<1>7. \A q \in Beneath(t, p) : ~IsPathDenied(q) /\ Ahead(<<Frame(p)>>, q)
  BY <1>1, <1>4, KnowsFirst DEF ScanKnows
<1> QED
  BY <1>6, <1>7 DEF DeleteKnows

\* A directory is read.
LEMMA KnowsRead ==
    ASSUME NEW t, NEW s, NEW p, Exact(t, s, p), NEW k \in Nat, Last(s).at = "read"
    PROVE  LET u == Append(Front(s), [Last(s) EXCEPT !.todo = EntriesOf(t, Where(t, Last(s).path)), !.at = "entries"])
           IN  /\ u \in Seq(FramesRead(t))
               /\ ScanKnows(t, s, p, k) => ScanKnows(t, u, p, k)
               /\ DeleteKnows(t, s, p, k) => DeleteKnows(t, u, p, k)
<1> DEFINE f == Last(s)
           g == [f EXCEPT !.todo = EntriesOf(t, Where(t, f.path)), !.at = "entries"]
           u == Append(Front(s), g)
<1>1. t \in Tree /\ p \in Paths /\ p # <<>> /\ s \in Seq(Frames) /\ s # <<>> /\ s \in Seq(FramesRead(t))
  BY SeqMonotonic DEF Exact, FramesRead
<1>2. f \in Frames /\ PlainDir(t, f.path)
  BY <1>1, TopSeen DEF Exact
<1>3. g \in Frames /\ g.path = f.path /\ AsRead(t, g)
  <2>1. f.path \in Paths /\ Where(t, f.path) \in Dirs
    BY <1>1, <1>2, FrameParts, Seeing
  <2>2. /\ EntriesOf(t, Where(t, f.path)) \subseteq Listed
        /\ \A e \in EntriesOf(t, Where(t, f.path)) : t[Where(t, f.path)][e.name].kind = e.kind
    BY <1>1, <2>1, EntriesRead
  <2> HIDE DEF f
  <2>3. g \in Frames /\ g.path = f.path /\ g.todo = EntriesOf(t, Where(t, f.path))
    BY <1>2, <2>2 DEF Frames
  <2> QED
    BY <2>2, <2>3 DEF AsRead
<1>4. \A q \in Beneath(t, p) : Open(f, q) <=> Open(g, q)
  BY <1>1, <1>2, AheadRead
<1>5. u \in Seq(FramesRead(t))
  <2>1. Front(s) \in Seq(FramesRead(t)) /\ g \in FramesRead(t)
    BY <1>1, <1>3, FrontAndLast DEF FramesRead
  <2> HIDE DEF FramesRead, g
  <2> QED
    BY <2>1
<1> HIDE DEF g
<1>6. \A q : (\E i \in 1 .. Len(s) : s[i].path = q) => \E i \in 1 .. Len(u) : u[i].path = q
  BY <1>1, <1>3, PathsStay
<1>7. \A q \in Beneath(t, p) : Ahead(s, q) <=> Ahead(u, q)
  BY <1>1, <1>3, <1>4, AheadTop
<1> HIDE DEF u
<1>8. /\ ScanKnows(t, s, p, k) => ScanKnows(t, u, p, k)
      /\ DeleteKnows(t, s, p, k) => DeleteKnows(t, u, p, k)
  BY <1>6, <1>7, KnowsSame
<1> QED
  BY <1>5, <1>8 DEF u, g, f

\* An entry is counted; a directory is entered.
LEMMA KnowsEntry ==
    ASSUME NEW t, NEW s, NEW p, Exact(t, s, p), NEW k \in Nat, Last(s).at = "entries", NEW e \in Last(s).todo,
           ~IsPathDenied(Append(Last(s).path, e.name))
    PROVE  LET u == Append(Front(s), [Last(s) EXCEPT !.todo = @ \ {e}])
               v == Entered(s, e)
           IN  /\ u \in Seq(FramesRead(t)) /\ v \in Seq(FramesRead(t))
               /\ ScanKnows(t, s, p, k) /\ e.kind # "dir" => ScanKnows(t, u, p, k + 1)
               /\ ScanKnows(t, s, p, k) /\ e.kind = "dir" => ScanKnows(t, v, p, k + 1)
               /\ DeleteKnows(t, s, p, k) /\ e.kind = "dir" => DeleteKnows(t, v, p, k + 1)
<1> DEFINE f == Last(s)
           child == Append(f.path, e.name)
           g == [f EXCEPT !.todo = @ \ {e}]
           u == Append(Front(s), g)
           v == Entered(s, e)
<1>1. t \in Tree /\ p \in Paths /\ p # <<>> /\ s \in Seq(Frames) /\ s # <<>> /\ s \in Seq(FramesRead(t))
  BY SeqMonotonic DEF Exact, FramesRead
<1>2. /\ v \in Seq(Frames) /\ Len(v) = Len(s) + 1 /\ Len(s) \in Nat \ {0}
      /\ \A i \in 1 .. Len(s) : v[i] = IF i = Len(s) THEN g ELSE s[i]
      /\ v[Len(s) + 1] = Frame(child) /\ child \in Paths
      /\ g \in Frames /\ g.path = f.path /\ g.todo = f.todo \ {e} /\ g.at = f.at
      /\ Frame(child) \in Frames /\ f = s[Len(s)]
  BY <1>1, EnteredStack, ZenonT(40)
<1>3. AsRead(t, g) /\ AsRead(t, Frame(child))
  <2>1. AsRead(t, f)
    BY <1>1, <1>2, ReadFrames
  <2> QED
    BY <1>2, <2>1 DEF AsRead, Frame
<1>4. child \in Beneath(t, p) /\ Ahead(s, child)
  BY <1>1, EntryAhead DEF Exact
<1>5. \A q \in Beneath(t, p) : /\ e.kind # "dir" => (Ahead(u, q) <=> Ahead(s, q) /\ q # child)
                               /\ e.kind = "dir" => (Ahead(v, q) <=> Ahead(s, q) /\ q # child)
  BY <1>1, AheadCounted DEF Exact
<1>6. u \in Seq(FramesRead(t)) /\ v \in Seq(FramesRead(t))
  <2>1. Front(s) \in Seq(FramesRead(t)) /\ g \in FramesRead(t) /\ Frame(child) \in FramesRead(t)
    BY <1>1, <1>2, <1>3, FrontAndLast DEF FramesRead
  <2>2. v = Append(u, Frame(child))
    BY DEF Entered
  <2> HIDE DEF FramesRead, g, child, v
  <2> QED
    BY <2>1, <2>2
<1> HIDE DEF v, u, child
<1>7. \A q : q = child \/ (\E i \in 1 .. Len(s) : s[i].path = q) => \E i \in 1 .. Len(v) : v[i].path = q
  <2>1. \A i \in 1 .. Len(s) : i \in 1 .. Len(v) /\ v[i].path = s[i].path
    <3> HIDE DEF f, g
    <3> QED
      BY <1>2
  <2>2. Len(s) + 1 \in 1 .. Len(v) /\ v[Len(s) + 1].path = child
    BY <1>2 DEF Frame
  <2> QED
    BY <2>1, <2>2
<1>8. ~IsPathDenied(child)
  BY DEF child
<1>9. ASSUME ScanKnows(t, s, p, k)
      PROVE  /\ e.kind # "dir" => ScanKnows(t, u, p, k + 1)
             /\ e.kind = "dir" => ScanKnows(t, v, p, k + 1)
  <2> DEFINE c == {child}
  <2>1. \A w : (\A q \in Beneath(t, p) : Ahead(w, q) <=> Ahead(s, q) /\ q # child) =>
                 Seen(t, w, p) \subseteq Seen(t, s, p) \cup {child}
    BY DEF Seen
  <2>2. \A w : Seen(t, w, p) \subseteq Seen(t, s, p) \cup {child} => ScanKnows(t, w, p, k + 1)
    BY <1>8, <1>9, CountOne DEF ScanKnows
  <2> QED
    BY <1>5, <2>1, <2>2
<1>10. ASSUME DeleteKnows(t, s, p, k), e.kind = "dir"
       PROVE  DeleteKnows(t, v, p, k + 1)
  BY <1>4, <1>5, <1>7, <1>10, KnowsCounted
<1> QED
  BY <1>6, <1>9, <1>10 DEF u, v, g, f

\* What the removal comes to is not denied, and within its budget.
LEMMA KnowsAllowed ==
    ASSUME NEW t, NEW s, NEW p, Exact(t, s, p), NEW k \in Nat, Last(s).at = "entries", NEW e \in Last(s).todo,
           DeleteKnows(t, s, p, k)
    PROVE  k + 1 <= MaxWalkEntries /\ ~IsPathDenied(Append(Last(s).path, e.name))
<1>1. Append(Last(s).path, e.name) \in Beneath(t, p) /\ Ahead(s, Append(Last(s).path, e.name))
  BY EntryAhead DEF Exact
<1> QED
  BY <1>1, WithinBudget

\* A directory has been worked off.
LEMMA KnowsWorked ==
    ASSUME NEW t, NEW s, NEW p, Exact(t, s, p), NEW k \in Nat, DeleteKnows(t, s, p, k),
           Last(s).at = "entries", Last(s).todo = {}
    PROVE  LET u == Append(Front(s), [Last(s) EXCEPT !.at = "rmdir"])
           IN  u \in Seq(FramesRead(t)) /\ DeleteKnows(t, u, p, k)
<1> DEFINE f == Last(s)
           g == [f EXCEPT !.at = "rmdir"]
           u == Append(Front(s), g)
<1>1. t \in Tree /\ s \in Seq(Frames) /\ s # <<>> /\ s \in Seq(FramesRead(t))
  BY SeqMonotonic DEF Exact, FramesRead
<1>2. f \in Frames
  BY <1>1, FrontAndLast
<1>3. g \in Frames /\ g.path = f.path /\ g.todo = {} /\ g.at = "rmdir"
  BY <1>2 DEF Frames
<1> HIDE DEF g
<1>4. g \in FramesRead(t)
  BY <1>3 DEF FramesRead, AsRead
<1>5. u \in Seq(FramesRead(t))
  <2>1. Front(s) \in Seq(FramesRead(t))
    BY <1>1, FrontAndLast
  <2> HIDE DEF FramesRead
  <2> QED
    BY <1>4, <2>1
<1>6. \A q : (\E i \in 1 .. Len(s) : s[i].path = q) => \E i \in 1 .. Len(u) : u[i].path = q
  BY <1>1, <1>3, PathsStay
<1>7. \A q : Ahead(s, q) <=> Ahead(u, q)
  <2>1. \A q : ~Open(f, q) /\ ~Open(g, q)
    BY <1>3, Worked
  <2> QED
    BY <1>1, <1>3, <2>1, AheadTop
<1> HIDE DEF u
<1>8. DeleteKnows(t, u, p, k)
  BY <1>6, <1>7, KnowsSame
<1> QED
  BY <1>5, <1>8 DEF u, g, f

\* The scan leaves a directory.
LEMMA KnowsLeft ==
    ASSUME NEW t, NEW s, NEW p, Exact(t, s, p), NEW k \in Nat, ScanKnows(t, s, p, k),
           Last(s).at = "entries", Last(s).todo = {}
    PROVE  Front(s) \in Seq(FramesRead(t)) /\ ScanKnows(t, Front(s), p, k)
<1>1. t \in Tree /\ s \in Seq(Frames) /\ s # <<>> /\ s \in Seq(FramesRead(t)) /\ Last(s) \in Frames
  BY SeqMonotonic, FrontAndLast DEF Exact, FramesRead
<1>2. Front(s) \in Seq(FramesRead(t))
  BY <1>1, FrontAndLast
<1>3. \A q : ~Open(Last(s), q)
  BY Worked
<1>4. \A q : Ahead(s, q) <=> Ahead(Front(s), q)
  BY <1>1, <1>3, AheadTop
<1>5. Seen(t, Front(s), p) \subseteq Seen(t, s, p)
  BY <1>4 DEF Seen
<1>6. ScanKnows(t, Front(s), p, k)
  BY <1>5, CountLess DEF ScanKnows
<1> QED
  BY <1>2, <1>6

\* What is gone from a directory is no longer below the target.
LEMMA BeneathGone ==
    ASSUME NEW t \in Tree, NEW p \in Paths, NEW b \in Paths, PlainDir(t, b), NEW n \in Names
    PROVE  LET w == Put(t, Where(t, b), n, Absent)
           IN  /\ w \in Tree /\ Beneath(w, p) \subseteq Beneath(t, p) /\ Append(b, n) \notin Beneath(w, p)
               /\ \A k \in Dirs, m \in Names : w[k][m] = IF k = Where(t, b) /\ m = n THEN Absent ELSE t[k][m]
<1> DEFINE w == Put(t, Where(t, b), n, Absent)
<1>1. /\ Where(t, b) \in Dirs /\ w \in Tree
      /\ \A k \in Dirs, m \in Names : w[k][m] = IF k = Where(t, b) /\ m = n THEN Absent ELSE t[k][m]
  BY Seeing, PutTree, EntriesMade
<1> HIDE DEF w
<1>2. /\ Beneath(w, p) \subseteq Beneath(t, p)
      /\ \A x \in Paths : PlainDir(w, x) => PlainDir(t, x) /\ Where(t, x) = Where(w, x)
  <2>1. \A d \in Dirs, m \in Names : w[d][m].kind # "absent" => w[d][m] = t[d][m]
    BY <1>1 DEF Absent
  <2> QED
    BY <1>1, <2>1, BeneathLess
<1>3. ASSUME Append(b, n) \in Beneath(w, p)
      PROVE  FALSE
  <2>1. Front(Append(b, n)) = b /\ Last(Append(b, n)) = n
    BY FrontOfAppend DEF Paths
  <2>2. There(w, Append(b, n))
    BY <1>1, <1>3, BeneathParts
  <2>3. PlainDir(w, b) /\ w[Where(w, b)][n].kind # "absent"
    BY <2>1, <2>2 DEF There
  <2>4. w[Where(w, b)][n] = Absent
    BY <1>1, <1>2, <2>3
  <2> QED
    BY <2>3, <2>4 DEF Absent
<1> QED
  BY <1>1, <1>2, <1>3 DEF w

\* An entry that is no directory is removed.
LEMMA KnowsUnlinked ==
    ASSUME NEW t, NEW s, NEW p, Exact(t, s, p), WellShaped(t), NEW k \in Nat, Last(s).at = "entries",
           NEW e \in Last(s).todo, e.kind # "dir", DeleteKnows(t, s, p, k)
    PROVE  LET w == Put(t, Where(t, Last(s).path), e.name, Absent)
               u == Append(Front(s), [Last(s) EXCEPT !.todo = @ \ {e}])
           IN  u \in Seq(FramesRead(w)) /\ DeleteKnows(w, u, p, k + 1)
<1> DEFINE f == Last(s)
           a == f.path
           child == Append(a, e.name)
           g == [f EXCEPT !.todo = @ \ {e}]
           u == Append(Front(s), g)
           w == Put(t, Where(t, a), e.name, Absent)
<1>1. t \in Tree /\ p \in Paths /\ p # <<>> /\ s \in Seq(Frames) /\ s # <<>> /\ s \in Seq(FramesRead(t))
  BY SeqMonotonic DEF Exact, FramesRead
<1>2. /\ f \in Frames /\ a \in Paths /\ Len(s) \in Nat \ {0} /\ f = s[Len(s)] /\ PlainDir(t, a) /\ Where(t, a) \in Dirs
      /\ Len(a) = Len(p) + Len(s) - 1 /\ Len(p) \in Nat /\ Len(s) \in 1 .. Len(s)
  BY <1>1, TopSeen DEF Exact
<1>3. AsRead(t, f) /\ e \in Listed /\ e.name \in Names
  <2>1. AsRead(t, f) /\ e \in Listed
    BY <1>1, <1>2, ReadFrames, FrameParts
  <2> QED
    BY <2>1 DEF Listed
<1>4. g \in Frames /\ g.path = a /\ g.todo = f.todo \ {e}
  BY <1>2 DEF Frames
<1>5. child \in Beneath(t, p) /\ Ahead(s, child)
  BY <1>1, EntryAhead DEF Exact
<1>6. \A q \in Beneath(t, p) : Ahead(u, q) <=> Ahead(s, q) /\ q # child
  BY <1>1, AheadCounted DEF Exact
<1>7. /\ w \in Tree /\ Beneath(w, p) \subseteq Beneath(t, p) /\ child \notin Beneath(w, p)
      /\ \A d \in Dirs, m \in Names : w[d][m] = IF d = Where(t, a) /\ m = e.name THEN Absent ELSE t[d][m]
  BY <1>1, <1>2, <1>3, BeneathGone
<1>8. /\ u \in Seq(Frames) /\ Len(u) = Len(s)
      /\ \A i \in 1 .. Len(s) : u[i] = IF i = Len(s) THEN g ELSE s[i]
  BY <1>1, <1>4, NewTop
<1>9. \A q : (\E i \in 1 .. Len(s) : s[i].path = q) => \E i \in 1 .. Len(u) : u[i].path = q
  BY <1>1, <1>4, PathsStay
<1> HIDE DEF u, w, g
<1>10. \A q \in Paths : PlainDir(t, q) => Where(w, q) = Where(t, q)
  <2>1. t[Where(t, a)][e.name].kind # "dir"
    BY <1>3 DEF AsRead
  <2>2. \A d \in Dirs, m \in Names : t[d][m].kind = "dir" => w[d][m] = t[d][m]
    BY <1>7, <2>1
  <2> QED
    BY <1>1, <1>7, <2>2, Grown DEF Where
<1>11. ASSUME NEW i \in 1 .. Len(u)
       PROVE  AsRead(w, u[i])
  <2> DEFINE c == u[i].path
  <2>1. /\ i \in 1 .. Len(s) /\ i \in Nat /\ c = s[i].path /\ u[i].todo \subseteq s[i].todo
    BY <1>2, <1>4, <1>8
  <2>2. /\ c \in Paths /\ PlainDir(t, c) /\ s[i].todo \subseteq Listed /\ AsRead(t, s[i]) /\ Where(t, c) \in Dirs
        /\ Len(c) = Len(p) + i - 1
    BY <1>1, <2>1, FramesOf, ReadFrames, Seeing DEF Exact, PlainOn, StackInv
  <2>3. ASSUME NEW x \in u[i].todo
        PROVE  w[Where(w, c)][x.name].kind = x.kind
    <3>1. x \in Listed /\ x.name \in Names /\ t[Where(t, c)][x.name].kind = x.kind
      BY <2>1, <2>2 DEF Listed, AsRead
    <3>2. ASSUME Where(t, c) = Where(t, a), x.name = e.name
          PROVE  FALSE
      <4>1. c = a
        BY <1>1, <1>2, <2>2, <3>2, OneWhere
      <4>2. i = Len(s)
        BY <1>2, <2>1, <2>2, <4>1
      <4>3. x \in f.todo \ {e}
        BY <1>4, <1>8, <2>1, <2>3, <4>2
      <4>4. x.kind = e.kind
        BY <1>3, <3>1, <3>2 DEF AsRead
      <4>5. x = e
        BY <1>3, <3>1, <3>2, <4>4 DEF Listed
      <4> QED
        BY <4>3, <4>5
    <3> QED
      BY <1>7, <1>10, <2>2, <3>1, <3>2
  <2> QED
    BY <2>3 DEF AsRead
<1>12. u \in Seq(FramesRead(w))
  BY <1>7, <1>8, <1>11, AllRead
<1>13. DeleteKnows(w, u, p, k + 1)
  <2>1. \A q \in Beneath(w, p) : Ahead(u, q) <=> Ahead(s, q) /\ q # child
    BY <1>6, <1>7
  <2>2. \A q \in Beneath(w, p) : q = child \/ (\E i \in 1 .. Len(s) : s[i].path = q) =>
                                   \E i \in 1 .. Len(u) : u[i].path = q
    BY <1>7, <1>9
  <2> HIDE DEF child
  <2> QED
    BY <1>5, <1>7, <2>1, <2>2, KnowsCounted
<1> QED
  BY <1>12, <1>13 DEF u, w, g, f, a

\* A directory is removed, and the removal goes on in the one above it.
LEMMA KnowsRemoved ==
    ASSUME NEW t, NEW s, NEW p, Exact(t, s, p), WellShaped(t), NEW k \in Nat, Last(s).at = "rmdir",
           DeleteKnows(t, s, p, k)
    PROVE  LET b == Front(Last(s).path)
               w == Put(t, Where(t, b), Last(Last(s).path), Absent)
           IN  Front(s) \in Seq(FramesRead(w)) /\ DeleteKnows(w, Front(s), p, k)
<1> DEFINE f == Last(s)
           a == f.path
           b == Front(a)
           n == Last(a)
           u == Front(s)
           w == Put(t, Where(t, b), n, Absent)
<1>1. t \in Tree /\ p \in Paths /\ p # <<>> /\ s \in Seq(Frames) /\ s # <<>> /\ s \in Seq(FramesRead(t))
  BY SeqMonotonic DEF Exact, FramesRead
<1>2. /\ f \in Frames /\ a \in Paths /\ Len(s) \in Nat \ {0} /\ f = s[Len(s)]
      /\ Len(a) = Len(p) + Len(s) - 1 /\ Len(p) \in Nat \ {0} /\ Len(s) \in 1 .. Len(s)
      /\ b \in Paths /\ n \in Names /\ PlainDir(t, b) /\ Where(t, b) \in Dirs
      /\ Len(b) = Len(a) - 1 /\ Append(b, n) = a /\ t[Where(t, b)][n] = DirEntry(Where(t, a))
  BY <1>1, TopSeen DEF Exact
<1>3. /\ u \in Seq(Frames) /\ Len(u) = Len(s) - 1 /\ \A i \in 1 .. Len(s) - 1 : u[i] = s[i]
  BY <1>1, OneLess
<1> HIDE DEF a, b, n
<1>4. /\ w \in Tree /\ Beneath(w, p) \subseteq Beneath(t, p) /\ Append(b, n) \notin Beneath(w, p)
      /\ \A d \in Dirs, m \in Names : w[d][m] = IF d = Where(t, b) /\ m = n THEN Absent ELSE t[d][m]
  <2>1. b \in Paths /\ n \in Names /\ PlainDir(t, b)
    BY <1>2
  <2> QED
    BY <1>1, <2>1, BeneathGone
<1>5. \A x \in Paths : PlainDir(t, x) /\ Len(x) <= Len(b) => Where(w, x) = Where(t, x)
  BY <1>1, <1>2, Remains
<1>6. \A q : Ahead(s, q) <=> Ahead(u, q)
  <2>1. \A q : ~Open(f, q)
    BY DEF Open
  <2> QED
    BY <1>1, <1>2, <2>1, AheadTop
<1> HIDE DEF u, w
<1>7. \A q \in Beneath(w, p) : (\E i \in 1 .. Len(s) : s[i].path = q) => \E i \in 1 .. Len(u) : u[i].path = q
  <2> SUFFICES ASSUME NEW q \in Beneath(w, p), NEW i \in 1 .. Len(s), s[i].path = q
               PROVE  i \in 1 .. Len(u) /\ u[i].path = q
    OBVIOUS
  <2>1. i # Len(s)
    BY <1>2, <1>4 DEF a
  <2> QED
    BY <1>2, <1>3, <2>1
<1>8. ASSUME NEW i \in 1 .. Len(u)
      PROVE  AsRead(w, u[i])
  <2> DEFINE c == u[i].path
  <2>1. /\ i \in 1 .. Len(s) /\ i \in 1 .. Len(s) - 1 /\ i \in Nat /\ u[i] = s[i] /\ i + 1 \in 2 .. Len(s)
    BY <1>2, <1>3
  <2>2. /\ c \in Paths /\ PlainDir(t, c) /\ s[i].todo \subseteq Listed /\ AsRead(t, s[i]) /\ Where(t, c) \in Dirs
        /\ Len(c) = Len(p) + i - 1
    BY <1>1, <2>1, FramesOf, ReadFrames, Seeing DEF Exact, PlainOn, StackInv
  <2>3. Len(c) <= Len(b)
    <3>1. Len(b) = Len(p) + Len(s) - 1 - 1 /\ Len(p) \in Nat /\ Len(s) \in Nat
      BY <1>2
    <3>2. Len(c) = Len(p) + i - 1 /\ i \in Nat /\ i <= Len(s) - 1
      BY <2>1, <2>2
    <3> HIDE DEF c, u, f
    <3> QED
      BY <3>1, <3>2
  <2>4. ASSUME NEW x \in u[i].todo
        PROVE  w[Where(w, c)][x.name].kind = x.kind
    <3>1. x \in Listed /\ x.name \in Names /\ t[Where(t, c)][x.name].kind = x.kind
      BY <2>1, <2>2 DEF Listed, AsRead
    <3>2. ASSUME Where(t, c) = Where(t, b), x.name = n
          PROVE  FALSE
      <4>1. c = b
        BY <1>1, <1>2, <2>2, <3>2, OneWhere
      <4>2. i = Len(s) - 1
        <5>1. Len(c) = Len(b)
          BY <4>1
        <5>2. Len(b) = Len(p) + Len(s) - 1 - 1 /\ Len(p) \in Nat /\ Len(s) \in Nat
          BY <1>2
        <5>3. Len(c) = Len(p) + i - 1 /\ i \in Nat
          BY <2>1, <2>2
        <5> HIDE DEF c, u, f
        <5> QED
          BY <5>1, <5>2, <5>3
      <4>3. [name |-> Last(s[i + 1].path), kind |-> "dir"] \notin s[(i + 1) - 1].todo
        BY <2>1 DEF Exact, StackInv
      <4>4. s[i + 1] = f /\ (i + 1) - 1 = i
        BY <1>2, <2>1, <4>2
      <4>5. x.kind = "dir"
        BY <1>2, <3>1, <3>2 DEF DirEntry
      <4>6. x = [name |-> n, kind |-> "dir"]
        BY <3>1, <3>2, <4>5 DEF Listed
      <4> QED
        BY <2>1, <2>4, <4>3, <4>4, <4>6 DEF a, n
    <3> QED
      BY <1>4, <1>5, <2>2, <2>3, <3>1, <3>2
  <2> QED
    BY <2>4 DEF AsRead
<1>9. u \in Seq(FramesRead(w))
  BY <1>3, <1>4, <1>8, AllRead
<1>10. DeleteKnows(w, u, p, k)
  BY <1>4, <1>6, <1>7, KnowsSame
<1> QED
  BY <1>9, <1>10 DEF u, w, a, b, n, f

\* ------------------------------------------------------------ shape of trees
\* What is not a directory with something in it can be removed.
LEMMA Emptied ==
    ASSUME NEW t \in Tree, WellShaped(t), NEW d \in Dirs, NEW n \in Names,
           t[d][n].kind = "dir" => Bare(t, t[d][n].ino)
    PROVE  Put(t, d, n, Absent) \in Tree /\ WellShaped(Put(t, d, n, Absent))
<1> DEFINE u == Put(t, d, n, Absent)
<1>1. /\ u \in Tree
      /\ \A k \in Dirs, m \in Names \cup Calls : u[k][m] = IF k = d /\ m = n THEN Absent ELSE t[k][m]
  BY PutTree, EntriesMade
<1>2. CASE t[d][n].kind = "dir"
  BY <1>1, <1>2, RemovedShape
<1>3. CASE t[d][n].kind # "dir"
  <2> HIDE DEF u
  <2>1. \A k \in Dirs, m \in Names : u[k][m].kind # "absent" => u[k][m] = t[k][m]
    BY <1>1 DEF Absent
  <2>2. \A k \in Dirs, m \in Names : t[k][m].kind = "dir" => u[k][m] = t[k][m]
    BY <1>1, <1>3
  <2>3. \A e \in Dirs, k \in Dirs, m \in Names, l \in Names :
          u[e][m].kind = "dir" /\ u[k][l] = u[e][m] => e = k /\ m = l
    BY <2>1 DEF WellShaped
  <2>4. \A k \in Dirs, m \in Names : u[k][m] # DirEntry(Root)
    BY <1>1 DEF WellShaped, DirEntry, Absent
  <2>5. ASSUME NEW k \in Dirs, ~Live(u, k)
        PROVE  Bare(u, k)
    <3>1. ~Live(t, k)
      BY <1>3, <2>2, <2>5 DEF Live, DirEntry
    <3>2. Bare(t, k)
      BY <3>1 DEF WellShaped
    <3> QED
      BY <1>1, <3>2 DEF Bare, Absent
  <2>6. \A k \in Dirs, c \in Calls : u[k][c].kind \in {"absent", "file"}
    BY <1>1 DEF WellShaped, Absent
  <2>7. WellShaped(u)
    BY <2>3, <2>4, <2>5, <2>6 DEF WellShaped
  <2> QED
    BY <1>1, <2>7 DEF u
<1> QED
  BY <1>2, <1>3

\* A directory that is listed as empty can be removed.
LEMMA EmptyDirectory ==
    ASSUME NEW t \in Tree, NEW p \in Paths, p # <<>>, Lstat(t, p).kind = "dir", ReadDir(t, p).entries = {}
    PROVE  LET d == Holder(t, p).ino
           IN  d \in Dirs /\ Last(p) \in Names /\ t[d][Last(p)] = Lstat(t, p) /\ Bare(t, t[d][Last(p)].ino)
<1> DEFINE e == Lstat(t, p)
           r == Canonicalize(t, p)
<1>1. DirectoryAt(t, p) = e /\ e.kind = "dir"
  BY DEF DirectoryAt, IfDirectory
<1>2. r.st = "ok" /\ r.entry = e /\ e \in Directory
  BY <1>1, DirectoryReached
<1>3. Front(p) \in Paths /\ Last(p) \in Names
  BY PathParts
<1>4. Holder(t, p).ino \in Dirs /\ e = t[Holder(t, p).ino][Last(p)]
  BY <1>1, <1>3, LstatInHolder
<1> HIDE DEF e
<1>5. EntriesOf(t, e.ino) = {}
  BY <1>1, <1>2 DEF ReadDir, ListingOf
<1>6. \A n \in Names : t[e.ino][n].kind = "absent"
  BY <1>5 DEF EntriesOf
<1>7. Bare(t, e.ino)
  BY <1>6 DEF Bare
<1> QED
  BY <1>3, <1>4, <1>7 DEF e

\* What is at a path that can be removed like a file.
LEMMA FileOrLink ==
    ASSUME NEW t \in Tree, NEW p \in Paths, p # <<>>, Lstat(t, p).kind \notin {"absent", "dir", "error"}
    PROVE  LET d == Holder(t, p).ino
           IN  d \in Dirs /\ Last(p) \in Names /\ t[d][Last(p)] = Lstat(t, p)
               /\ t[d][Last(p)].kind \in {"file", "link"}
<1>1. Front(p) \in Paths /\ Last(p) \in Names
  BY PathParts
<1>2. Holder(t, p).ino \in Dirs /\ Lstat(t, p) = t[Holder(t, p).ino][Last(p)]
  BY <1>1, LstatInHolder
<1>3. t[Holder(t, p).ino][Last(p)].kind \in {"absent", "file", "dir", "link"}
  BY <1>1, <1>2, TreeEntry, EntryKinds
<1> QED
  BY <1>1, <1>2, <1>3

\* Other programs keep the tree in shape.
LEMMA ForeignShape ==
    ASSUME NEW t \in Tree, WellShaped(t), NEW d \in Dirs, NEW n \in Names, t[d][n] = Absent
    PROVE  LET u == Put(t, d, n, FileEntry(0, "new"))
           IN  /\ u \in Tree /\ WellShaped(u)
               /\ \A k \in Dirs, m \in Names : t[k][m].kind = "dir" => u[k][m] = t[k][m]
<1> DEFINE e == FileEntry(0, "new")
           u == Put(t, d, n, e)
<1>1. e \in Entry /\ e.kind = "file"
  BY EntriesMade, DeleteAssumption DEF FileEntry
<1> HIDE DEF e
<1>2. /\ u \in Tree
      /\ \A k \in Dirs, m \in Names \cup Calls : u[k][m] = IF k = d /\ m = n THEN e ELSE t[k][m]
  BY <1>1, PutTree
<1> HIDE DEF u
<1>3. Structure(t) = Structure(u)
  <2>1. ASSUME NEW k \in Dirs, NEW m \in Names
        PROVE  (IF t[k][m].kind \in {"dir", "link"} THEN t[k][m] ELSE Absent)
                 = (IF u[k][m].kind \in {"dir", "link"} THEN u[k][m] ELSE Absent)
    BY <1>1, <1>2 DEF Absent
  <2> QED
    BY <2>1 DEF Structure
<1>4. OnlyFiles(u)
  BY DeleteAssumption DEF OnlyFiles
<1>5. WellShaped(u)
  BY <1>2, <1>3, <1>4, SameShape
<1>6. \A k \in Dirs, m \in Names : t[k][m].kind = "dir" => u[k][m] = t[k][m]
  BY <1>2 DEF Absent
<1> QED
  BY <1>2, <1>5, <1>6 DEF u, e

\* -------------------------------------------------------- the parent directory
\* The directory that ensure_dir_under_root answers with is reached without a link.
LEMMA EnsuredPlain ==
    ASSUME NEW t \in Tree, NEW p \in Paths, EnsureDir(t, p).st = "ok"
    PROVE  EnsureDir(t, p).path \in Paths /\ PlainDir(t, EnsureDir(t, p).path)
<1> DEFINE r == EnsureDir(t, p)
           w == EnsureDir(t, Front(p))
           next == Append(w.path, Last(p))
           e == Lstat(t, next)
           c == Canonicalize(t, next)
           x == ExistingComponent(t, next, e, TRUE)
<1>1. CASE p = <<>>
  <2>1. r = AtRoot /\ NoLinks(t)[<<>>] = AtRoot /\ <<>> \in Paths
    BY <1>1, EnsureDirUnfolds, NoLinksUnfolds DEF Paths
  <2> QED
    BY <2>1 DEF PlainDir, IsDirectory, AtRoot, Resolved, DirEntry
<1>2. CASE p # <<>>
  <2>1. r = EnsureComponent(t, w, Last(p)) /\ w \in Results /\ Front(p) \in Paths /\ Last(p) \in Names
    BY <1>2, EnsureDirUnfolds, PathParts
  <2>2. r.st = "ok"
    OBVIOUS
  <2> HIDE DEF r, w
  <2>3. w.st = "ok" /\ r = Ensured(t, next, e)
    BY <2>1, <2>2 DEF EnsureComponent
  <2>4. next \in Paths
    BY <2>1, ResultParts, PathAppended
  <2> HIDE DEF next, e
  <2>5. r = Allowed(x)
    BY <2>2, <2>3 DEF Ensured, Failed
  <2>6. x.st = "ok" /\ r = x
    BY <2>2, <2>5 DEF Allowed, Failed
  <2>7. x = DirectoryInside(c)
    BY <2>6 DEF ExistingComponent, Failed, Ensured, Resolved
  <2> HIDE DEF x, c
  <2>8. IsDirectory(c) /\ r = c
    BY <2>6, <2>7 DEF DirectoryInside, Failed, IsDirectory
  <2> QED
    BY <2>4, <2>8, DirectoryLands DEF r, c
<1> QED
  BY <1>1, <1>2

\* ---------------------------------------------------------------- the actions
\* What is known at the parent's last inspection.
LEMMA ParentKnown ==
    ASSUME TypeOK, CallInv, pc \in {"capture", "revalidate"}
    PROVE  /\ path \in Paths /\ path # <<>> /\ Front(path) \in Paths /\ Last(path) \in Names
           /\ ParentStable \in Statuses \cup {"missing"}
           /\ ParentStable = "ok" => PlainDir(fs, Front(path))
<1> DEFINE norm == NormalizeLexical(req.path)
           parent == EnsureDir(fs, Front(norm))
<1>1. norm \in Paths /\ norm # <<>> /\ path \in Paths /\ path # <<>> /\ fs \in Tree
  BY DEF CallInv, TypeOK
<1>2. Front(norm) \in Paths /\ Front(path) \in Paths /\ Last(path) \in Names
  BY <1>1, PathParts
<1>3. parent \in Results /\ parent.st \in Statuses
  BY <1>1, <1>2, EnsureDirType, ResultParts
<1>4. parent.st = "ok" => PlainDir(fs, parent.path)
  BY <1>1, <1>2, EnsuredPlain
<1>5. ParentStable =
        IF parent.st = "NotFound" THEN Missing
        ELSE IF parent.st # "ok" THEN parent.st
        ELSE IF parent.path = Front(path) /\ SameDirectory(fs, parent.path, pid) THEN "ok"
        ELSE "InvalidPath"
  BY DEF ParentStable
<1> HIDE DEF parent
<1>6. Missing \in {"missing", "NotFound"}
  BY DEF Missing
<1>7. ParentStable \in Statuses \cup {"missing"}
  BY <1>3, <1>5, <1>6 DEF Statuses
<1>8. ASSUME ParentStable = "ok"
      PROVE  PlainDir(fs, Front(path))
  <2>1. parent.st = "ok" /\ parent.path = Front(path)
    BY <1>5, <1>6, <1>8
  <2> QED
    BY <1>4, <2>1
<1> QED
  BY <1>1, <1>2, <1>7, <1>8

\* A refusal leaves everything as it is.
LEMMA RefuseInv ==
    ASSUME IInv, NEW r, Refuse(r), r \in {"Denied", "max_walk_entries"} /\ ~touched => removed = {}
    PROVE  IInv'
<1>1. /\ pc' = "done" /\ res' = r /\ stack' = <<>> /\ scanned' = 0
      /\ UNCHANGED <<path, pid, target, fs, removed, req, timed, foreign, touched, moved>>
  BY DEF Refuse, Return, Keep, envVars
<1>2. TypeOK'
  BY <1>1 DEF IInv, TypeOK, Stages
<1>3. WellShaped(fs)'
  BY <1>1 DEF IInv
<1>4. CallInv'
  BY <1>1 DEF CallInv, Walking
<1>5. StackInv(stack, path)'
  BY <1>1 DEF StackInv
<1>6. PlainInv' /\ ExactInv'
  BY <1>1 DEF PlainInv, ExactInv, Walking
<1>7. RefusedBeforeRemoval'
  BY <1>1 DEF RefusedBeforeRemoval
<1> QED
  BY <1>2, <1>3, <1>4, <1>5, <1>6, <1>7 DEF IInv

\* The call starts.
LEMMA StartInv ==
    ASSUME IInv, Start
    PROVE  IInv'
<1> DEFINE lex == ResolveLexically(req.path)
           parent == EnsureDir(fs, Front(lex.path))
           at == Append(parent.path, Last(lex.path))
<1>1. pc = "start" /\ removed = {} /\ fs \in Tree /\ req.path \in Segments
  BY DEF Start, IInv, CallInv, TypeOK, Request
<1>2. /\ lex \in Results /\ lex.path \in Paths
      /\ lex.st = "ok" => lex.path = NormalizeLexical(req.path)
  BY <1>1, ResolveLexicallyType, ResultParts
<1>3. \A r : Refuse(r) => IInv'
  BY <1>1, RefuseInv
<1>4. \/ \E r : Refuse(r)
      \/ /\ lex.st = "ok" /\ lex.path # <<>> /\ parent.st = "ok" /\ ~IsPathDenied(at)
         /\ pc' = "capture" /\ path' = at /\ pid' = DirectoryAt(fs, parent.path)
         /\ UNCHANGED <<fs, target, stack, scanned, removed, res>> /\ Keep
  BY DEF Start
<1>5. CASE /\ lex.st = "ok" /\ lex.path # <<>> /\ parent.st = "ok" /\ ~IsPathDenied(at)
           /\ pc' = "capture" /\ path' = at /\ pid' = DirectoryAt(fs, parent.path)
           /\ UNCHANGED <<fs, target, stack, scanned, removed, res>> /\ Keep
  <2>1. UNCHANGED <<fs, target, stack, scanned, removed, res, req, timed, foreign, touched, moved>>
    BY <1>5 DEF Keep, envVars
  <2>2. Front(lex.path) \in Paths /\ Last(lex.path) \in Names
    BY <1>2, <1>5, PathParts
  <2>3. parent \in Results /\ parent.path \in Paths
    BY <1>1, <2>2, EnsureDirType, ResultParts
  <2>4. at \in Paths /\ at # <<>>
    BY <2>2, <2>3, PathAppended, FrontOfAppend DEF Paths
  <2>5. DirectoryAt(fs, parent.path) \in Directory \cup {NoDir}
    BY <1>1, <2>3, DirectoryAtType
  <2>6. lex.path = NormalizeLexical(req.path) /\ NormalizeLexical(req.path) \in Paths \ {<<>>}
    BY <1>2, <1>5
  <2> HIDE DEF lex, parent, at
  <2>7. TypeOK'
    BY <1>5, <2>1, <2>4, <2>5 DEF IInv, TypeOK, Stages
  <2>8. CallInv'
    BY <1>1, <1>5, <2>1, <2>4, <2>6 DEF IInv, CallInv, Walking
  <2>9. stack = <<>>
    BY <1>1 DEF IInv, CallInv, Walking
  <2>10. StackInv(stack, path)'
    BY <2>1, <2>9 DEF StackInv
  <2>11. PlainInv' /\ ExactInv'
    BY <1>5 DEF PlainInv, ExactInv, Walking
  <2>12. WellShaped(fs)' /\ RefusedBeforeRemoval'
    BY <2>1 DEF IInv, RefusedBeforeRemoval
  <2> QED
    BY <2>7, <2>8, <2>10, <2>11, <2>12 DEF IInv
<1> QED
  BY <1>3, <1>4, <1>5

\* The target is captured.
LEMMA CaptureInv ==
    ASSUME IInv, CaptureTarget
    PROVE  IInv'
<1> DEFINE e == Lstat(fs, path)
<1>1. pc = "capture" /\ removed = {} /\ fs \in Tree /\ path \in Paths /\ path # <<>> /\ stack = <<>>
  BY DEF CaptureTarget, IInv, CallInv, TypeOK, Walking
<1>2. \A r : Refuse(r) => IInv'
  BY <1>1, RefuseInv
<1>3. \/ \E r : Refuse(r)
      \/ /\ e.kind \in {"file", "link", "dir"} /\ pc' = "revalidate" /\ target' = e
         /\ UNCHANGED <<fs, path, pid, stack, scanned, removed, res>> /\ Keep
  BY DEF CaptureTarget
<1>4. CASE /\ e.kind \in {"file", "link", "dir"} /\ pc' = "revalidate" /\ target' = e
           /\ UNCHANGED <<fs, path, pid, stack, scanned, removed, res>> /\ Keep
  <2>1. UNCHANGED <<fs, path, pid, stack, scanned, removed, res, req, timed, foreign, touched, moved>>
    BY <1>4 DEF Keep, envVars
  <2>2. e \in Entry
    <3>1. e \in Entry \cup {Other}
      BY <1>1, PathParts, LstatType
    <3> QED
      BY <1>4, <3>1 DEF Other
  <2> HIDE DEF e
  <2>3. TypeOK'
    BY <1>4, <2>1, <2>2 DEF IInv, TypeOK, Stages
  <2>4. CallInv'
    BY <1>1, <1>4, <2>1 DEF IInv, CallInv, Walking
  <2>5. StackInv(stack, path)'
    BY <1>1, <2>1 DEF StackInv
  <2>6. PlainInv' /\ ExactInv'
    BY <1>4 DEF PlainInv, ExactInv, Walking
  <2>7. WellShaped(fs)' /\ RefusedBeforeRemoval'
    BY <2>1 DEF IInv, RefusedBeforeRemoval
  <2> QED
    BY <2>3, <2>4, <2>5, <2>6, <2>7 DEF IInv
<1> QED
  BY <1>2, <1>3, <1>4

\* The last look at the target: a directory is scanned, anything else removed.
LEMMA RevalidateInv ==
    ASSUME IInv, Revalidate
    PROVE  IInv'
<1> DEFINE e == Lstat(fs, path)
<1>1. /\ pc = "revalidate" /\ removed = {} /\ fs \in Tree /\ path \in Paths /\ path # <<>>
      /\ ~IsPathDenied(path) /\ target.kind \in {"file", "dir", "link"} /\ scanned \in Nat /\ res = "none"
  BY DEF Revalidate, IInv, CallInv, TypeOK
<1>2. \A r : Refuse(r) => IInv'
  BY <1>1, RefuseInv
<1>3. \/ \E r : Refuse(r)
      \/ /\ ParentStable = "ok" /\ e.kind # "absent" /\ SameIdentity(e, target)
         /\ pc' = IF target.kind = "dir" THEN "scan" ELSE "unlink"
         /\ stack' = IF target.kind = "dir" THEN <<Frame(path)>> ELSE <<>>
         /\ touched' = FALSE
         /\ UNCHANGED <<fs, path, pid, target, scanned, removed, res, req, timed, foreign, moved>>
  BY DEF Revalidate
<1>4. CASE /\ ParentStable = "ok" /\ e.kind # "absent" /\ SameIdentity(e, target)
           /\ pc' = IF target.kind = "dir" THEN "scan" ELSE "unlink"
           /\ stack' = IF target.kind = "dir" THEN <<Frame(path)>> ELSE <<>>
           /\ touched' = FALSE
           /\ UNCHANGED <<fs, path, pid, target, scanned, removed, res, req, timed, foreign, moved>>
  <2>1. Front(path) \in Paths /\ Last(path) \in Names /\ PlainDir(fs, Front(path))
    BY <1>1, <1>4, ParentKnown DEF IInv
  <2>2. e = fs[Where(fs, Front(path))][Last(path)] /\ e.kind = target.kind /\ e \in Entry
    <3>1. Append(Front(path), Last(path)) = path
      BY <1>1, SeqOfFront
    <3>2. e = fs[Where(fs, Front(path))][Last(path)] /\ Where(fs, Front(path)) \in Dirs
      BY <1>1, <2>1, <3>1, Seeing, ZenonT(40)
    <3>3. e \in Entry /\ e.kind \in {"absent", "file", "dir", "link"}
      BY <1>1, <2>1, <3>2, TreeEntry, EntryKinds
    <3> HIDE DEF e
    <3>4. e.kind = target.kind
      BY <1>1, <1>4, <3>3, SameKinds
    <3> QED
      BY <3>2, <3>3, <3>4
  <2>3. target.kind = "dir" => PlainDir(fs, path)
    <3>1. Append(Front(path), Last(path)) = path
      BY <1>1, SeqOfFront
    <3>2. ASSUME target.kind = "dir"
          PROVE  PlainDir(fs, Append(Front(path), Last(path)))
      BY <1>1, <2>1, <2>2, <3>2, SeeingDown
    <3> QED
      BY <3>1, <3>2
  <2>4. /\ <<Frame(path)>> \in Seq(FramesRead(fs)) /\ <<Frame(path)>> \in Seq(Frames)
        /\ <<Frame(path)>> # <<>> /\ StackInv(<<Frame(path)>>, path)
        /\ PlainDir(fs, path) => PlainOn(fs, <<Frame(path)>>, path)
        /\ ScanKnows(fs, <<Frame(path)>>, path, scanned)
    BY <1>1, <2>1, KnowsFirst
  <2>5. scanned = 0 /\ 0 <= MaxWalkEntries
    BY <1>1, DeleteAssumption DEF IInv, CallInv, Walking
  <2> HIDE DEF e
  <2>6. CASE target.kind = "dir"
    <3>1. pc' = "scan" /\ stack' = <<Frame(path)>>
      BY <1>4, <2>6
    <3>2. TypeOK'
      BY <1>4, <2>4, <3>1 DEF IInv, TypeOK, Stages
    <3>3. CallInv'
      BY <1>1, <1>4, <2>4, <2>5, <3>1 DEF IInv, CallInv, Walking
    <3>4. StackInv(stack, path)'
      BY <1>4, <2>4, <3>1 DEF StackInv
    <3>5. PlainInv'
      BY <1>4, <2>3, <2>4, <2>6, <3>1 DEF PlainInv
    <3>6. ExactInv'
      BY <1>4, <2>4, <3>1 DEF ExactInv, ExactOn
    <3>7. WellShaped(fs)' /\ RefusedBeforeRemoval'
      BY <1>1, <1>4 DEF IInv, RefusedBeforeRemoval
    <3> QED
      BY <3>2, <3>3, <3>4, <3>5, <3>6, <3>7 DEF IInv
  <2>7. CASE target.kind # "dir"
    <3>1. pc' = "unlink" /\ stack' = <<>>
      BY <1>4, <2>7
    <3>2. TypeOK'
      <4>1. UNCHANGED <<fs, path, pid, target, scanned, removed, res, req, timed, foreign, moved>> /\ touched' = FALSE
        BY <1>4
      <4>2. stack' \in Seq(Frames) /\ pc' \in Stages
        <5> HIDE DEF Frames
        <5> QED
          BY <3>1 DEF Stages
      <4> HIDE DEF Frames, Stages
      <4> QED
        BY <4>1, <4>2 DEF IInv, TypeOK
    <3>3. CallInv'
      BY <1>1, <1>4, <2>5, <3>1 DEF IInv, CallInv, Walking
    <3>4. StackInv(stack, path)'
      BY <3>1 DEF StackInv
    <3>5. PlainInv'
      BY <1>4, <2>1, <3>1 DEF PlainInv, PlainOn
    <3>6. ExactInv'
      BY <3>1 DEF ExactInv, Walking
    <3>7. WellShaped(fs)' /\ RefusedBeforeRemoval'
      BY <1>1, <1>4 DEF IInv, RefusedBeforeRemoval
    <3> QED
      BY <3>2, <3>3, <3>4, <3>5, <3>6, <3>7 DEF IInv
  <2> QED
    BY <2>6, <2>7
<1> QED
  BY <1>2, <1>3, <1>4

\* A file or link is removed.
LEMMA UnlinkInv ==
    ASSUME IInv, Unlink
    PROVE  IInv'
<1> DEFINE e == Lstat(fs, path)
<1>1. /\ pc = "unlink" /\ removed = {} /\ fs \in Tree /\ path \in Paths /\ path # <<>> /\ WellShaped(fs)
  BY DEF Unlink, IInv, CallInv, TypeOK
<1>2. \A r : Refuse(r) => IInv'
  BY <1>1, RefuseInv
<1>3. \/ \E r : Refuse(r)
      \/ e.kind \in {"file", "link"} /\ Unlinked(path) /\ Return("deleted") /\ Keep
  BY DEF Unlink
<1>4. CASE e.kind \in {"file", "link"} /\ Unlinked(path) /\ Return("deleted") /\ Keep
  <2>1. /\ pc' = "done" /\ res' = "deleted" /\ stack' = <<>> /\ scanned' = 0
        /\ UNCHANGED <<path, pid, target, req, timed, foreign, touched, moved>>
    BY <1>4 DEF Return, Keep, envVars
  <2> DEFINE d == Holder(fs, path).ino
  <2>2. d \in Dirs /\ Last(path) \in Names /\ fs[d][Last(path)].kind \in {"file", "link"}
    BY <1>1, <1>4, FileOrLink
  <2>3. fs' = Put(fs, d, Last(path), Absent) /\ removed' = removed \cup {<<d, Last(path)>>}
    BY <1>4 DEF Unlinked, SlotOf
  <2> HIDE DEF e, d
  <2>4. fs' \in Tree /\ WellShaped(fs')
    BY <1>1, <2>2, <2>3, Emptied
  <2>5. TypeOK'
    <3>1. removed' \subseteq Dirs \X Names
      BY <2>2, <2>3 DEF IInv, TypeOK
    <3> QED
      BY <2>1, <2>4, <3>1 DEF IInv, TypeOK, Stages
  <2>6. CallInv'
    BY <2>1 DEF CallInv, Walking
  <2>7. StackInv(stack, path)'
    BY <2>1 DEF StackInv
  <2>8. PlainInv' /\ ExactInv'
    BY <2>1 DEF PlainInv, ExactInv, Walking
  <2>9. RefusedBeforeRemoval'
    BY <2>1 DEF RefusedBeforeRemoval
  <2> QED
    BY <2>4, <2>5, <2>6, <2>7, <2>8, <2>9 DEF IInv
<1> QED
  BY <1>2, <1>3, <1>4

\* What is known during a walk.
LEMMA WalkFacts ==
    ASSUME IInv, Walking
    PROVE  /\ fs \in Tree /\ WellShaped(fs) /\ path \in Paths /\ path # <<>> /\ ~IsPathDenied(path)
           /\ stack \in Seq(Frames) /\ stack # <<>> /\ StackInv(stack, path)
           /\ scanned \in Nat /\ scanned <= MaxWalkEntries /\ (pc = "scan" => removed = {})
           /\ Top \in Frames /\ Top.path \in Paths /\ Top.path # <<>> /\ ~IsPathDenied(Top.path)
           /\ Top.todo \subseteq Listed
           /\ (~touched => Steady) /\ (Steady => PlainOn(fs, stack, path))
           /\ ~touched => /\ Exact(fs, stack, path)
                          /\ pc = "scan" => ScanKnows(fs, stack, path, scanned)
                          /\ pc = "delete" => DeleteKnows(fs, stack, path, scanned)
<1>1. /\ fs \in Tree /\ WellShaped(fs) /\ path \in Paths /\ path # <<>> /\ ~IsPathDenied(path)
      /\ stack \in Seq(Frames) /\ stack # <<>> /\ StackInv(stack, path)
      /\ scanned \in Nat /\ scanned <= MaxWalkEntries /\ (pc = "scan" => removed = {})
  BY DEF IInv, TypeOK, CallInv, Walking
<1>2. (~touched => Steady) /\ (Steady => PlainOn(fs, stack, path))
  BY DEF IInv, PlainInv, Steady
<1>3. ASSUME ~touched
      PROVE  /\ Exact(fs, stack, path)
             /\ pc = "scan" => ScanKnows(fs, stack, path, scanned)
             /\ pc = "delete" => DeleteKnows(fs, stack, path, scanned)
  BY <1>1, <1>2, <1>3 DEF IInv, ExactInv, ExactOn, Exact
<1>4. Top \in Frames /\ Top = stack[Len(stack)] /\ Len(stack) \in Nat \ {0} /\ Len(stack) \in 1 .. Len(stack)
  BY <1>1, FrontAndLast DEF Top
<1>5. Top.path \in Paths /\ Top.todo \subseteq Listed
  BY <1>4, FrameParts
<1>6. ~IsPathDenied(Top.path) /\ Len(Top.path) = Len(path) + Len(stack) - 1
  BY <1>1, <1>4 DEF StackInv
<1>7. Top.path # <<>>
  <2>1. Len(path) \in Nat \ {0}
    BY <1>1 DEF Paths
  <2>2. Len(Top.path) # 0
    BY <1>4, <1>6, <2>1
  <2> QED
    BY <2>2
<1> QED
  BY <1>1, <1>2, <1>3, <1>4, <1>5, <1>6, <1>7

\* A step of a walk that is not its last.
LEMMA Goes ==
    ASSUME IInv, Walking, UNCHANGED <<pc, res, path, pid, target>>, Keep,
           fs' \in Tree, WellShaped(fs'), stack' \in Seq(Frames), stack' # <<>>, StackInv(stack', path),
           scanned' \in Nat, scanned' <= MaxWalkEntries,
           removed' \subseteq Dirs \X Names, pc = "scan" => removed' = removed,
           Steady => PlainOn(fs', stack', path),
           ~touched => ExactOn(fs', stack', path, scanned')
    PROVE  IInv'
<1>1. UNCHANGED <<pc, res, path, pid, target, req, timed, foreign, touched, moved>>
  BY DEF Keep, envVars
<1>2. TypeOK'
  BY <1>1 DEF IInv, TypeOK
<1>3. CallInv'
  BY <1>1 DEF IInv, CallInv, Walking
<1>4. StackInv(stack, path)'
  BY <1>1 DEF StackInv
<1>5. PlainInv'
  BY <1>1 DEF PlainInv, Steady
<1>6. ExactInv'
  BY <1>1 DEF ExactInv, ExactOn
<1>7. RefusedBeforeRemoval'
  BY <1>1 DEF IInv, CallInv, Walking, RefusedBeforeRemoval
<1> QED
  BY <1>2, <1>3, <1>4, <1>5, <1>6, <1>7 DEF IInv

\* A walk is over its last frame.
LEMMA FrameDoneInv ==
    ASSUME IInv, Walking, FrameDone, Keep,
           fs' \in Tree, WellShaped(fs'), removed' \subseteq Dirs \X Names,
           pc = "scan" => fs' = fs /\ removed' = removed,
           Steady /\ Len(stack) > 1 => PlainOn(fs', Front(stack), path),
           Steady /\ pc = "scan" => PlainOn(fs', <<Frame(path)>>, path),
           ~touched /\ Len(stack) > 1 => ExactOn(fs', Front(stack), path, scanned),
           ~touched /\ pc = "scan" /\ Len(stack) = 1 => DeleteKnows(fs', <<Frame(path)>>, path, 0)
    PROVE  IInv'
<1>1. UNCHANGED <<path, pid, target, req, timed, foreign, touched, moved>>
  BY DEF FrameDone, Keep, envVars
<1>2. /\ path \in Paths /\ path # <<>> /\ ~IsPathDenied(path)
      /\ stack \in Seq(Frames) /\ stack # <<>> /\ StackInv(stack, path)
      /\ scanned \in Nat /\ scanned <= MaxWalkEntries
  BY WalkFacts
<1>3. Len(stack) \in Nat \ {0}
  BY <1>2, OneLess
<1>4. CASE Len(stack) > 1
  <2>1. stack' = Front(stack) /\ UNCHANGED <<pc, scanned, res>>
    BY <1>4 DEF FrameDone, Pop
  <2>2. Front(stack) \in Seq(Frames) /\ Front(stack) # <<>> /\ StackInv(Front(stack), path)
    BY <1>2, <1>4, OneLess, TopGone
  <2> QED
    BY <1>1, <1>2, <1>4, <2>1, <2>2, Goes
<1>5. CASE Len(stack) = 1 /\ pc = "scan"
  <2>1. pc' = "delete" /\ stack' = <<Frame(path)>> /\ scanned' = 0 /\ res' = res /\ fs' = fs /\ removed' = removed
    BY <1>5 DEF FrameDone
  <2>2. /\ <<Frame(path)>> \in Seq(FramesRead(fs')) /\ <<Frame(path)>> \in Seq(Frames)
        /\ <<Frame(path)>> # <<>> /\ StackInv(<<Frame(path)>>, path)
    BY <1>2, KnowsFirst
  <2>3. 0 <= MaxWalkEntries
    BY DeleteAssumption
  <2>4. TypeOK'
    BY <1>1, <2>1, <2>2 DEF IInv, TypeOK, Stages
  <2>5. CallInv'
    BY <1>1, <1>5, <2>1, <2>2, <2>3 DEF IInv, CallInv, Walking
  <2>6. StackInv(stack, path)'
    BY <1>1, <2>1, <2>2 DEF StackInv
  <2>7. PlainInv'
    BY <1>1, <1>5, <2>1 DEF PlainInv, Steady
  <2>8. ExactInv'
    BY <1>1, <1>5, <2>1, <2>2 DEF ExactInv, ExactOn
  <2>9. RefusedBeforeRemoval'
    BY <1>5, <2>1 DEF IInv, CallInv, Walking, RefusedBeforeRemoval
  <2> QED
    BY <2>4, <2>5, <2>6, <2>7, <2>8, <2>9 DEF IInv
<1>6. CASE Len(stack) = 1 /\ pc = "delete"
  <2>1. pc' = "done" /\ res' = "deleted" /\ stack' = <<>> /\ scanned' = 0
    BY <1>6 DEF FrameDone
  <2>2. TypeOK'
    BY <1>1, <2>1 DEF IInv, TypeOK, Stages
  <2>3. CallInv'
    BY <2>1 DEF CallInv, Walking
  <2>4. StackInv(stack, path)'
    BY <2>1 DEF StackInv
  <2>5. PlainInv' /\ ExactInv'
    BY <2>1 DEF PlainInv, ExactInv, Walking
  <2>6. RefusedBeforeRemoval'
    BY <2>1 DEF RefusedBeforeRemoval
  <2> QED
    BY <2>2, <2>3, <2>4, <2>5, <2>6 DEF IInv
<1> QED
  BY <1>3, <1>4, <1>5, <1>6 DEF Walking

\* What a step of a walk that removes nothing keeps.
LEMMA GoesOn ==
    ASSUME IInv, Walking, UNCHANGED <<fs, removed>>, Keep,
           NEW s, NEW n, Continue(s, n),
           s \in Seq(Frames), s # <<>>, StackInv(s, path), n \in Nat, n <= MaxWalkEntries,
           Steady => PlainOn(fs, s, path), ~touched => ExactOn(fs, s, path, n)
    PROVE  IInv'
<1>1. stack' = s /\ scanned' = n /\ UNCHANGED <<pc, path, pid, target, res, fs, removed>>
  BY DEF Continue
<1>2. fs' \in Tree /\ WellShaped(fs') /\ removed' \subseteq Dirs \X Names
  BY <1>1 DEF IInv, TypeOK
<1> QED
  BY <1>1, <1>2, Goes

\* The frame at the top of a walk is changed.
LEMMA TopGoes ==
    ASSUME IInv, Walking, NEW f \in Frames, f.path = Top.path, Steady => StillThere(fs, f)
    PROVE  /\ Work(f) \in Seq(Frames) /\ Work(f) # <<>> /\ StackInv(Work(f), path)
           /\ Steady => PlainOn(fs, Work(f), path)
           /\ Work(f) = Append(Front(stack), f) /\ Top = Last(stack)
<1>1. Work(f) = Append(Front(stack), f) /\ Top = Last(stack)
  BY DEF Work, Pop, Top
<1>2. stack \in Seq(Frames) /\ stack # <<>> /\ StackInv(stack, path) /\ path \in Paths /\ fs \in Tree
  BY WalkFacts
<1>3. Work(f) \in Seq(Frames) /\ Work(f) # <<>> /\ StackInv(Work(f), path)
  BY <1>1, <1>2, NewTop, TopChanged
<1>4. ASSUME Steady
      PROVE  PlainOn(fs, Work(f), path)
  <2>1. PlainOn(fs, stack, path)
    BY <1>4, WalkFacts
  <2> QED
    BY <1>1, <1>2, <1>4, <2>1, PlainTop
<1> QED
  BY <1>1, <1>3, <1>4

\* The directory at the top is there, unless others moved something.
LEMMA TopThere ==
    ASSUME IInv, Walking, Steady
    PROVE  /\ PlainDir(fs, Top.path) /\ Where(fs, Top.path) \in Dirs /\ StillThere(fs, Top)
           /\ ReadDir(fs, Top.path) = [st |-> "ok", entries |-> EntriesOf(fs, Where(fs, Top.path))]
           /\ Lstat(fs, Top.path).kind = "dir"
           /\ Front(Top.path) \in Paths /\ Last(Top.path) \in Names /\ PlainDir(fs, Front(Top.path))
           /\ Holder(fs, Top.path) = DirEntry(Where(fs, Front(Top.path)))
<1>1. Top = Last(stack)
  BY DEF Top
<1>2. /\ fs \in Tree /\ path \in Paths /\ path # <<>> /\ stack \in Seq(Frames) /\ stack # <<>>
      /\ StackInv(stack, path) /\ PlainOn(fs, stack, path) /\ Top.path \in Paths
  BY WalkFacts
<1> DEFINE q == Top.path
<1>3. /\ PlainDir(fs, q) /\ StillThere(fs, Top) /\ Where(fs, q) \in Dirs
      /\ Front(q) \in Paths /\ Last(q) \in Names /\ PlainDir(fs, Front(q))
      /\ Append(Front(q), Last(q)) = q
  BY <1>1, <1>2, TopSeen
<1> HIDE DEF q
<1>4. ReadDir(fs, q) = [st |-> "ok", entries |-> EntriesOf(fs, Where(fs, q))]
  BY <1>2, <1>3, ReadThere DEF q
<1>5. DirectoryAt(fs, q) = DirEntry(Where(fs, q))
  BY <1>2, <1>3, Seeing DEF q
<1>6. Lstat(fs, q).kind = "dir"
  BY <1>5 DEF DirectoryAt, IfDirectory, DirEntry, NoDir
<1>7. Holder(fs, Append(Front(q), Last(q))) = DirEntry(Where(fs, Front(q)))
  BY <1>2, <1>3, Seeing
<1> QED
  BY <1>3, <1>4, <1>6, <1>7 DEF q

\* What a listing holds.
LEMMA ListingType ==
    ASSUME NEW t \in Tree, NEW p \in Paths
    PROVE  LET l == ReadDir(t, p)
           IN  l.st \in {"ok", "NotFound", "Io"} /\ l.entries \subseteq Listed
<1> DEFINE r == Canonicalize(t, p)
<1>1. r \in Results /\ r.entry \in Entry
  BY CanonicalizeType, ResultParts
<1>2. r.entry.kind = "dir" => EntriesOf(t, r.entry.ino) \subseteq Listed
  BY <1>1, EntryKinds, EntriesRead
<1> HIDE DEF r
<1>3. ListingOf(t, r).st \in {"ok", "NotFound", "Io"} /\ ListingOf(t, r).entries \subseteq Listed
  BY <1>2 DEF ListingOf
<1> QED
  BY <1>3 DEF ReadDir, r

\* A directory is read.
LEMMA ReadInv ==
    ASSUME IInv, ReadDirectory
    PROVE  IInv'
<1> DEFINE l == Listing(Top.path)
           f == [Top EXCEPT !.todo = l.entries, !.at = "entries"]
<1>1. Walking /\ Top.at = "read"
  BY DEF ReadDirectory, Walking
<1>2. /\ fs \in Tree /\ WellShaped(fs) /\ path \in Paths /\ path # <<>>
      /\ stack \in Seq(Frames) /\ stack # <<>>
      /\ scanned \in Nat /\ scanned <= MaxWalkEntries /\ (pc = "scan" => removed = {})
      /\ Top \in Frames /\ Top.path \in Paths /\ removed \subseteq Dirs \X Names
  BY <1>1, WalkFacts DEF IInv, TypeOK
<1>3. l = ReadDir(fs, Top.path) /\ l.entries \subseteq Listed
  BY <1>2, ListingType DEF Listing
<1>4. \A r : Refuse(r) /\ r \notin {"Denied", "max_walk_entries"} => IInv'
  BY RefuseInv
<1>5. Steady => l = [st |-> "ok", entries |-> EntriesOf(fs, Where(fs, Top.path))]
  BY <1>1, <1>3, TopThere
<1>6. \A r \in BudgetRefusal(scanned) : r = "max_walk_ms"
  BY <1>2, DeleteAssumption DEF BudgetRefusal, OverBudget
<1>7. \/ \E r \in BudgetRefusal(scanned) : Refuse(r)
      \/ l.st = "NotFound" /\ FrameDone /\ UNCHANGED <<fs, removed>> /\ Keep
      \/ Refuse("NotFound") \/ Refuse("Io")
      \/ l.st = "ok" /\ Continue(Work(f), scanned) /\ UNCHANGED <<fs, removed>> /\ Keep
  BY DEF ReadDirectory
<1>8. CASE l.st = "NotFound" /\ FrameDone /\ UNCHANGED <<fs, removed>> /\ Keep
  <2>1. ~Steady /\ touched
    BY <1>5, <1>8 DEF Steady
  <2> HIDE DEF l
  <2> QED
    BY <1>1, <1>2, <1>8, <2>1, FrameDoneInv
<1>9. CASE l.st = "ok" /\ Continue(Work(f), scanned) /\ UNCHANGED <<fs, removed>> /\ Keep
  <2>1. f \in Frames /\ f.path = Top.path /\ f.todo = l.entries
    <3> HIDE DEF l
    <3> QED
      BY <1>2, <1>3 DEF Frames
  <2>2. Steady => StillThere(fs, f)
    <3> SUFFICES ASSUME Steady
                 PROVE  StillThere(fs, f)
      OBVIOUS
    <3>1. f.todo = EntriesOf(fs, Where(fs, Top.path)) /\ Where(fs, Top.path) \in Dirs
      BY <1>1, <1>5, <2>1, TopThere
    <3>2. \A e \in EntriesOf(fs, Where(fs, Top.path)) : fs[Where(fs, Top.path)][e.name].kind = e.kind
      BY <1>2, <3>1, EntriesRead
    <3> HIDE DEF f, l
    <3> QED
      BY <2>1, <3>1, <3>2 DEF StillThere
  <2>3. /\ Work(f) \in Seq(Frames) /\ Work(f) # <<>> /\ StackInv(Work(f), path)
        /\ Steady => PlainOn(fs, Work(f), path)
        /\ Work(f) = Append(Front(stack), f) /\ Top = Last(stack)
    <3> HIDE DEF f
    <3> QED
      BY <1>1, <2>1, <2>2, TopGoes
  <2>4. ASSUME ~touched
        PROVE  ExactOn(fs, Work(f), path, scanned)
    <3>1. /\ Exact(fs, stack, path) /\ Steady
          /\ pc = "scan" => ScanKnows(fs, stack, path, scanned)
          /\ pc = "delete" => DeleteKnows(fs, stack, path, scanned)
      BY <1>1, <2>4, WalkFacts
    <3> DEFINE g == [Last(stack) EXCEPT !.todo = EntriesOf(fs, Where(fs, Last(stack).path)), !.at = "entries"]
    <3>2. l.entries = EntriesOf(fs, Where(fs, Last(stack).path))
      BY <1>5, <2>3, <3>1
    <3>3. f = g /\ Last(stack).at = "read"
      <4> HIDE DEF l
      <4> QED
        BY <1>1, <2>3, <3>2
    <3>4. /\ Append(Front(stack), g) \in Seq(FramesRead(fs))
          /\ ScanKnows(fs, stack, path, scanned) => ScanKnows(fs, Append(Front(stack), g), path, scanned)
          /\ DeleteKnows(fs, stack, path, scanned) => DeleteKnows(fs, Append(Front(stack), g), path, scanned)
      BY <1>2, <3>1, <3>3, KnowsRead
    <3> HIDE DEF g
    <3>5. Work(f) = Append(Front(stack), g)
      BY <2>3, <3>3
    <3> HIDE DEF f
    <3> QED
      BY <3>1, <3>4, <3>5 DEF ExactOn
  <2> HIDE DEF f, l
  <2> QED
    BY <1>1, <1>2, <1>9, <2>3, <2>4, GoesOn
<1> HIDE DEF l, f
<1> QED
  BY <1>4, <1>6, <1>7, <1>8, <1>9

\* What an entry that is looked at leaves to be done.
LEMMA EntryFacts ==
    ASSUME IInv, Walking, Top.at = "entries", NEW e \in Top.todo
    PROVE  LET f == [Top EXCEPT !.todo = @ \ {e}]
               child == Append(Top.path, e.name)
           IN  /\ e \in Listed /\ e.name \in Names /\ child \in Paths /\ child # <<>>
               /\ f \in Frames /\ f.path = Top.path /\ f.todo = Top.todo \ {e}
               /\ Steady => StillThere(fs, f)
               /\ Entered(stack, e) = Append(Work(f), Frame(child)) /\ Work(f) = Append(Front(stack), f)
<1> DEFINE f == [Top EXCEPT !.todo = @ \ {e}]
           child == Append(Top.path, e.name)
<1>1. Top \in Frames /\ Top.path \in Paths /\ Top.todo \subseteq Listed
  BY WalkFacts
<1>2. e \in Listed /\ e.name \in Names
  BY <1>1 DEF Listed
<1>3. child \in Paths /\ child # <<>>
  BY <1>1, <1>2, PathAppended, FrontOfAppend DEF Paths
<1>4. f \in Frames /\ f.path = Top.path /\ f.todo = Top.todo \ {e}
  BY <1>1 DEF Frames
<1>5. Steady => StillThere(fs, f)
  <2>1. Steady => StillThere(fs, Top)
    BY TopThere
  <2> HIDE DEF f
  <2> QED
    BY <1>4, <2>1 DEF StillThere
<1>6. Entered(stack, e) = Append(Work(f), Frame(child)) /\ Work(f) = Append(Front(stack), f)
  BY DEF Entered, Work, Pop, Top
<1> QED
  BY <1>2, <1>3, <1>4, <1>5, <1>6

\* An entry that either walk refuses or, as a directory, enters.
LEMMA NextEntryInv ==
    ASSUME IInv, Walking, NEW e, NextEntry(pc, e)
    PROVE  IInv'
<1> DEFINE f == [Top EXCEPT !.todo = @ \ {e}]
           child == Append(Top.path, e.name)
           n == scanned + 1
<1>1. Top.at = "entries" /\ e \in Top.todo
  BY DEF NextEntry
<1>2. /\ fs \in Tree /\ path \in Paths /\ path # <<>> /\ stack \in Seq(Frames) /\ stack # <<>> /\ StackInv(stack, path)
      /\ scanned \in Nat /\ (pc = "scan" => removed = {}) /\ Top.path \in Paths
  BY WalkFacts
<1>3. /\ e \in Listed /\ e.name \in Names /\ child \in Paths
      /\ Entered(stack, e) = Append(Work(f), Frame(child))
  BY <1>1, EntryFacts
<1>4. Top = Last(stack)
  BY DEF Top
<1>5. pc = "delete" /\ ~touched => n <= MaxWalkEntries /\ ~IsPathDenied(child)
  <2> SUFFICES ASSUME pc = "delete", ~touched
               PROVE  n <= MaxWalkEntries /\ ~IsPathDenied(child)
    OBVIOUS
  <2>1. Exact(fs, stack, path) /\ DeleteKnows(fs, stack, path, scanned)
    BY WalkFacts
  <2>2. Last(stack).at = "entries" /\ e \in Last(stack).todo
    BY <1>1, <1>4
  <2>3. scanned + 1 <= MaxWalkEntries /\ ~IsPathDenied(Append(Last(stack).path, e.name))
    BY <1>2, <2>1, <2>2, KnowsAllowed
  <2> QED
    BY <1>4, <2>3
<1>6. \/ \E r \in BudgetRefusal(n) : Refuse(r)
      \/ IsPathDenied(child) /\ Refuse("Denied")
      \/ /\ MayGoOn(n) /\ ~IsPathDenied(child) /\ e.kind = "dir"
         /\ Continue(Append(Work(f), Frame(child)), n) /\ UNCHANGED <<fs, removed>> /\ Keep
  BY DEF NextEntry
<1>7. ASSUME NEW r \in BudgetRefusal(n), Refuse(r)
      PROVE  IInv'
  <2>1. r = "max_walk_ms" \/ (r = "max_walk_entries" /\ n > MaxWalkEntries)
    BY <1>7 DEF BudgetRefusal, OverBudget
  <2>2. r \in {"Denied", "max_walk_entries"} /\ ~touched => removed = {}
    BY <1>2, <1>5, <2>1, DeleteAssumption DEF Walking
  <2> QED
    BY <1>7, <2>2, RefuseInv
<1>8. CASE IsPathDenied(child) /\ Refuse("Denied")
  <2>1. ~touched => removed = {}
    BY <1>2, <1>5, <1>8 DEF Walking
  <2> QED
    BY <1>8, <2>1, RefuseInv
<1>9. CASE /\ MayGoOn(n) /\ ~IsPathDenied(child) /\ e.kind = "dir"
           /\ Continue(Append(Work(f), Frame(child)), n) /\ UNCHANGED <<fs, removed>> /\ Keep
  <2> DEFINE v == Entered(stack, e)
  <2>1. Last(stack).at = "entries" /\ e \in Last(stack).todo /\ ~IsPathDenied(Append(Last(stack).path, e.name))
    BY <1>1, <1>4, <1>9
  <2>2. v \in Seq(Frames) /\ v # <<>>
    BY <1>2, <2>1, EnteredStack
  <2>3. StackInv(v, path)
    BY <1>2, <1>9, <2>1, EnteredOn
  <2>4. ASSUME Steady
        PROVE  PlainOn(fs, v, path)
    <3>1. PlainOn(fs, stack, path)
      BY <2>4, WalkFacts
    <3> QED
      BY <1>2, <1>9, <2>1, <3>1, PlainEntered
  <2>5. ASSUME ~touched
        PROVE  ExactOn(fs, v, path, n)
    <3>1. /\ Exact(fs, stack, path)
          /\ pc = "scan" => ScanKnows(fs, stack, path, scanned)
          /\ pc = "delete" => DeleteKnows(fs, stack, path, scanned)
      BY <2>5, WalkFacts
    <3>2. /\ v \in Seq(FramesRead(fs))
          /\ ScanKnows(fs, stack, path, scanned) => ScanKnows(fs, v, path, n)
          /\ DeleteKnows(fs, stack, path, scanned) => DeleteKnows(fs, v, path, n)
      BY <1>2, <1>9, <2>1, <3>1, KnowsEntry
    <3> HIDE DEF v
    <3> QED
      BY <3>1, <3>2 DEF ExactOn
  <2>6. n \in Nat /\ n <= MaxWalkEntries
    BY <1>2, <1>9, DeleteAssumption DEF MayGoOn, OverBudget
  <2>7. Continue(v, n) /\ UNCHANGED <<fs, removed>> /\ Keep
    BY <1>3, <1>9
  <2> HIDE DEF v, n
  <2> QED
    BY <2>2, <2>3, <2>4, <2>5, <2>6, <2>7, GoesOn
<1> QED
  BY <1>6, <1>7, <1>8, <1>9

\* The scan looks at an entry.
LEMMA ScanEntryInv ==
    ASSUME IInv, NEW e, ScanEntry(e)
    PROVE  IInv'
<1> DEFINE f == [Top EXCEPT !.todo = @ \ {e}]
           child == Append(Top.path, e.name)
           n == scanned + 1
<1>1. CASE NextEntry("scan", e)
  <2>1. pc = "scan"
    BY <1>1 DEF NextEntry
  <2> QED
    BY <1>1, <2>1, NextEntryInv DEF Walking
<1>2. CASE /\ pc = "scan" /\ Top.at = "entries" /\ e \in Top.todo
           /\ MayGoOn(n) /\ ~IsPathDenied(child) /\ e.kind # "dir"
           /\ Continue(Work(f), n) /\ UNCHANGED <<fs, removed>> /\ Keep
  <2>1. Walking
    BY <1>2 DEF Walking
  <2>2. scanned \in Nat
    BY <2>1, WalkFacts
  <2>3. f \in Frames /\ f.path = Top.path /\ (Steady => StillThere(fs, f))
    BY <1>2, <2>1, EntryFacts
  <2>4. /\ Work(f) \in Seq(Frames) /\ Work(f) # <<>> /\ StackInv(Work(f), path)
        /\ Steady => PlainOn(fs, Work(f), path)
        /\ Work(f) = Append(Front(stack), f) /\ Top = Last(stack)
    <3> HIDE DEF f
    <3> QED
      BY <2>1, <2>3, TopGoes
  <2>5. ASSUME ~touched
        PROVE  ExactOn(fs, Work(f), path, n)
    <3>1. Exact(fs, stack, path) /\ ScanKnows(fs, stack, path, scanned)
      BY <1>2, <2>1, <2>5, WalkFacts
    <3> DEFINE g == [Last(stack) EXCEPT !.todo = @ \ {e}]
    <3>2. Last(stack).at = "entries" /\ e \in Last(stack).todo /\ ~IsPathDenied(Append(Last(stack).path, e.name))
      BY <1>2, <2>4
    <3>3. Append(Front(stack), g) \in Seq(FramesRead(fs)) /\ ScanKnows(fs, Append(Front(stack), g), path, n)
      BY <1>2, <2>2, <3>1, <3>2, KnowsEntry
    <3>4. f = g
      BY <2>4
    <3> HIDE DEF f, g, n
    <3> QED
      BY <1>2, <2>4, <3>3, <3>4 DEF ExactOn
  <2>6. n \in Nat /\ n <= MaxWalkEntries
    BY <1>2, <2>2, DeleteAssumption DEF MayGoOn, OverBudget
  <2> HIDE DEF f, n
  <2> QED
    BY <1>2, <2>1, <2>4, <2>5, <2>6, GoesOn
<1> QED
  BY <1>1, <1>2 DEF ScanEntry

\* The scan is over a directory.
LEMMA ScanDoneInv ==
    ASSUME IInv, ScanDone
    PROVE  IInv'
<1>1. /\ Walking /\ pc = "scan" /\ Top.at = "entries" /\ Top.todo = {} /\ FrameDone
      /\ UNCHANGED <<fs, removed>> /\ Keep
  BY DEF ScanDone, Walking
<1>2. /\ fs \in Tree /\ WellShaped(fs) /\ path \in Paths /\ path # <<>> /\ stack \in Seq(Frames) /\ stack # <<>>
      /\ StackInv(stack, path) /\ scanned \in Nat /\ scanned <= MaxWalkEntries /\ removed \subseteq Dirs \X Names
  BY <1>1, WalkFacts DEF IInv, TypeOK
<1>3. fs' \in Tree /\ WellShaped(fs') /\ removed' \subseteq Dirs \X Names /\ fs' = fs /\ removed' = removed
  BY <1>1, <1>2
<1>4. Last(stack).at = "entries" /\ Last(stack).todo = {}
  BY <1>1 DEF Top
<1>5. ASSUME Steady
      PROVE  PlainOn(fs, Front(stack), path) /\ PlainOn(fs, <<Frame(path)>>, path)
  <2>1. PlainOn(fs, stack, path)
    BY <1>1, <1>5, WalkFacts
  <2>2. Len(stack) \in Nat \ {0} /\ 1 \in 1 .. Len(stack) /\ stack[1].path = path
    BY <1>2, OneLess DEF StackInv
  <2>3. PlainDir(fs, path) /\ PlainDir(fs, Front(path))
    BY <2>1, <2>2 DEF PlainOn
  <2> QED
    BY <1>2, <2>1, <2>3, PlainGone, KnowsFirst
<1>6. ASSUME ~touched
      PROVE  /\ ExactOn(fs, Front(stack), path, scanned)
             /\ Len(stack) = 1 => DeleteKnows(fs, <<Frame(path)>>, path, 0)
  <2>1. Exact(fs, stack, path) /\ ScanKnows(fs, stack, path, scanned)
    BY <1>1, <1>6, WalkFacts
  <2>2. Front(stack) \in Seq(FramesRead(fs)) /\ ScanKnows(fs, Front(stack), path, scanned)
    BY <1>2, <1>4, <2>1, KnowsLeft
  <2>3. Len(stack) = 1 => DeleteKnows(fs, <<Frame(path)>>, path, 0)
    BY <1>2, <1>4, <2>1, KnowsScanned
  <2> QED
    BY <1>1, <2>2, <2>3 DEF ExactOn
<1> QED
  BY <1>1, <1>3, <1>5, <1>6, FrameDoneInv

\* The name an entry of a walk has is removed, and what that leaves.
LEMMA TopUnlinked ==
    ASSUME IInv, pc = "delete", Top.at = "entries", NEW e \in Top.todo, e.kind # "dir",
           Lstat(fs, Append(Top.path, e.name)).kind \notin {"dir", "error", "absent"},
           Unlinked(Append(Top.path, e.name))
    PROVE  LET u == Work([Top EXCEPT !.todo = @ \ {e}])
           IN  /\ fs' \in Tree /\ WellShaped(fs') /\ removed' \subseteq Dirs \X Names
               /\ Steady => PlainOn(fs', u, path)
               /\ ~touched => ExactOn(fs', u, path, scanned + 1)
<1> DEFINE f == [Top EXCEPT !.todo = @ \ {e}]
           child == Append(Top.path, e.name)
           d == Holder(fs, child).ino
<1>1. /\ Walking /\ fs \in Tree /\ WellShaped(fs) /\ path \in Paths /\ path # <<>>
      /\ stack \in Seq(Frames) /\ stack # <<>> /\ StackInv(stack, path) /\ scanned \in Nat
      /\ Top.path \in Paths /\ removed \subseteq Dirs \X Names /\ Top = Last(stack)
  BY WalkFacts DEF Walking, IInv, TypeOK, Top
<1>2. /\ e.name \in Names /\ child \in Paths /\ child # <<>> /\ f \in Frames /\ f.path = Top.path
      /\ Steady => StillThere(fs, f)
  BY <1>1, EntryFacts
<1>3. Last(child) = e.name /\ Front(child) = Top.path
  BY <1>1, <1>2, FrontOfAppend DEF Paths
<1>4. d \in Dirs /\ fs[d][e.name].kind \in {"file", "link"}
  BY <1>1, <1>2, <1>3, FileOrLink
<1>5. fs' = Put(fs, d, e.name, Absent) /\ removed' = removed \cup {<<d, e.name>>}
  BY <1>3 DEF Unlinked, SlotOf
<1> HIDE DEF d
<1>6. fs' \in Tree /\ WellShaped(fs')
  BY <1>1, <1>2, <1>4, <1>5, Emptied
<1>7. removed' \subseteq Dirs \X Names
  BY <1>1, <1>2, <1>4, <1>5
<1>8. \A k \in Dirs, m \in Names : fs[k][m].kind = "dir" => fs'[k][m] = fs[k][m]
  <2>1. \A k \in Dirs, m \in Names \cup Calls : fs'[k][m] = IF k = d /\ m = e.name THEN Absent ELSE fs[k][m]
    BY <1>1, <1>2, <1>4, <1>5, PutTree, EntriesMade, SMTT(20)
  <2> QED
    BY <1>4, <2>1
<1>9. /\ Work(f) \in Seq(Frames) /\ (Steady => PlainOn(fs, Work(f), path))
      /\ Work(f) = Append(Front(stack), f)
  <2> HIDE DEF f
  <2> QED
    BY <1>1, <1>2, TopGoes
<1>10. Steady => PlainOn(fs', Work(f), path)
  <2> HIDE DEF f
  <2> QED
    BY <1>1, <1>6, <1>8, <1>9, PlainKept
<1>11. ASSUME ~touched
       PROVE  ExactOn(fs', Work(f), path, scanned + 1)
  <2>1. Exact(fs, stack, path) /\ DeleteKnows(fs, stack, path, scanned)
    BY <1>1, <1>11, WalkFacts
  <2>2. Last(stack).at = "entries" /\ e \in Last(stack).todo
    BY <1>1
  <2>3. Holder(fs, child) = DirEntry(Where(fs, Top.path))
    BY <1>1, <2>1, <2>2, EntryAhead DEF Exact
  <2>4. d = Where(fs, Last(stack).path)
    BY <1>1, <2>3 DEF d, DirEntry
  <2> DEFINE g == [Last(stack) EXCEPT !.todo = @ \ {e}]
             w == Put(fs, Where(fs, Last(stack).path), e.name, Absent)
  <2>5. Append(Front(stack), g) \in Seq(FramesRead(w)) /\ DeleteKnows(w, Append(Front(stack), g), path, scanned + 1)
    BY <1>1, <2>1, <2>2, KnowsUnlinked
  <2>6. w = fs' /\ Work(f) = Append(Front(stack), g)
    BY <1>1, <1>5, <1>9, <2>4
  <2> HIDE DEF w, f, g
  <2> QED
    BY <2>5, <2>6 DEF ExactOn
<1> QED
  BY <1>6, <1>7, <1>10, <1>11

\* The removal looks at an entry.
LEMMA DeleteEntryInv ==
    ASSUME IInv, NEW e, DeleteEntry(e)
    PROVE  IInv'
<1> DEFINE f == [Top EXCEPT !.todo = @ \ {e}]
           child == Append(Top.path, e.name)
           n == scanned + 1
           now == Lstat(fs, child)
<1>1. CASE NextEntry("delete", e)
  <2>1. pc = "delete"
    BY <1>1 DEF NextEntry
  <2> QED
    BY <1>1, <2>1, NextEntryInv DEF Walking
<1>2. CASE Refuse("Io")
  BY <1>2, RefuseInv
<1>3. CASE /\ pc = "delete" /\ Top.at = "entries" /\ e \in Top.todo
           /\ MayGoOn(n) /\ ~IsPathDenied(child) /\ e.kind # "dir"
           /\ now.kind \notin {"dir", "error"}
           /\ IF now.kind = "absent" THEN UNCHANGED <<fs, removed>> ELSE Unlinked(child)
           /\ Continue(Work(f), n) /\ Keep
  <2>1. Walking
    BY <1>3 DEF Walking
  <2>2. /\ fs \in Tree /\ WellShaped(fs) /\ path \in Paths /\ path # <<>>
        /\ stack \in Seq(Frames) /\ stack # <<>> /\ StackInv(stack, path)
        /\ scanned \in Nat /\ Top.path \in Paths /\ removed \subseteq Dirs \X Names
    BY <2>1, WalkFacts DEF IInv, TypeOK
  <2>3. f \in Frames /\ f.path = Top.path /\ (Steady => StillThere(fs, f))
    BY <1>3, <2>1, EntryFacts
  <2>4. /\ Work(f) \in Seq(Frames) /\ Work(f) # <<>> /\ StackInv(Work(f), path)
        /\ Steady => PlainOn(fs, Work(f), path)
        /\ Work(f) = Append(Front(stack), f) /\ Top = Last(stack)
    <3> HIDE DEF f
    <3> QED
      BY <2>1, <2>3, TopGoes
  <2>5. /\ fs' \in Tree /\ WellShaped(fs') /\ removed' \subseteq Dirs \X Names
        /\ Steady => PlainOn(fs', Work(f), path)
        /\ ~touched => ExactOn(fs', Work(f), path, n)
    <3>1. CASE now.kind = "absent"
      <4>1. fs' = fs /\ removed' = removed
        BY <1>3, <3>1
      <4>2. ASSUME ~touched
            PROVE  FALSE
        <5>1. Exact(fs, stack, path)
          BY <2>1, <4>2, WalkFacts
        <5>2. Last(stack).at = "entries" /\ e \in Last(stack).todo
          BY <1>3, <2>4
        <5>3. Lstat(fs, Append(Last(stack).path, e.name)).kind = e.kind /\ e \in Listed
          BY <2>2, <5>1, <5>2, EntryAhead DEF Exact
        <5>4. e.kind \in {"file", "dir", "link"}
          BY <5>3 DEF Listed
        <5> QED
          BY <2>4, <3>1, <5>3, <5>4
      <4> HIDE DEF f
      <4> QED
        BY <2>2, <2>4, <4>1, <4>2
    <3>2. CASE now.kind # "absent"
      <4>1. Unlinked(child) /\ now.kind \notin {"dir", "error", "absent"}
        BY <1>3, <3>2
      <4> QED
        BY <1>3, <4>1, TopUnlinked
    <3> QED
      BY <3>1, <3>2
  <2>6. n \in Nat /\ n <= MaxWalkEntries
    BY <1>3, <2>2, DeleteAssumption DEF MayGoOn, OverBudget
  <2>7. stack' = Work(f) /\ scanned' = n /\ UNCHANGED <<pc, path, pid, target, res>> /\ Keep /\ pc # "scan"
    BY <1>3 DEF Continue
  <2> HIDE DEF f, n
  <2> QED
    BY <2>1, <2>4, <2>5, <2>6, <2>7, Goes
<1> HIDE DEF f, child, n, now
<1> QED
  BY <1>1, <1>2, <1>3 DEF DeleteEntry, f, child, n, now

\* The directory is read again.
LEMMA RefreshInv ==
    ASSUME IInv, Refresh
    PROVE  IInv'
<1> DEFINE l == Listing(Top.path)
           f == [Top EXCEPT !.at = IF l.entries = {} THEN "rmdir" ELSE "read"]
<1>1. Walking /\ pc = "delete" /\ Top.at = "entries" /\ Top.todo = {}
  BY DEF Refresh, Walking
<1>2. /\ fs \in Tree /\ WellShaped(fs) /\ path \in Paths /\ path # <<>>
      /\ stack \in Seq(Frames) /\ stack # <<>> /\ StackInv(stack, path)
      /\ scanned \in Nat /\ scanned <= MaxWalkEntries
      /\ Top \in Frames /\ Top.path \in Paths /\ removed \subseteq Dirs \X Names
  BY <1>1, WalkFacts DEF IInv, TypeOK
<1>3. Steady => l = [st |-> "ok", entries |-> EntriesOf(fs, Where(fs, Top.path))]
  BY <1>1, TopThere DEF Listing
<1>4. \A r : Refuse(r) /\ r \notin {"Denied", "max_walk_entries"} => IInv'
  BY RefuseInv
<1>5. \/ l.st = "NotFound" /\ FrameDone /\ UNCHANGED <<fs, removed>> /\ Keep
      \/ Refuse("NotFound") \/ Refuse("Io")
      \/ l.st = "ok" /\ Continue(Work(f), scanned) /\ UNCHANGED <<fs, removed>> /\ Keep
  BY DEF Refresh
<1>6. CASE l.st = "NotFound" /\ FrameDone /\ UNCHANGED <<fs, removed>> /\ Keep
  <2>1. ~Steady /\ touched
    BY <1>3, <1>6 DEF Steady
  <2> HIDE DEF l
  <2> QED
    BY <1>1, <1>2, <1>6, <2>1, FrameDoneInv
<1>7. CASE l.st = "ok" /\ Continue(Work(f), scanned) /\ UNCHANGED <<fs, removed>> /\ Keep
  <2>1. f \in Frames /\ f.path = Top.path /\ f.todo = {}
    <3> HIDE DEF l
    <3> QED
      BY <1>1, <1>2 DEF Frames
  <2>2. StillThere(fs, f)
    BY <2>1 DEF StillThere
  <2>3. /\ Work(f) \in Seq(Frames) /\ Work(f) # <<>> /\ StackInv(Work(f), path)
        /\ Steady => PlainOn(fs, Work(f), path)
        /\ Work(f) = Append(Front(stack), f) /\ Top = Last(stack)
    <3> HIDE DEF f
    <3> QED
      BY <1>1, <2>1, <2>2, TopGoes
  <2>4. ASSUME ~touched
        PROVE  ExactOn(fs, Work(f), path, scanned)
    <3>1. Exact(fs, stack, path) /\ Steady /\ DeleteKnows(fs, stack, path, scanned)
      BY <1>1, <2>4, WalkFacts
    <3>2. Last(stack).at = "entries" /\ Last(stack).todo = {}
      BY <1>1, <2>3
    <3>3. EntriesOf(fs, Where(fs, Last(stack).path)) = {}
      BY <1>2, <3>1, <3>2, NothingLeft DEF Exact
    <3>4. l.entries = {}
      BY <1>3, <2>3, <3>1, <3>3
    <3> DEFINE g == [Last(stack) EXCEPT !.at = "rmdir"]
    <3>5. f = g
      <4> HIDE DEF l
      <4> QED
        BY <2>3, <3>4
    <3>6. Append(Front(stack), g) \in Seq(FramesRead(fs)) /\ DeleteKnows(fs, Append(Front(stack), g), path, scanned)
      BY <1>2, <3>1, <3>2, KnowsWorked
    <3> HIDE DEF f, g
    <3> QED
      BY <1>1, <2>3, <3>5, <3>6 DEF ExactOn
  <2> HIDE DEF f, l
  <2> QED
    BY <1>1, <1>2, <1>7, <2>3, <2>4, GoesOn
<1> HIDE DEF l, f
<1> QED
  BY <1>4, <1>5, <1>6, <1>7

\* The directory at the top of the removal is removed, and what that leaves.
LEMMA TopRemoved ==
    ASSUME IInv, pc = "delete", Top.at = "rmdir", Lstat(fs, Top.path).kind = "dir",
           Listing(Top.path).entries = {}, Unlinked(Top.path)
    PROVE  /\ fs' \in Tree /\ WellShaped(fs') /\ removed' \subseteq Dirs \X Names
           /\ Steady => PlainOn(fs', Front(stack), path)
           /\ ~touched => ExactOn(fs', Front(stack), path, scanned)
<1> DEFINE q == Top.path
           d == Holder(fs, q).ino
<1>1. /\ Walking /\ fs \in Tree /\ WellShaped(fs) /\ path \in Paths /\ path # <<>>
      /\ stack \in Seq(Frames) /\ stack # <<>> /\ StackInv(stack, path) /\ scanned \in Nat
      /\ q \in Paths /\ q # <<>> /\ removed \subseteq Dirs \X Names /\ Top = Last(stack)
  BY WalkFacts DEF Walking, IInv, TypeOK, Top
<1>2. d \in Dirs /\ Last(q) \in Names /\ fs[d][Last(q)] = Lstat(fs, q) /\ Bare(fs, fs[d][Last(q)].ino)
  BY <1>1, EmptyDirectory DEF Listing
<1>3. fs' = Put(fs, d, Last(q), Absent) /\ removed' = removed \cup {<<d, Last(q)>>}
  BY DEF Unlinked, SlotOf
<1>4. fs' \in Tree /\ WellShaped(fs')
  <2> HIDE DEF d, q
  <2> QED
    BY <1>1, <1>2, <1>3, Emptied
<1>5. removed' \subseteq Dirs \X Names
  BY <1>1, <1>2, <1>3
<1>6. Steady => d = Where(fs, Front(q))
  BY <1>1, TopThere DEF DirEntry
<1>7. ASSUME Steady
      PROVE  PlainOn(fs', Front(stack), path)
  <2>1. PlainOn(fs, stack, path)
    BY <1>1, <1>7, WalkFacts
  <2>2. PlainOn(Put(fs, Where(fs, Front(Last(stack).path)), Last(Last(stack).path), Absent), Front(stack), path)
    BY <1>1, <2>1, PlainAfter
  <2> QED
    BY <1>1, <1>3, <1>6, <1>7, <2>2
<1>8. ASSUME ~touched
      PROVE  ExactOn(fs', Front(stack), path, scanned)
  <2>1. Exact(fs, stack, path) /\ DeleteKnows(fs, stack, path, scanned) /\ Steady
    BY <1>1, <1>8, WalkFacts
  <2>2. Last(stack).at = "rmdir"
    BY <1>1
  <2> DEFINE w == Put(fs, Where(fs, Front(Last(stack).path)), Last(Last(stack).path), Absent)
  <2>3. Front(stack) \in Seq(FramesRead(w)) /\ DeleteKnows(w, Front(stack), path, scanned)
    BY <1>1, <2>1, <2>2, KnowsRemoved
  <2>4. w = fs'
    BY <1>1, <1>3, <1>6, <2>1
  <2> HIDE DEF w
  <2> QED
    BY <2>3, <2>4 DEF ExactOn
<1> QED
  BY <1>4, <1>5, <1>7, <1>8

\* A directory is removed.
LEMMA RemoveDirectoryInv ==
    ASSUME IInv, RemoveDirectory
    PROVE  IInv'
<1> DEFINE e == Lstat(fs, Top.path)
           l == Listing(Top.path)
           f == [Top EXCEPT !.at = "read"]
<1>1. Walking /\ pc = "delete" /\ Top.at = "rmdir"
  BY DEF RemoveDirectory, Walking
<1>2. /\ fs \in Tree /\ WellShaped(fs) /\ path \in Paths /\ path # <<>>
      /\ stack \in Seq(Frames) /\ stack # <<>> /\ StackInv(stack, path)
      /\ scanned \in Nat /\ scanned <= MaxWalkEntries
      /\ Top \in Frames /\ Top.path \in Paths /\ removed \subseteq Dirs \X Names
  BY <1>1, WalkFacts DEF IInv, TypeOK
<1>3. Steady => e.kind = "dir" /\ l = [st |-> "ok", entries |-> EntriesOf(fs, Where(fs, Top.path))]
  BY <1>1, TopThere DEF Listing
<1>4. \A r : Refuse(r) /\ r \notin {"Denied", "max_walk_entries"} => IInv'
  BY RefuseInv
<1>5. \/ e.kind = "absent" /\ FrameDone /\ UNCHANGED <<fs, removed>> /\ Keep
      \/ Refuse("NotFound") \/ Refuse("Io")
      \/ /\ e.kind = "dir" /\ l.entries # {}
         /\ Continue(Work(f), scanned) /\ UNCHANGED <<fs, removed>> /\ Keep
      \/ e.kind = "dir" /\ l.entries = {} /\ Unlinked(Top.path) /\ FrameDone /\ Keep
  BY DEF RemoveDirectory
<1>6. CASE e.kind = "absent" /\ FrameDone /\ UNCHANGED <<fs, removed>> /\ Keep
  <2>1. ~Steady /\ touched
    BY <1>3, <1>6 DEF Steady
  <2> HIDE DEF e
  <2> QED
    BY <1>1, <1>2, <1>6, <2>1, FrameDoneInv
<1>7. CASE /\ e.kind = "dir" /\ l.entries # {}
           /\ Continue(Work(f), scanned) /\ UNCHANGED <<fs, removed>> /\ Keep
  <2>1. f \in Frames /\ f.path = Top.path /\ f.todo = Top.todo
    BY <1>2 DEF Frames
  <2>2. Steady => StillThere(fs, f)
    <3>1. Steady => StillThere(fs, Top)
      BY <1>1, TopThere
    <3> HIDE DEF f
    <3> QED
      BY <2>1, <3>1 DEF StillThere
  <2>3. /\ Work(f) \in Seq(Frames) /\ Work(f) # <<>> /\ StackInv(Work(f), path)
        /\ Steady => PlainOn(fs, Work(f), path)
        /\ Work(f) = Append(Front(stack), f) /\ Top = Last(stack)
    <3> HIDE DEF f
    <3> QED
      BY <1>1, <2>1, <2>2, TopGoes
  <2>4. ASSUME ~touched
        PROVE  FALSE
    <3>1. Exact(fs, stack, path) /\ Steady /\ DeleteKnows(fs, stack, path, scanned)
      BY <1>1, <2>4, WalkFacts
    <3>2. Last(stack).at = "rmdir"
      BY <1>1, <2>3
    <3> HIDE DEF e, l, f
    <3>3. EntriesOf(fs, Where(fs, Last(stack).path)) = {}
      <4>1. stack \in Seq(FramesRead(fs)) /\ stack # <<>> /\ StackInv(stack, path) /\ PlainOn(fs, stack, path)
        BY <3>1 DEF Exact
      <4>2. /\ fs \in Tree /\ path \in Paths /\ path # <<>> /\ DeleteKnows(fs, stack, path, scanned)
            /\ Last(stack).at = "rmdir" \/ (Last(stack).at = "entries" /\ Last(stack).todo = {})
        BY <1>2, <3>1, <3>2
      <4> HIDE DEF FramesRead, Tree, Paths
      <4> QED
        BY <4>1, <4>2, NothingLeft
    <3> QED
      BY <1>3, <1>7, <2>3, <3>1, <3>3
  <2> HIDE DEF f, l, e
  <2> QED
    BY <1>1, <1>2, <1>7, <2>3, <2>4, GoesOn
<1>8. CASE e.kind = "dir" /\ l.entries = {} /\ Unlinked(Top.path) /\ FrameDone /\ Keep
  <2>1. /\ fs' \in Tree /\ WellShaped(fs') /\ removed' \subseteq Dirs \X Names
        /\ Steady => PlainOn(fs', Front(stack), path)
        /\ ~touched => ExactOn(fs', Front(stack), path, scanned)
    BY <1>1, <1>8, TopRemoved
  <2> HIDE DEF e, l
  <2> QED
    BY <1>1, <1>8, <2>1, FrameDoneInv
<1> HIDE DEF l, f, e
<1> QED
  BY <1>4, <1>5, <1>6, <1>7, <1>8

\* What other programs do leaves a tree; short of an exchange, directories stay.
LEMMA EnvironmentShape ==
    ASSUME fs \in Tree, WellShaped(fs), Environment
    PROVE  /\ fs' \in Tree /\ WellShaped(fs') /\ Touch
           /\ foreign \in Nat => foreign' \in Nat
           /\ moved' = moved \/ moved' = TRUE
           /\ ~moved' => ~moved /\ \A k \in Dirs, m \in Names : fs[k][m].kind = "dir" => fs'[k][m] = fs[k][m]
<1>1. CASE \E s \in CreatorSlots : Create(s[1], s[2]) \/ RemoveFile(s[1], s[2])
  <2> PICK s \in CreatorSlots : Create(s[1], s[2]) \/ RemoveFile(s[1], s[2])
    BY <1>1
  <2> DEFINE d == s[1]
             n == s[2]
  <2>1. d \in Dirs /\ n \in Names
    BY DeleteAssumption
  <2> HIDE DEF d, n
  <2>2. CASE Create(d, n)
    <3>1. fs[d][n] = Absent /\ fs' = Put(fs, d, n, FileEntry(0, "new")) /\ Touch /\ UNCHANGED <<foreign, moved>>
      BY <2>2 DEF Create
    <3>2. /\ fs' \in Tree /\ WellShaped(fs')
          /\ \A k \in Dirs, m \in Names : fs[k][m].kind = "dir" => fs'[k][m] = fs[k][m]
      BY <2>1, <3>1, ForeignShape
    <3> QED
      BY <3>1, <3>2
  <2>3. CASE RemoveFile(d, n)
    <3>1. fs[d][n].kind = "file" /\ fs' = Put(fs, d, n, Absent) /\ Touch /\ foreign' = foreign + 1 /\ UNCHANGED moved
      BY <2>3 DEF RemoveFile
    <3>2. fs' \in Tree /\ WellShaped(fs')
      BY <2>1, <3>1, Emptied
    <3>3. \A k \in Dirs, m \in Names \cup Calls : fs'[k][m] = IF k = d /\ m = n THEN Absent ELSE fs[k][m]
      BY <2>1, <3>1, PutTree, EntriesMade, SMTT(20)
    <3>4. \A k \in Dirs, m \in Names : fs[k][m].kind = "dir" => fs'[k][m] = fs[k][m]
      BY <3>1, <3>3
    <3> QED
      BY <3>1, <3>2, <3>4
  <2> QED
    BY <2>2, <2>3 DEF d, n
<1>2. CASE \E n, m \in ForeignNames : Exchange(n, m)
  <2> PICK n \in ForeignNames, m \in ForeignNames : Exchange(n, m)
    BY <1>2
  <2>1. n \in Names /\ m \in Names /\ Root \in Dirs /\ n # m
    BY DeleteAssumption, TreeAssumption DEF Exchange
  <2>2. /\ fs' = [fs EXCEPT ![Root][n] = fs[Root][m], ![Root][m] = fs[Root][n]]
        /\ Touch /\ foreign' = foreign + 1 /\ moved' = TRUE
    BY DEF Exchange
  <2>3. /\ fs' \in Tree
        /\ \A d \in Dirs, k \in Names \cup Calls :
             fs'[d][k] = IF d = Root /\ k = n THEN fs[Root][m]
                         ELSE IF d = Root /\ k = m THEN fs[Root][n] ELSE fs[d][k]
    <3> HIDE DEF Entry
    <3> QED
      BY <2>1, <2>2 DEF Tree
  <2>4. WellShaped(fs')
    BY <2>1, <2>3, ExchangedShape
  <2> QED
    BY <2>2, <2>3, <2>4
<1> QED
  BY <1>1, <1>2 DEF Environment

\* Other programs change the tree.
LEMMA EnvironmentInv ==
    ASSUME IInv, Environment
    PROVE  IInv'
<1>1. /\ fs' \in Tree /\ WellShaped(fs') /\ Touch
      /\ foreign' \in Nat /\ (moved' = moved \/ moved' = TRUE)
      /\ ~moved' => ~moved /\ \A k \in Dirs, m \in Names : fs[k][m].kind = "dir" => fs'[k][m] = fs[k][m]
  BY EnvironmentShape DEF IInv, TypeOK
<1>2. touched' = TRUE /\ UNCHANGED <<pc, path, pid, target, stack, scanned, removed, res, req, timed>>
  BY <1>1 DEF Touch, callVars
<1>3. TypeOK'
  BY <1>1, <1>2 DEF IInv, TypeOK
<1>4. CallInv'
  BY <1>2 DEF IInv, CallInv, Walking
<1>5. StackInv(stack, path)'
  BY <1>2 DEF IInv, StackInv
<1>6. PlainInv'
  <2> SUFFICES ASSUME (pc = "unlink" \/ Walking)', Steady'
               PROVE  PlainOn(fs', stack', path')
    BY DEF PlainInv
  <2>1. (pc = "unlink" \/ Walking) /\ ~moved' /\ Steady
    BY <1>1, <1>2 DEF Walking, Steady
  <2>2. PlainOn(fs, stack, path) /\ fs \in Tree /\ stack \in Seq(Frames) /\ path \in Paths /\ path # <<>>
    BY <2>1 DEF IInv, TypeOK, CallInv, PlainInv, Walking
  <2> QED
    BY <1>1, <1>2, <2>1, <2>2, PlainKept
<1>7. ExactInv' /\ RefusedBeforeRemoval'
  BY <1>2 DEF ExactInv, RefusedBeforeRemoval
<1> QED
  BY <1>1, <1>3, <1>4, <1>5, <1>6, <1>7 DEF IInv

\* ------------------------------------------------------------- the invariant
\* The call has not started.
LEMMA InitInv ==
    ASSUME Init
    PROVE  IInv
<1>1. /\ fs \in Tree /\ WellShaped(fs) /\ req \in Request /\ timed \in BOOLEAN
      /\ pc = "start" /\ path = <<>> /\ pid = NoDir /\ target = None /\ stack = <<>> /\ scanned = 0
      /\ removed = {} /\ res = "none" /\ foreign = 0 /\ touched = FALSE /\ moved = FALSE
  BY DeleteAssumption DEF Init
<1>2. TypeOK
  <2>1. path \in Paths
    BY <1>1 DEF Paths
  <2>2. stack \in Seq(Frames)
    <3> HIDE DEF Frames
    <3> QED
      BY <1>1
  <2> HIDE DEF Frames, Tree, Request, Paths
  <2> QED
    BY <1>1, <2>1, <2>2 DEF TypeOK, Stages
<1>3. CallInv
  BY <1>1 DEF CallInv, Walking
<1>4. StackInv(stack, path)
  BY <1>1 DEF StackInv
<1>5. PlainInv /\ ExactInv /\ RefusedBeforeRemoval
  BY <1>1 DEF PlainInv, ExactInv, Walking, RefusedBeforeRemoval
<1> QED
  BY <1>1, <1>2, <1>3, <1>4, <1>5 DEF IInv

\* Nothing happens.
LEMMA StutterInv ==
    ASSUME IInv, UNCHANGED vars
    PROVE  IInv'
<1>1. UNCHANGED <<fs, req, timed, pc, path, pid, target, stack, scanned, removed, res, foreign, touched, moved>>
  BY DEF vars, callVars, envVars
<1>2. TypeOK' /\ WellShaped(fs)'
  BY <1>1 DEF IInv, TypeOK
<1>3. CallInv'
  BY <1>1 DEF IInv, CallInv, Walking
<1>4. StackInv(stack, path)'
  BY <1>1 DEF IInv, StackInv
<1>5. PlainInv'
  BY <1>1 DEF IInv, PlainInv, Walking, Steady
<1>6. ExactInv'
  BY <1>1 DEF IInv, ExactInv, ExactOn, Walking
<1>7. RefusedBeforeRemoval'
  BY <1>1 DEF IInv, RefusedBeforeRemoval
<1> QED
  BY <1>2, <1>3, <1>4, <1>5, <1>6, <1>7 DEF IInv

\* No step breaks it.
LEMMA NextInv ==
    ASSUME IInv, [Next]_vars
    PROVE  IInv'
<1>1. ASSUME NEW e, ScanEntry(e) \/ DeleteEntry(e)
      PROVE  IInv'
  BY <1>1, ScanEntryInv, DeleteEntryInv
<1>2. CASE Call
  BY <1>1, <1>2, StartInv, CaptureInv, RevalidateInv, UnlinkInv, ReadInv, ScanDoneInv, RefreshInv,
     RemoveDirectoryInv DEF Call
<1>3. CASE Environment
  BY <1>3, EnvironmentInv
<1>4. CASE UNCHANGED vars
  BY <1>4, StutterInv
<1> QED
  BY <1>2, <1>3, <1>4 DEF Next, Terminated

\* What is known of the call and its walks is always so.
LEMMA Invariant == Spec => []IInv
<1>1. Init => IInv
  BY InitInv
<1>2. IInv /\ [Next]_vars => IInv'
  BY NextInv
<1> QED
  BY <1>1, <1>2, PTL DEF Spec

\* ----------------------------------------------------------------- removals
\* What a step removes, and when the answer may be that all is deleted: only a
\* path that is not denied goes, in the directory that leads to it by name.
Removal(q) == /\ q \in Paths /\ q # <<>> /\ PlainDir(fs, Front(q)) /\ ~IsPathDenied(q) /\ Unlinked(q)
              /\ res = "none" /\ res' = "deleted" => q = path /\ target.kind \in {"file", "dir", "link"}
Quiet == removed' = removed /\ ~(res = "none" /\ res' = "deleted")

\* A refusal removes nothing and is not the answer that all is deleted.
LEMMA RefusedQuiet ==
    ASSUME NEW r, Refuse(r), r \in Statuses \cup {"missing", "NotPermitted", "max_walk_entries", "max_walk_ms"}
    PROVE  Quiet
<1>1. r # "deleted"
  BY DEF Statuses
<1> QED
  BY <1>1 DEF Refuse, Return, Quiet

\* The first steps of the call remove nothing.
LEMMA PreparesQuietly ==
    ASSUME IInv, Start \/ CaptureTarget \/ Revalidate
    PROVE  Quiet
<1>1. fs \in Tree
  BY DEF IInv, TypeOK
<1>2. Missing \in {"missing", "NotFound"}
  BY DEF Missing
<1>3. CASE Start
  <2> DEFINE lex == ResolveLexically(req.path)
             parent == EnsureDir(fs, Front(lex.path))
  <2>1. lex \in Results /\ lex.path \in Paths /\ lex.st \in Statuses
    BY ResolveLexicallyType, ResultParts DEF IInv, TypeOK, Request
  <2>2. lex.path # <<>> => parent.st \in Statuses
    <3> SUFFICES ASSUME lex.path # <<>>
                 PROVE  parent.st \in Statuses
      OBVIOUS
    <3>1. Front(lex.path) \in Paths
      BY <2>1, PathParts
    <3> QED
      BY <1>1, <3>1, EnsureDirType, ResultParts
  <2>3. \/ Refuse("NotPermitted") \/ Refuse("InvalidPath") \/ Refuse("Denied") \/ Refuse(Missing)
        \/ Refuse(lex.st)
        \/ lex.path # <<>> /\ Refuse(parent.st)
        \/ UNCHANGED <<removed, res>>
    BY <1>3, Zenon DEF Start
  <2> HIDE DEF lex, parent
  <2> QED
    BY <1>2, <2>1, <2>2, <2>3, RefusedQuiet DEF Statuses, Quiet
<1>4. CASE CaptureTarget \/ Revalidate
  <2>1. ParentStable \in Statuses \cup {"missing"}
    BY <1>4, ParentKnown DEF IInv, CaptureTarget, Revalidate
  <2>2. \/ Refuse("InvalidPath") \/ Refuse("Io") \/ Refuse(Missing) \/ Refuse(ParentStable)
        \/ UNCHANGED <<removed, res>>
    BY <1>4 DEF CaptureTarget, Revalidate
  <2> QED
    BY <1>2, <2>1, <2>2, RefusedQuiet DEF Statuses, Quiet
<1> QED
  BY <1>3, <1>4

\* And so do those that read directories, unless others moved something.
LEMMA ReadsQuietly ==
    ASSUME IInv, Steady, ReadDirectory \/ ScanDone \/ Refresh \/ \E e : ScanEntry(e) \/ NextEntry(pc, e)
    PROVE  Quiet
<1>1. \A r \in {"NotFound", "Io", "Denied", "max_walk_entries", "max_walk_ms"} : Refuse(r) => Quiet
  BY RefusedQuiet DEF Statuses
<1>2. \A n : BudgetRefusal(n) \subseteq {"max_walk_entries", "max_walk_ms"}
  BY DEF BudgetRefusal
<1>3. \A s, n : Continue(s, n) /\ UNCHANGED <<fs, removed>> => Quiet
  BY DEF Continue, Quiet
<1>4. pc = "scan" /\ FrameDone /\ UNCHANGED <<fs, removed>> => Quiet
  BY DEF FrameDone, Quiet
<1>5. CASE ReadDirectory \/ Refresh
  <2>1. Walking
    BY <1>5 DEF ReadDirectory, Refresh, Walking
  <2>2. Listing(Top.path).st = "ok"
    BY <2>1, TopThere DEF Listing
  <2> QED
    BY <1>1, <1>2, <1>3, <1>5, <2>2 DEF ReadDirectory, Refresh
<1>6. CASE ScanDone
  BY <1>4, <1>6 DEF ScanDone
<1>7. ASSUME NEW e, NEW w, NextEntry(w, e)
      PROVE  Quiet
  BY <1>1, <1>2, <1>3, <1>7 DEF NextEntry
<1>8. ASSUME NEW e, ScanEntry(e)
      PROVE  Quiet
  BY <1>3, <1>7, <1>8 DEF ScanEntry
<1> QED
  BY <1>5, <1>6, <1>7, <1>8

\* What the others remove, unless somebody moved something: one name in the
\* directory it was looked for in.
LEMMA Removes ==
    ASSUME IInv, Steady, Unlink \/ RemoveDirectory \/ \E e : DeleteEntry(e)
    PROVE  Quiet \/ \E q : Removal(q)
<1>1. \A r \in {"missing", "NotFound", "Io"} : Refuse(r) => Quiet
  BY RefusedQuiet DEF Statuses
<1>2. CASE Unlink
  <2>1. Missing \in {"missing", "NotFound"}
    BY DEF Missing
  <2>2. Quiet \/ Unlinked(path)
    BY <1>1, <1>2, <2>1 DEF Unlink
  <2>3. /\ path \in Paths /\ path # <<>> /\ ~IsPathDenied(path) /\ PlainDir(fs, Front(path))
        /\ target.kind \in {"file", "dir", "link"}
    BY <1>2 DEF Unlink, IInv, TypeOK, CallInv, PlainInv, PlainOn
  <2> QED
    BY <2>2, <2>3 DEF Removal
<1>3. CASE RemoveDirectory
  <2>1. Walking /\ pc = "delete" /\ Top.at = "rmdir"
    BY <1>3 DEF RemoveDirectory, Walking
  <2>2. Lstat(fs, Top.path).kind = "dir"
    BY <2>1, TopThere
  <2>3. \A s, n : Continue(s, n) /\ UNCHANGED <<fs, removed>> => Quiet
    BY DEF Continue, Quiet
  <2>4. Quiet \/ (Unlinked(Top.path) /\ FrameDone)
    BY <1>1, <1>3, <2>2, <2>3 DEF RemoveDirectory
  <2>5. Top.path \in Paths /\ Top.path # <<>> /\ ~IsPathDenied(Top.path) /\ PlainDir(fs, Front(Top.path))
    BY <2>1, WalkFacts, TopThere
  <2>6. ASSUME FrameDone, res = "none", res' = "deleted"
        PROVE  Top.path = path
    <3>1. stack \in Seq(Frames) /\ stack # <<>> /\ StackInv(stack, path)
      BY <2>1, WalkFacts
    <3>2. Len(stack) \in Nat \ {0} /\ Last(stack) = stack[Len(stack)]
      BY <3>1, OneLess, FrontAndLast
    <3>3. ~(Len(stack) > 1)
      BY <2>6 DEF FrameDone
    <3>4. Len(stack) = 1
      BY <3>2, <3>3
    <3> QED
      BY <3>1, <3>2, <3>4 DEF StackInv, Top
  <2>7. target.kind \in {"file", "dir", "link"}
    BY <2>1 DEF IInv, CallInv
  <2> QED
    BY <2>4, <2>5, <2>6, <2>7 DEF Removal
<1>4. ASSUME NEW e, DeleteEntry(e)
      PROVE  Quiet \/ \E q : Removal(q)
  <2> DEFINE child == Append(Top.path, e.name)
             f == [Top EXCEPT !.todo = @ \ {e}]
  <2>1. CASE NextEntry("delete", e)
    <3>1. pc = "delete"
      BY <2>1 DEF NextEntry
    <3> QED
      BY <2>1, <3>1, ReadsQuietly
  <2>2. CASE Refuse("Io")
    BY <1>1, <2>2
  <2>3. CASE /\ pc = "delete" /\ Top.at = "entries" /\ e \in Top.todo /\ ~IsPathDenied(child)
             /\ UNCHANGED <<fs, removed>> \/ Unlinked(child)
             /\ Continue(Work(f), scanned + 1)
    <3>1. Walking
      BY <2>3 DEF Walking
    <3>2. child \in Paths /\ child # <<>> /\ Top.path \in Paths /\ e.name \in Names
      BY <2>3, <3>1, EntryFacts, WalkFacts
    <3>3. Front(child) = Top.path
      BY <3>2, FrontOfAppend DEF Paths
    <3>4. PlainDir(fs, Top.path)
      BY <3>1, TopThere
    <3>5. res' = res
      BY <2>3 DEF Continue
    <3> HIDE DEF child, f
    <3> QED
      BY <2>3, <3>2, <3>3, <3>4, <3>5 DEF Removal, Quiet
  <2> QED
    BY <1>4, <2>1, <2>2, <2>3 DEF DeleteEntry
<1> QED
  BY <1>2, <1>3, <1>4

\* So it is with every step, as long as nobody has moved anything.
LEMMA StepRemoves ==
    ASSUME IInv, [Next]_vars, ~moved
    PROVE  Quiet \/ \E q : Removal(q)
<1>1. Steady
  BY DEF Steady
<1>2. CASE Call
  <2>1. \/ Start \/ CaptureTarget \/ Revalidate
        \/ ReadDirectory \/ ScanDone \/ Refresh \/ (\E e : ScanEntry(e) \/ NextEntry(pc, e))
        \/ Unlink \/ RemoveDirectory \/ (\E e : DeleteEntry(e))
    BY <1>2 DEF Call
  <2> QED
    BY <1>1, <2>1, PreparesQuietly, ReadsQuietly, Removes
<1>3. CASE Environment
  <2>1. Touch
    BY <1>3, EnvironmentShape DEF IInv, TypeOK
  <2> QED
    BY <2>1 DEF Touch, callVars, Quiet
<1>4. CASE UNCHANGED vars
  BY <1>4 DEF vars, callVars, Quiet
<1> QED
  BY <1>2, <1>3, <1>4 DEF Next, Terminated

\* The directory a removed name was in has that name at no denied path.
LEMMA RemovedAllowed ==
    ASSUME IInv, NEW q, Removal(q), NEW d \in Dirs, NEW n \in Names, <<d, n>> \in removed' \ removed,
           NEW p \in PathsTo(fs, d)
    PROVE  ~IsPathDenied(Append(p, n))
<1>1. fs \in Tree /\ WellShaped(fs) /\ q \in Paths /\ q # <<>> /\ PlainDir(fs, Front(q)) /\ ~IsPathDenied(q)
  BY DEF IInv, TypeOK, Removal
<1>2. Front(q) \in Paths /\ Last(q) \in Names /\ Append(Front(q), Last(q)) = q
  BY <1>1, PathParts, SeqOfFront
<1>3. Holder(fs, q) = DirEntry(Where(fs, Front(q)))
  BY <1>1, <1>2, Seeing
<1>4. d = Where(fs, Front(q)) /\ n = Last(q)
  BY <1>3 DEF Removal, Unlinked, SlotOf, DirEntry
<1>5. p = Front(q)
  BY <1>1, <1>2, <1>4, ShortPathTo DEF Where
<1> QED
  BY <1>1, <1>2, <1>4, <1>5

\* What is removed last is not there any more.
LEMMA RemovedGone ==
    ASSUME IInv, NEW q, Removal(q)
    PROVE  Lstat(fs', q) = Absent
<1>1. fs \in Tree /\ WellShaped(fs) /\ q \in Paths /\ q # <<>> /\ PlainDir(fs, Front(q))
  BY DEF IInv, TypeOK, Removal
<1> DEFINE b == Front(q)
           n == Last(q)
           u == Put(fs, Where(fs, b), n, Absent)
<1>2. b \in Paths /\ n \in Names /\ Append(b, n) = q
  BY <1>1, PathParts, SeqOfFront
<1>3. Holder(fs, q) = DirEntry(Where(fs, b)) /\ Where(fs, b) \in Dirs
  BY <1>1, <1>2, Seeing
<1>4. fs' = u
  BY <1>3 DEF Removal, Unlinked, SlotOf, DirEntry
<1>5. Len(b) <= Len(b)
  BY <1>2 DEF Paths
<1> HIDE DEF b, n
<1>6. PlainDir(u, b) /\ Where(u, b) = Where(fs, b)
  BY <1>1, <1>2, <1>5, Remains DEF b
<1>7. u \in Tree /\ u[Where(fs, b)][n] = Absent
  BY <1>1, <1>2, <1>3, PutTree, EntriesMade
<1> HIDE DEF u
<1>8. Lstat(u, Append(b, n)) = u[Where(u, b)][n]
  BY <1>2, <1>6, <1>7, Seeing
<1> QED
  BY <1>2, <1>4, <1>6, <1>7, <1>8

\* ----------------------------------------------------------------- theorems
\* The call is always in one of its stages, its walk a stack of directories
\* with entries to look at, and the tree a tree, whatever others do.
THEOREM TypeCorrect == Spec => []TypeOK
<1>1. IInv => TypeOK
  BY DEF IInv
<1> QED
  BY <1>1, Invariant, PTL

\* A recursive delete that is refused for a denied descendant, or for having too
\* many entries, has removed nothing, unless others changed the tree since the
\* scan began: what the scan allowed and counted is all the removal comes to.
THEOREM RefusedInTime == Spec => []RefusedBeforeRemoval
<1>1. IInv => RefusedBeforeRemoval
  BY DEF IInv
<1> QED
  BY <1>1, Invariant, PTL

\* Nothing at a denied path is removed, even when it came after the scan, as
\* long as nobody moves a directory or a link.
THEOREM DeniedNotRemoved == Spec => DeniedSurvives
<1> DEFINE Survives == ~moved /\ pc # "start" =>
       \A d \in Dirs, n \in Names : removed' # removed /\ <<d, n>> \in removed' \ removed =>
         \A p \in PathsTo(fs, d) : ~IsPathDenied(Append(p, n))
<1>1. ASSUME IInv, [Next]_vars
      PROVE  Survives
  <2> SUFFICES ASSUME ~moved, NEW d \in Dirs, NEW n \in Names, <<d, n>> \in removed' \ removed,
                      NEW p \in PathsTo(fs, d)
               PROVE  ~IsPathDenied(Append(p, n))
    OBVIOUS
  <2>1. \E q : Removal(q)
    BY <1>1, StepRemoves DEF Quiet
  <2> QED
    BY <1>1, <2>1, RemovedAllowed
<1> HIDE DEF Survives
<1>2. IInv /\ [Next]_vars => [Survives]_vars
  BY <1>1
<1>3. Spec => [][Survives]_vars
  BY <1>2, Invariant, PTL DEF Spec
<1> QED
  BY <1>3 DEF Survives, DeniedSurvives

\* When the call answers that all is deleted, what it captured is not at the
\* path any more.
THEOREM DeletedWasRemoved == Spec => DeletedIsGone
<1> DEFINE Gone == res' = "deleted" /\ res = "none" /\ ~moved =>
                     ~SameIdentity(Lstat(fs', path), target) \/ target.kind = "absent"
<1>1. ASSUME IInv, [Next]_vars
      PROVE  Gone
  <2> SUFFICES ASSUME res' = "deleted", res = "none", ~moved, SameIdentity(Lstat(fs', path), target)
               PROVE  FALSE
    OBVIOUS
  <2>1. PICK q : Removal(q)
    BY <1>1, StepRemoves DEF Quiet
  <2>2. q = path /\ target.kind \in {"file", "dir", "link"}
    BY <2>1 DEF Removal
  <2>3. Lstat(fs', path) = Absent
    BY <1>1, <2>1, <2>2, RemovedGone
  <2> QED
    BY <2>2, <2>3, SameKinds DEF Absent
<1> HIDE DEF Gone
<1>2. IInv /\ [Next]_vars => [Gone]_vars
  BY <1>1
<1>3. Spec => [][Gone]_vars
  BY <1>2, Invariant, PTL DEF Spec
<1> QED
  BY <1>3 DEF Gone, DeletedIsGone
=============================================================================
