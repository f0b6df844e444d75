---------------------------- MODULE FsTree_proofs ----------------------------
(***************************************************************************)
(* What is proved of file trees and of the walks over them (FsTree,        *)
(* FsShape), for every tree and every path: the types, what a walk does    *)
(* one component at a time, where it ends, that a directory has one path   *)
(* without links, and which changes keep the shape.                        *)
(***************************************************************************)
EXTENDS FsShape, SequenceTheorems, WellFoundedInduction, TLAPS

\* ---------------------------------------------------------------- sequences
\* What holds at 0 and is passed on holds of every number.
LEMMA EveryNumber ==
    ASSUME NEW S, 0 \in S, \A n \in Nat : n \in S => n + 1 \in S
    PROVE  Nat \subseteq S
<1> SUFFICES ASSUME Nat \ S # {} PROVE FALSE
  OBVIOUS
<1> DEFINE Less == {pair \in Nat \X Nat : pair[1] < pair[2]}
<1>1. IsWellFoundedOn(Less, Nat)
  BY NatLessThanWellFounded DEF OpToRel
<1>2. PICK n \in Nat \ S : \A m \in Nat \ S : <<m, n>> \notin Less
  BY <1>1, WFMin
<1>3. n # 0 /\ n - 1 \in Nat /\ (n - 1) + 1 = n
  BY <1>2
<1>4. <<n - 1, n>> \in Less
  BY <1>3
<1>5. n - 1 \in S
  BY <1>2, <1>3, <1>4
<1> QED
  BY <1>2, <1>3, <1>5

\* A sequence that is not empty is its front and its last element.
LEMMA FrontAndLast ==
    ASSUME NEW T, NEW s \in Seq(T), s # <<>>
    PROVE  /\ Front(s) \in Seq(T) /\ Last(s) \in T
           /\ Len(s) \in Nat \ {0} /\ Len(Front(s)) = Len(s) - 1
           /\ \A i \in 1 .. Len(s) - 1 : Front(s)[i] = s[i]
           /\ Last(s) = s[Len(s)]
BY DEF Front, Last

\* The front and the last element of what was appended.
LEMMA FrontOfAppend ==
    ASSUME NEW T, NEW s \in Seq(T), NEW e
    PROVE  /\ Append(s, e) # <<>> /\ Front(Append(s, e)) = s /\ Last(Append(s, e)) = e
<1>1. Len(Append(s, e)) = Len(s) + 1 /\ Len(s) \in Nat
  OBVIOUS
<1> QED
  BY <1>1 DEF Front, Last

\* What holds of the empty sequence and is passed on from the front holds of
\* every sequence.
LEMMA EverySequence ==
    ASSUME NEW T, NEW S, <<>> \in S,
           \A s \in Seq(T) : s # <<>> /\ Front(s) \in S => s \in S
    PROVE  Seq(T) \subseteq S
<1> DEFINE Upto == {n \in Nat : \A s \in Seq(T) : Len(s) = n => s \in S}
<1>1. 0 \in Upto
  OBVIOUS
<1>2. ASSUME NEW n \in Nat, n \in Upto PROVE n + 1 \in Upto
  <2> SUFFICES ASSUME NEW s \in Seq(T), Len(s) = n + 1 PROVE s \in S
    OBVIOUS
  <2>1. s # <<>>
    OBVIOUS
  <2>2. Front(s) \in Seq(T) /\ Len(Front(s)) = n
    BY <2>1, FrontAndLast
  <2> QED
    BY <1>2, <2>1, <2>2
<1> HIDE DEF Upto
<1>3. Nat \subseteq Upto
  BY <1>1, <1>2, EveryNumber
<1> USE DEF Upto
<1> QED
  BY <1>3

Steps(f, T, base, step) ==
  \A s \in Seq(T) : f[s] = IF s = <<>> THEN base ELSE step[<<f[Front(s)], Last(s)>>]

\* Recursion over the front: for a first value and a step there is a function
\* that takes the steps along every sequence.
LEMMA Recursion ==
    ASSUME NEW T, NEW R, NEW base \in R, NEW step \in [R \X T -> R]
    PROVE  \E f \in [Seq(T) -> R] : Steps(f, T, base, step)
<1> DEFINE Trace(s, t) == /\ t \in [0 .. Len(s) -> R] /\ t[0] = base
                          /\ \A i \in 1 .. Len(s) : t[i] = step[<<t[i - 1], s[i]>>]
           Traced == {s \in Seq(T) : \E t \in [0 .. Len(s) -> R] : Trace(s, t)}
<1>1. Seq(T) \subseteq Traced
  <2>1. <<>> \in Traced
    <3> DEFINE t == [i \in 0 .. 0 |-> base]
    <3>1. Trace(<<>>, t) /\ t \in [0 .. Len(<<>>) -> R]
      OBVIOUS
    <3> HIDE DEF t, Trace
    <3> QED
      BY <3>1
  <2>2. ASSUME NEW s \in Seq(T), s # <<>>, Front(s) \in Traced PROVE s \in Traced
    <3>1. PICK u \in [0 .. Len(Front(s)) -> R] : Trace(Front(s), u)
      BY <2>2
    <3>2. /\ Len(s) \in Nat \ {0} /\ Len(Front(s)) = Len(s) - 1 /\ Last(s) \in T
          /\ \A i \in 1 .. Len(s) - 1 : Front(s)[i] = s[i]
          /\ Last(s) = s[Len(s)]
      BY <2>2, FrontAndLast
    <3> DEFINE t == [i \in 0 .. Len(s) |->
                       IF i = Len(s) THEN step[<<u[Len(s) - 1], Last(s)>>] ELSE u[i]]
    <3>3. u[Len(s) - 1] \in R
      BY <3>1, <3>2
    <3>4. step[<<u[Len(s) - 1], Last(s)>>] \in R
      BY <3>2, <3>3
    <3>5. t \in [0 .. Len(s) -> R]
      BY <3>1, <3>2, <3>4
    <3>6. t[0] = base
      BY <3>1, <3>2
    <3>7. ASSUME NEW i \in 1 .. Len(s) PROVE t[i] = step[<<t[i - 1], s[i]>>]
      <4>1. CASE i = Len(s)
        <5>1. i \in 0 .. Len(s) /\ i - 1 \in 0 .. Len(s) /\ i - 1 # Len(s)
          BY <3>2, <4>1
        <5>2. t[i] = step[<<u[Len(s) - 1], Last(s)>>] /\ t[i - 1] = u[Len(s) - 1]
          BY <4>1, <5>1
        <5> QED
          BY <3>2, <4>1, <5>2
      <4>2. CASE i # Len(s)
        <5>1. i \in 1 .. Len(s) - 1 /\ i \in 0 .. Len(s) /\ i - 1 \in 0 .. Len(s) /\ i - 1 # Len(s)
          BY <3>2, <4>2
        <5>2. t[i] = u[i] /\ t[i - 1] = u[i - 1] /\ Front(s)[i] = s[i]
          BY <3>2, <4>2, <5>1
        <5>3. u[i] = step[<<u[i - 1], Front(s)[i]>>]
          BY <3>1, <3>2, <5>1
        <5> QED
          BY <5>2, <5>3
      <4> QED
        BY <4>1, <4>2
    <3> HIDE DEF t
    <3> QED
      BY <3>5, <3>6, <3>7
  <2> HIDE DEF Traced
  <2> QED
    BY <2>1, <2>2, EverySequence
<1>2. ASSUME NEW s \in Seq(T), NEW t, NEW u, Trace(s, t), Trace(s, u) PROVE t = u
  <2> DEFINE Same == {i \in Nat : i <= Len(s) => t[i] = u[i]}
  <2>1. 0 \in Same
    BY <1>2
  <2>2. ASSUME NEW n \in Nat, n \in Same PROVE n + 1 \in Same
    <3> SUFFICES ASSUME n + 1 <= Len(s) PROVE t[n + 1] = u[n + 1]
      OBVIOUS
    <3>1. n + 1 \in 1 .. Len(s) /\ (n + 1) - 1 = n /\ t[n] = u[n]
      BY <2>2
    <3> QED
      BY <1>2, <3>1
  <2> HIDE DEF Same
  <2>3. Nat \subseteq Same
    BY <2>1, <2>2, EveryNumber
  <2> USE DEF Same
  <2>4. \A i \in 0 .. Len(s) : t[i] = u[i]
    BY <2>3
  <2> QED
    BY <1>2, <2>4
<1> DEFINE t(s) == CHOOSE u \in [0 .. Len(s) -> R] : Trace(s, u)
           f == [s \in Seq(T) |-> t(s)[Len(s)]]
<1>3. ASSUME NEW s \in Seq(T) PROVE Trace(s, t(s))
  BY <1>1, <1>3
<1>4. f \in [Seq(T) -> R]
  BY <1>3
<1>5. ASSUME NEW s \in Seq(T), s = <<>> PROVE f[s] = base
  BY <1>3, <1>5
<1>6. ASSUME NEW s \in Seq(T), s # <<>> PROVE f[s] = step[<<f[Front(s)], Last(s)>>]
  <2> DEFINE u == [i \in 0 .. Len(s) - 1 |-> t(s)[i]]
  <2>1. /\ Front(s) \in Seq(T) /\ Len(s) \in Nat \ {0} /\ Len(Front(s)) = Len(s) - 1
        /\ \A i \in 1 .. Len(s) - 1 : Front(s)[i] = s[i]
        /\ Last(s) = s[Len(s)]
    BY <1>6, FrontAndLast
  <2>2. Trace(s, t(s))
    BY <1>3
  <2> HIDE DEF t
  <2>3. Trace(Front(s), u)
    <3>1. u \in [0 .. Len(Front(s)) -> R] /\ u[0] = base
      BY <2>1, <2>2
    <3>2. ASSUME NEW i \in 1 .. Len(Front(s)) PROVE u[i] = step[<<u[i - 1], Front(s)[i]>>]
      <4>1. i \in 1 .. Len(s) /\ i \in 0 .. Len(s) - 1 /\ i - 1 \in 0 .. Len(s) - 1 /\ Front(s)[i] = s[i]
        BY <2>1
      <4>2. u[i] = t(s)[i] /\ u[i - 1] = t(s)[i - 1]
        BY <4>1
      <4> QED
        BY <2>2, <4>1, <4>2
    <3> QED
      BY <3>1, <3>2
  <2>4. Trace(Front(s), t(Front(s)))
    BY <1>3, <2>1
  <2> HIDE DEF Trace, u
  <2>5. t(Front(s)) = u
    BY <1>2, <2>1, <2>3, <2>4
  <2> USE DEF Trace, u
  <2>6. f[Front(s)] = t(s)[Len(s) - 1] /\ f[s] = t(s)[Len(s)]
    BY <2>1, <2>5
  <2>7. t(s)[Len(s)] = step[<<t(s)[Len(s) - 1], s[Len(s)]>>]
    BY <2>1, <2>2
  <2> QED
    BY <2>1, <2>6, <2>7
<1> HIDE DEF f
<1> QED
  BY <1>4, <1>5, <1>6 DEF Steps

\* -------------------------------------------------------------------- trees
Directory == [kind : {"dir"}, ino : Dirs]
Statuses  == {"ok", "Io", "NotFound", "OutsideRoot", "Denied", "InvalidPath"}
Results   == [st : Statuses, path : Paths, entry : Entry]

\* What the entries of a tree are, by their kind.
LEMMA EntryKinds ==
    ASSUME NEW e \in Entry
    PROVE  /\ e.kind \in {"absent", "file", "dir", "link"}
           /\ e.kind = "absent" <=> e = Absent
           /\ e.kind = "file" => e.ino \in Inos /\ e.data \in Contents /\ e = FileEntry(e.ino, e.data)
           /\ e.kind = "dir" => e.ino \in Dirs /\ e \in Directory /\ e = DirEntry(e.ino)
           /\ e.kind = "link" => e.to \in Paths /\ e = LinkEntry(e.to)
BY DEF Entry, Absent, FileEntry, DirEntry, LinkEntry, Directory

\* What the constructors of entries give.
LEMMA EntriesMade ==
    /\ Absent \in Entry
    /\ \A i \in Inos, k \in Contents : FileEntry(i, k) \in Entry
    /\ \A d \in Dirs : DirEntry(d) \in Entry /\ DirEntry(d) \in Directory
BY DEF Entry, Absent, FileEntry, DirEntry, Directory

\* And those of results.
LEMMA ResultsMade ==
    /\ \A p \in Paths, e \in Entry : Resolved(p, e) \in Results
    /\ \A why \in Statuses : Failed(why) \in Results
    /\ AtRoot \in Results
<1>1. Absent \in Entry /\ DirEntry(Root) \in Entry /\ <<>> \in Paths
  BY EntriesMade, TreeAssumption DEF Paths
<1> HIDE DEF Entry, Paths
<1> QED
  BY <1>1 DEF Resolved, Failed, AtRoot, Results, Statuses

\* What a directory has under a name is an entry.
LEMMA TreeEntry ==
    ASSUME NEW t \in Tree, NEW d \in Dirs, NEW n \in Names \cup Calls
    PROVE  t[d][n] \in Entry
BY DEF Tree

\* What every result has.
LEMMA ResultParts ==
    ASSUME NEW r \in Results
    PROVE  r.st \in Statuses /\ r.path \in Paths /\ r.entry \in Entry
BY DEF Results

\* A path with one more name is a path.
LEMMA PathAppended ==
    ASSUME NEW p \in Paths, NEW n \in Names
    PROVE  Append(p, n) \in Paths
BY DEF Paths

\* A step along a path gives a result.
LEMMA EnterType ==
    ASSUME NEW t \in Tree, NEW r \in Results, NEW n \in Names, NEW linked \in [Paths -> Results]
    PROVE  Enter(t, r, n, linked) \in Results
<1> DEFINE e == t[r.entry.ino][n]
<1>1. r.entry \in Entry /\ r.path \in Paths
  BY DEF Results
<1>2. CASE r.st # "ok" \/ r.entry.kind # "dir"
  BY <1>2, ResultsMade DEF Enter, Statuses
<1>3. CASE r.st = "ok" /\ r.entry.kind = "dir"
  <2>1. r.entry.ino \in Dirs
    BY <1>1, <1>3, EntryKinds
  <2>2. e \in Entry
    BY <2>1 DEF Tree
  <2>3. Append(r.path, n) \in Paths
    BY <1>1, PathAppended
  <2>4. CASE e.kind = "link"
    <3>1. e.to \in Paths
      BY <2>2, <2>4, EntryKinds
    <3> QED
      BY <1>3, <2>4, <3>1 DEF Enter
  <2>5. CASE e.kind # "link"
    BY <1>3, <2>2, <2>3, <2>5, ResultsMade DEF Enter, Statuses
  <2> QED
    BY <2>4, <2>5
<1> QED
  BY <1>2, <1>3

\* A path is followed component by component.
LEMMA FollowUnfolds ==
    ASSUME NEW t \in Tree, NEW linked \in [Paths -> Results]
    PROVE  /\ Follow(t, linked) \in [Paths -> Results]
           /\ Follow(t, linked)[<<>>] = AtRoot
           /\ \A p \in Paths : p # <<>> =>
                Follow(t, linked)[p] = Enter(t, Follow(t, linked)[Front(p)], Last(p), linked)
<1> DEFINE Body(g) == [p \in Paths |-> IF p = <<>> THEN AtRoot
                                       ELSE Enter(t, g[Front(p)], Last(p), linked)]
           step == [x \in Results \X Names |-> Enter(t, x[1], x[2], linked)]
           walk == Follow(t, linked)
<1>1. step \in [Results \X Names -> Results]
  BY EnterType
<1>2. PICK f \in [Paths -> Results] : \A s \in Paths :
        f[s] = IF s = <<>> THEN AtRoot ELSE step[<<f[Front(s)], Last(s)>>]
  <2>1. AtRoot \in Results
    BY ResultsMade
  <2> HIDE DEF step, Results
  <2>2. \E f \in [Seq(Names) -> Results] : Steps(f, Names, AtRoot, step)
    BY <1>1, <2>1, Recursion
  <2> QED
    BY <2>2 DEF Paths, Steps
<1>3. ASSUME NEW p \in Paths, p # <<>> PROVE Front(p) \in Paths /\ Last(p) \in Names
  BY <1>3, FrontAndLast DEF Paths
<1>4. \A s \in Paths : f[s] = Body(f)[s]
  BY <1>2, <1>3
<1>5. f = Body(f)
  BY <1>2, <1>4
<1>6. walk = CHOOSE g : g = Body(g)
  BY DEF Follow
<1>7. walk = Body(walk)
  <2> HIDE DEF Body, walk
  <2> QED
    BY <1>5, <1>6
<1> HIDE DEF walk
<1>8. walk[<<>>] = AtRoot /\ \A p \in Paths : p # <<>> =>
        walk[p] = Enter(t, walk[Front(p)], Last(p), linked)
  <2>1. \A p \in Paths : Body(walk)[p] = IF p = <<>> THEN AtRoot
                                         ELSE Enter(t, walk[Front(p)], Last(p), linked)
    OBVIOUS
  <2> HIDE DEF Body
  <2>2. \A p \in Paths : walk[p] = Body(walk)[p]
    BY <1>7
  <2>3. <<>> \in Paths
    BY DEF Paths
  <2> QED
    BY <2>1, <2>2, <2>3
<1> DEFINE Typed == {p \in Paths : walk[p] \in Results}
<1>9. Paths \subseteq Typed
  <2>1. <<>> \in Typed
    BY <1>8, ResultsMade DEF Paths
  <2>2. ASSUME NEW s \in Paths, s # <<>>, Front(s) \in Typed PROVE s \in Typed
    BY <1>3, <1>8, <2>2, EnterType
  <2> HIDE DEF Typed
  <2> QED
    BY <2>1, <2>2, EverySequence DEF Paths
<1>10. walk \in [Paths -> Results]
  BY <1>7, <1>9
<1> QED
  BY <1>8, <1>10 DEF walk

\* Where links lead.
LEMMA LinksType ==
    ASSUME NEW t \in Tree
    PROVE  NoLinks(t) \in [Paths -> Results] /\ OneLink(t) \in [Paths -> Results]
<1>1. [p \in Paths |-> Failed("Io")] \in [Paths -> Results]
  BY ResultsMade DEF Statuses
<1> QED
  BY <1>1, FollowUnfolds DEF NoLinks, OneLink

\* canonicalize(3), one component at a time.
LEMMA CanonicalizeUnfolds ==
    ASSUME NEW t \in Tree, NEW p \in Paths
    PROVE  /\ Canonicalize(t, p) \in Results
           /\ p = <<>> => Canonicalize(t, p) = AtRoot
           /\ p # <<>> =>
                Canonicalize(t, p) = Enter(t, Canonicalize(t, Front(p)), Last(p), OneLink(t))
BY LinksType, FollowUnfolds DEF Canonicalize

\* The directory a path's last name is in, and what is there under that name.
LEMMA HolderType ==
    ASSUME NEW t \in Tree, NEW p, Front(p) \in Paths
    PROVE  /\ Holder(t, p) \in Entry \cup {NoDir}
           /\ Holder(t, p).kind = "dir" => Holder(t, p).ino \in Dirs /\ Holder(t, p) \in Directory
<1>1. Canonicalize(t, Front(p)) \in Results
  BY CanonicalizeUnfolds
<1>2. Holder(t, p) \in Entry \cup {NoDir}
  BY <1>1 DEF Holder, LedTo, Results
<1>3. NoDir.kind # "dir"
  BY DEF NoDir
<1> QED
  BY <1>2, <1>3, EntryKinds

\* What lstat(2) finds.
LEMMA LstatType ==
    ASSUME NEW t \in Tree, NEW p, p # <<>> => Front(p) \in Paths /\ Last(p) \in Names \cup Calls
    PROVE  Lstat(t, p) \in Entry \cup {Other}
<1>1. CASE p = <<>>
  BY <1>1, EntriesMade, TreeAssumption DEF Lstat
<1>2. CASE p # <<>>
  <2>1. Canonicalize(t, Front(p)) \in Results
    BY <1>2, CanonicalizeUnfolds
  <2>2. Canonicalize(t, Front(p)).entry.kind = "dir" => Canonicalize(t, Front(p)).entry.ino \in Dirs
    BY <2>1, EntryKinds DEF Results
  <2> QED
    BY <1>2, <2>2, EntriesMade DEF Lstat, EntryIn, Tree
<1> QED
  BY <1>1, <1>2

\* What lstat finds is in the directory that a system call on the path uses.
LEMMA LstatInHolder ==
    ASSUME NEW t \in Tree, NEW p, p # <<>>, Front(p) \in Paths,
           Lstat(t, p).kind \notin {"absent", "error"}
    PROVE  /\ Holder(t, p).kind = "dir" /\ Holder(t, p).ino \in Dirs
           /\ Lstat(t, p) = t[Holder(t, p).ino][Last(p)]
<1>1. Canonicalize(t, Front(p)).st = "ok" /\ Canonicalize(t, Front(p)).entry.kind = "dir"
  BY DEF Lstat, EntryIn, Absent, Other
<1> QED
  BY <1>1, HolderType DEF Lstat, EntryIn, Holder, LedTo

\* And in a directory it finds what is there.
LEMMA HolderLooked ==
    ASSUME NEW t \in Tree, NEW p, p # <<>>, Front(p) \in Paths, Holder(t, p).kind = "dir"
    PROVE  Lstat(t, p) = t[Holder(t, p).ino][Last(p)]
BY DEF Lstat, EntryIn, Holder, LedTo, NoDir

\* A directory that lstat finds at a path is where the path leads.
LEMMA DirectoryReached ==
    ASSUME NEW t \in Tree, NEW p \in Paths, DirectoryAt(t, p).kind = "dir"
    PROVE  /\ Canonicalize(t, p).st = "ok" /\ Canonicalize(t, p).entry = DirectoryAt(t, p)
           /\ \A q : Front(q) = p => Holder(t, q) = DirectoryAt(t, p)
           /\ DirectoryAt(t, p) \in Directory
<1>1. Lstat(t, p).kind = "dir" /\ DirectoryAt(t, p) = Lstat(t, p)
  BY DEF DirectoryAt, IfDirectory, NoDir
<1>2. Canonicalize(t, p).st = "ok" /\ Canonicalize(t, p).entry = DirectoryAt(t, p)
  <2>1. CASE p = <<>>
    BY <1>1, <2>1, CanonicalizeUnfolds DEF Lstat, AtRoot, Resolved
  <2>2. CASE p # <<>>
    <3>1. Front(p) \in Paths /\ Last(p) \in Names
      BY <2>2, FrontAndLast DEF Paths
    <3> DEFINE r == Canonicalize(t, Front(p))
    <3>2. r.st = "ok" /\ r.entry.kind = "dir" /\ Lstat(t, p) = t[r.entry.ino][Last(p)]
      BY <1>1, <2>2 DEF Lstat, EntryIn, Absent, Other
    <3>3. Canonicalize(t, p) = Enter(t, r, Last(p), OneLink(t))
      BY <2>2, CanonicalizeUnfolds
    <3> HIDE DEF r
    <3>4. Canonicalize(t, p) = Resolved(Append(r.path, Last(p)), Lstat(t, p))
      BY <1>1, <3>2, <3>3 DEF Enter
    <3> QED
      BY <1>1, <3>4 DEF Resolved
  <2> QED
    BY <2>1, <2>2
<1>3. DirectoryAt(t, p) \in Directory
  <2>1. Canonicalize(t, p) \in Results
    BY CanonicalizeUnfolds
  <2> QED
    BY <1>2, <2>1, EntryKinds DEF Results
<1> QED
  BY <1>2, <1>3 DEF Holder, LedTo

\* Two results lead to the same directory, or both to none.
IsDirectory(r) == r.st = "ok" /\ r.entry.kind = "dir"
Alike(r, q) == IsDirectory(r) \/ IsDirectory(q) => r = q

\* Trees with the same directories and links are walked alike.
LEMMA FollowAlike ==
    ASSUME NEW t \in Tree, NEW u \in Tree, Structure(t) = Structure(u),
           NEW k \in [Paths -> Results], NEW l \in [Paths -> Results],
           \A p \in Paths : Alike(k[p], l[p])
    PROVE  \A p \in Paths : Alike(Follow(t, k)[p], Follow(u, l)[p])
<1>1. ASSUME NEW d \in Dirs, NEW n \in Names
      PROVE  t[d][n].kind \in {"dir", "link"} \/ u[d][n].kind \in {"dir", "link"} => t[d][n] = u[d][n]
  <2>1. Structure(t)[d][n] = Structure(u)[d][n]
    OBVIOUS
  <2>2. /\ Structure(t)[d][n] = IF t[d][n].kind \in {"dir", "link"} THEN t[d][n] ELSE Absent
        /\ Structure(u)[d][n] = IF u[d][n].kind \in {"dir", "link"} THEN u[d][n] ELSE Absent
    BY DEF Structure
  <2> QED
    BY <2>1, <2>2 DEF Absent
<1>2. ASSUME NEW r \in Results, NEW q \in Results, Alike(r, q), NEW n \in Names
      PROVE  Alike(Enter(t, r, n, k), Enter(u, q, n, l))
  <2>1. CASE ~(r.st = "ok" /\ r.entry.kind = "dir")
    BY <1>2, <2>1, Zenon DEF Alike, IsDirectory, Enter, Failed
  <2>2. CASE r.st = "ok" /\ r.entry.kind = "dir"
    <3> DEFINE e == t[r.entry.ino][n]
               f == u[r.entry.ino][n]
    <3>1. r = q /\ r.entry.ino \in Dirs
      BY <1>2, <2>2, ResultParts, EntryKinds DEF Alike, IsDirectory
    <3>2. e.kind \in {"dir", "link"} \/ f.kind \in {"dir", "link"} => e = f
      BY <1>1, <3>1
    <3>3. e \in Entry /\ f \in Entry
      BY <3>1, TreeEntry
    <3>4. /\ Enter(t, r, n, k) = IF e.kind = "absent" THEN Failed("NotFound")
                                 ELSE IF e.kind = "link" THEN k[e.to]
                                 ELSE Resolved(Append(r.path, n), e)
          /\ Enter(u, q, n, l) = IF f.kind = "absent" THEN Failed("NotFound")
                                 ELSE IF f.kind = "link" THEN l[f.to]
                                 ELSE Resolved(Append(r.path, n), f)
      BY <2>2, <3>1 DEF Enter
    <3> HIDE DEF e, f
    <3>5. CASE e.kind = "link" \/ f.kind = "link"
      <4>1. e = f /\ e.kind = "link" /\ e.to \in Paths
        BY <3>2, <3>3, <3>5, EntryKinds
      <4> QED
        BY <3>4, <4>1
    <3>6. CASE e.kind # "link" /\ f.kind # "link"
      <4> DEFINE After(x) == IF x.kind = "absent" THEN Failed("NotFound")
                             ELSE Resolved(Append(r.path, n), x)
      <4>1. Enter(t, r, n, k) = After(e) /\ Enter(u, q, n, l) = After(f)
        BY <3>4, <3>6
      <4>2. \A x : After(x).st = "ok" /\ After(x).entry.kind = "dir" => x.kind = "dir"
        BY DEF Failed, Resolved
      <4> HIDE DEF After
      <4> QED
        BY <3>2, <4>1, <4>2 DEF Alike, IsDirectory
    <3> QED
      BY <3>5, <3>6
  <2> QED
    BY <2>1, <2>2, SMTT(20)
<1>3. /\ Follow(t, k) \in [Paths -> Results] /\ Follow(u, l) \in [Paths -> Results]
      /\ Follow(t, k)[<<>>] = AtRoot /\ Follow(u, l)[<<>>] = AtRoot
      /\ \A p \in Paths : p # <<>> =>
           /\ Follow(t, k)[p] = Enter(t, Follow(t, k)[Front(p)], Last(p), k)
           /\ Follow(u, l)[p] = Enter(u, Follow(u, l)[Front(p)], Last(p), l)
  BY FollowUnfolds
<1> DEFINE Same == {p \in Paths : Alike(Follow(t, k)[p], Follow(u, l)[p])}
<1>4. <<>> \in Same
  BY <1>3 DEF Paths, Alike, IsDirectory
<1>5. ASSUME NEW s \in Paths, s # <<>>, Front(s) \in Same PROVE s \in Same
  <2>1. Front(s) \in Paths /\ Last(s) \in Names
    BY <1>5, FrontAndLast DEF Paths
  <2>2. Follow(t, k)[Front(s)] \in Results /\ Follow(u, l)[Front(s)] \in Results
    BY <1>3, <2>1
  <2> QED
    BY <1>2, <1>3, <1>5, <2>1, <2>2
<1> HIDE DEF Same
<1>6. Paths \subseteq Same
  BY <1>4, <1>5, EverySequence DEF Paths
<1> QED
  BY <1>6 DEF Same

\* So the directory a path's last name is in stays the same.
LEMMA HolderStays ==
    ASSUME NEW t \in Tree, NEW u \in Tree, Structure(t) = Structure(u),
           NEW p, Front(p) \in Paths, Holder(t, p).kind = "dir"
    PROVE  Holder(u, p) = Holder(t, p)
<1> DEFINE none == [q \in Paths |-> Failed("Io")]
<1>1. none \in [Paths -> Results] /\ \A q \in Paths : Alike(none[q], none[q])
  BY ResultsMade DEF Statuses, Alike, IsDirectory
<1>2. NoLinks(t) = Follow(t, none) /\ NoLinks(u) = Follow(u, none)
  BY DEF NoLinks
<1> HIDE DEF none
<1>3. \A q \in Paths : Alike(NoLinks(t)[q], NoLinks(u)[q])
  BY <1>1, <1>2, FollowAlike
<1>4. \A q \in Paths : Alike(OneLink(t)[q], OneLink(u)[q])
  BY <1>3, LinksType, FollowAlike DEF OneLink
<1>5. Alike(Canonicalize(t, Front(p)), Canonicalize(u, Front(p)))
  BY <1>4, LinksType, FollowAlike DEF Canonicalize
<1> QED
  BY <1>5 DEF Alike, IsDirectory, Holder, LedTo, NoDir

\* What is at a path.
LEMMA CanonicalizeType ==
    ASSUME NEW t \in Tree, NEW p \in Paths
    PROVE  Canonicalize(t, p) \in Results
BY CanonicalizeUnfolds

\* handle_existing_component gives a result.
LEMMA ExistingType ==
    ASSUME NEW t \in Tree, NEW p \in Paths, NEW e \in Entry \cup {Other}, NEW flag
    PROVE  ExistingComponent(t, p, e, flag) \in Results
<1>1. \A c \in Results : DirectoryInside(c) \in Results
  BY ResultsMade, ResultParts DEF DirectoryInside, Statuses
<1>2. e.kind = "dir" => e \in Entry
  BY DEF Other
<1> QED
  BY <1>1, <1>2, CanonicalizeType, ResultsMade DEF ExistingComponent, Statuses

\* A component below a path, looked at in both ways.
LEMMA ComponentLooked ==
    ASSUME NEW t \in Tree, NEW p \in Paths, NEW n \in Names
    PROVE  /\ Append(p, n) \in Paths /\ Canonicalize(t, Append(p, n)) \in Results
           /\ Lstat(t, Append(p, n)) \in Entry \cup {Other}
<1>1. Append(p, n) \in Paths /\ Front(Append(p, n)) = p /\ Last(Append(p, n)) = n
  BY PathAppended, FrontOfAppend DEF Paths
<1> QED
  BY <1>1, CanonicalizeType, LstatType

\* Each of the three walks takes a step to a result.
LEMMA ComponentTypes ==
    ASSUME NEW t \in Tree, NEW r \in Results, NEW n \in Names
    PROVE  /\ ClassifyComponent(t, r, n) \in Results
           /\ EnsureComponent(t, r, n) \in Results
           /\ \A flag : PreviewComponent(t, r, n, flag) \in Results
<1> DEFINE next == Append(r.path, n)
           e == Lstat(t, next)
<1>1. next \in Paths /\ e \in Entry \cup {Other} /\ Canonicalize(t, next) \in Results
  BY ComponentLooked, ResultParts
<1> HIDE DEF next, e
<1>2. e.kind # "error" => e \in Entry
  BY <1>1 DEF Other
<1>3. Absent \in Entry
  BY EntriesMade
<1>4. ClassifyComponent(t, r, n) \in Results
  <2>1. CASE e.kind = "link"
    <3>1. Canonicalize(t, e.to) \in Results
      BY <1>2, <2>1, EntryKinds, CanonicalizeType
    <3>2. LinkInside(e, Canonicalize(t, e.to)) \in Results
      BY <3>1, ResultsMade DEF LinkInside, Statuses
    <3> QED
      BY <2>1, <3>2 DEF ClassifyComponent, Classified, next, e
  <2>2. CASE e.kind # "link"
    <3>1. Classified(t, next, e) \in Results
      BY <1>1, <1>2, <2>2, ResultsMade DEF Classified, Statuses
    <3> QED
      BY <3>1 DEF ClassifyComponent, next, e
  <2> QED
    BY <2>1, <2>2
<1>5. EnsureComponent(t, r, n) \in Results
  <2>1. ExistingComponent(t, next, e, TRUE) \in Results
    BY <1>1, ExistingType
  <2>2. Allowed(ExistingComponent(t, next, e, TRUE)) \in Results
    BY <2>1, ResultsMade DEF Allowed, Statuses
  <2>3. Ensured(t, next, e) \in Results
    BY <2>2, ResultsMade DEF Ensured, Statuses
  <2> QED
    BY <2>3 DEF EnsureComponent, next, e
<1>6. ASSUME NEW flag PROVE PreviewComponent(t, r, n, flag) \in Results
  <2>1. PreviewInside(Canonicalize(t, next), flag) \in Results
    BY <1>1, ResultsMade DEF PreviewInside, Statuses
  <2>2. Previewed(t, next, e, flag) \in Results
    BY <1>1, <1>3, <2>1, ResultsMade DEF Previewed, Statuses
  <2>3. Resolved(next, Absent) \in Results
    BY <1>1, <1>3, ResultsMade
  <2> QED
    BY <2>2, <2>3 DEF PreviewComponent, next, e
<1> QED
  BY <1>4, <1>5, <1>6

\* The walk of classify_notfound_escape ends.
LEMMA ClassifyNotFoundEscapeType ==
    ASSUME NEW t \in Tree, NEW p \in Paths
    PROVE  ClassifyNotFoundEscape(t, p) \in Statuses
<1> DEFINE Body(g) == [q \in Paths |-> IF q = <<>> THEN AtRoot ELSE ClassifyComponent(t, g[Front(q)], Last(q))]
           step == [x \in Results \X Names |-> ClassifyComponent(t, x[1], x[2])]
           walk == CHOOSE g : g = Body(g)
<1>1. step \in [Results \X Names -> Results]
  BY ComponentTypes
<1>2. AtRoot \in Results /\ <<>> \in Paths
  BY ResultsMade DEF Paths
<1>3. \A q \in Paths : q # <<>> => Front(q) \in Paths /\ Last(q) \in Names
  BY FrontAndLast DEF Paths
<1>4. \E f : f = Body(f)
  <2>1. PICK f \in [Paths -> Results] : Steps(f, Names, AtRoot, step)
    <3> HIDE DEF step, Results
    <3> QED
      BY <1>1, <1>2, Recursion DEF Paths
  <2>2. \A q \in Paths : f[q] = IF q = <<>> THEN AtRoot ELSE step[<<f[Front(q)], Last(q)>>]
    BY <2>1 DEF Steps, Paths
  <2>3. \A q \in Paths : f[q] = Body(f)[q]
    BY <1>3, <2>2
  <2> QED
    BY <2>1, <2>3
<1>5. walk = Body(walk)
  <2> HIDE DEF Body
  <2> QED
    BY <1>4
<1> HIDE DEF walk
<1>6. \A q \in Paths : walk[q] = IF q = <<>> THEN AtRoot ELSE ClassifyComponent(t, walk[Front(q)], Last(q))
  <2>1. \A q \in Paths : Body(walk)[q] = IF q = <<>> THEN AtRoot
                                         ELSE ClassifyComponent(t, walk[Front(q)], Last(q))
    OBVIOUS
  <2> HIDE DEF Body
  <2> QED
    BY <1>5, <2>1
<1> DEFINE Typed == {q \in Paths : walk[q] \in Results}
<1>7. \A q \in Paths : q # <<>> /\ Front(q) \in Typed => q \in Typed
  BY <1>3, <1>6, ComponentTypes
<1>8. <<>> \in Typed
  BY <1>2, <1>6
<1>9. Paths \subseteq Typed
  <2> HIDE DEF Typed
  <2> QED
    BY <1>7, <1>8, EverySequence DEF Paths
<1>10. walk[p] \in Results
  BY <1>9
<1> QED
  BY <1>10, ResultParts DEF ClassifyNotFoundEscape, walk

\* And that of ensure_dir_under_root.
LEMMA EnsureDirType ==
    ASSUME NEW t \in Tree, NEW p \in Paths
    PROVE  EnsureDir(t, p) \in Results
<1> DEFINE Body(g) == [q \in Paths |-> IF q = <<>> THEN AtRoot ELSE EnsureComponent(t, g[Front(q)], Last(q))]
           step == [x \in Results \X Names |-> EnsureComponent(t, x[1], x[2])]
           walk == CHOOSE g : g = Body(g)
<1>1. step \in [Results \X Names -> Results]
  BY ComponentTypes
<1>2. AtRoot \in Results /\ <<>> \in Paths
  BY ResultsMade DEF Paths
<1>3. \A q \in Paths : q # <<>> => Front(q) \in Paths /\ Last(q) \in Names
  BY FrontAndLast DEF Paths
<1>4. \E f : f = Body(f)
  <2>1. PICK f \in [Paths -> Results] : Steps(f, Names, AtRoot, step)
    <3> HIDE DEF step, Results
    <3> QED
      BY <1>1, <1>2, Recursion DEF Paths
  <2>2. \A q \in Paths : f[q] = IF q = <<>> THEN AtRoot ELSE step[<<f[Front(q)], Last(q)>>]
    BY <2>1 DEF Steps, Paths
  <2>3. \A q \in Paths : f[q] = Body(f)[q]
    BY <1>3, <2>2
  <2> QED
    BY <2>1, <2>3
<1>5. walk = Body(walk)
  <2> HIDE DEF Body
  <2> QED
    BY <1>4
<1> HIDE DEF walk
<1>6. \A q \in Paths : walk[q] = IF q = <<>> THEN AtRoot ELSE EnsureComponent(t, walk[Front(q)], Last(q))
  <2>1. \A q \in Paths : Body(walk)[q] = IF q = <<>> THEN AtRoot
                                         ELSE EnsureComponent(t, walk[Front(q)], Last(q))
    OBVIOUS
  <2> HIDE DEF Body
  <2> QED
    BY <1>5, <2>1
<1> DEFINE Typed == {q \in Paths : walk[q] \in Results}
<1>7. \A q \in Paths : q # <<>> /\ Front(q) \in Typed => q \in Typed
  BY <1>3, <1>6, ComponentTypes
<1>8. <<>> \in Typed
  BY <1>2, <1>6
<1>9. Paths \subseteq Typed
  <2> HIDE DEF Typed
  <2> QED
    BY <1>7, <1>8, EverySequence DEF Paths
<1>10. walk[p] \in Results
  BY <1>9
<1> QED
  BY <1>10 DEF EnsureDir, walk

\* And that of preview_parent_dir_under_root.
LEMMA PreviewParentType ==
    ASSUME NEW t \in Tree, NEW p \in Paths, NEW flag
    PROVE  PreviewParent(t, p, flag) \in Results
<1> DEFINE Body(g) == [q \in Paths |-> IF q = <<>> THEN AtRoot ELSE PreviewComponent(t, g[Front(q)], Last(q), flag)]
           step == [x \in Results \X Names |-> PreviewComponent(t, x[1], x[2], flag)]
           walk == CHOOSE g : g = Body(g)
<1>1. step \in [Results \X Names -> Results]
  BY ComponentTypes
<1>2. AtRoot \in Results /\ <<>> \in Paths
  BY ResultsMade DEF Paths
<1>3. \A q \in Paths : q # <<>> => Front(q) \in Paths /\ Last(q) \in Names
  BY FrontAndLast DEF Paths
<1>4. \E f : f = Body(f)
  <2>1. PICK f \in [Paths -> Results] : Steps(f, Names, AtRoot, step)
    <3> HIDE DEF step, Results
    <3> QED
      BY <1>1, <1>2, Recursion DEF Paths
  <2>2. \A q \in Paths : f[q] = IF q = <<>> THEN AtRoot ELSE step[<<f[Front(q)], Last(q)>>]
    BY <2>1 DEF Steps, Paths
  <2>3. \A q \in Paths : f[q] = Body(f)[q]
    BY <1>3, <2>2
  <2> QED
    BY <2>1, <2>3
<1>5. walk = Body(walk)
  <2> HIDE DEF Body
  <2> QED
    BY <1>4
<1> HIDE DEF walk
<1>6. \A q \in Paths : walk[q] = IF q = <<>> THEN AtRoot ELSE PreviewComponent(t, walk[Front(q)], Last(q), flag)
  <2>1. \A q \in Paths : Body(walk)[q] = IF q = <<>> THEN AtRoot
                                         ELSE PreviewComponent(t, walk[Front(q)], Last(q), flag)
    OBVIOUS
  <2> HIDE DEF Body
  <2> QED
    BY <1>5, <2>1
<1> DEFINE Typed == {q \in Paths : walk[q] \in Results}
<1>7. \A q \in Paths : q # <<>> /\ Front(q) \in Typed => q \in Typed
  BY <1>3, <1>6, ComponentTypes
<1>8. <<>> \in Typed
  BY <1>2, <1>6
<1>9. Paths \subseteq Typed
  <2> HIDE DEF Typed
  <2> QED
    BY <1>7, <1>8, EverySequence DEF Paths
<1>10. walk[p] \in Results
  BY <1>9
<1> QED
  BY <1>10 DEF PreviewParent, walk

\* What the resolution of a request gives.
LEMMA ResolvedTypes ==
    ASSUME NEW t \in Tree, NEW p \in Paths
    PROVE  /\ CanonicalPathInRoot(t, p) \in Results
           /\ \A create, reject : ExpectedParent(t, p, create, reject) \in Results
<1>1. Canonicalize(t, p) \in Results /\ Canonicalize(t, p).st \in Statuses
  BY CanonicalizeType, ResultParts
<1>2. ClassifyNotFoundEscape(t, p) \in Statuses
  BY ClassifyNotFoundEscapeType
<1>3. CanonicalPathInRoot(t, p) \in Results
  BY <1>1, <1>2, ResultsMade DEF CanonicalPathInRoot, InRootOrRefused, Statuses
<1> QED
  BY <1>3, EnsureDirType, PreviewParentType DEF ExpectedParent

\* ------------------------------------------------------------ lexical paths
\* Normalized paths: names, and before them steps up.
Upward == {o \in Seq(Names \cup {".."}) :
             \A i, j \in 1 .. Len(o) : i < j /\ o[j] = ".." => o[i] = ".."}

\* A segment keeps a path normalized.
LEMMA SegmentKeepsUpward ==
    ASSUME NEW out \in Upward, NEW segment \in Names \cup {".", ".."}
    PROVE  WithSegment(out, segment) \in Upward
<1> DEFINE T == Names \cup {".."}
<1>1. out \in Seq(T) /\ \A i, j \in 1 .. Len(out) : i < j /\ out[j] = ".." => out[i] = ".."
  BY DEF Upward
<1>2. CASE segment = "."
  BY <1>2 DEF WithSegment
<1>3. CASE segment = ".." /\ out # <<>> /\ Last(out) # ".."
  <2>1. /\ Front(out) \in Seq(T) /\ Len(out) \in Nat \ {0} /\ Len(Front(out)) = Len(out) - 1
        /\ \A i \in 1 .. Len(out) - 1 : Front(out)[i] = out[i]
    BY <1>1, <1>3, FrontAndLast
  <2>2. \A i, j \in 1 .. Len(Front(out)) : i < j /\ Front(out)[j] = ".." => Front(out)[i] = ".."
    BY <1>1, <2>1
  <2>3. Front(out) \in Upward
    BY <2>1, <2>2 DEF Upward
  <2> QED
    BY <1>3, <2>3 DEF WithSegment
<1>4. CASE segment # "." /\ ~(segment = ".." /\ out # <<>> /\ Last(out) # "..")
  <2> DEFINE o == Append(out, segment)
  <2>1. /\ o \in Seq(T) /\ Len(o) = Len(out) + 1 /\ Len(out) \in Nat /\ o[Len(o)] = segment
        /\ \A i \in 1 .. Len(out) : o[i] = out[i]
    BY <1>1, <1>4
  <2>2. segment = ".." => \A i \in 1 .. Len(out) : out[i] = ".."
    <3> SUFFICES ASSUME segment = "..", NEW i \in 1 .. Len(out) PROVE out[i] = ".."
      OBVIOUS
    <3>1. out # <<>>
      OBVIOUS
    <3>2. out[Len(out)] = ".." /\ Len(out) \in 1 .. Len(out)
      BY <1>1, <1>4, <3>1, FrontAndLast
    <3> QED
      BY <1>1, <3>2
  <2> HIDE DEF o
  <2>3. ASSUME NEW i \in 1 .. Len(o), NEW j \in 1 .. Len(o), i < j, o[j] = ".." PROVE o[i] = ".."
    <3>1. i \in 1 .. Len(out) /\ o[i] = out[i]
      BY <2>1, <2>3
    <3>2. CASE j = Len(o)
      BY <2>1, <2>2, <2>3, <3>1, <3>2
    <3>3. CASE j # Len(o)
      <4>1. j \in 1 .. Len(out) /\ o[j] = out[j]
        BY <2>1, <3>3
      <4> QED
        BY <1>1, <2>3, <3>1, <4>1
    <3> QED
      BY <3>2, <3>3
  <2>4. o \in Upward
    BY <2>1, <2>3 DEF Upward
  <2> QED
    BY <1>4, <2>4 DEF WithSegment, o
<1> QED
  BY <1>2, <1>3, <1>4

\* normalize_path_lexical, one segment at a time.
LEMMA NormalizeUnfolds ==
    \A q \in Segments :
      NormalizeLexical(q) = IF q = <<>> THEN <<>> ELSE WithSegment(NormalizeLexical(Front(q)), Last(q))
<1> DEFINE T == Names \cup {".", ".."}
           Body(g) == [q \in Seq(T) |-> IF q = <<>> THEN <<>> ELSE WithSegment(g[Front(q)], Last(q))]
           step == [x \in Upward \X T |-> WithSegment(x[1], x[2])]
           normal == CHOOSE g : g = Body(g)
<1>1. step \in [Upward \X T -> Upward]
  BY SegmentKeepsUpward
<1>2. <<>> \in Upward
  BY DEF Upward
<1>3. \A q \in Seq(T) : q # <<>> => Front(q) \in Seq(T) /\ Last(q) \in T
  BY FrontAndLast
<1>4. \E f : f = Body(f)
  <2>1. PICK f \in [Seq(T) -> Upward] : Steps(f, T, <<>>, step)
    <3> HIDE DEF step, Upward, T
    <3> QED
      BY <1>1, <1>2, Recursion
  <2>2. \A q \in Seq(T) : f[q] = IF q = <<>> THEN <<>> ELSE step[<<f[Front(q)], Last(q)>>]
    BY <2>1 DEF Steps
  <2>3. \A q \in Seq(T) : f[q] = Body(f)[q]
    BY <1>3, <2>2
  <2> QED
    BY <2>1, <2>3
<1>5. normal = Body(normal)
  <2> HIDE DEF Body
  <2> QED
    BY <1>4
<1> HIDE DEF normal
<1>6. \A q \in Seq(T) : normal[q] = IF q = <<>> THEN <<>> ELSE WithSegment(normal[Front(q)], Last(q))
  <2>1. \A q \in Seq(T) : Body(normal)[q] = IF q = <<>> THEN <<>>
                                            ELSE WithSegment(normal[Front(q)], Last(q))
    OBVIOUS
  <2> HIDE DEF Body
  <2> QED
    BY <1>5, <2>1
<1>7. \A q : NormalizeLexical(q) = normal[q]
  BY DEF NormalizeLexical, normal
<1> QED
  BY <1>6, <1>7 DEF Segments

\* It gives a normalized path.
LEMMA NormalizeType ==
    ASSUME NEW segs \in Segments
    PROVE  NormalizeLexical(segs) \in Upward
<1> DEFINE Typed == {q \in Segments : NormalizeLexical(q) \in Upward}
<1>1. <<>> \in Segments /\ <<>> \in Upward
  BY DEF Upward, Segments
<1>2. <<>> \in Typed
  BY <1>1, NormalizeUnfolds
<1>3. ASSUME NEW q \in Segments, q # <<>>, Front(q) \in Typed PROVE q \in Typed
  <2>1. Last(q) \in Names \cup {".", ".."}
    BY <1>3, FrontAndLast DEF Segments
  <2> QED
    BY <1>3, <2>1, NormalizeUnfolds, SegmentKeepsUpward
<1> HIDE DEF Typed
<1>4. Segments \subseteq Typed
  BY <1>2, <1>3, EverySequence DEF Segments
<1> QED
  BY <1>4 DEF Typed

\* A path of names is normal.
LEMMA NormalPath ==
    ASSUME NEW p \in Paths
    PROVE  p \in Segments /\ NormalizeLexical(p) = p
<1> DEFINE Normal == {q \in Paths : NormalizeLexical(q) = q}
<1>1. Paths \subseteq Segments
  BY DEF Paths, Segments
<1>2. <<>> \in Normal
  <2>1. <<>> \in Paths
    BY DEF Paths
  <2> QED
    BY <1>1, <2>1, NormalizeUnfolds
<1>3. ASSUME NEW q \in Paths, q # <<>>, Front(q) \in Normal PROVE q \in Normal
  <2>1. Front(q) \in Paths /\ Last(q) \in Names /\ Append(Front(q), Last(q)) = q
    BY <1>3, FrontAndLast DEF Paths
  <2>2. Last(q) # "." /\ Last(q) # ".."
    BY <2>1, ShapeAssumption
  <2>3. NormalizeLexical(q) = WithSegment(Front(q), Last(q))
    BY <1>1, <1>3, NormalizeUnfolds
  <2> QED
    BY <1>3, <2>1, <2>2, <2>3 DEF WithSegment
<1> HIDE DEF Normal
<1>4. Paths \subseteq Normal
  BY <1>2, <1>3, EverySequence DEF Paths
<1> QED
  BY <1>1, <1>4 DEF Normal

\* A request that is not refused lexically names a path below the root.
LEMMA ResolveLexicallyType ==
    ASSUME NEW segs \in Segments
    PROVE  /\ ResolveLexically(segs) \in Results
           /\ ResolveLexically(segs).st = "ok" =>
                ResolveLexically(segs).path = NormalizeLexical(segs)
<1> DEFINE p == NormalizeLexical(segs)
<1>1. p \in Upward
  BY NormalizeType
<1> HIDE DEF p
<1>2. ASSUME p = <<>> \/ Head(p) # ".." PROVE p \in Paths
  <2>1. p \in Seq(Names \cup {".."}) /\ Len(p) \in Nat
        /\ \A i, j \in 1 .. Len(p) : i < j /\ p[j] = ".." => p[i] = ".."
    BY <1>1 DEF Upward
  <2>2. ASSUME NEW i \in 1 .. Len(p) PROVE p[i] \in Names
    <3>1. p # <<>> /\ Head(p) = p[1] /\ 1 \in 1 .. Len(p)
      BY <2>1
    <3>2. p[i] # ".."
      BY <1>2, <2>1, <3>1
    <3> QED
      BY <2>1, <3>2
  <2> QED
    BY <2>1, <2>2 DEF Paths
<1>3. ResolveNormal(p) \in Results /\ (ResolveNormal(p).st = "ok" => ResolveNormal(p).path = p)
  BY <1>2, ResultsMade, EntriesMade DEF ResolveNormal, Statuses, Failed, Resolved
<1> QED
  BY <1>3, ResultsMade DEF ResolveLexically, p, Statuses, Failed

\* What a tree is after an entry was put.
LEMMA PutTree ==
    ASSUME NEW t \in Tree, NEW d \in Dirs, NEW n \in Names \cup Calls, NEW e \in Entry
    PROVE  /\ Put(t, d, n, e) \in Tree
           /\ \A k \in Dirs, m \in Names \cup Calls :
                Put(t, d, n, e)[k][m] = IF k = d /\ m = n THEN e ELSE t[k][m]
<1> HIDE DEF Entry
<1> QED
  BY DEF Put, Tree

\* The name of a call is none of an entry.
LEMMA NamesApart ==
    ASSUME NEW c \in Calls
    PROVE  c \notin Names /\ {c} \subseteq Calls
BY ShapeAssumption

\* A directory found at a path, or none.
LEMMA DirectoryAtType ==
    ASSUME NEW t \in Tree, NEW p \in Paths
    PROVE  /\ DirectoryAt(t, p) \in Directory \cup {NoDir}
           /\ DirectoryAt(t, p) # NoDir => DirectoryAt(t, p) \in Directory
<1>1. DirectoryAt(t, p).kind = "dir" \/ DirectoryAt(t, p) = NoDir
  BY DEF DirectoryAt, IfDirectory
<1> QED
  BY <1>1, DirectoryReached

\* The front and the last name of a path that is not the root.
LEMMA PathParts ==
    ASSUME NEW p \in Paths, p # <<>>
    PROVE  Front(p) \in Paths /\ Last(p) \in Names
BY FrontAndLast DEF Paths

\* Entries of the same identity have the same kind, and the same inode.
LEMMA SameKinds ==
    ASSUME NEW a, NEW b, SameIdentity(a, b),
           a.kind \in {"absent", "file", "dir", "link", "error"},
           b.kind \in {"absent", "file", "dir", "link", "error"}
    PROVE  a.kind = b.kind /\ (a.kind \in {"file", "dir"} => a.ino = b.ino)
<1>1. Identity(a)[1] = a.kind /\ Identity(b)[1] = b.kind
  BY DEF Identity
<1>2. a.kind = b.kind
  BY <1>1 DEF SameIdentity
<1>3. a.kind \in {"file", "dir"} => Identity(a)[2] = a.ino /\ Identity(b)[2] = b.ino
  BY <1>2 DEF Identity
<1> QED
  BY <1>2, <1>3 DEF SameIdentity

\* The directory in which a path has its last name, when its parent is where
\* it was.
LEMMA ParentReached ==
    ASSUME NEW t \in Tree, NEW p, Front(p) \in Paths, DirectoryAt(t, Front(p)) \in Directory
    PROVE  Holder(t, p) = DirectoryAt(t, Front(p))
<1>1. DirectoryAt(t, Front(p)).kind = "dir"
  BY DEF Directory
<1> QED
  BY <1>1, DirectoryReached

\* ------------------------------------------------------------ plain paths
\* A path that leads to a directory and on which there is no link.
PlainDir(t, p) == IsDirectory(NoLinks(t)[p])

\* A path without links, one component at a time.
LEMMA NoLinksUnfolds ==
    ASSUME NEW t \in Tree, NEW p \in Paths
    PROVE  /\ NoLinks(t)[p] \in Results
           /\ p = <<>> => NoLinks(t)[p] = AtRoot
           /\ p # <<>> => NoLinks(t)[p] =
                Enter(t, NoLinks(t)[Front(p)], Last(p), [q \in Paths |-> Failed("Io")])
<1>1. [q \in Paths |-> Failed("Io")] \in [Paths -> Results]
  BY ResultsMade DEF Statuses
<1> QED
  BY <1>1, FollowUnfolds DEF NoLinks

\* A walk that succeeds has come to a directory before its last name.
LEMMA EnteredFrom ==
    ASSUME NEW t, NEW r, NEW n, NEW linked, Enter(t, r, n, linked).st = "ok"
    PROVE  r.st = "ok" /\ r.entry.kind = "dir"
BY DEF Enter, Failed

\* What it leads to is in the directory that its front leads to.
LEMMA StepUp ==
    ASSUME NEW t \in Tree, NEW p \in Paths, p # <<>>, NoLinks(t)[p].st = "ok"
    PROVE  LET d == NoLinks(t)[Front(p)].entry.ino
           IN  /\ Front(p) \in Paths /\ Last(p) \in Names /\ PlainDir(t, Front(p)) /\ d \in Dirs
               /\ t[d][Last(p)].kind \notin {"absent", "link"}
               /\ NoLinks(t)[p] = Resolved(Append(NoLinks(t)[Front(p)].path, Last(p)), t[d][Last(p)])
<1> DEFINE none == [q \in Paths |-> Failed("Io")]
           r == NoLinks(t)[Front(p)]
<1>1. Front(p) \in Paths /\ Last(p) \in Names
  BY FrontAndLast DEF Paths
<1>2. r \in Results /\ NoLinks(t)[p] = Enter(t, r, Last(p), none)
  BY <1>1, NoLinksUnfolds
<1>3. r.st = "ok" /\ r.entry.kind = "dir"
  <2> HIDE DEF r, none
  <2>1. Enter(t, r, Last(p), none).st = "ok"
    BY <1>2
  <2> QED
    BY <2>1, EnteredFrom
<1>4. r.entry.ino \in Dirs
  BY <1>2, <1>3, ResultParts, EntryKinds
<1> DEFINE e == t[r.entry.ino][Last(p)]
<1>5. e \in Entry
  BY <1>1, <1>4, TreeEntry
<1>6. Enter(t, r, Last(p), none) = IF e.kind = "absent" THEN Failed("NotFound")
                                   ELSE IF e.kind = "link" THEN none[e.to]
                                   ELSE Resolved(Append(r.path, Last(p)), e)
  BY <1>3 DEF Enter
<1>7. e.kind = "link" => none[e.to] = Failed("Io")
  BY <1>5, EntryKinds
<1> HIDE DEF e, none, r
<1>8. e.kind \notin {"absent", "link"}
  BY <1>2, <1>6, <1>7 DEF Failed, r
<1> QED
  BY <1>1, <1>2, <1>3, <1>4, <1>6, <1>8, Zenon DEF PlainDir, IsDirectory, r, e

\* Such a path is canonical.
LEMMA Straight ==
    ASSUME NEW t \in Tree, NEW p \in Paths, NoLinks(t)[p].st = "ok"
    PROVE  NoLinks(t)[p].path = p
<1> DEFINE Good == {q \in Paths : NoLinks(t)[q].st = "ok" => NoLinks(t)[q].path = q}
<1>1. <<>> \in Good
  <2>1. <<>> \in Paths
    BY DEF Paths
  <2>2. NoLinks(t)[<<>>] = AtRoot
    BY <2>1, NoLinksUnfolds
  <2> QED
    BY <2>1, <2>2 DEF AtRoot, Resolved
<1>2. ASSUME NEW s \in Paths, s # <<>>, Front(s) \in Good PROVE s \in Good
  <2> SUFFICES ASSUME NoLinks(t)[s].st = "ok" PROVE NoLinks(t)[s].path = s
    OBVIOUS
  <2> DEFINE r == NoLinks(t)[Front(s)]
             e == t[r.entry.ino][Last(s)]
  <2>0. PlainDir(t, Front(s)) /\ Front(s) \in Paths /\ NoLinks(t)[s] = Resolved(Append(r.path, Last(s)), e)
    BY <1>2, StepUp
  <2>1. PlainDir(t, Front(s)) /\ Front(s) \in Paths /\ NoLinks(t)[s].path = Append(r.path, Last(s))
    <3> HIDE DEF r, e
    <3> QED
      BY <2>0 DEF Resolved
  <2>2. r.path = Front(s)
    BY <1>2, <2>1 DEF PlainDir, IsDirectory
  <2>3. s = Append(Front(s), Last(s))
    BY <1>2 DEF Paths, Front, Last
  <2> QED
    BY <2>1, <2>2, <2>3
<1> HIDE DEF Good
<1>3. Paths \subseteq Good
  BY <1>1, <1>2, EverySequence DEF Paths
<1> QED
  BY <1>3 DEF Good

\* Followed with links it leads to the same.
LEMMA StraightFollowed ==
    ASSUME NEW t \in Tree, NEW linked \in [Paths -> Results],
           NEW p \in Paths, NoLinks(t)[p].st = "ok"
    PROVE  Follow(t, linked)[p] = NoLinks(t)[p]
<1> DEFINE Good == {q \in Paths : NoLinks(t)[q].st = "ok" => Follow(t, linked)[q] = NoLinks(t)[q]}
<1>1. <<>> \in Good
  <2>1. <<>> \in Paths
    BY DEF Paths
  <2>2. NoLinks(t)[<<>>] = AtRoot /\ Follow(t, linked)[<<>>] = AtRoot
    BY <2>1, NoLinksUnfolds, FollowUnfolds
  <2> QED
    BY <2>1, <2>2
<1>2. ASSUME NEW s \in Paths, s # <<>>, Front(s) \in Good PROVE s \in Good
  <2> SUFFICES ASSUME NoLinks(t)[s].st = "ok" PROVE Follow(t, linked)[s] = NoLinks(t)[s]
    OBVIOUS
  <2> DEFINE r == NoLinks(t)[Front(s)]
             e == t[r.entry.ino][Last(s)]
  <2>1. /\ PlainDir(t, Front(s)) /\ Front(s) \in Paths /\ e.kind \notin {"absent", "link"}
        /\ NoLinks(t)[s] = Resolved(Append(r.path, Last(s)), e)
    BY <1>2, StepUp
  <2>2. Follow(t, linked)[Front(s)] = r /\ r.st = "ok" /\ r.entry.kind = "dir"
    BY <1>2, <2>1 DEF PlainDir, IsDirectory
  <2>3. Follow(t, linked)[s] = Enter(t, r, Last(s), linked)
    BY <1>2, <2>2, FollowUnfolds
  <2> HIDE DEF r
  <2> QED
    BY <2>1, <2>2, <2>3 DEF Enter
<1> HIDE DEF Good
<1>3. Paths \subseteq Good
  BY <1>1, <1>2, EverySequence DEF Paths
<1> QED
  BY <1>3 DEF Good

\* Results that name what they are by a path without links.
Canonical(t, r) == r.st = "ok" => NoLinks(t)[r.path] = r

\* What a path leads to, through links or not, has a path without links.
LEMMA FollowLands ==
    ASSUME NEW t \in Tree, NEW linked \in [Paths -> Results],
           \A p \in Paths : Canonical(t, linked[p])
    PROVE  \A p \in Paths : Canonical(t, Follow(t, linked)[p])
<1> DEFINE Good == {q \in Paths : Canonical(t, Follow(t, linked)[q])}
           none == [q \in Paths |-> Failed("Io")]
<1>1. <<>> \in Good
  <2>1. <<>> \in Paths
    BY DEF Paths
  <2>2. NoLinks(t)[<<>>] = AtRoot /\ Follow(t, linked)[<<>>] = AtRoot
    BY <2>1, NoLinksUnfolds, FollowUnfolds
  <2> QED
    BY <2>1, <2>2 DEF Canonical, AtRoot, Resolved
<1>2. ASSUME NEW s \in Paths, s # <<>>, Front(s) \in Good PROVE s \in Good
  <2> SUFFICES ASSUME Follow(t, linked)[s].st = "ok" PROVE Canonical(t, Follow(t, linked)[s])
    BY DEF Canonical
  <2> DEFINE r == Follow(t, linked)[Front(s)]
             n == Last(s)
             e == t[r.entry.ino][n]
  <2>1. Front(s) \in Paths /\ n \in Names
    BY <1>2, FrontAndLast DEF Paths
  <2>2. r \in Results /\ Canonical(t, r) /\ Follow(t, linked)[s] = Enter(t, r, n, linked)
    BY <1>2, <2>1, FollowUnfolds, SMTT(20)
  <2>3. r.st = "ok" /\ r.entry.kind = "dir" /\ r.path \in Paths
    <3> HIDE DEF r, n
    <3>1. Enter(t, r, n, linked).st = "ok"
      BY <2>2
    <3>2. r.st = "ok" /\ r.entry.kind = "dir"
      BY <3>1, EnteredFrom
    <3> QED
      BY <2>2, <3>2, ResultParts
  <2>4. r.entry.ino \in Dirs
    BY <2>2, <2>3, ResultParts, EntryKinds
  <2>5. e \in Entry
    BY <2>1, <2>4, TreeEntry
  <2>6. Enter(t, r, n, linked) = IF e.kind = "absent" THEN Failed("NotFound")
                                 ELSE IF e.kind = "link" THEN linked[e.to]
                                 ELSE Resolved(Append(r.path, n), e)
    BY <2>3 DEF Enter
  <2>7. Append(r.path, n) \in Paths /\ Append(r.path, n) # <<>>
        /\ Front(Append(r.path, n)) = r.path /\ Last(Append(r.path, n)) = n
    BY <2>1, <2>3, PathAppended, FrontOfAppend DEF Paths
  <2>8. NoLinks(t)[Append(r.path, n)] = Enter(t, r, n, none)
    BY <2>2, <2>3, <2>7, NoLinksUnfolds, ZenonT(40) DEF Canonical
  <2>9. CASE e.kind = "link"
    <3>1. e.to \in Paths
      BY <2>5, <2>9, EntryKinds
    <3> QED
      BY <2>2, <2>6, <2>9, <3>1, Zenon
  <2>10. CASE e.kind # "link"
    <3> HIDE DEF r, e, n, none
    <3>1. e.kind # "absent"
      BY <2>2, <2>6 DEF Failed
    <3>2. Follow(t, linked)[s] = Resolved(Append(r.path, n), e)
      BY <2>2, <2>6, <2>10, <3>1
    <3>3. NoLinks(t)[Append(r.path, n)] = Resolved(Append(r.path, n), e)
      BY <2>3, <2>8, <2>10, <3>1 DEF Enter, e
    <3> QED
      BY <3>2, <3>3 DEF Canonical, Resolved
  <2> QED
    BY <2>9, <2>10
<1> HIDE DEF Good
<1>3. Paths \subseteq Good
  BY <1>1, <1>2, EverySequence DEF Paths
<1> QED
  BY <1>3 DEF Good

\* canonicalize(3) gives canonical paths.
LEMMA Landing ==
    ASSUME NEW t \in Tree, NEW p \in Paths
    PROVE  Canonical(t, Canonicalize(t, p))
<1> DEFINE none == [q \in Paths |-> Failed("Io")]
<1>1. none \in [Paths -> Results] /\ \A q \in Paths : Canonical(t, none[q])
  BY ResultsMade DEF Statuses, Canonical, Failed
<1>2. NoLinks(t) = Follow(t, none)
  BY DEF NoLinks
<1> HIDE DEF none
<1>3. \A q \in Paths : Canonical(t, NoLinks(t)[q])
  BY <1>1, <1>2, FollowLands
<1>4. \A q \in Paths : Canonical(t, OneLink(t)[q])
  BY <1>3, LinksType, FollowLands DEF OneLink
<1> QED
  BY <1>4, LinksType, FollowLands DEF Canonicalize

\* What is seen of a directory on its plain path.
LEMMA Sight ==
    ASSUME NEW t \in Tree, NEW p \in Paths, PlainDir(t, p)
    PROVE  LET r == NoLinks(t)[p]
           IN  /\ r.path = p /\ r.entry \in Directory /\ r.entry.ino \in Dirs
               /\ r = Resolved(p, r.entry) /\ r.entry = DirEntry(r.entry.ino)
               /\ Canonicalize(t, p) = r /\ DirectoryAt(t, p) = r.entry
               /\ \A n \in Names \cup Calls :
                    /\ Holder(t, Append(p, n)) = r.entry
                    /\ Lstat(t, Append(p, n)) = t[r.entry.ino][n]
<1> DEFINE r == NoLinks(t)[p]
<1>1. r \in Results /\ r.st = "ok" /\ r.entry.kind = "dir"
  BY NoLinksUnfolds DEF PlainDir, IsDirectory
<1>2. r.path = p /\ r.entry \in Directory /\ r.entry = DirEntry(r.entry.ino) /\ r.entry.ino \in Dirs
  BY <1>1, Straight, ResultParts, EntryKinds
<1>3. Canonicalize(t, p) = r
  BY <1>1, LinksType, StraightFollowed DEF Canonicalize
<1>4. r = Resolved(p, r.entry)
  BY <1>1, <1>2 DEF Results, Resolved
<1>5. ASSUME NEW n \in Names \cup Calls
      PROVE  Holder(t, Append(p, n)) = r.entry /\ Lstat(t, Append(p, n)) = t[r.entry.ino][n]
  <2>1. Append(p, n) # <<>> /\ Front(Append(p, n)) = p /\ Last(Append(p, n)) = n
    BY FrontOfAppend DEF Paths
  <2>2. Holder(t, Append(p, n)) = r.entry
    BY <1>1, <1>3, <2>1 DEF Holder, LedTo
  <2> QED
    BY <1>1, <2>1, <2>2, HolderLooked
<1>6. DirectoryAt(t, p) = r.entry
  <2>1. Lstat(t, p) = r.entry
    <3>1. CASE p = <<>>
      BY <3>1, NoLinksUnfolds DEF Lstat, AtRoot, Resolved
    <3>2. CASE p # <<>>
      <4> DEFINE q == NoLinks(t)[Front(p)]
      <4>1. /\ Front(p) \in Paths /\ PlainDir(t, Front(p))
            /\ r = Resolved(Append(q.path, Last(p)), t[q.entry.ino][Last(p)])
        BY <1>1, <3>2, StepUp
      <4>2. Canonicalize(t, Front(p)) = q /\ q.st = "ok" /\ q.entry.kind = "dir"
        BY <4>1, LinksType, StraightFollowed DEF Canonicalize, PlainDir, IsDirectory
      <4> HIDE DEF q, r
      <4>3. r.entry = t[q.entry.ino][Last(p)]
        BY <4>1 DEF Resolved
      <4> QED
        BY <3>2, <4>2, <4>3 DEF Lstat, EntryIn
    <3> QED
      BY <3>1, <3>2
  <2> QED
    BY <1>1, <2>1 DEF DirectoryAt, IfDirectory
<1> QED
  BY <1>2, <1>3, <1>4, <1>5, <1>6

\* And what is below it, if no link.
LEMMA StepDown ==
    ASSUME NEW t \in Tree, NEW p \in Paths, PlainDir(t, p), NEW n \in Names,
           t[NoLinks(t)[p].entry.ino][n].kind \in {"dir", "file"}
    PROVE  LET e == t[NoLinks(t)[p].entry.ino][n]
           IN  /\ Append(p, n) \in Paths
               /\ NoLinks(t)[Append(p, n)] = Resolved(Append(p, n), e)
               /\ Canonicalize(t, Append(p, n)) = Resolved(Append(p, n), e)
<1> DEFINE r == NoLinks(t)[p]
           none == [q \in Paths |-> Failed("Io")]
           q == Append(p, n)
<1>1. r.path = p /\ r.st = "ok" /\ r.entry.kind = "dir"
  BY Sight DEF PlainDir, IsDirectory
<1>2. q \in Paths /\ q # <<>> /\ Front(q) = p /\ Last(q) = n
  BY PathAppended, FrontOfAppend DEF Paths
<1>3. NoLinks(t)[q] = Enter(t, r, n, none)
  BY <1>2, NoLinksUnfolds
<1>4. NoLinks(t)[q] = Resolved(q, t[r.entry.ino][n])
  BY <1>1, <1>3, Zenon DEF Enter
<1> HIDE DEF q
<1>5. Canonicalize(t, q) = NoLinks(t)[q]
  BY <1>2, <1>4, LinksType, StraightFollowed DEF Canonicalize, Resolved
<1> QED
  BY <1>2, <1>4, <1>5 DEF q

\* --------------------------------------------------- the shape of the tree
\* Trees with the same directories and links show the same directories.
LEMMA SeenAlike ==
    ASSUME NEW t \in Tree, NEW u \in Tree, Structure(t) = Structure(u), NEW p \in Paths
    PROVE  /\ Alike(NoLinks(t)[p], NoLinks(u)[p])
           /\ Alike(Canonicalize(t, p), Canonicalize(u, p))
<1> DEFINE none == [q \in Paths |-> Failed("Io")]
<1>1. none \in [Paths -> Results] /\ \A q \in Paths : Alike(none[q], none[q])
  BY ResultsMade DEF Statuses, Alike, IsDirectory
<1>2. NoLinks(t) = Follow(t, none) /\ NoLinks(u) = Follow(u, none)
  BY DEF NoLinks
<1> HIDE DEF none
<1>3. \A q \in Paths : Alike(NoLinks(t)[q], NoLinks(u)[q])
  BY <1>1, <1>2, FollowAlike
<1>4. \A q \in Paths : Alike(OneLink(t)[q], OneLink(u)[q])
  BY <1>3, LinksType, FollowAlike DEF OneLink
<1>5. Alike(Canonicalize(t, p), Canonicalize(u, p))
  BY <1>4, LinksType, FollowAlike DEF Canonicalize
<1> QED
  BY <1>3, <1>5

\* The directories and links of a tree, without its files.
IsPart(e) == e.kind \in {"dir", "link"}
Skeleton(t) == [d \in Dirs |-> [n \in Names \cup Calls |->
                  IF n \in Names /\ IsPart(t[d][n]) THEN t[d][n] ELSE Absent]]

\* They are a tree.
LEMMA SkeletonOf ==
    ASSUME NEW t \in Tree
    PROVE  /\ Skeleton(t) \in Tree /\ Structure(Skeleton(t)) = Structure(t)
           /\ \A d \in Dirs, n \in Names \cup Calls :
                Skeleton(t)[d][n] = IF n \in Names /\ IsPart(t[d][n]) THEN t[d][n] ELSE Absent
<1> DEFINE S == Skeleton(t)
<1>1. \A d \in Dirs, n \in Names \cup Calls :
        S[d][n] = IF n \in Names /\ IsPart(t[d][n]) THEN t[d][n] ELSE Absent
  BY DEF Skeleton
<1>2. \A d \in Dirs, n \in Names \cup Calls : S[d][n] \in Entry
  BY <1>1, TreeEntry, EntriesMade
<1>3. S \in Tree
  <2>1. S = [d \in Dirs |-> [n \in Names \cup Calls |-> S[d][n]]]
    BY <1>1 DEF Skeleton
  <2> HIDE DEF S, Entry
  <2> QED
    BY <1>2, <2>1 DEF Tree
<1>4. Structure(S) = Structure(t)
  <2>1. \A d \in Dirs, n \in Names :
          (IF S[d][n].kind \in {"dir", "link"} THEN S[d][n] ELSE Absent)
            = (IF t[d][n].kind \in {"dir", "link"} THEN t[d][n] ELSE Absent)
    BY <1>1 DEF IsPart, Absent
  <2> HIDE DEF S
  <2> QED
    BY <2>1 DEF Structure
<1> QED
  BY <1>1, <1>3, <1>4

\* And what trees with the same structure have in common.
LEMMA SameSkeleton ==
    ASSUME NEW t \in Tree, NEW u \in Tree, Structure(t) = Structure(u)
    PROVE  Skeleton(t) = Skeleton(u)
<1>1. ASSUME NEW d \in Dirs, NEW n \in Names
      PROVE  (IF IsPart(t[d][n]) THEN t[d][n] ELSE Absent) = (IF IsPart(u[d][n]) THEN u[d][n] ELSE Absent)
  <2>1. Structure(t)[d][n] = Structure(u)[d][n]
    OBVIOUS
  <2> QED
    BY <2>1 DEF Structure, IsPart
<1>2. \A d \in Dirs, n \in Names \cup Calls :
        (IF n \in Names /\ IsPart(t[d][n]) THEN t[d][n] ELSE Absent)
          = (IF n \in Names /\ IsPart(u[d][n]) THEN u[d][n] ELSE Absent)
  BY <1>1
<1> QED
  BY <1>2 DEF Skeleton

\* A plain path is one in the tree and in its skeleton.
LEMMA SkeletonShows ==
    ASSUME NEW t \in Tree, NEW p \in Paths
    PROVE  /\ PlainDir(Skeleton(t), p) <=> PlainDir(t, p)
           /\ PlainDir(t, p) => NoLinks(Skeleton(t))[p] = NoLinks(t)[p]
BY SkeletonOf, SeenAlike DEF PlainDir, Alike

\* A directory that is led to is in use.
LEMMA LedToLive ==
    ASSUME NEW t \in Tree, WellShaped(t), NEW p \in Paths, PlainDir(t, p)
    PROVE  Live(t, NoLinks(t)[p].entry.ino)
<1> DEFINE r == NoLinks(t)[p]
<1>1. r.entry = DirEntry(r.entry.ino) /\ r.st = "ok"
  BY Sight DEF PlainDir, IsDirectory
<1>2. CASE p = <<>>
  <2>1. r = AtRoot
    BY <1>2, NoLinksUnfolds
  <2> QED
    BY <2>1 DEF Live, AtRoot, Resolved, DirEntry
<1>3. CASE p # <<>>
  <2> DEFINE q == NoLinks(t)[Front(p)]
             d == q.entry.ino
  <2>1. Last(p) \in Names /\ d \in Dirs /\ r = Resolved(Append(q.path, Last(p)), t[d][Last(p)])
    BY <1>1, <1>3, StepUp
  <2> HIDE DEF q, r, d
  <2>2. r.entry = t[d][Last(p)]
    BY <2>1 DEF Resolved
  <2> QED
    BY <1>1, <2>1, <2>2 DEF Live, r
<1> QED
  BY <1>2, <1>3

\* So is one that a system call uses.
LEMMA HolderLive ==
    ASSUME NEW t \in Tree, WellShaped(t), NEW p, Front(p) \in Paths, Holder(t, p).kind = "dir"
    PROVE  Live(t, Holder(t, p).ino)
<1> DEFINE r == Canonicalize(t, Front(p))
<1>1. r \in Results /\ r.st = "ok" /\ r.entry = Holder(t, p)
  BY CanonicalizeType DEF Holder, LedTo, NoDir
<1>2. r.path \in Paths /\ NoLinks(t)[r.path] = r
  BY <1>1, Landing, ResultParts DEF Canonical
<1>3. PlainDir(t, r.path)
  BY <1>1, <1>2 DEF PlainDir, IsDirectory
<1> QED
  BY <1>1, <1>2, <1>3, LedToLive

\* There is one plain path to a directory.
LEMMA OnePath ==
    ASSUME NEW t \in Tree, WellShaped(t), NEW p \in Paths, NEW q \in Paths,
           PlainDir(t, p), PlainDir(t, q), NoLinks(t)[p].entry = NoLinks(t)[q].entry
    PROVE  p = q
<1> DEFINE Alone == {x \in Paths : PlainDir(t, x) => \A y \in Paths :
                       PlainDir(t, y) /\ NoLinks(t)[y].entry = NoLinks(t)[x].entry => x = y}
<1>1. ASSUME NEW x \in Paths, x # <<>>, PlainDir(t, x)
      PROVE  LET d == NoLinks(t)[Front(x)].entry.ino
             IN  /\ Front(x) \in Paths /\ Last(x) \in Names /\ PlainDir(t, Front(x)) /\ d \in Dirs
                 /\ NoLinks(t)[x].entry = t[d][Last(x)] /\ t[d][Last(x)].kind = "dir"
                 /\ NoLinks(t)[x].entry # DirEntry(Root)
  <2> DEFINE r == NoLinks(t)[Front(x)]
             d == r.entry.ino
  <2>1. /\ Front(x) \in Paths /\ Last(x) \in Names /\ PlainDir(t, Front(x)) /\ d \in Dirs
        /\ NoLinks(t)[x] = Resolved(Append(r.path, Last(x)), t[d][Last(x)])
        /\ NoLinks(t)[x].entry.kind = "dir"
    BY <1>1, StepUp DEF PlainDir, IsDirectory
  <2> HIDE DEF d, r
  <2>2. NoLinks(t)[x].entry = t[d][Last(x)]
    BY <2>1 DEF Resolved
  <2>3. t[d][Last(x)] # DirEntry(Root)
    BY <2>1 DEF WellShaped
  <2> QED
    BY <2>1, <2>2, <2>3 DEF d, r
<1>2. NoLinks(t)[<<>>].entry = DirEntry(Root) /\ <<>> \in Paths
  <2>1. <<>> \in Paths
    BY DEF Paths
  <2> QED
    BY <2>1, NoLinksUnfolds DEF AtRoot, Resolved
<1>3. <<>> \in Alone
  BY <1>1, <1>2
<1>4. ASSUME NEW x \in Paths, x # <<>>, Front(x) \in Alone PROVE x \in Alone
  <2> SUFFICES ASSUME PlainDir(t, x), NEW y \in Paths, PlainDir(t, y),
                      NoLinks(t)[y].entry = NoLinks(t)[x].entry
               PROVE  x = y
    OBVIOUS
  <2> DEFINE d == NoLinks(t)[Front(x)].entry.ino
             e == NoLinks(t)[Front(y)].entry.ino
  <2>1. y # <<>>
    BY <1>1, <1>2, <1>4
  <2>2. /\ Front(x) \in Paths /\ Last(x) \in Names /\ PlainDir(t, Front(x)) /\ d \in Dirs
        /\ NoLinks(t)[x].entry = t[d][Last(x)] /\ t[d][Last(x)].kind = "dir"
    BY <1>1, <1>4
  <2>3. /\ Front(y) \in Paths /\ Last(y) \in Names /\ PlainDir(t, Front(y)) /\ e \in Dirs
        /\ NoLinks(t)[y].entry = t[e][Last(y)]
    BY <1>1, <2>1
  <2>4. d = e /\ Last(x) = Last(y)
    <3> HIDE DEF d, e
    <3> QED
      BY <2>2, <2>3 DEF WellShaped
  <2>5. NoLinks(t)[Front(y)].entry = NoLinks(t)[Front(x)].entry
    BY <2>2, <2>3, <2>4, Sight
  <2>6. Front(x) = Front(y)
    BY <1>4, <2>2, <2>3, <2>5
  <2>7. x = Append(Front(x), Last(x)) /\ y = Append(Front(y), Last(y))
    BY <1>4, <2>1 DEF Paths, Front, Last
  <2> QED
    BY <2>4, <2>6, <2>7
<1> HIDE DEF Alone
<1>5. Paths \subseteq Alone
  BY <1>3, <1>4, EverySequence DEF Paths
<1> QED
  BY <1>5 DEF Alone

\* And one of those a property looks at.
LEMMA ShortPathTo ==
    ASSUME NEW t \in Tree, WellShaped(t), NEW p \in Paths, PlainDir(t, p),
           NEW q \in PathsTo(t, NoLinks(t)[p].entry.ino)
    PROVE  q = p
<1> DEFINE r == NoLinks(t)[p]
<1>1. r.entry = DirEntry(r.entry.ino)
  BY Sight
<1>2. q \in Paths
  <2>1. <<>> \in Paths /\ (\A m \in Names : <<m>> \in Paths) /\ \A m, k \in Names : <<m, k>> \in Paths
    BY DEF Paths
  <2> QED
    BY <2>1 DEF PathsTo
<1>3. DirectoryAt(t, q) = r.entry /\ Canonicalize(t, q).path = q
  BY <1>1 DEF PathsTo
<1>4. Canonicalize(t, q).st = "ok" /\ Canonicalize(t, q).entry = r.entry
  BY <1>1, <1>2, <1>3, DirectoryReached DEF DirEntry
<1>5. NoLinks(t)[q] = Canonicalize(t, q)
  BY <1>2, <1>3, <1>4, Landing DEF Canonical
<1>6. PlainDir(t, q)
  BY <1>1, <1>4, <1>5 DEF PlainDir, IsDirectory, DirEntry
<1> QED
  BY <1>2, <1>4, <1>5, <1>6, OnePath

\* Deny patterns that are closed: what is below a denied path is denied too.
DeniedClosed == /\ Denied \subseteq Paths
                /\ \A p \in Denied, n \in Names : Append(p, n) \in Denied

\* What is below an outside path is outside.
LEMMA OutsideClosed ==
    ASSUME NEW p \in Paths, NEW n
    PROVE  /\ ~InRoot(p) => ~InRoot(Append(p, n))
           /\ n # Up /\ ~InRoot(Append(p, n)) => ~InRoot(p)
<1>1. \A q : IsPrefix(<<Up>>, q) <=> Len(q) >= 1 /\ q[1] = Up
  <2>1. Len(<<Up>>) = 1 /\ <<Up>>[1] = Up /\ DOMAIN <<Up>> = {1}
    OBVIOUS
  <2> QED
    BY <2>1 DEF IsPrefix
<1>2. p \in Seq(Names)
  BY DEF Paths
<1>3. Len(p) \in Nat /\ Len(Append(p, n)) = Len(p) + 1
  BY <1>2
<1>4. Append(p, n)[1] = IF Len(p) >= 1 THEN p[1] ELSE n
  BY <1>2
<1> DEFINE x == Append(p, n)
<1>5. Len(x) >= 1 /\ x[1] = IF Len(p) >= 1 THEN p[1] ELSE n
  BY <1>3, <1>4
<1> HIDE DEF x
<1>6. ~InRoot(p) <=> Len(p) >= 1 /\ p[1] = Up
  BY <1>1 DEF InRoot, StartsWith
<1>7. ~InRoot(x) <=> Len(x) >= 1 /\ x[1] = Up
  BY <1>1 DEF InRoot, StartsWith
<1>8. (~InRoot(p) => ~InRoot(x)) /\ (n # Up /\ ~InRoot(x) => ~InRoot(p))
  BY <1>5, <1>6, <1>7
<1> QED
  BY <1>8 DEF x

\* With closed patterns a path is denied when one above it is.
LEMMA DeniedBelow ==
    ASSUME DeniedClosed, NEW p \in Paths, IsPathDenied(p), NEW n \in Names
    PROVE  IsPathDenied(Append(p, n))
BY OutsideClosed DEF DeniedClosed, IsPathDenied

\* A temporary file is denied where its directory is.
LEMMA DeniedTemporary ==
    ASSUME DeniedClosed, NEW p \in Paths, NEW c \in Calls, IsPathDenied(Append(p, c))
    PROVE  IsPathDenied(p)
<1>1. c \notin Names /\ c # Up
  BY NamesApart, TreeAssumption
<1>2. Append(p, c) \notin Paths
  <2> SUFFICES ASSUME Append(p, c) \in Paths PROVE FALSE
    OBVIOUS
  <2>1. Last(Append(p, c)) \in Names /\ Last(Append(p, c)) = c
    BY FrontAndLast, FrontOfAppend DEF Paths
  <2> QED
    BY <1>1, <2>1
<1> QED
  BY <1>1, <1>2, OutsideClosed DEF DeniedClosed, IsPathDenied

\* Only files have the names of temporary files.
OnlyFiles(t) == \A d \in Dirs, c \in Calls : t[d][c].kind \in {"absent", "file"}

\* The same directories and links are as well shaped.
LEMMA SameShape ==
    ASSUME NEW t \in Tree, NEW u \in Tree, WellShaped(t), Structure(t) = Structure(u), OnlyFiles(u)
    PROVE  WellShaped(u)
<1>1. ASSUME NEW d \in Dirs, NEW n \in Names
      PROVE  IsPart(t[d][n]) \/ IsPart(u[d][n]) => t[d][n] = u[d][n]
  <2>1. Structure(t)[d][n] = Structure(u)[d][n]
    OBVIOUS
  <2> QED
    BY <2>1 DEF Structure, IsPart, Absent
<1>2. \A d \in Dirs, n \in Names : IsPart(DirEntry(d))
  BY DEF IsPart, DirEntry
<1>3. \A d : DirEntry(d).kind = "dir"
  BY DEF DirEntry
<1>4. \A d, e \in Dirs, n, m \in Names : u[d][n].kind = "dir" /\ u[e][m] = u[d][n] => d = e /\ n = m
  BY <1>1 DEF WellShaped, IsPart
<1>5. \A d \in Dirs, n \in Names : u[d][n] # DirEntry(Root)
  BY <1>1, <1>3 DEF WellShaped, IsPart
<1>6. \A d \in Dirs : Live(t, d) => Live(u, d)
  BY <1>1, <1>3 DEF Live, IsPart
<1>7. \A d \in Dirs : Bare(t, d) => Bare(u, d)
  BY <1>1 DEF Bare, IsPart
<1>8. \A d \in Dirs : ~Live(u, d) => Bare(u, d)
  BY <1>6, <1>7 DEF WellShaped
<1> QED
  BY <1>4, <1>5, <1>8 DEF WellShaped, OnlyFiles

\* A directory that is nowhere yet.
Fresh(t, k) == k \in Dirs /\ k # Root /\ \A d \in Dirs, n \in Names : t[d][n] # DirEntry(k)

\* To make a new directory.
LEMMA MadeShape ==
    ASSUME NEW t \in Tree, WellShaped(t), NEW d \in Dirs, Live(t, d), NEW n \in Names,
           t[d][n].kind = "absent", NEW k, Fresh(t, k)
    PROVE  WellShaped(Put(t, d, n, DirEntry(k)))
<1> DEFINE u == Put(t, d, n, DirEntry(k))
<1>1. u \in Tree /\ \A x \in Dirs, m \in Names \cup Calls :
        u[x][m] = IF x = d /\ m = n THEN DirEntry(k) ELSE t[x][m]
  <2>1. DirEntry(k) \in Entry /\ n \in Names \cup Calls
    BY EntriesMade DEF Fresh
  <2> QED
    BY <2>1, PutTree
<1> HIDE DEF u
<1>2. \A x \in Dirs, m \in Names : u[x][m] = IF x = d /\ m = n THEN DirEntry(k) ELSE t[x][m]
  BY <1>1
<1>3. ASSUME NEW x \in Dirs, NEW y \in Dirs, NEW m \in Names, NEW l \in Names,
             u[x][m].kind = "dir", u[y][l] = u[x][m]
      PROVE  x = y /\ m = l
  <2>1. CASE (x = d /\ m = n) \/ (y = d /\ l = n)
    BY <1>2, <1>3, <2>1 DEF Fresh
  <2>2. CASE ~(x = d /\ m = n) /\ ~(y = d /\ l = n)
    BY <1>2, <1>3, <2>2 DEF WellShaped
  <2> QED
    BY <2>1, <2>2
<1>4. \A x \in Dirs, m \in Names : u[x][m] # DirEntry(Root)
  BY <1>2 DEF WellShaped, Fresh, DirEntry
<1>5. \A x : DirEntry(x).kind # "absent"
  BY DEF DirEntry
<1>6. \A x \in Dirs : Live(t, x) => Live(u, x)
  BY <1>2, <1>5 DEF Live
<1>7. ASSUME NEW x \in Dirs, ~Live(u, x) PROVE Bare(u, x)
  <2>1. x # d /\ ~Live(t, x)
    BY <1>6, <1>7
  <2> QED
    BY <1>2, <2>1 DEF WellShaped, Bare
<1>8. \A x \in Dirs, c \in Calls : u[x][c].kind \in {"absent", "file"}
  BY <1>1, NamesApart DEF WellShaped
<1>9. WellShaped(u)
  BY <1>3, <1>4, <1>7, <1>8 DEF WellShaped
<1> QED
  BY <1>9 DEF u

\* To remove an empty one.
LEMMA RemovedShape ==
    ASSUME NEW t \in Tree, WellShaped(t), NEW d \in Dirs, NEW n \in Names,
           t[d][n].kind = "dir", Bare(t, t[d][n].ino)
    PROVE  WellShaped(Put(t, d, n, Absent))
<1> DEFINE u == Put(t, d, n, Absent)
<1>1. u \in Tree /\ \A x \in Dirs, m \in Names \cup Calls :
        u[x][m] = IF x = d /\ m = n THEN Absent ELSE t[x][m]
  <2>1. Absent \in Entry /\ n \in Names \cup Calls
    BY EntriesMade
  <2> QED
    BY <2>1, PutTree
<1> HIDE DEF u
<1>2. /\ \A x \in Dirs, m \in Names : u[x][m] = IF x = d /\ m = n THEN Absent ELSE t[x][m]
      /\ \A x : DirEntry(x) # Absent /\ Absent.kind = "absent"
  BY <1>1 DEF DirEntry, Absent
<1>3. \A x, y \in Dirs, m, l \in Names : u[x][m].kind = "dir" /\ u[y][l] = u[x][m] => x = y /\ m = l
  BY <1>2 DEF WellShaped
<1>4. \A x \in Dirs, m \in Names : u[x][m] # DirEntry(Root)
  BY <1>2 DEF WellShaped
<1>5. ASSUME NEW x \in Dirs, ~Live(u, x) PROVE Bare(u, x)
  <2>1. Bare(t, x)
    <3>1. CASE Live(t, x)
      <4>1. t[d][n] = DirEntry(x)
        BY <1>2, <1>5, <3>1 DEF Live
      <4> QED
        BY <4>1 DEF DirEntry
    <3>2. CASE ~Live(t, x)
      BY <3>2 DEF WellShaped
    <3> QED
      BY <3>1, <3>2
  <2> QED
    BY <1>2, <2>1 DEF Bare
<1>6. \A x \in Dirs, c \in Calls : u[x][c].kind \in {"absent", "file"}
  BY <1>1, NamesApart DEF WellShaped
<1>7. WellShaped(u)
  BY <1>3, <1>4, <1>5, <1>6 DEF WellShaped
<1> QED
  BY <1>7 DEF u

\* To move an entry from f in a to g in b, over nothing, itself, something that
\* is no directory or an empty directory.
LEMMA MovedShape ==
    ASSUME NEW t \in Tree, WellShaped(t), NEW u \in Tree, NEW a \in Dirs, NEW b \in Dirs,
           NEW f \in Names \cup Calls, NEW g \in Names,
           Live(t, b), t[a][f].kind # "absent", t[a][f] # DirEntry(b),
           t[b][g].kind = "dir" => \A m \in Names \cup Calls : t[t[b][g].ino][m].kind = "absent",
           \A d \in Dirs, n \in Names \cup Calls :
             u[d][n] = IF d = b /\ n = g THEN t[a][f]
                       ELSE IF d = a /\ n = f THEN Absent ELSE t[d][n]
    PROVE  WellShaped(u)
<1>1. /\ \A x : DirEntry(x) # Absent /\ Absent.kind = "absent" /\ DirEntry(x).kind = "dir"
      /\ \A x : DirEntry(x).ino = x
  BY DEF DirEntry, Absent
<1>2. f \notin Names => t[a][f].kind = "file"
  BY DEF WellShaped
<1>3. ASSUME NEW x \in Dirs, NEW y \in Dirs, NEW m \in Names, NEW l \in Names,
             u[x][m].kind = "dir", u[y][l] = u[x][m]
      PROVE  x = y /\ m = l
  <2>1. CASE x = b /\ m = g
    BY <1>1, <1>2, <1>3, <2>1 DEF WellShaped
  <2>2. CASE ~(x = b /\ m = g)
    BY <1>1, <1>2, <1>3, <2>2 DEF WellShaped
  <2> QED
    BY <2>1, <2>2
<1>4. ASSUME NEW x \in Dirs, NEW m \in Names PROVE u[x][m] # DirEntry(Root)
  BY <1>1, <1>2 DEF WellShaped
<1>5. ASSUME NEW x \in Dirs, ~Live(u, x) PROVE Bare(u, x)
  <2>1. x # b
    <3> SUFFICES ASSUME x = b PROVE FALSE
      OBVIOUS
    <3>1. b # Root
      BY <1>5 DEF Live
    <3>2. PICK e \in Dirs, m \in Names : t[e][m] = DirEntry(b)
      BY <3>1 DEF Live
    <3>3. ~(e = a /\ m = f)
      BY <3>2
    <3>4. e = b /\ m = g
      <4>1. u[e][m] # DirEntry(b)
        BY <1>5 DEF Live
      <4> QED
        BY <3>2, <3>3, <4>1
    <3>5. t[b][g].kind = "dir" /\ t[b][g].ino = b
      BY <1>1, <3>2, <3>4
    <3>6. t[b][g].kind = "absent"
      BY <3>5
    <3> QED
      BY <3>5, <3>6
  <2>2. Bare(t, x)
    <3>1. CASE Live(t, x)
      <4>1. x # Root
        BY <1>5 DEF Live
      <4>2. PICK e \in Dirs, m \in Names : t[e][m] = DirEntry(x)
        BY <3>1, <4>1 DEF Live
      <4>3. e = b /\ m = g
        <5>1. u[e][m] # DirEntry(x)
          BY <1>5 DEF Live
        <5>2. u[b][g] # DirEntry(x)
          BY <1>5 DEF Live
        <5> QED
          BY <4>2, <5>1, <5>2
      <4>4. t[b][g].kind = "dir" /\ t[b][g].ino = x
        BY <1>1, <4>2, <4>3
      <4> QED
        BY <4>4 DEF Bare
    <3>2. CASE ~Live(t, x)
      BY <3>2 DEF WellShaped
    <3> QED
      BY <3>1, <3>2
  <2> QED
    BY <1>1, <2>1, <2>2 DEF Bare
<1>6. ASSUME NEW x \in Dirs, NEW c \in Calls PROVE u[x][c].kind \in {"absent", "file"}
  <2>1. c # g
    BY NamesApart
  <2> QED
    BY <1>1, <2>1 DEF WellShaped
<1> QED
  BY <1>3, <1>4, <1>5, <1>6 DEF WellShaped

\* To exchange two entries of the root.
LEMMA ExchangedShape ==
    ASSUME NEW t \in Tree, WellShaped(t), NEW u \in Tree, NEW n \in Names, NEW m \in Names,
           \A d \in Dirs, k \in Names \cup Calls :
             u[d][k] = IF d = Root /\ k = n THEN t[Root][m]
                       ELSE IF d = Root /\ k = m THEN t[Root][n] ELSE t[d][k]
    PROVE  WellShaped(u)
<1>1. Root \in Dirs
  BY TreeAssumption
<1>2. ASSUME NEW x \in Dirs, NEW y \in Dirs, NEW k \in Names, NEW l \in Names,
             u[x][k].kind = "dir", u[y][l] = u[x][k]
      PROVE  x = y /\ k = l
  <2> DEFINE Was(d, j) == IF d = Root /\ j = n THEN m ELSE IF d = Root /\ j = m THEN n ELSE j
  <2>1. \A d \in Dirs, j \in Names : Was(d, j) \in Names /\ u[d][j] = t[d][Was(d, j)]
    BY <1>1
  <2>2. x = y /\ Was(x, k) = Was(y, l)
    BY <1>2, <2>1 DEF WellShaped
  <2> QED
    BY <2>2
<1>3. \A x \in Dirs, k \in Names : u[x][k] # DirEntry(Root)
  BY <1>1 DEF WellShaped
<1>4. ASSUME NEW x \in Dirs, Live(t, x) PROVE Live(u, x)
  <2>1. CASE x = Root
    BY <2>1 DEF Live
  <2>2. CASE x # Root
    <3>1. PICK e \in Dirs, k \in Names : t[e][k] = DirEntry(x)
      BY <1>4, <2>2 DEF Live
    <3>2. \E j \in Names : u[e][j] = DirEntry(x)
      <4>1. CASE e = Root /\ k = n
        BY <1>1, <3>1, <4>1
      <4>2. CASE e = Root /\ k = m
        BY <1>1, <3>1, <4>2
      <4>3. CASE ~(e = Root /\ k \in {n, m})
        BY <3>1, <4>3
      <4> QED
        BY <4>1, <4>2, <4>3
    <3> QED
      BY <3>2 DEF Live
  <2> QED
    BY <2>1, <2>2
<1>5. ASSUME NEW x \in Dirs, ~Live(u, x) PROVE Bare(u, x)
  <2>1. x # Root /\ Bare(t, x)
    BY <1>4, <1>5 DEF Live, WellShaped
  <2> QED
    BY <2>1 DEF Bare
<1>6. \A x \in Dirs, c \in Calls : u[x][c].kind \in {"absent", "file"}
  BY NamesApart DEF WellShaped
<1> QED
  BY <1>2, <1>3, <1>5, <1>6 DEF WellShaped

\* What is a directory stays one when directories are added.
LEMMA Grown ==
    ASSUME NEW t \in Tree, NEW u \in Tree,
           \A d \in Dirs, n \in Names : t[d][n].kind = "dir" => u[d][n] = t[d][n],
           NEW p \in Paths, PlainDir(t, p)
    PROVE  PlainDir(u, p) /\ NoLinks(u)[p] = NoLinks(t)[p]
<1> DEFINE Good == {q \in Paths : PlainDir(t, q) => NoLinks(u)[q] = NoLinks(t)[q]}
<1>1. <<>> \in Good
  <2>1. <<>> \in Paths
    BY DEF Paths
  <2> QED
    BY <2>1, NoLinksUnfolds
<1>2. ASSUME NEW s \in Paths, s # <<>>, Front(s) \in Good PROVE s \in Good
  <2> SUFFICES ASSUME PlainDir(t, s) PROVE NoLinks(u)[s] = NoLinks(t)[s]
    OBVIOUS
  <2> DEFINE r == NoLinks(t)[Front(s)]
             d == r.entry.ino
             e == t[d][Last(s)]
  <2>1. /\ Front(s) \in Paths /\ Last(s) \in Names /\ PlainDir(t, Front(s)) /\ d \in Dirs
        /\ NoLinks(t)[s] = Resolved(Append(r.path, Last(s)), e)
        /\ NoLinks(t)[s].entry.kind = "dir"
    BY <1>2, StepUp DEF PlainDir, IsDirectory
  <2>2. e.kind = "dir"
    <3> HIDE DEF e, r
    <3> QED
      BY <2>1 DEF Resolved
  <2>3. u[d][Last(s)] = e
    BY <2>1, <2>2
  <2>4. NoLinks(u)[Front(s)] = r /\ r.st = "ok" /\ r.entry.kind = "dir"
    BY <1>2, <2>1, Zenon DEF PlainDir, IsDirectory
  <2>5. NoLinks(u)[s] = Enter(u, r, Last(s), [q \in Paths |-> Failed("Io")])
    BY <1>2, <2>4, NoLinksUnfolds
  <2> HIDE DEF r
  <2> QED
    BY <2>1, <2>2, <2>3, <2>4, <2>5 DEF Enter
<1> HIDE DEF Good
<1>3. Paths \subseteq Good
  BY <1>1, <1>2, EverySequence DEF Paths
<1> QED
  BY <1>3 DEF Good, PlainDir

\* ensure_dir_under_root, one component at a time.
LEMMA EnsureDirUnfolds ==
    ASSUME NEW t \in Tree
    PROVE  /\ \A p \in Paths : EnsureDir(t, p) \in Results
           /\ EnsureDir(t, <<>>) = AtRoot
           /\ \A p \in Paths : p # <<>> =>
                EnsureDir(t, p) = EnsureComponent(t, EnsureDir(t, Front(p)), Last(p))
<1> DEFINE Body(g) == [q \in Paths |-> IF q = <<>> THEN AtRoot ELSE EnsureComponent(t, g[Front(q)], Last(q))]
           step == [x \in Results \X Names |-> EnsureComponent(t, x[1], x[2])]
           walk == CHOOSE g : g = Body(g)
<1>1. step \in [Results \X Names -> Results]
  BY ComponentTypes
<1>2. AtRoot \in Results /\ <<>> \in Paths
  BY ResultsMade DEF Paths
<1>3. \A q \in Paths : q # <<>> => Front(q) \in Paths /\ Last(q) \in Names
  BY FrontAndLast DEF Paths
<1>4. \E f : f = Body(f)
  <2>1. PICK f \in [Paths -> Results] : Steps(f, Names, AtRoot, step)
    <3> HIDE DEF step, Results
    <3> QED
      BY <1>1, <1>2, Recursion DEF Paths
  <2>2. \A q \in Paths : f[q] = IF q = <<>> THEN AtRoot ELSE step[<<f[Front(q)], Last(q)>>]
    BY <2>1 DEF Steps, Paths
  <2>3. \A q \in Paths : f[q] = Body(f)[q]
    BY <1>3, <2>2
  <2> QED
    BY <2>1, <2>3
<1>5. walk = Body(walk)
  <2> HIDE DEF Body
  <2> QED
    BY <1>4
<1>6. \A q : EnsureDir(t, q) = walk[q]
  BY DEF EnsureDir
<1> HIDE DEF walk
<1>7. \A q \in Paths : walk[q] = IF q = <<>> THEN AtRoot ELSE EnsureComponent(t, walk[Front(q)], Last(q))
  <2>1. \A q \in Paths : Body(walk)[q] = IF q = <<>> THEN AtRoot
                                         ELSE EnsureComponent(t, walk[Front(q)], Last(q))
    OBVIOUS
  <2> HIDE DEF Body
  <2> QED
    BY <1>5, <2>1
<1> DEFINE Typed == {q \in Paths : walk[q] \in Results}
<1>8. \A q \in Paths : q # <<>> /\ Front(q) \in Typed => q \in Typed
  BY <1>3, <1>7, ComponentTypes
<1>9. <<>> \in Typed
  BY <1>2, <1>7
<1>10. Paths \subseteq Typed
  <2> HIDE DEF Typed
  <2> QED
    BY <1>8, <1>9, EverySequence DEF Paths
<1> QED
  BY <1>2, <1>6, <1>7, <1>10

\* preview_parent_dir_under_root, one component at a time.
LEMMA PreviewParentUnfolds ==
    ASSUME NEW t \in Tree, NEW flag
    PROVE  /\ \A p \in Paths : PreviewParent(t, p, flag) \in Results
           /\ PreviewParent(t, <<>>, flag) = AtRoot
           /\ \A p \in Paths : p # <<>> =>
                PreviewParent(t, p, flag)
                  = PreviewComponent(t, PreviewParent(t, Front(p), flag), Last(p), flag)
<1> DEFINE Body(g) == [q \in Paths |-> IF q = <<>> THEN AtRoot ELSE PreviewComponent(t, g[Front(q)], Last(q), flag)]
           step == [x \in Results \X Names |-> PreviewComponent(t, x[1], x[2], flag)]
           walk == CHOOSE g : g = Body(g)
<1>1. step \in [Results \X Names -> Results]
  BY ComponentTypes
<1>2. AtRoot \in Results /\ <<>> \in Paths
  BY ResultsMade DEF Paths
<1>3. \A q \in Paths : q # <<>> => Front(q) \in Paths /\ Last(q) \in Names
  BY FrontAndLast DEF Paths
<1>4. \E f : f = Body(f)
  <2>1. PICK f \in [Paths -> Results] : Steps(f, Names, AtRoot, step)
    <3> HIDE DEF step, Results
    <3> QED
      BY <1>1, <1>2, Recursion DEF Paths
  <2>2. \A q \in Paths : f[q] = IF q = <<>> THEN AtRoot ELSE step[<<f[Front(q)], Last(q)>>]
    BY <2>1 DEF Steps, Paths
  <2>3. \A q \in Paths : f[q] = Body(f)[q]
    BY <1>3, <2>2
  <2> QED
    BY <2>1, <2>3
<1>5. walk = Body(walk)
  <2> HIDE DEF Body
  <2> QED
    BY <1>4
<1>6. \A q : PreviewParent(t, q, flag) = walk[q]
  BY DEF PreviewParent
<1> HIDE DEF walk
<1>7. \A q \in Paths : walk[q] = IF q = <<>> THEN AtRoot ELSE PreviewComponent(t, walk[Front(q)], Last(q), flag)
  <2>1. \A q \in Paths : Body(walk)[q] = IF q = <<>> THEN AtRoot
                                         ELSE PreviewComponent(t, walk[Front(q)], Last(q), flag)
    OBVIOUS
  <2> HIDE DEF Body
  <2> QED
    BY <1>5, <2>1
<1> DEFINE Typed == {q \in Paths : walk[q] \in Results}
<1>8. \A q \in Paths : q # <<>> /\ Front(q) \in Typed => q \in Typed
  BY <1>3, <1>7, ComponentTypes
<1>9. <<>> \in Typed
  BY <1>2, <1>7
<1>10. Paths \subseteq Typed
  <2> HIDE DEF Typed
  <2> QED
    BY <1>8, <1>9, EverySequence DEF Paths
<1> QED
  BY <1>2, <1>6, <1>7, <1>10

\* What is led to, if it is a directory, is on its plain path, and is so without
\* the files.
LEMMA DirectoryLands ==
    ASSUME NEW t \in Tree, NEW p \in Paths, IsDirectory(Canonicalize(t, p))
    PROVE  LET r == Canonicalize(t, p)
           IN  /\ r \in Results /\ r.path \in Paths /\ NoLinks(t)[r.path] = r /\ PlainDir(t, r.path)
               /\ Canonicalize(Skeleton(t), p) = r
<1> DEFINE r == Canonicalize(t, p)
<1>1. r \in Results /\ r.path \in Paths
  BY CanonicalizeType, ResultParts
<1>2. NoLinks(t)[r.path] = r
  BY Landing DEF Canonical, IsDirectory
<1>3. Alike(Canonicalize(Skeleton(t), p), r)
  BY SkeletonOf, SeenAlike
<1> QED
  BY <1>1, <1>2, <1>3 DEF PlainDir, Alike

\* Without the files there is nothing else.
LEMMA OnlyDirectories ==
    ASSUME NEW t \in Tree, NEW p \in Paths, Canonicalize(Skeleton(t), p).st = "ok"
    PROVE  IsDirectory(Canonicalize(t, p)) /\ Canonicalize(t, p) = Canonicalize(Skeleton(t), p)
<1> DEFINE S == Skeleton(t)
           r == Canonicalize(S, p)
<1>1. S \in Tree /\ Structure(S) = Structure(t)
      /\ \A d \in Dirs, n \in Names : S[d][n].kind \in {"absent", "link", "dir"}
  BY SkeletonOf DEF IsPart, Absent
<1> HIDE DEF S
<1>2. r \in Results /\ r.path \in Paths /\ r.st = "ok"
  BY <1>1, CanonicalizeType, ResultParts DEF S
<1>3. NoLinks(S)[r.path] = r
  BY <1>1, <1>2, Landing DEF Canonical
<1>4. r.entry.kind = "dir"
  <2>1. CASE r.path = <<>>
    <3>1. r = AtRoot
      BY <1>1, <1>2, <1>3, <2>1, NoLinksUnfolds
    <3> QED
      BY <3>1 DEF AtRoot, Resolved, DirEntry
  <2>2. CASE r.path # <<>>
    <3> DEFINE q == NoLinks(S)[Front(r.path)]
               d == q.entry.ino
    <3>1. /\ d \in Dirs /\ Last(r.path) \in Names /\ S[d][Last(r.path)].kind \notin {"absent", "link"}
          /\ r = Resolved(Append(q.path, Last(r.path)), S[d][Last(r.path)])
      BY <1>1, <1>2, <1>3, <2>2, StepUp
    <3> HIDE DEF q, d, r
    <3>2. r.entry = S[d][Last(r.path)]
      BY <3>1 DEF Resolved
    <3> QED
      BY <1>1, <3>1, <3>2
  <2> QED
    BY <2>1, <2>2
<1>5. Alike(r, Canonicalize(t, p))
  BY <1>1, SeenAlike
<1> QED
  BY <1>2, <1>4, <1>5 DEF Alike, IsDirectory, S
=============================================================================
