----------------------------- MODULE FsOps_proofs -----------------------------
(***************************************************************************)
(* What is proved of the file-system tool's operations on open files.      *)
(* Of FsOps, for every tree, every set of calls and any number of changes  *)
(* by other programs: the types, and that a call lands where it looked,    *)
(* replaces nothing it must not, edits what it read, leaves what is denied *)
(* alone and nothing behind.  Of FsWalk, the second half, for every tree,  *)
(* request and limit: whose bytes and names an answer may be made from.    *)
(***************************************************************************)
EXTENDS FsOps, FsWalk, FsTree_proofs

\* ---------------------------------------------------------------- invariant
Stages   == {"idle", "done", "walk", "create", "created", "found", "inspect", "verify", "stage",
             "recheck", "rename", "mkdir", "mkcheck", "read", "open", "source", "revalidate"}
Outcomes == Statuses \cup {"none", "NotPermitted", "FileTooLarge", "Exists", "unsynced", "noop"}
State == [pc : Stages, req : Request \cup {None}, rest : Paths, at : Paths, leaf : Names \cup {""},
          path : Paths, pid : Directory \cup {NoDir}, target : Entry \cup {None}, from : Paths,
          fromPid : Directory \cup {NoDir}, src : Entry \cup {None}, create : BOOLEAN,
          tino : Inos \cup {0}, made : SUBSET Dirs, res : Outcomes]

TypeOK == /\ fs \in Tree /\ op \in [Calls -> State]
          /\ foreign \in Nat /\ raced \subseteq Calls /\ disturbed \subseteq Calls

\* Which operations reach a stage.
OperationsAt(stage) ==
  IF stage \in {"walk", "create", "created", "found", "inspect"} THEN {"write", "mkdir", "move", "copy"}
  ELSE IF stage = "verify" THEN {"write", "copy"}
  ELSE IF stage \in {"stage", "recheck"} THEN {"write", "copy", "edit"}
  ELSE IF stage = "rename" THEN {"write", "copy", "edit", "move"}
  ELSE IF stage \in {"mkdir", "mkcheck"} THEN {"mkdir"}
  ELSE IF stage \in {"read", "open"} THEN {"edit"}
  ELSE IF stage = "source" THEN {"move", "copy"}
  ELSE {"move"}

Running(s) == s.pc \notin {"idle", "done"}
Placed(s)  == \/ s.pc \in {"inspect", "verify", "mkdir", "mkcheck", "revalidate"}
              \/ s.pc \in {"stage", "recheck", "rename"} /\ s.req.op # "edit"

\* What a call knows at each stage of its request, its path and its entries.
RequestInv(s) == Running(s) => s.req \in Request /\ s.req.op \in OperationsAt(s.pc)
WalkInv(s)    == /\ s.pc \in {"walk", "create", "created", "found"} => s.rest # <<>>
                 /\ Running(s) /\ s.req.op # "edit" => s.leaf \in Names
                 /\ Placed(s) => s.path = Append(s.at, s.leaf)
                 /\ Placed(s) /\ s.pc # "inspect" => s.pid \in Directory
TargetInv(s)  == /\ s.pc \in {"open", "stage", "recheck", "rename"} /\ s.req.op = "edit" =>
                      s.path # <<>> /\ s.target.kind = "file"
                 /\ s.pc \in {"verify", "stage", "recheck", "rename"} /\ s.req.op = "write"
                      /\ ~s.req.over => s.target.kind # "file"
                 /\ Running(s) /\ s.req.op \in {"move", "copy"} => s.target.kind # "file"
SourceInv(s)  == Running(s) /\ s.req.op \in {"move", "copy"} =>
                   /\ s.from # <<>> /\ NormalizeLexical(s.req.to) \in Paths \ {<<>>}
                   /\ s.pc # "source" => s.src.kind \in {"file", "dir", "link"}
                   /\ s.pc # "source" /\ s.req.op = "copy" => s.src.kind = "file"
                   /\ s.pc # "source" /\ s.req.op = "move" => s.fromPid \in Directory
ResultInv(s)  == /\ s.pc # "done" => s.res = "none"
                 /\ s.tino # 0 <=> s.pc = "recheck" \/ (s.pc = "rename" /\ s.req.op # "move")

StateInv(s) == RequestInv(s) /\ WalkInv(s) /\ TargetInv(s) /\ SourceInv(s) /\ ResultInv(s)

\* A temporary file exists once at most, only when its call has staged it, and
\* its inode has no other name.
TempInv(t, s, c) ==
  /\ \A d \in Dirs : t[d][c] # Absent => s.tino # 0 \/ s.pc = "done"
  /\ \A d, e \in Dirs : t[d][c] # Absent /\ t[e][c] # Absent => d = e
  /\ s.tino # 0 => \A d \in Dirs, n \in Names \cup Calls :
                     t[d][n].kind = "file" /\ t[d][n].ino = s.tino => n = c

\* Before the rename of a write or copy its temporary file is in the directory
\* whose identity was taken.
AnchorInv(t, s, c) == s.pc = "rename" /\ s.req.op \in {"write", "copy"} =>
  t[s.pid.ino][c].kind = "file" /\ t[s.pid.ino][c].ino = s.tino

\* And what was checked last holds of the tree until others change it.
Unmoved(t, s)    == /\ DirectoryAt(t, Front(s.from)) = s.fromPid /\ DirectoryAt(t, s.at) = s.pid
                    /\ SameIdentity(Lstat(t, s.from), s.src)
                    /\ Lstat(t, s.path).kind # "error"
                    /\ ~SameIdentity(Lstat(t, s.path), s.src)
CheckInv(t, s) == s.pc = "rename" =>
  /\ s.req.op = "edit" => SameIdentity(Lstat(t, s.path), s.target)
  /\ s.req.op = "move" => Unmoved(t, s)

\* As long as nobody moves a directory or a link the path of a temporary file
\* leads to it, so that the call that returns removes it.
HomeInv(t, s, c) ==
  /\ s.tino # 0 => \A d \in Dirs : t[d][c] # Absent =>
       t[d][c].kind = "file" /\ Holder(t, Append(Front(s.path), c)) = DirEntry(d)
  /\ s.pc = "done" => \A d \in Dirs : t[d][c] = Absent

CallInv(t, s, c, overtaken, unsettled) ==
  /\ StateInv(s) /\ TempInv(t, s, c) /\ AnchorInv(t, s, c)
  /\ ~overtaken => CheckInv(t, s)
  /\ ~unsettled => HomeInv(t, s, c)
IInv == TypeOK /\ \A c \in Calls : CallInv(fs, op[c], c, c \in raced, c \in disturbed)

\* What a step of the calls `who` may do to the tree, seen by the others: their
\* temporary files stay, and a file that has another name than before had one of
\* the names such a step may take, or is new.
Effect(t, who) ==
  /\ t \in Tree
  /\ \A d \in Dirs, k \in Calls \ who : t[d][k] = fs[d][k]
  /\ \A d \in Dirs, n \in Names \cup Calls : t[d][n].kind = "file" =>
       \/ t[d][n].ino \notin UsedInos
       \/ \E e \in Dirs, m \in {n} \cup Names \cup who :
            fs[e][m].kind = "file" /\ fs[e][m].ino = t[d][n].ino

\* A step may leave the tree as it is.
LEMMA EffectOfNothing ==
    ASSUME fs \in Tree, NEW who
    PROVE  Effect(fs, who)
BY Zenon DEF Effect

\* To put something under a name that is no other call's.
LEMMA EffectOfPut ==
    ASSUME NEW who \in SUBSET Calls, NEW t, Effect(t, who), NEW d \in Dirs,
           NEW n \in Names \cup who, NEW e \in Entry,
           e.kind = "file" => \/ e.ino \notin UsedInos
                              \/ \E k \in Dirs, m \in Names \cup who :
                                   fs[k][m].kind = "file" /\ fs[k][m].ino = e.ino
    PROVE  Effect(Put(t, d, n, e), who)
<1>1. t \in Tree /\ n \in Names \cup Calls
  BY DEF Effect
<1> DEFINE u == Put(t, d, n, e)
<1>2. /\ u \in Tree
      /\ \A k \in Dirs, m \in Names \cup Calls : u[k][m] = IF k = d /\ m = n THEN e ELSE t[k][m]
  BY <1>1, PutTree
<1> HIDE DEF u
<1>3. \A x \in Dirs, k \in Calls \ who : u[x][k] = fs[x][k]
  <2>1. \A k \in Calls \ who : k # n
    BY ShapeAssumption
  <2> QED
    BY <1>2, <2>1 DEF Effect
<1>4. ASSUME NEW x \in Dirs, NEW m \in Names \cup Calls, u[x][m].kind = "file"
      PROVE  \/ u[x][m].ino \notin UsedInos
             \/ \E k \in Dirs, j \in {m} \cup Names \cup who :
                  fs[k][j].kind = "file" /\ fs[k][j].ino = u[x][m].ino
  <2>1. CASE x = d /\ m = n
    <3>1. u[x][m] = e
      BY <1>2, <2>1
    <3> QED
      BY <1>4, <2>1, <3>1
  <2>2. CASE ~(x = d /\ m = n)
    <3>1. u[x][m] = t[x][m]
      BY <1>2, <2>2
    <3> QED
      BY <1>4, <3>1 DEF Effect
  <2> QED
    BY <2>1, <2>2
<1>5. Effect(u, who)
  BY <1>2, <1>3, <1>4 DEF Effect
<1> QED
  BY <1>5 DEF u

\* The path of a staged file is the target's, under the name of the call.
LEMMA TempPath ==
    ASSUME IInv, NEW c \in Calls, op[c].tino # 0 \/ op[c].pc = "stage"
    PROVE  /\ op[c].path \in Paths /\ op[c].path # <<>> /\ Front(op[c].path) \in Paths
           /\ Temp(c) # <<>> /\ Front(Temp(c)) = Front(op[c].path) /\ Last(Temp(c)) = c
<1> DEFINE s == op[c]
<1>1. s \in State /\ StateInv(s)
  BY DEF IInv, TypeOK, CallInv
<1>2. s.path \in Paths /\ s.at \in Paths
  BY <1>1 DEF State
<1>3. s.path # <<>>
  <2>1. CASE Placed(s)
    BY <1>1, <1>2, <2>1, FrontOfAppend DEF StateInv, WalkInv, Paths
  <2>2. CASE ~Placed(s)
    BY <1>1, <2>2 DEF StateInv, ResultInv, RequestInv, OperationsAt, Running, TargetInv, Placed
  <2> QED
    BY <2>1, <2>2
<1>4. Front(s.path) \in Seq(Names)
  BY <1>2, <1>3, FrontAndLast DEF Paths
<1>5. Temp(c) # <<>> /\ Front(Temp(c)) = Front(s.path) /\ Last(Temp(c)) = c
  BY <1>4, FrontOfAppend DEF Temp
<1> QED
  BY <1>2, <1>3, <1>4, <1>5 DEF Paths

\* What others know stays true.
LEMMA OthersKept ==
    ASSUME IInv, NEW who \in SUBSET Calls, Effect(fs', who), Overtakes(who),
           NEW k \in Calls \ who, op'[k] = op[k]
    PROVE  CallInv(fs, op[k], k, k \in raced, k \in disturbed)'
<1> DEFINE s == op[k]
<1>1. CallInv(fs, s, k, k \in raced, k \in disturbed) /\ fs \in Tree /\ s \in State
  BY DEF IInv, TypeOK
<1>2. \A d \in Dirs : fs'[d][k] = fs[d][k]
  BY DEF Effect
<1>3. StateInv(s)
  BY <1>1 DEF CallInv
<1>4. TempInv(fs', s, k)
  <2>1. TempInv(fs, s, k)
    BY <1>1 DEF CallInv
  <2>2. ASSUME s.tino # 0, NEW d \in Dirs, NEW n \in Names \cup Calls,
               fs'[d][n].kind = "file", fs'[d][n].ino = s.tino
        PROVE  n = k
    <3>1. s.tino \in UsedInos
      BY DEF UsedInos
    <3>2. PICK e \in Dirs, m \in {n} \cup Names \cup who :
            fs[e][m].kind = "file" /\ fs[e][m].ino = s.tino
      BY <2>2, <3>1 DEF Effect
    <3>3. m = k
      BY <2>1, <2>2, <3>2 DEF TempInv
    <3>4. k \notin Names /\ k \notin who
      BY NamesApart
    <3> QED
      BY <3>2, <3>3, <3>4
  <2> HIDE DEF s
  <2> QED
    BY <1>2, <2>1, <2>2 DEF TempInv
<1>5. AnchorInv(fs', s, k)
  <2>1. s.pc = "rename" /\ s.req.op \in {"write", "copy"} => s.pid.ino \in Dirs
    BY <1>3 DEF StateInv, WalkInv, Placed, Directory
  <2> QED
    BY <1>1, <1>2, <2>1 DEF CallInv, AnchorInv
<1>6. ASSUME k \notin raced' PROVE CheckInv(fs', s)
  <2>1. CASE fs' = fs
    <3>1. k \notin raced
      BY <1>6 DEF Overtakes
    <3> QED
      BY <1>1, <2>1, <3>1 DEF CallInv
  <2>2. CASE fs' # fs
    <3>1. s.pc \in {"idle", "done"}
      BY <1>6, <2>2 DEF Overtakes
    <3> QED
      BY <3>1 DEF CheckInv
  <2> QED
    BY <2>1, <2>2
<1>7. ASSUME k \notin disturbed' PROVE HomeInv(fs', s, k)
  <2>1. HomeInv(fs, s, k) /\ fs' \in Tree
    BY <1>1, <1>7 DEF Overtakes, CallInv, Effect
  <2>2. CASE s.pc \in {"idle", "done"}
    BY <1>2, <1>3, <2>1, <2>2 DEF StateInv, ResultInv, HomeInv
  <2>3. CASE s.pc \notin {"idle", "done"}
    <3> DEFINE p == Append(Front(s.path), k)
    <3>1. Structure(fs') = Structure(fs)
      BY <1>7, <2>3 DEF Overtakes
    <3>2. s.tino # 0 => Front(p) \in Paths
      BY TempPath DEF Temp
    <3>3. ASSUME s.tino # 0, NEW d \in Dirs, fs'[d][k] # Absent
          PROVE  fs'[d][k].kind = "file" /\ Holder(fs', p) = DirEntry(d)
      <4>1. fs[d][k].kind = "file" /\ Holder(fs, p) = DirEntry(d)
        BY <1>2, <2>1, <3>3 DEF HomeInv
      <4>2. Holder(fs, p).kind = "dir"
        BY <4>1 DEF DirEntry
      <4> QED
        BY <1>1, <1>2, <2>1, <3>1, <3>2, <3>3, <4>1, <4>2, HolderStays
    <3> QED
      BY <2>3, <3>3 DEF HomeInv
  <2> QED
    BY <2>2, <2>3
<1>8. CallInv(fs', s, k, k \in raced', k \in disturbed')
  BY <1>3, <1>4, <1>5, <1>6, <1>7 DEF CallInv
<1> QED
  BY <1>8

\* A step of a call, which knows afterwards what s says.
LEMMA StepKeeps ==
    ASSUME IInv, NEW c \in Calls, NEW s \in State, op' = [op EXCEPT ![c] = s], By(c),
           Effect(fs', {c}), StateInv(s), TempInv(fs', s, c), AnchorInv(fs', s, c), CheckInv(fs', s),
           c \notin disturbed => HomeInv(fs', s, c)
    PROVE  IInv'
<1>1. fs \in Tree /\ op \in [Calls -> State] /\ foreign \in Nat /\ raced \subseteq Calls
      /\ disturbed \subseteq Calls
  BY DEF IInv, TypeOK
<1>2. op' \in [Calls -> State] /\ op'[c] = s /\ \A k \in Calls \ {c} : op'[k] = op[k]
  <2> HIDE DEF State
  <2> QED
    BY <1>1
<1>3. TypeOK'
  <2>1. raced' \subseteq Calls /\ disturbed' \subseteq Calls /\ foreign' \in Nat
    BY <1>1 DEF By, Overtakes
  <2>2. fs' \in Tree
    BY DEF Effect
  <2> QED
    BY <1>2, <2>1, <2>2 DEF TypeOK
<1>4. CallInv(fs', s, c, c \in raced', c \in disturbed')
  <2>1. disturbed \subseteq disturbed'
    BY DEF By, Overtakes
  <2> QED
    BY <2>1 DEF CallInv
<1>5. ASSUME NEW k \in Calls \ {c} PROVE CallInv(fs, op[k], k, k \in raced, k \in disturbed)'
  <2>1. Overtakes({c}) /\ {c} \in SUBSET Calls
    BY DEF By
  <2> QED
    BY <1>2, <2>1, OthersKept
<1>6. ASSUME NEW k \in Calls PROVE CallInv(fs, op[k], k, k \in raced, k \in disturbed)'
  BY <1>2, <1>4, <1>5
<1> QED
  BY <1>3, <1>6 DEF IInv

\* What is left of a tree when a call returns.
LEMMA WithoutTempTree ==
    ASSUME IInv, NEW c \in Calls, NEW t \in Tree
    PROVE  \/ WithoutTemp(t, c) = t
           \/ \E d \in Dirs : WithoutTemp(t, c) = Put(t, d, c, Absent)
<1>1. CASE op[c].tino # 0 /\ Lstat(t, Temp(c)).kind = "file"
  <2>1. Front(Temp(c)) \in Paths /\ Temp(c) # <<>>
    BY <1>1, TempPath
  <2>2. Holder(t, Temp(c)).ino \in Dirs
    BY <1>1, <2>1, LstatInHolder
  <2> QED
    BY <1>1, <2>2 DEF WithoutTemp
<1>2. CASE ~(op[c].tino # 0 /\ Lstat(t, Temp(c)).kind = "file")
  BY <1>2 DEF WithoutTemp
<1> QED
  BY <1>1, <1>2

DoneWith(r, m, res) == [Idle EXCEPT !.pc = "done", !.req = r, !.made = m, !.res = res]

\* A call that is over, or refused before it did anything, knows nothing.
LEMMA DoneState ==
    ASSUME NEW r \in Request \cup {None}, NEW m \in SUBSET Dirs, NEW res \in Outcomes
    PROVE  LET s == DoneWith(r, m, res)
           IN  /\ s \in State /\ StateInv(s) /\ s.pc = "done" /\ s.tino = 0
               /\ \A t, c : AnchorInv(t, s, c) /\ CheckInv(t, s)
<1> DEFINE s == DoneWith(r, m, res)
<1>1. Idle \in State /\ Idle.tino = 0
  <2>1. <<>> \in Paths
    BY DEF Paths
  <2> HIDE DEF Paths, Entry, Request, Directory
  <2> QED
    BY <2>1 DEF Idle, State, Stages, Outcomes
<1>2. "done" \in Stages
  BY DEF Stages
<1>3. s \in State
  <2> HIDE DEF Stages, Outcomes, Request, Entry, Paths, Directory
  <2> QED
    BY <1>1, <1>2 DEF State, DoneWith
<1>4. s.pc = "done" /\ s.tino = 0
  <2> HIDE DEF Stages, Outcomes, Request, Entry, Paths, Directory
  <2> QED
    BY <1>1 DEF State, DoneWith
<1> HIDE DEF s
<1>5. StateInv(s)
  BY <1>4 DEF StateInv, RequestInv, WalkInv, TargetInv, SourceInv, ResultInv, Running, Placed
<1> QED
  BY <1>3, <1>4, <1>5 DEF AnchorInv, CheckInv, s

\* What the invariant says of one call.
LEMMA StateTypes ==
    ASSUME IInv, NEW c \in Calls
    PROVE  /\ fs \in Tree /\ op[c] \in State /\ StateInv(op[c]) /\ TempInv(fs, op[c], c)
           /\ c \notin disturbed => HomeInv(fs, op[c], c)
BY DEF IInv, TypeOK, CallInv

\* The temporary file of a call is where the call removes it from.
Removable(t, c) == \A d \in Dirs : t[d][c] # Absent =>
                     op[c].tino # 0 /\ t[d][c].kind = "file" /\ Holder(t, Temp(c)) = DirEntry(d)

\* A call that returns keeps the invariant.
LEMMA ReturnKeeps ==
    ASSUME IInv, NEW c \in Calls, NEW t, NEW res \in Outcomes, Return(c, t, res), Effect(t, {c}),
           \A d, e \in Dirs : t[d][c] # Absent /\ t[e][c] # Absent => d = e,
           c \notin disturbed => Removable(t, c)
    PROVE  IInv'
<1> DEFINE s == DoneWith(op[c].req, op[c].made, res)
           u == WithoutTemp(t, c)
<1>1. t \in Tree /\ op[c].req \in Request \cup {None} /\ op[c].made \in SUBSET Dirs
  BY StateTypes DEF Effect, State
<1>2. /\ s \in State /\ StateInv(s) /\ s.pc = "done" /\ s.tino = 0
      /\ \A x, y : AnchorInv(x, s, y) /\ CheckInv(x, s)
  BY <1>1, DoneState
<1>3. u = t \/ \E d \in Dirs : u = Put(t, d, c, Absent)
  BY <1>1, WithoutTempTree
<1>4. fs' = u /\ op' = [op EXCEPT ![c] = s] /\ By(c)
  BY DEF Return, DoneWith
<1> HIDE DEF s, u
<1>5. /\ Effect(u, {c})
      /\ \A d, e \in Dirs : u[d][c] # Absent /\ u[e][c] # Absent => d = e
  <2>1. CASE u = t
    BY <2>1
  <2>2. ASSUME NEW d \in Dirs, u = Put(t, d, c, Absent)
        PROVE  /\ Effect(u, {c})
               /\ \A x, y \in Dirs : u[x][c] # Absent /\ u[y][c] # Absent => x = y
    <3>1. Absent \in Entry /\ Absent.kind # "file" /\ {c} \in SUBSET Calls
      BY EntriesMade DEF Absent
    <3>2. Effect(u, {c})
      BY <2>2, <3>1, EffectOfPut
    <3>3. \A x \in Dirs : u[x][c] = IF x = d THEN Absent ELSE t[x][c]
      BY <1>1, <2>2, <3>1, PutTree
    <3> QED
      BY <3>2, <3>3
  <2> QED
    BY <1>3, <2>1, <2>2
<1>6. TempInv(u, s, c)
  BY <1>2, <1>5 DEF TempInv
<1>7. ASSUME c \notin disturbed PROVE HomeInv(u, s, c)
  <2> SUFFICES ASSUME NEW d \in Dirs PROVE u[d][c] = Absent
    BY <1>2 DEF HomeInv
  <2>1. CASE t[d][c] = Absent
    <3>1. ASSUME NEW k \in Dirs, u = Put(t, k, c, Absent) PROVE u[d][c] = Absent
      BY <1>1, <2>1, <3>1, EntriesMade, PutTree
    <3> QED
      BY <1>3, <2>1, <3>1
  <2>2. CASE t[d][c] # Absent
    <3>1. op[c].tino # 0 /\ t[d][c].kind = "file" /\ Holder(t, Temp(c)) = DirEntry(d)
      BY <1>7, <2>2 DEF Removable
    <3>2. Temp(c) # <<>> /\ Front(Temp(c)) \in Paths /\ Last(Temp(c)) = c
      BY <3>1, TempPath
    <3>3. Lstat(t, Temp(c)) = t[d][c]
      BY <1>1, <3>1, <3>2, HolderLooked DEF DirEntry
    <3>4. u = Put(t, d, c, Absent)
      BY <3>1, <3>3 DEF u, WithoutTemp, DirEntry
    <3> QED
      BY <1>1, <3>4, EntriesMade, PutTree
  <2> QED
    BY <2>1, <2>2
<1> QED
  BY <1>2, <1>4, <1>5, <1>6, <1>7, StepKeeps

\* So does one that is refused.
LEMMA RefuseKeeps ==
    ASSUME IInv, NEW c \in Calls, NEW res \in Outcomes, Refuse(c, res)
    PROVE  IInv'
<1>1. fs \in Tree /\ TempInv(fs, op[c], c) /\ (c \notin disturbed => HomeInv(fs, op[c], c))
  BY StateTypes
<1>2. c \notin disturbed => Removable(fs, c)
  BY <1>1 DEF Removable, TempInv, HomeInv, Temp
<1> QED
  BY <1>1, <1>2, EffectOfNothing, ReturnKeeps DEF Refuse, TempInv

\* A step that only looks.
LEMMA GotoKeeps ==
    ASSUME IInv, NEW c \in Calls, NEW s \in State, Goto(c, s), StateInv(s),
           op[c].pc # "done", s.tino = op[c].tino, s.tino # 0 => s.path = op[c].path,
           AnchorInv(fs, s, c), CheckInv(fs, s)
    PROVE  IInv'
<1>1. fs \in Tree /\ TempInv(fs, op[c], c) /\ (c \notin disturbed => HomeInv(fs, op[c], c))
  BY StateTypes
<1>2. TempInv(fs, s, c)
  BY <1>1 DEF TempInv
<1>3. fs' = fs /\ op' = [op EXCEPT ![c] = s] /\ By(c) /\ Effect(fs, {c})
  BY <1>1, EffectOfNothing DEF Goto
<1>4. c \notin disturbed => HomeInv(fs, s, c)
  <2>1. s.pc = "done" => s.tino = 0
    BY DEF StateInv, ResultInv
  <2> QED
    BY <1>1, <2>1 DEF HomeInv, TempInv
<1> QED
  BY <1>2, <1>3, <1>4, StepKeeps

\* One that does not go to the rename has nothing to say of the tree.
LEMMA GotoEarlier ==
    ASSUME IInv, NEW c \in Calls, NEW s \in State, Goto(c, s), StateInv(s),
           op[c].pc # "done", s.tino = op[c].tino, s.pc \notin {"recheck", "rename"}
    PROVE  IInv'
<1>1. AnchorInv(fs, s, c) /\ CheckInv(fs, s)
  BY DEF AnchorInv, CheckInv
<1>2. s.tino = 0
  BY DEF StateInv, ResultInv
<1> QED
  BY <1>1, <1>2, GotoKeeps

\* ---------------------------------------------------- the steps of a call
\* What a call remembers, field by field.
LEMMA Fields ==
    ASSUME NEW s \in State
    PROVE  /\ s.rest \in Paths /\ s.at \in Paths /\ s.path \in Paths /\ s.from \in Paths
           /\ s.pid \in Directory \cup {NoDir} /\ s.fromPid \in Directory \cup {NoDir}
           /\ s.target \in Entry \cup {None} /\ s.src \in Entry \cup {None}
           /\ s.create \in BOOLEAN /\ s.made \in SUBSET Dirs /\ s.tino \in Inos \cup {0}
           /\ s.leaf \in Names \cup {""} /\ s.req \in Request \cup {None}
           /\ s.pc \in Stages /\ s.res \in Outcomes
BY DEF State

\* What a walk goes on with, or the inspection at its end.
LEMMA WalkedState ==
    ASSUME NEW s \in State, NEW at \in Paths, NEW rest \in Paths,
           s.req \in Request, s.req.op \in {"write", "mkdir", "move", "copy"}, s.leaf \in Names,
           s.res = "none", s.tino = 0,
           s.req.op \in {"move", "copy"} =>
             /\ s.target.kind # "file" /\ s.from # <<>> /\ NormalizeLexical(s.req.to) \in Paths \ {<<>>}
             /\ s.src.kind \in {"file", "dir", "link"}
             /\ s.req.op = "copy" => s.src.kind = "file"
             /\ s.req.op = "move" => s.fromPid \in Directory
    PROVE  LET u == Walked(s, at, rest)
           IN  u \in State /\ StateInv(u) /\ u.pc \in {"walk", "inspect"} /\ u.tino = 0
<1> DEFINE u == Walked(s, at, rest)
<1>1. CASE rest = <<>>
  <2>1. Append(at, s.leaf) \in Paths
    BY PathAppended
  <2>2. /\ u \in State /\ u.pc = "inspect" /\ u.path = Append(u.at, u.leaf) /\ u.leaf = s.leaf
        /\ u.req = s.req /\ u.target = s.target /\ u.from = s.from /\ u.src = s.src
        /\ u.fromPid = s.fromPid /\ u.res = s.res /\ u.tino = s.tino
    BY <1>1, <2>1, ZenonT(40) DEF Walked, State, Stages
  <2> HIDE DEF u
  <2>3. StateInv(u)
    BY <2>2 DEF StateInv, RequestInv, WalkInv, TargetInv, SourceInv, ResultInv, OperationsAt,
                Running, Placed
  <2> QED
    BY <2>2, <2>3 DEF u
<1>2. CASE rest # <<>>
  <2>2. /\ u \in State /\ u.pc = "walk" /\ u.rest = rest /\ u.leaf = s.leaf
        /\ u.req = s.req /\ u.target = s.target /\ u.from = s.from /\ u.src = s.src
        /\ u.fromPid = s.fromPid /\ u.res = s.res /\ u.tino = s.tino
    BY <1>2, ZenonT(40) DEF Walked, State, Stages
  <2> HIDE DEF u
  <2>3. StateInv(u)
    BY <1>2, <2>2 DEF StateInv, RequestInv, WalkInv, TargetInv, SourceInv, ResultInv, OperationsAt,
                Running, Placed
  <2> QED
    BY <2>2, <2>3 DEF u
<1> QED
  BY <1>1, <1>2

\* A call on its walk satisfies what WalkedState asks for.
LEMMA OnItsWalk ==
    ASSUME NEW s \in State, StateInv(s), s.pc \in {"walk", "create", "created", "found"}
    PROVE  /\ s.req \in Request /\ s.req.op \in {"write", "mkdir", "move", "copy"} /\ s.leaf \in Names
           /\ s.res = "none" /\ s.tino = 0
           /\ s.req.op \in {"move", "copy"} =>
                /\ s.target.kind # "file" /\ s.from # <<>> /\ NormalizeLexical(s.req.to) \in Paths \ {<<>>}
                /\ s.src.kind \in {"file", "dir", "link"}
                /\ s.req.op = "copy" => s.src.kind = "file"
                /\ s.req.op = "move" => s.fromPid \in Directory
           /\ s.rest # <<>> /\ Head(s.rest) \in Names /\ Tail(s.rest) \in Paths
           /\ Append(s.at, Head(s.rest)) \in Paths
           /\ Front(Append(s.at, Head(s.rest))) = s.at /\ Last(Append(s.at, Head(s.rest))) = Head(s.rest)
<1>1. s.rest \in Seq(Names) /\ s.at \in Seq(Names) /\ s.rest # <<>>
  BY Fields DEF StateInv, WalkInv, Paths
<1>2. Head(s.rest) \in Names /\ Tail(s.rest) \in Seq(Names)
  BY <1>1
<1>3. /\ Append(s.at, Head(s.rest)) \in Paths /\ Tail(s.rest) \in Paths
      /\ Front(Append(s.at, Head(s.rest))) = s.at /\ Last(Append(s.at, Head(s.rest))) = Head(s.rest)
  BY <1>1, <1>2, FrontOfAppend DEF Paths
<1>4. s.req \in Request /\ s.req.op \in {"write", "mkdir", "move", "copy"} /\ s.leaf \in Names
      /\ s.res = "none" /\ s.tino = 0
  BY DEF StateInv, RequestInv, WalkInv, ResultInv, OperationsAt, Running
<1>6. s.req.op \in {"move", "copy"} =>
        /\ s.target.kind # "file" /\ s.from # <<>> /\ NormalizeLexical(s.req.to) \in Paths \ {<<>>}
        /\ s.src.kind \in {"file", "dir", "link"}
        /\ s.req.op = "copy" => s.src.kind = "file"
        /\ s.req.op = "move" => s.fromPid \in Directory
  BY DEF StateInv, SourceInv, TargetInv, Running
<1> QED
  BY <1>1, <1>2, <1>3, <1>4, <1>6

\* ensure_dir_under_root on one component.
LEMMA WalkComponentKeeps ==
    ASSUME IInv, NEW c \in Calls, WalkComponent(c)
    PROVE  IInv'
<1> DEFINE s    == op[c]
           next == Append(s.at, Head(s.rest))
           e    == Lstat(fs, next)
           x    == ExistingComponent(fs, next, e, ~s.create)
           pid  == DirectoryAt(fs, s.at)
<1>1. s \in State /\ StateInv(s) /\ fs \in Tree /\ s.pc = "walk"
  BY StateTypes, Zenon DEF WalkComponent
<1>2. /\ s.leaf \in Names /\ Head(s.rest) \in Names /\ Tail(s.rest) \in Paths /\ next \in Paths
      /\ s.at \in Paths /\ s.tino = 0
  BY <1>1, OnItsWalk, Fields
<1>3. e \in Entry \cup {Other}
  BY <1>1, <1>2, ComponentLooked
<1>4. x \in Results /\ x.st \in Outcomes /\ x.path \in Paths
  BY <1>1, <1>2, <1>3, ExistingType, ResultParts DEF Outcomes
<1>5. pid \in Directory \cup {NoDir}
  BY <1>1, <1>2, DirectoryAtType
<1> HIDE DEF e, x, pid
<1>6. \/ \E res \in Outcomes : Refuse(c, res)
      \/ Goto(c, [s EXCEPT !.pc = "create", !.pid = pid])
      \/ Goto(c, Walked(s, x.path, Tail(s.rest)))
  <2> USE DEF e, x, pid
  <2> QED
    BY <1>4, Zenon DEF WalkComponent, Outcomes, Statuses
<1>7. CASE \E res \in Outcomes : Refuse(c, res)
  BY <1>7, RefuseKeeps
<1>8. CASE Goto(c, [s EXCEPT !.pc = "create", !.pid = pid])
  <2> DEFINE u == [s EXCEPT !.pc = "create", !.pid = pid]
  <2>1. /\ u \in State /\ u.pc = "create" /\ u.tino = s.tino /\ u.rest = s.rest /\ u.leaf = s.leaf
        /\ u.req = s.req /\ u.target = s.target /\ u.from = s.from /\ u.src = s.src
        /\ u.fromPid = s.fromPid /\ u.res = s.res
    BY <1>1, <1>5, ZenonT(40) DEF State, Stages
  <2> HIDE DEF u
  <2>2. StateInv(u)
    BY <1>1, <2>1, OnItsWalk DEF StateInv, RequestInv, WalkInv, TargetInv, SourceInv, ResultInv,
                                 OperationsAt, Running, Placed
  <2> QED
    BY <1>1, <1>8, <2>1, <2>2, GotoEarlier DEF u
<1>9. CASE Goto(c, Walked(s, x.path, Tail(s.rest)))
  <2>1. LET u == Walked(s, x.path, Tail(s.rest))
        IN  u \in State /\ StateInv(u) /\ u.pc \in {"walk", "inspect"} /\ u.tino = 0
    BY <1>1, <1>2, <1>4, OnItsWalk, WalkedState
  <2> QED
    BY <1>1, <1>2, <1>9, <2>1, GotoEarlier
<1> QED
  BY <1>6, <1>7, <1>8, <1>9

\* And after that component was created.
LEMMA CheckCreatedKeeps ==
    ASSUME IInv, NEW c \in Calls, CheckCreated(c)
    PROVE  IInv'
<1> DEFINE s    == op[c]
           next == Append(s.at, Head(s.rest))
           e    == Lstat(fs, next)
           x    == ExistingComponent(fs, next, e, FALSE)
<1>1. s \in State /\ StateInv(s) /\ fs \in Tree /\ s.pc \in {"created", "found"}
  BY StateTypes DEF CheckCreated
<1>2. /\ s.leaf \in Names /\ Head(s.rest) \in Names /\ Tail(s.rest) \in Paths /\ next \in Paths
      /\ s.at \in Paths /\ s.tino = 0
  BY <1>1, OnItsWalk, Fields
<1>3. e \in Entry \cup {Other}
  BY <1>1, <1>2, ComponentLooked
<1>4. x \in Results /\ x.st \in Outcomes /\ x.path \in Paths
  BY <1>1, <1>2, <1>3, ExistingType, ResultParts DEF Outcomes
<1> HIDE DEF e, x
<1>6. (\E res \in Outcomes : Refuse(c, res)) \/ Goto(c, Walked(s, x.path, Tail(s.rest)))
  <2> USE DEF e, x
  <2> QED
    BY <1>4, Zenon DEF CheckCreated, Outcomes, Statuses
<1>7. CASE \E res \in Outcomes : Refuse(c, res)
  BY <1>7, RefuseKeeps
<1>9. CASE Goto(c, Walked(s, x.path, Tail(s.rest)))
  <2>1. LET u == Walked(s, x.path, Tail(s.rest))
        IN  u \in State /\ StateInv(u) /\ u.pc \in {"walk", "inspect"} /\ u.tino = 0
    BY <1>1, <1>2, <1>4, OnItsWalk, WalkedState
  <2> QED
    BY <1>1, <1>2, <1>9, <2>1, GotoEarlier
<1> QED
  BY <1>6, <1>7, <1>9

\* What is created is new.
LEMMA NewFile ==
    ASSUME FileSpace
    PROVE  NewIno \in Inos /\ NewIno \notin UsedInos /\ NewIno # 0
<1>1. NewIno \in Inos \ UsedInos
  BY DEF FileSpace, NewIno
<1> QED
  BY <1>1, OpsAssumption

\* A new directory.
LEMMA NewDirectory ==
    ASSUME DirSpace
    PROVE  NewDir \in Dirs
BY DEF DirSpace, NewDir

\* The identity of a file in the tree is in use.
LEMMA FilesUsed ==
    ASSUME fs \in Tree, NEW d \in Dirs, NEW n \in Names \cup Calls, fs[d][n].kind = "file"
    PROVE  fs[d][n].ino \in UsedInos
<1>1. fs[d][n] \in {x \in Entries(fs) : x.kind = "file"}
  BY DEF Entries
<1> QED
  BY <1>1 DEF UsedInos

\* A step that makes a directory under a name of a path.
LEMMA MakingKeeps ==
    ASSUME IInv, NEW c \in Calls, NEW u \in State, op' = [op EXCEPT ![c] = u], By(c), StateInv(u),
           u.pc \notin {"rename", "done"}, u.tino = 0, op[c].tino = 0, op[c].pc # "done",
           NEW d \in Dirs, NEW n \in Names, NEW i \in Dirs, fs' = Put(fs, d, n, DirEntry(i))
    PROVE  IInv'
<1>1. fs \in Tree /\ TempInv(fs, op[c], c)
  BY StateTypes
<1>2. DirEntry(i) \in Entry /\ DirEntry(i).kind = "dir" /\ {c} \in SUBSET Calls
  BY EntriesMade DEF DirEntry
<1>3. Effect(fs', {c})
  BY <1>1, <1>2, EffectOfNothing, EffectOfPut
<1>4. \A k \in Dirs : fs'[k][c] = fs[k][c]
  BY <1>1, <1>2, PutTree, NamesApart
<1>5. TempInv(fs', u, c)
  BY <1>1, <1>4 DEF TempInv
<1>6. AnchorInv(fs', u, c) /\ CheckInv(fs', u) /\ HomeInv(fs', u, c)
  BY DEF AnchorInv, CheckInv, HomeInv
<1> QED
  BY <1>3, <1>5, <1>6, StepKeeps

\* create_dir of a missing component.
LEMMA CreateComponentKeeps ==
    ASSUME IInv, NEW c \in Calls, CreateComponent(c)
    PROVE  IInv'
<1> DEFINE s    == op[c]
           next == Append(s.at, Head(s.rest))
           dir  == Holder(fs, next)
<1>1. s \in State /\ StateInv(s) /\ fs \in Tree /\ s.pc = "create" /\ op \in [Calls -> State]
  BY StateTypes, Zenon DEF CreateComponent, IInv, TypeOK
<1>2. /\ Head(s.rest) \in Names /\ next \in Paths /\ s.at \in Paths /\ s.tino = 0
      /\ Front(next) = s.at /\ Last(next) = Head(s.rest)
  BY <1>1, OnItsWalk, Fields
<1>3. dir.kind = "dir" => dir.ino \in Dirs
  BY <1>1, <1>2, HolderType
<1> HIDE DEF dir, next
<1>4. CASE Refuse(c, "Io")
  BY <1>4, RefuseKeeps DEF Outcomes, Statuses
<1>5. CASE Goto(c, [s EXCEPT !.pc = "found"])
  <2> DEFINE u == [s EXCEPT !.pc = "found"]
  <2>1. /\ u \in State /\ u.pc = "found" /\ u.tino = s.tino /\ u.rest = s.rest /\ u.leaf = s.leaf
        /\ u.req = s.req /\ u.target = s.target /\ u.from = s.from /\ u.src = s.src
        /\ u.fromPid = s.fromPid /\ u.res = s.res
    BY <1>1, ZenonT(40) DEF State, Stages
  <2> HIDE DEF u
  <2>2. StateInv(u)
    BY <1>1, <2>1, OnItsWalk DEF StateInv, RequestInv, WalkInv, TargetInv, SourceInv, ResultInv,
                                 OperationsAt, Running, Placed
  <2> QED
    BY <1>1, <1>5, <2>1, <2>2, GotoEarlier DEF u
<1>6. CASE /\ dir.kind = "dir" /\ DirSpace
           /\ fs' = Put(fs, dir.ino, Last(next), DirEntry(NewDir))
           /\ op' = [op EXCEPT ![c].pc = "created", ![c].made = @ \cup {NewDir}]
           /\ By(c)
  <2> DEFINE u == [s EXCEPT !.pc = "created", !.made = @ \cup {NewDir}]
  <2>0. NewDir \in Dirs
    BY <1>6, NewDirectory
  <2>1. /\ u \in State /\ u.pc = "created" /\ u.tino = s.tino /\ u.rest = s.rest /\ u.leaf = s.leaf
        /\ u.req = s.req /\ u.target = s.target /\ u.from = s.from /\ u.src = s.src
        /\ u.fromPid = s.fromPid /\ u.res = s.res
    BY <1>1, <2>0, ZenonT(40) DEF State, Stages
  <2>2. op' = [op EXCEPT ![c] = u]
    BY <1>1, <1>6
  <2> HIDE DEF u
  <2>3. StateInv(u)
    BY <1>1, <2>1, OnItsWalk DEF StateInv, RequestInv, WalkInv, TargetInv, SourceInv, ResultInv,
                                 OperationsAt, Running, Placed
  <2> QED
    BY <1>1, <1>2, <1>3, <1>6, <2>0, <2>1, <2>2, <2>3, MakingKeeps
<1> QED
  BY <1>4, <1>5, <1>6, Zenon DEF CreateComponent, dir, next

\* ------------------------------------------------------- how a call begins
\* What the requests have.
LEMMA RequestKinds ==
    ASSUME NEW r \in Request
    PROVE  /\ r.op \in {"write", "mkdir", "edit", "move", "copy"}
           /\ r.op \in {"write", "mkdir"} => /\ r.path \in Segments /\ r.data \in Contents
                                             /\ r.over \in BOOLEAN /\ r.parents \in BOOLEAN
           /\ r.op = "edit" => r.path \in Segments /\ r.data \in Contents
           /\ r.op \in {"move", "copy"} => /\ r.from \in Segments /\ r.to \in Segments
                                           /\ r.over \in BOOLEAN /\ r.parents \in BOOLEAN
BY DEF Request

\* A call that has not begun.
LEMMA IdleState ==
    /\ Idle \in State /\ Idle.tino = 0 /\ Idle.res = "none" /\ Idle.pc = "idle"
    /\ Idle.target.kind = "none"
<1>1. <<>> \in Paths
  BY DEF Paths
<1>2. Idle \in State
  BY <1>1 DEF Idle, State, Stages, Outcomes
<1> QED
  BY <1>2 DEF Idle, None

\* A call refused as it begins.
LEMMA RefusalKeeps ==
    ASSUME IInv, NEW c \in Calls, op[c].pc = "idle", NEW r \in Request, NEW res \in Outcomes,
           Goto(c, [Idle EXCEPT !.pc = "done", !.req = r, !.res = res])
    PROVE  IInv'
<1> DEFINE u == [Idle EXCEPT !.pc = "done", !.req = r, !.res = res]
<1>1. u \in State /\ u.pc = "done" /\ u.tino = 0
  BY IdleState, ZenonT(40) DEF State, Stages
<1> HIDE DEF u
<1>2. StateInv(u)
  BY <1>1 DEF StateInv, RequestInv, WalkInv, TargetInv, SourceInv, ResultInv, Running, Placed
<1>3. op[c].tino = 0
  BY StateTypes DEF StateInv, ResultInv
<1> QED
  BY <1>1, <1>2, <1>3, GotoEarlier DEF u

\* write_file and mkdir begin.
LEMMA BeginKeeps ==
    ASSUME IInv, NEW c \in Calls, NEW r \in Request, r.op \in {"write", "mkdir"}, NEW large,
           Begin(c, r, large)
    PROVE  IInv'
<1> DEFINE lex     == ResolveLexically(r.path)
           leaf    == Last(lex.path)
           preview == ExpectedParent(fs, Front(lex.path), r.parents, TRUE)
           u0      == [Idle EXCEPT !.req = r, !.leaf = leaf, !.create = r.parents]
<1>1. r.path \in Segments /\ r.parents \in BOOLEAN /\ op[c].pc = "idle" /\ fs \in Tree
  BY RequestKinds, StateTypes DEF Begin
<1>2. lex \in Results /\ lex.st \in Statuses /\ lex.path \in Paths
  BY <1>1, ResolveLexicallyType, ResultParts
<1> HIDE DEF lex
<1>3. lex.path # <<>> => Front(lex.path) \in Paths /\ leaf \in Names /\ preview.st \in Statuses
  BY <1>1, <1>2, PathParts, ResolvedTypes, ResultParts
<1> HIDE DEF leaf, preview
<1>4. \/ \E res \in Outcomes : Goto(c, [Idle EXCEPT !.pc = "done", !.req = r, !.res = res])
      \/ lex.path # <<>> /\ Goto(c, Walked(u0, <<>>, Front(lex.path)))
  <2> USE DEF lex, leaf, preview
  <2> QED
    BY <1>2, <1>3 DEF Begin, Outcomes, Statuses
<1>5. CASE \E res \in Outcomes : Goto(c, [Idle EXCEPT !.pc = "done", !.req = r, !.res = res])
  BY <1>1, <1>5, RefusalKeeps
<1>6. CASE lex.path # <<>> /\ Goto(c, Walked(u0, <<>>, Front(lex.path)))
  <2>1. /\ u0 \in State /\ u0.req = r /\ u0.leaf = leaf /\ u0.res = "none" /\ u0.tino = 0
    BY <1>1, <1>3, <1>6, IdleState DEF State
  <2>2. <<>> \in Paths
    BY DEF Paths
  <2> HIDE DEF u0
  <2>3. LET u == Walked(u0, <<>>, Front(lex.path))
        IN  u \in State /\ StateInv(u) /\ u.pc \in {"walk", "inspect"} /\ u.tino = 0
    BY <1>3, <1>6, <2>1, <2>2, WalkedState
  <2>4. op[c].tino = 0
    BY <1>1, StateTypes DEF StateInv, ResultInv
  <2> QED
    BY <1>1, <1>6, <2>3, <2>4, GotoEarlier
<1> QED
  BY <1>4, <1>5, <1>6

\* edit_range and apply_unified_patch begin.
LEMMA BeginEditKeeps ==
    ASSUME IInv, NEW c \in Calls, NEW r \in Request, BeginEdit(c, r)
    PROVE  IInv'
<1> DEFINE lex == ResolveLexically(r.path)
           k   == CanonicalPathInRoot(fs, lex.path)
           u   == [Idle EXCEPT !.pc = "read", !.req = r, !.path = k.path]
<1>1. r.op = "edit" /\ r.path \in Segments /\ op[c].pc = "idle" /\ fs \in Tree
  BY RequestKinds, StateTypes DEF BeginEdit
<1>2. lex \in Results /\ lex.st \in Statuses /\ lex.path \in Paths
  BY <1>1, ResolveLexicallyType, ResultParts
<1> HIDE DEF lex
<1>3. k.st \in Statuses /\ k.path \in Paths
  BY <1>1, <1>2, ResolvedTypes, ResultParts
<1> HIDE DEF k
<1>4. \/ \E res \in Outcomes : Goto(c, [Idle EXCEPT !.pc = "done", !.req = r, !.res = res])
      \/ Goto(c, u)
  <2> USE DEF lex, k
  <2> QED
    BY <1>2, <1>3 DEF BeginEdit, Outcomes, Statuses
<1>5. CASE \E res \in Outcomes : Goto(c, [Idle EXCEPT !.pc = "done", !.req = r, !.res = res])
  BY <1>1, <1>5, RefusalKeeps
<1>6. CASE Goto(c, u)
  <2>1. u \in State /\ u.pc = "read" /\ u.req = r /\ u.res = "none" /\ u.tino = 0
    BY <1>3, IdleState, ZenonT(40) DEF State, Stages
  <2> HIDE DEF u
  <2>2. StateInv(u)
    BY <1>1, <2>1 DEF StateInv, RequestInv, WalkInv, TargetInv, SourceInv, ResultInv, OperationsAt,
                      Running, Placed
  <2>3. op[c].tino = 0
    BY <1>1, StateTypes DEF StateInv, ResultInv
  <2> QED
    BY <1>1, <1>6, <2>1, <2>2, <2>3, GotoEarlier
<1> QED
  BY <1>4, <1>5, <1>6

\* move_path and copy_file begin.
LEMMA BeginTransferKeeps ==
    ASSUME IInv, NEW c \in Calls, NEW r \in Request, BeginTransfer(c, r)
    PROVE  IInv'
<1> DEFINE from == ResolveLexically(r.from)
           to   == ResolveLexically(r.to)
           fp   == EnsureDir(fs, Front(from.path))
           tp   == EnsureDir(fs, Front(to.path))
           missing == tp.st = "NotFound" /\ r.parents
           source  == Append(fp.path, Last(from.path))
           u == [Idle EXCEPT !.pc = "source", !.req = r, !.from = source, !.at = tp.path,
                             !.create = missing, !.leaf = Last(to.path)]
<1>1. /\ r.op \in {"move", "copy"} /\ r.from \in Segments /\ r.to \in Segments /\ r.parents \in BOOLEAN
      /\ op[c].pc = "idle" /\ fs \in Tree
  BY RequestKinds, StateTypes DEF BeginTransfer
<1>2. /\ from.st \in Statuses /\ from.path \in Paths /\ to.st \in Statuses /\ to.path \in Paths
      /\ to.st = "ok" => to.path = NormalizeLexical(r.to)
  BY <1>1, ResolveLexicallyType, ResultParts
<1> HIDE DEF from, to
<1>3. <<>> \notin {from.path, to.path} =>
        /\ Last(from.path) \in Names /\ Last(to.path) \in Names
        /\ fp.st \in Statuses /\ tp.st \in Statuses /\ fp.path \in Paths /\ tp.path \in Paths
  BY <1>1, <1>2, PathParts, EnsureDirType, ResultParts
<1> HIDE DEF fp, tp
<1>4. <<>> \notin {from.path, to.path} => source \in Paths /\ source # <<>>
  BY <1>3, FrontOfAppend, PathAppended DEF Paths
<1> HIDE DEF source
<1>5. \/ \E res \in Outcomes : Goto(c, [Idle EXCEPT !.pc = "done", !.req = r, !.res = res])
      \/ to.st = "ok" /\ <<>> \notin {from.path, to.path} /\ Goto(c, u)
  <2> USE DEF from, to, fp, tp, source
  <2> QED
    BY <1>2, <1>3, Zenon DEF BeginTransfer, Outcomes, Statuses
<1>6. CASE \E res \in Outcomes : Goto(c, [Idle EXCEPT !.pc = "done", !.req = r, !.res = res])
  BY <1>1, <1>6, RefusalKeeps
<1>7. CASE to.st = "ok" /\ <<>> \notin {from.path, to.path} /\ Goto(c, u)
  <2>0. missing \in BOOLEAN /\ tp.path \in Paths /\ source \in Paths /\ Last(to.path) \in Names
    BY <1>1, <1>3, <1>4, <1>7
  <2> HIDE DEF missing
  <2>1. /\ u \in State /\ u.pc = "source" /\ u.req = r /\ u.res = "none" /\ u.tino = 0
        /\ u.from = source /\ u.leaf = Last(to.path) /\ u.target = Idle.target
    BY <2>0, IdleState, ZenonT(40) DEF State, Stages
  <2> HIDE DEF u
  <2>2. StateInv(u)
    BY <1>1, <1>2, <1>3, <1>4, <1>7, <2>1, IdleState
       DEF StateInv, RequestInv, WalkInv, TargetInv, SourceInv, ResultInv, OperationsAt, Running, Placed
  <2>3. op[c].tino = 0
    BY <1>1, StateTypes DEF StateInv, ResultInv
  <2> QED
    BY <1>1, <1>7, <2>1, <2>2, <2>3, GotoEarlier
<1> QED
  BY <1>5, <1>6, <1>7

\* They look at their source.
LEMMA TakeSourceKeeps ==
    ASSUME IInv, NEW c \in Calls, TakeSource(c)
    PROVE  IInv'
<1> DEFINE s       == op[c]
           r       == s.req
           to      == NormalizeLexical(r.to)
           e       == Lstat(fs, s.from)
           pid     == DirectoryAt(fs, Front(s.from))
           preview == ExpectedParent(fs, Front(to), s.create, FALSE)
           taken   == [s EXCEPT !.src = e, !.fromPid = pid]
<1>1. s \in State /\ StateInv(s) /\ fs \in Tree /\ s.pc = "source"
  BY StateTypes DEF TakeSource
<1>2. /\ r \in Request /\ r.op \in {"move", "copy"} /\ s.leaf \in Names /\ s.res = "none" /\ s.tino = 0
      /\ s.from # <<>> /\ to \in Paths \ {<<>>} /\ s.target.kind # "file"
  BY <1>1 DEF StateInv, RequestInv, WalkInv, TargetInv, SourceInv, ResultInv, OperationsAt, Running
<1>3. s.at \in Paths /\ s.from \in Paths /\ Front(s.from) \in Paths /\ Last(s.from) \in Names
  BY <1>1, <1>2, Fields, PathParts
<1>4. Front(to) \in Paths /\ preview.st \in Statuses
  BY <1>1, <1>2, PathParts, ResolvedTypes, ResultParts
<1>5. e \in Entry \cup {Other} /\ pid \in Directory \cup {NoDir} /\ (pid # NoDir => pid \in Directory)
  BY <1>1, <1>3, LstatType, DirectoryAtType
<1> HIDE DEF e, pid, preview, to
<1>6. \/ \E res \in Outcomes : Refuse(c, res)
      \/ /\ e.kind \notin {"absent", "error"} /\ (r.op = "copy" => e.kind = "file")
         /\ r.op = "move" => pid # NoDir
         /\ Goto(c, Walked(taken, <<>>, Front(to))) \/ Goto(c, Walked(taken, s.at, <<>>))
  <2> USE DEF e, pid, preview, to
  <2> QED
    BY <1>4 DEF TakeSource, Outcomes, Statuses
<1>7. CASE \E res \in Outcomes : Refuse(c, res)
  BY <1>7, RefuseKeeps
<1>8. CASE /\ e.kind \notin {"absent", "error"} /\ (r.op = "copy" => e.kind = "file")
           /\ r.op = "move" => pid # NoDir
           /\ Goto(c, Walked(taken, <<>>, Front(to))) \/ Goto(c, Walked(taken, s.at, <<>>))
  <2>1. e \in Entry /\ e.kind \in {"file", "dir", "link"}
    BY <1>5, <1>8, EntryKinds DEF Other
  <2>2. /\ taken \in State /\ taken.req = r /\ taken.leaf = s.leaf /\ taken.res = "none"
        /\ taken.tino = 0 /\ taken.from = s.from /\ taken.src = e /\ taken.fromPid = pid
        /\ taken.target = s.target
    BY <1>1, <1>2, <1>5, <2>1 DEF State
  <2>3. <<>> \in Paths
    BY DEF Paths
  <2> HIDE DEF taken
  <2>4. \A at, rest \in Paths :
          LET u == Walked(taken, at, rest)
          IN  u \in State /\ StateInv(u) /\ u.pc \in {"walk", "inspect"} /\ u.tino = 0
    BY <1>2, <1>5, <1>8, <2>1, <2>2, WalkedState DEF to
  <2> QED
    BY <1>1, <1>2, <1>3, <1>4, <1>8, <2>3, <2>4, GotoEarlier
<1> QED
  BY <1>6, <1>7, <1>8

\* ------------------------------------------------ looking before the rename
\* A call whose parents exist knows its path.
LEMMA PlacedFacts ==
    ASSUME NEW s \in State, StateInv(s), Placed(s)
    PROVE  /\ s.at \in Paths /\ s.leaf \in Names /\ s.path \in Paths /\ s.path # <<>>
           /\ Front(s.path) = s.at /\ Last(s.path) = s.leaf /\ s.path = Append(s.at, s.leaf)
           /\ s.req \in Request /\ s.req.op \in {"write", "mkdir", "move", "copy"}
           /\ s.res = "none"
           /\ s.pc # "inspect" => s.pid \in Directory
<1>1. s.path = Append(s.at, s.leaf) /\ s.at \in Paths /\ s.path \in Paths
  BY Fields DEF StateInv, WalkInv
<1>2. s.req \in Request /\ s.req.op \in {"write", "mkdir", "move", "copy"} /\ s.res = "none"
      /\ s.leaf \in Names
  BY RequestKinds DEF StateInv, RequestInv, WalkInv, ResultInv, OperationsAt, Running, Placed
<1>3. s.path # <<>> /\ Front(s.path) = s.at /\ Last(s.path) = s.leaf
  BY <1>1, <1>2, FrontOfAppend DEF Paths
<1>4. s.pc # "inspect" => s.pid \in Directory
  BY DEF StateInv, WalkInv
<1> QED
  BY <1>1, <1>2, <1>3, <1>4

\* What lies at the path of such a call, and at its parent.
LEMMA PlacedLooked ==
    ASSUME NEW s \in State, StateInv(s), Placed(s), NEW t \in Tree
    PROVE  /\ Lstat(t, s.path) \in Entry \cup {Other}
           /\ DirectoryAt(t, s.at) \in Directory \cup {NoDir}
           /\ DirectoryAt(t, s.at) # NoDir => DirectoryAt(t, s.at) \in Directory
BY PlacedFacts, LstatType, DirectoryAtType

\* write_file looks at its target.
LEMMA InspectWriteKeeps ==
    ASSUME IInv, NEW c \in Calls, InspectWrite(c)
    PROVE  IInv'
<1> DEFINE s   == op[c]
           pid == DirectoryAt(fs, s.at)
           e   == Lstat(fs, s.path)
           u   == [s EXCEPT !.pc = "verify", !.pid = pid, !.target = e]
<1>1. /\ s \in State /\ StateInv(s) /\ fs \in Tree /\ s.pc = "inspect" /\ s.req.op = "write"
      /\ Placed(s)
  BY StateTypes DEF InspectWrite, Placed
<1>2. e \in Entry \cup {Other} /\ (pid # NoDir => pid \in Directory)
  BY <1>1, PlacedLooked
<1> HIDE DEF pid, e
<1>3. \/ \E res \in Outcomes : Refuse(c, res)
      \/ pid # NoDir /\ (e.kind = "absent" \/ (e.kind = "file" /\ s.req.over)) /\ Goto(c, u)
  BY DEF InspectWrite, Outcomes, Statuses, pid, e
<1>4. CASE \E res \in Outcomes : Refuse(c, res)
  BY <1>4, RefuseKeeps
<1>5. CASE pid # NoDir /\ (e.kind = "absent" \/ (e.kind = "file" /\ s.req.over)) /\ Goto(c, u)
  <2>1. e \in Entry /\ pid \in Directory
    BY <1>2, <1>5 DEF Other
  <2>2. /\ u \in State /\ u.pc = "verify" /\ u.pid = pid /\ u.target = e /\ u.tino = s.tino
        /\ u.path = s.path /\ u.at = s.at /\ u.leaf = s.leaf /\ u.req = s.req /\ u.res = s.res
    BY <1>1, <2>1 DEF State, Stages
  <2>3. Goto(c, u)
    BY <1>5
  <2> HIDE DEF u
  <2>4. StateInv(u)
    BY <1>1, <1>5, <2>1, <2>2, PlacedFacts
       DEF StateInv, RequestInv, WalkInv, TargetInv, SourceInv, ResultInv, OperationsAt, Running, Placed
  <2> QED
    BY <1>1, <2>2, <2>3, <2>4, GotoEarlier
<1> QED
  BY <1>3, <1>4, <1>5

\* What is at the destination of a mkdir is refused, or taken as it is.
LEMMA ExistingRefusals ==
    ASSUME NEW c \in Calls, op[c] \in State, fs \in Tree
    PROVE  TargetRefusal(c) \in Outcomes /\ ExistingDirectory(c) \in Outcomes
<1>1. Canonicalize(fs, op[c].path).st \in Statuses
  BY Fields, CanonicalizeType, ResultParts
<1>2. TargetRefusal(c) \in Outcomes
  BY <1>1 DEF TargetRefusal, Outcomes, Statuses
<1> QED
  BY <1>2 DEF ExistingDirectory, Outcomes, Statuses

\* mkdir looks at its target.
LEMMA InspectMkdirKeeps ==
    ASSUME IInv, NEW c \in Calls, InspectMkdir(c)
    PROVE  IInv'
<1> DEFINE s   == op[c]
           pid == DirectoryAt(fs, s.at)
           e   == Lstat(fs, s.path)
           u   == [s EXCEPT !.pc = "mkdir", !.pid = pid]
<1>1. /\ s \in State /\ StateInv(s) /\ fs \in Tree /\ s.pc = "inspect" /\ s.req.op = "mkdir"
      /\ Placed(s)
  BY StateTypes DEF InspectMkdir, Placed
<1>2. pid # NoDir => pid \in Directory
  BY <1>1, PlacedLooked
<1>3. ExistingDirectory(c) \in Outcomes
  BY <1>1, ExistingRefusals
<1> HIDE DEF pid, e
<1>4. (\E res \in Outcomes : Refuse(c, res)) \/ (pid # NoDir /\ Goto(c, u))
  BY <1>3 DEF InspectMkdir, Outcomes, Statuses, pid, e
<1>5. CASE \E res \in Outcomes : Refuse(c, res)
  BY <1>5, RefuseKeeps
<1>6. CASE pid # NoDir /\ Goto(c, u)
  <2>1. pid \in Directory
    BY <1>2, <1>6
  <2>2. /\ u \in State /\ u.pc = "mkdir" /\ u.pid = pid /\ u.target = s.target /\ u.tino = s.tino
        /\ u.path = s.path /\ u.at = s.at /\ u.leaf = s.leaf /\ u.req = s.req /\ u.res = s.res
    BY <1>1, <2>1, ZenonT(40) DEF State, Stages
  <2>3. Goto(c, u)
    BY <1>6
  <2> HIDE DEF u
  <2>4. StateInv(u)
    BY <1>1, <2>1, <2>2, PlacedFacts
       DEF StateInv, RequestInv, WalkInv, TargetInv, SourceInv, ResultInv, OperationsAt, Running, Placed
  <2> QED
    BY <1>1, <2>2, <2>3, <2>4, GotoEarlier
<1> QED
  BY <1>4, <1>5, <1>6

\* verify_parent_identity, before anything is staged.
LEMMA VerifyParentKeeps ==
    ASSUME IInv, NEW c \in Calls, VerifyParent(c)
    PROVE  IInv'
<1> DEFINE s == op[c]
           u == [s EXCEPT !.pc = "stage"]
<1>1. s \in State /\ StateInv(s) /\ s.pc = "verify" /\ Placed(s)
  BY StateTypes DEF VerifyParent, Placed
<1>2. (\E res \in Outcomes : Refuse(c, res)) \/ Goto(c, u)
  BY DEF VerifyParent, Outcomes, Statuses
<1>3. CASE \E res \in Outcomes : Refuse(c, res)
  BY <1>3, RefuseKeeps
<1>4. CASE Goto(c, u)
  <2>1. /\ u \in State /\ u.pc = "stage" /\ u.pid = s.pid /\ u.target = s.target /\ u.tino = s.tino
        /\ u.path = s.path /\ u.at = s.at /\ u.leaf = s.leaf /\ u.req = s.req /\ u.res = s.res
        /\ u.from = s.from /\ u.src = s.src /\ u.fromPid = s.fromPid
    BY <1>1, ZenonT(40) DEF State, Stages
  <2> HIDE DEF u
  <2>2. StateInv(u)
    BY <1>1, <2>1, PlacedFacts
       DEF StateInv, RequestInv, WalkInv, TargetInv, SourceInv, ResultInv, OperationsAt, Running, Placed
  <2> QED
    BY <1>1, <1>4, <2>1, <2>2, GotoEarlier DEF u
<1> QED
  BY <1>2, <1>3, <1>4

\* The file to edit is read.
LEMMA ReadForEditKeeps ==
    ASSUME IInv, NEW c \in Calls, ReadForEdit(c)
    PROVE  IInv'
<1> DEFINE s == op[c]
           e == Lstat(fs, s.path)
           u == [s EXCEPT !.pc = "open", !.target = e]
<1>1. s \in State /\ StateInv(s) /\ fs \in Tree /\ s.pc = "read" /\ s.path \in Paths
  BY StateTypes, Fields DEF ReadForEdit
<1>2. s.path # <<>> => Front(s.path) \in Paths /\ Last(s.path) \in Names
  BY <1>1, PathParts
<1>3. e \in Entry \cup {Other} /\ (s.path = <<>> => e.kind # "file")
  BY <1>1, <1>2, LstatType DEF Lstat, DirEntry
<1> HIDE DEF e
<1>4. (\E res \in Outcomes : Refuse(c, res)) \/ (e.kind = "file" /\ Goto(c, u))
  BY DEF ReadForEdit, Outcomes, Statuses, e
<1>5. CASE \E res \in Outcomes : Refuse(c, res)
  BY <1>5, RefuseKeeps
<1>6. CASE e.kind = "file" /\ Goto(c, u)
  <2>1. e \in Entry /\ s.path # <<>>
    BY <1>3, <1>6 DEF Other
  <2>2. /\ u \in State /\ u.pc = "open" /\ u.target = e /\ u.tino = s.tino
        /\ u.path = s.path /\ u.req = s.req /\ u.res = s.res
    BY <1>1, <2>1, ZenonT(40) DEF State, Stages
  <2>3. Goto(c, u)
    BY <1>6
  <2> HIDE DEF u
  <2>4. StateInv(u)
    BY <1>1, <1>6, <2>1, <2>2
       DEF StateInv, RequestInv, WalkInv, TargetInv, SourceInv, ResultInv, OperationsAt, Running, Placed
  <2> QED
    BY <1>1, <2>2, <2>3, <2>4, GotoEarlier
<1> QED
  BY <1>4, <1>5, <1>6

\* And opened for writing.
LEMMA OpenForWriteKeeps ==
    ASSUME IInv, NEW c \in Calls, OpenForWrite(c)
    PROVE  IInv'
<1> DEFINE s == op[c]
           u == [s EXCEPT !.pc = "stage"]
<1>1. s \in State /\ StateInv(s) /\ s.pc = "open"
  BY StateTypes DEF OpenForWrite
<1>2. (\E res \in Outcomes : Refuse(c, res)) \/ Goto(c, u)
  BY DEF OpenForWrite, Outcomes, Statuses
<1>3. CASE \E res \in Outcomes : Refuse(c, res)
  BY <1>3, RefuseKeeps
<1>4. CASE Goto(c, u)
  <2>1. /\ u \in State /\ u.pc = "stage" /\ u.target = s.target /\ u.tino = s.tino
        /\ u.path = s.path /\ u.req = s.req /\ u.res = s.res
    BY <1>1, ZenonT(40) DEF State, Stages
  <2> HIDE DEF u
  <2>2. StateInv(u)
    BY <1>1, <2>1
       DEF StateInv, RequestInv, WalkInv, TargetInv, SourceInv, ResultInv, OperationsAt, Running, Placed
  <2> QED
    BY <1>1, <1>4, <2>1, <2>2, GotoEarlier DEF u
<1> QED
  BY <1>2, <1>3, <1>4

\* move_path looks at its destination.
LEMMA InspectMoveKeeps ==
    ASSUME IInv, NEW c \in Calls, InspectMove(c)
    PROVE  IInv'
<1> DEFINE s   == op[c]
           pid == DirectoryAt(fs, s.at)
           why == DestinationRefusal(c, Lstat(fs, s.path))
           u   == [s EXCEPT !.pc = "revalidate", !.pid = pid]
<1>1. /\ s \in State /\ StateInv(s) /\ fs \in Tree /\ s.pc = "inspect" /\ s.req.op = "move"
      /\ Placed(s)
  BY StateTypes DEF InspectMove, Placed
<1>2. pid # NoDir => pid \in Directory
  BY <1>1, PlacedLooked
<1>3. why \in Outcomes
  BY DEF DestinationRefusal, Outcomes, Statuses
<1> HIDE DEF pid, why
<1>4. (\E res \in Outcomes : Refuse(c, res)) \/ (pid # NoDir /\ Goto(c, u))
  BY <1>3 DEF InspectMove, Outcomes, Statuses, pid, why
<1>5. CASE \E res \in Outcomes : Refuse(c, res)
  BY <1>5, RefuseKeeps
<1>6. CASE pid # NoDir /\ Goto(c, u)
  <2>1. pid \in Directory
    BY <1>2, <1>6
  <2>2. /\ u \in State /\ u.pc = "revalidate" /\ u.pid = pid /\ u.target = s.target /\ u.tino = s.tino
        /\ u.path = s.path /\ u.at = s.at /\ u.leaf = s.leaf /\ u.req = s.req /\ u.res = s.res
        /\ u.from = s.from /\ u.src = s.src /\ u.fromPid = s.fromPid
    BY <1>1, <2>1, ZenonT(40) DEF State, Stages
  <2>3. Goto(c, u)
    BY <1>6
  <2> HIDE DEF u
  <2>4. StateInv(u)
    BY <1>1, <2>1, <2>2, PlacedFacts
       DEF StateInv, RequestInv, WalkInv, TargetInv, SourceInv, ResultInv, OperationsAt, Running, Placed
  <2> QED
    BY <1>1, <2>2, <2>3, <2>4, GotoEarlier
<1> QED
  BY <1>4, <1>5, <1>6

\* copy_file looks at its destination.
LEMMA InspectCopyKeeps ==
    ASSUME IInv, NEW c \in Calls, InspectCopy(c)
    PROVE  IInv'
<1> DEFINE s   == op[c]
           pid == DirectoryAt(fs, s.at)
           e   == Lstat(fs, s.path)
           u   == [s EXCEPT !.pc = "verify", !.pid = pid]
<1>1. /\ s \in State /\ StateInv(s) /\ fs \in Tree /\ s.pc = "inspect" /\ s.req.op = "copy"
      /\ Placed(s)
  BY StateTypes DEF InspectCopy, Placed
<1>2. pid # NoDir => pid \in Directory
  BY <1>1, PlacedLooked
<1> HIDE DEF pid, e
<1>4. (\E res \in Outcomes : Refuse(c, res)) \/ (pid # NoDir /\ Goto(c, u))
  BY DEF InspectCopy, Outcomes, Statuses, pid, e
<1>5. CASE \E res \in Outcomes : Refuse(c, res)
  BY <1>5, RefuseKeeps
<1>6. CASE pid # NoDir /\ Goto(c, u)
  <2>1. pid \in Directory
    BY <1>2, <1>6
  <2>2. /\ u \in State /\ u.pc = "verify" /\ u.pid = pid /\ u.target = s.target /\ u.tino = s.tino
        /\ u.path = s.path /\ u.at = s.at /\ u.leaf = s.leaf /\ u.req = s.req /\ u.res = s.res
        /\ u.from = s.from /\ u.src = s.src /\ u.fromPid = s.fromPid
    BY <1>1, <2>1, ZenonT(40) DEF State, Stages
  <2>3. Goto(c, u)
    BY <1>6
  <2> HIDE DEF u
  <2>4. StateInv(u)
    BY <1>1, <2>1, <2>2, PlacedFacts
       DEF StateInv, RequestInv, WalkInv, TargetInv, SourceInv, ResultInv, OperationsAt, Running, Placed
  <2> QED
    BY <1>1, <2>2, <2>3, <2>4, GotoEarlier
<1> QED
  BY <1>4, <1>5, <1>6

\* The checks right before the rename of a staged file leave what AnchorInv and
\* CheckInv say.
LEMMA RecheckKeeps ==
    ASSUME IInv, NEW c \in Calls, NEW kind, NEW unchanged, Recheck(c, kind, unchanged),
           kind \in {"write", "copy", "edit"},
           unchanged => IF kind = "edit" THEN SameIdentity(Lstat(fs, op[c].path), op[c].target)
                                         ELSE ParentStays(c)
    PROVE  IInv'
<1> DEFINE s == op[c]
           u == [s EXCEPT !.pc = "rename"]
<1>1. /\ s \in State /\ StateInv(s) /\ fs \in Tree /\ s.pc = "recheck" /\ s.req.op = kind
      /\ kind # "edit" => Placed(s)
  BY StateTypes DEF Recheck, Placed
<1>2. s.tino # 0
  BY <1>1 DEF StateInv, ResultInv
<1>3. \/ \E res \in Outcomes : Refuse(c, res)
      \/ unchanged /\ IsTemp(c, Lstat(fs, Temp(c))) /\ Goto(c, u)
  BY DEF Recheck, Outcomes, Statuses
<1>4. CASE \E res \in Outcomes : Refuse(c, res)
  BY <1>4, RefuseKeeps
<1>5. CASE unchanged /\ IsTemp(c, Lstat(fs, Temp(c))) /\ Goto(c, u)
  <2>1. /\ u \in State /\ u.pc = "rename" /\ u.pid = s.pid /\ u.target = s.target /\ u.tino = s.tino
        /\ u.path = s.path /\ u.at = s.at /\ u.leaf = s.leaf /\ u.req = s.req /\ u.res = s.res
        /\ u.from = s.from /\ u.src = s.src /\ u.fromPid = s.fromPid
    BY <1>1, ZenonT(40) DEF State, Stages
  <2>2. Goto(c, u)
    BY <1>5
  <2> HIDE DEF u
  <2>3. StateInv(u)
    BY <1>1, <2>1, PlacedFacts
       DEF StateInv, RequestInv, WalkInv, TargetInv, SourceInv, ResultInv, OperationsAt, Running, Placed
  <2>4. AnchorInv(fs, u, c)
    <3>1. SUFFICES ASSUME kind \in {"write", "copy"}
                   PROVE  fs[s.pid.ino][c].kind = "file" /\ fs[s.pid.ino][c].ino = s.tino
      BY <1>1, <2>1 DEF AnchorInv
    <3>a. Front(Temp(c)) = Front(s.path) /\ Last(Temp(c)) = c /\ Temp(c) # <<>>
      BY <1>2, TempPath
    <3>b. Front(s.path) = s.at /\ s.at \in Paths /\ s.pid \in Directory
      BY <1>1, <3>1, PlacedFacts
    <3>2. /\ Front(Temp(c)) = s.at /\ Last(Temp(c)) = c /\ Temp(c) # <<>> /\ s.at \in Paths
          /\ s.pid \in Directory
      BY <3>a, <3>b
    <3>3. DirectoryAt(fs, s.at) = s.pid
      BY <1>5, <3>1 DEF ParentStays, SameDirectory
    <3>4. Holder(fs, Temp(c)) = s.pid
      BY <1>1, <3>2, <3>3, ParentReached
    <3>5. Lstat(fs, Temp(c)) = fs[s.pid.ino][c]
      BY <1>1, <1>5, <3>2, <3>4, LstatInHolder DEF IsTemp
    <3> QED
      BY <1>5, <3>5 DEF IsTemp
  <2>5. CheckInv(fs, u)
    BY <1>1, <1>5, <2>1 DEF CheckInv
  <2> QED
    BY <1>1, <2>1, <2>2, <2>3, <2>4, <2>5, GotoKeeps
<1> QED
  BY <1>3, <1>4, <1>5

\* Those of a move leave everything unmoved.
LEMMA RevalidateMoveKeeps ==
    ASSUME IInv, NEW c \in Calls, RevalidateMove(c)
    PROVE  IInv'
<1> DEFINE s   == op[c]
           e   == Lstat(fs, s.path)
           why == DestinationRefusal(c, e)
           u   == [s EXCEPT !.pc = "rename"]
           same == /\ ParentUnchanged(s.req.from, Front(s.from), s.fromPid)
                   /\ ParentUnchanged(s.req.to, s.at, s.pid)
                   /\ SourceUnchanged(c)
<1>1. s \in State /\ StateInv(s) /\ fs \in Tree /\ s.pc = "revalidate" /\ Placed(s)
  BY StateTypes DEF RevalidateMove, Placed
<1>2. e \in Entry \cup {Other}
  BY <1>1, PlacedLooked
<1>3. s.req.op = "move" /\ s.src.kind \in {"file", "dir", "link"} /\ s.tino = 0
  BY <1>1 DEF StateInv, RequestInv, SourceInv, ResultInv, OperationsAt, Running
<1>4. why \in Outcomes
  BY DEF DestinationRefusal, Outcomes, Statuses
<1> HIDE DEF e, why, same
<1>5. (\E res \in Outcomes : Refuse(c, res)) \/ (same /\ why = "none" /\ Goto(c, u))
  BY <1>4 DEF RevalidateMove, Outcomes, Statuses, e, why, same
<1>6. CASE \E res \in Outcomes : Refuse(c, res)
  BY <1>6, RefuseKeeps
<1>7. CASE same /\ why = "none" /\ Goto(c, u)
  <2>1. /\ u \in State /\ u.pc = "rename" /\ u.pid = s.pid /\ u.target = s.target /\ u.tino = s.tino
        /\ u.path = s.path /\ u.at = s.at /\ u.leaf = s.leaf /\ u.req = s.req /\ u.res = s.res
        /\ u.from = s.from /\ u.src = s.src /\ u.fromPid = s.fromPid
    BY <1>1, ZenonT(40) DEF State, Stages
  <2>2. Goto(c, u)
    BY <1>7
  <2> HIDE DEF u
  <2>3. StateInv(u)
    BY <1>1, <1>3, <2>1, PlacedFacts
       DEF StateInv, RequestInv, WalkInv, TargetInv, SourceInv, ResultInv, OperationsAt, Running, Placed
  <2>4. /\ DirectoryAt(fs, Front(s.from)) = s.fromPid /\ DirectoryAt(fs, s.at) = s.pid
        /\ SameIdentity(Lstat(fs, s.from), s.src)
    BY <1>7 DEF same, ParentUnchanged, SourceUnchanged, SameDirectory
  <2>5. e.kind \in {"absent", "file", "dir", "link", "error"}
    BY <1>2, EntryKinds DEF Other
  <2>6. e.kind # "error" /\ ~SameIdentity(e, s.src)
    <3>1. CASE e.kind = "absent"
      BY <1>3, <3>1, SameKinds
    <3>2. CASE e.kind # "absent"
      BY <1>7, <3>2 DEF why, DestinationRefusal
    <3> QED
      BY <3>1, <3>2
  <2>7. CheckInv(fs, u) /\ AnchorInv(fs, u, c)
    BY <1>3, <2>1, <2>4, <2>6 DEF CheckInv, AnchorInv, Unmoved, e
  <2> QED
    BY <1>1, <2>1, <2>2, <2>3, <2>7, GotoKeeps
<1> QED
  BY <1>5, <1>6, <1>7

\* ------------------------------------------------------ steps that write
\* What a call stages is the content of a file.
LEMMA StagedType ==
    ASSUME IInv, NEW c \in Calls, op[c].pc = "stage"
    PROVE  StagedData(c) \in Contents
<1> DEFINE s   == op[c]
           now == {e \in Entries(fs) : e.kind = "file" /\ e.ino = s.src.ino}
<1>1. s \in State /\ StateInv(s) /\ fs \in Tree
  BY StateTypes
<1>2. s.req \in Request /\ s.req.op \in {"write", "copy", "edit"}
  BY <1>1 DEF StateInv, RequestInv, OperationsAt, Running
<1>3. CASE s.req.op # "copy"
  BY <1>2, <1>3, RequestKinds DEF StagedData
<1>4. CASE s.req.op = "copy"
  <2>1. s.src.kind = "file" /\ s.src \in Entry
    <3>1. s.src.kind = "file"
      BY <1>1, <1>4 DEF StateInv, SourceInv, Running
    <3>2. s.src \in Entry \cup {None} /\ None.kind # "file"
      BY <1>1, Fields DEF None
    <3> QED
      BY <3>1, <3>2
  <2>2. \A e \in Entry : e.kind = "file" => e.data \in Contents
    BY EntryKinds
  <2>3. \A e \in now : e \in Entry /\ e.kind = "file"
    BY <1>1, TreeEntry DEF Entries
  <2>4. now # {} => (CHOOSE e \in now : TRUE) \in now
    OBVIOUS
  <2> HIDE DEF now
  <2>5. StagedData(c) = IF now = {} THEN s.src.data ELSE (CHOOSE e \in now : TRUE).data
    BY <1>4 DEF StagedData, SourceData, now
  <2> QED
    BY <2>1, <2>2, <2>3, <2>4, <2>5
<1> QED
  BY <1>3, <1>4

\* StagedTempFile::new: a file with an identity and a name of its own.
LEMMA StageTempKeeps ==
    ASSUME IInv, NEW c \in Calls, StageTemp(c)
    PROVE  IInv'
<1> DEFINE s   == op[c]
           dir == Holder(fs, Temp(c))
           e   == FileEntry(NewIno, StagedData(c))
           u   == [s EXCEPT !.pc = "recheck", !.tino = NewIno]
<1>1. s \in State /\ StateInv(s) /\ TempInv(fs, s, c) /\ fs \in Tree /\ s.pc = "stage"
      /\ op \in [Calls -> State] /\ (s.req.op # "edit" => Placed(s))
  BY StateTypes DEF StageTemp, IInv, TypeOK, Placed
<1>2. s.tino = 0
  BY <1>1 DEF StateInv, ResultInv
<1>3. dir.kind = "dir" => dir.ino \in Dirs
  BY <1>1, TempPath, HolderType
<1>4. StagedData(c) \in Contents
  BY <1>1, StagedType
<1> HIDE DEF dir
<1>5. \/ \E res \in Outcomes : Refuse(c, res)
      \/ /\ dir.kind = "dir" /\ FileSpace /\ fs' = Put(fs, dir.ino, c, e)
         /\ op' = [op EXCEPT ![c].pc = "recheck", ![c].tino = NewIno]
         /\ By(c)
  BY DEF StageTemp, Outcomes, Statuses, dir
<1>6. CASE \E res \in Outcomes : Refuse(c, res)
  BY <1>6, RefuseKeeps
<1>7. CASE /\ dir.kind = "dir" /\ FileSpace /\ fs' = Put(fs, dir.ino, c, e)
           /\ op' = [op EXCEPT ![c].pc = "recheck", ![c].tino = NewIno]
           /\ By(c)
  <2>1. NewIno \in Inos /\ NewIno \notin UsedInos /\ NewIno # 0
    BY <1>7, NewFile
  <2>2. /\ u \in State /\ u.pc = "recheck" /\ u.pid = s.pid /\ u.target = s.target /\ u.tino = NewIno
        /\ u.path = s.path /\ u.at = s.at /\ u.leaf = s.leaf /\ u.req = s.req /\ u.res = s.res
        /\ u.from = s.from /\ u.src = s.src /\ u.fromPid = s.fromPid
    BY <1>1, <2>1, ZenonT(40) DEF State, Stages
  <2>3. op' = [op EXCEPT ![c] = u]
    BY <1>1, <1>7
  <2> HIDE DEF u
  <2>4. StateInv(u)
    BY <1>1, <2>1, <2>2, PlacedFacts
       DEF StateInv, RequestInv, WalkInv, TargetInv, SourceInv, ResultInv, OperationsAt, Running, Placed
  <2>5. e \in Entry /\ e.kind = "file" /\ e.ino = NewIno /\ e # Absent
    BY <1>4, <2>1, EntriesMade DEF FileEntry, Absent
  <2> HIDE DEF e
  <2>6. \A k \in Dirs, m \in Names \cup Calls :
          fs'[k][m] = IF k = dir.ino /\ m = c THEN e ELSE fs[k][m]
    BY <1>1, <1>3, <1>7, <2>5, PutTree
  <2>7. Effect(fs', {c})
    BY <1>1, <1>3, <1>7, <2>1, <2>5, NamesApart, EffectOfNothing, EffectOfPut
  <2>8. \A d \in Dirs : fs[d][c] = Absent
    BY <1>1, <1>2 DEF TempInv
  <2>9. TempInv(fs', u, c)
    <3>1. \A d, k \in Dirs : fs'[d][c] # Absent /\ fs'[k][c] # Absent => d = k
      BY <2>6, <2>8
    <3>2. ASSUME NEW d \in Dirs, NEW n \in Names \cup Calls,
                 fs'[d][n].kind = "file", fs'[d][n].ino = NewIno
          PROVE  n = c
      <4>1. CASE d = dir.ino /\ n = c
        BY <4>1
      <4>2. CASE ~(d = dir.ino /\ n = c)
        <5>1. fs[d][n].kind = "file" /\ fs[d][n].ino = NewIno
          BY <2>6, <3>2, <4>2
        <5> QED
          BY <1>1, <2>1, <5>1, FilesUsed
      <4> QED
        BY <4>1, <4>2
    <3> QED
      BY <2>1, <2>2, <3>1, <3>2 DEF TempInv
  <2>10. AnchorInv(fs', u, c) /\ CheckInv(fs', u)
    BY <2>2 DEF AnchorInv, CheckInv
  <2>11. HomeInv(fs', u, c)
    <3>1. fs' \in Tree /\ Structure(fs') = Structure(fs)
      <4>1. fs' \in Tree
        BY <2>7 DEF Effect
      <4>2. \A d \in Dirs, n \in Names : fs'[d][n] = fs[d][n]
        BY <2>6, NamesApart
      <4> QED
        BY <4>1, <4>2 DEF Structure
    <3>2. Front(Temp(c)) \in Paths /\ Temp(c) = Append(Front(u.path), c)
      BY <1>1, <2>2, TempPath DEF Temp
    <3>3. dir = DirEntry(dir.ino)
      BY <1>1, <1>7, <3>2, HolderType DEF Directory, DirEntry, dir
    <3>4. Holder(fs', Temp(c)) = dir
      BY <1>1, <1>7, <3>1, <3>2, HolderStays DEF dir
    <3> QED
      BY <2>2, <2>5, <2>6, <2>8, <3>2, <3>3, <3>4 DEF HomeInv
  <2> QED
    BY <1>7, <2>2, <2>3, <2>4, <2>7, <2>9, <2>10, <2>11, StepKeeps
<1> QED
  BY <1>5, <1>6, <1>7

\* mkdir creates its directory.
LEMMA MakeDirectoryKeeps ==
    ASSUME IInv, NEW c \in Calls, MakeDirectory(c)
    PROVE  IInv'
<1> DEFINE s   == op[c]
           dir == Holder(fs, s.path)
           u   == [s EXCEPT !.pc = "mkcheck", !.made = @ \cup {NewDir}]
<1>1. /\ s \in State /\ StateInv(s) /\ fs \in Tree /\ s.pc = "mkdir" /\ op \in [Calls -> State]
      /\ Placed(s)
  BY StateTypes DEF MakeDirectory, IInv, TypeOK, Placed
<1>2. s.tino = 0 /\ s.leaf \in Names /\ Front(s.path) \in Paths
  BY <1>1, PlacedFacts DEF StateInv, ResultInv
<1>3. dir.kind = "dir" => dir.ino \in Dirs
  BY <1>1, <1>2, HolderType
<1>4. ExistingTarget(c, Lstat(fs, s.path)) \in Outcomes
  BY <1>1, ExistingRefusals DEF ExistingTarget, Outcomes, Statuses
<1> HIDE DEF dir
<1>5. \/ \E res \in Outcomes : Refuse(c, res)
      \/ /\ dir.kind = "dir" /\ DirSpace
         /\ fs' = Put(fs, dir.ino, s.leaf, DirEntry(NewDir))
         /\ op' = [op EXCEPT ![c].pc = "mkcheck", ![c].made = @ \cup {NewDir}]
         /\ By(c)
  BY <1>4 DEF MakeDirectory, Outcomes, Statuses, dir
<1>6. CASE \E res \in Outcomes : Refuse(c, res)
  BY <1>6, RefuseKeeps
<1>7. CASE /\ dir.kind = "dir" /\ DirSpace
           /\ fs' = Put(fs, dir.ino, s.leaf, DirEntry(NewDir))
           /\ op' = [op EXCEPT ![c].pc = "mkcheck", ![c].made = @ \cup {NewDir}]
           /\ By(c)
  <2>1. NewDir \in Dirs
    BY <1>7, NewDirectory
  <2>2. /\ u \in State /\ u.pc = "mkcheck" /\ u.pid = s.pid /\ u.target = s.target /\ u.tino = s.tino
        /\ u.path = s.path /\ u.at = s.at /\ u.leaf = s.leaf /\ u.req = s.req /\ u.res = s.res
        /\ u.from = s.from /\ u.src = s.src /\ u.fromPid = s.fromPid
    BY <1>1, <2>1, ZenonT(40) DEF State, Stages
  <2>3. op' = [op EXCEPT ![c] = u]
    BY <1>1, <1>7
  <2> HIDE DEF u
  <2>4. StateInv(u)
    BY <1>1, <2>2, PlacedFacts
       DEF StateInv, RequestInv, WalkInv, TargetInv, SourceInv, ResultInv, OperationsAt, Running, Placed
  <2> QED
    BY <1>1, <1>2, <1>3, <1>7, <2>1, <2>2, <2>3, <2>4, MakingKeeps
<1> QED
  BY <1>5, <1>6, <1>7

\* And looks at it, or takes it back.
LEMMA CheckMadeKeeps ==
    ASSUME IInv, NEW c \in Calls, CheckMade(c)
    PROVE  IInv'
<1> DEFINE s == op[c]
           t == Put(fs, s.pid.ino, s.leaf, Absent)
<1>1. s \in State /\ StateInv(s) /\ fs \in Tree /\ TempInv(fs, s, c) /\ Placed(s) /\ s.pc = "mkcheck"
  BY StateTypes DEF CheckMade, Placed
<1>2. s.leaf \in Names /\ s.pid.ino \in Dirs
  BY <1>1, PlacedFacts DEF Directory
<1>3. TargetRefusal(c) \in Outcomes
  BY <1>1, ExistingRefusals
<1>4. (\E res \in Outcomes : Refuse(c, res)) \/ Return(c, t, TargetRefusal(c))
  BY DEF CheckMade, CleanUpTarget, Outcomes, Statuses
<1>5. CASE \E res \in Outcomes : Refuse(c, res)
  BY <1>5, RefuseKeeps
<1>6. CASE Return(c, t, TargetRefusal(c))
  <2>1. Absent \in Entry /\ Absent.kind # "file" /\ {c} \in SUBSET Calls /\ c \notin Names
    BY EntriesMade, NamesApart DEF Absent
  <2>2. Effect(t, {c})
    BY <1>1, <1>2, <2>1, EffectOfNothing, EffectOfPut
  <2>3. \A d \in Dirs : t[d][c] = fs[d][c]
    BY <1>1, <1>2, <2>1, PutTree
  <2> HIDE DEF t
  <2>4. \A d \in Dirs : t[d][c] = Absent
    BY <1>1, <2>3 DEF TempInv, StateInv, ResultInv
  <2> QED
    BY <1>3, <1>6, <2>2, <2>4, ReturnKeeps DEF Removable
<1> QED
  BY <1>4, <1>5, <1>6

\* What CommitRename renames.
From(c) == IF op[c].req.op = "move" THEN op[c].from ELSE Temp(c)

\* A rename that succeeds is between two directories.
LEMMA RenamePlaces ==
    ASSUME IInv, NEW c \in Calls, op[c].pc = "rename", NEW replace,
           RenameOutcome(From(c), op[c].path, replace) = "ok"
    PROVE  /\ From(c) # <<>> /\ Front(From(c)) \in Paths
           /\ IF op[c].req.op = "move" THEN Last(From(c)) \in Names ELSE Last(From(c)) = c
           /\ Holder(fs, From(c)).kind = "dir" /\ Holder(fs, From(c)).ino \in Dirs
           /\ op[c].path # <<>> /\ Front(op[c].path) \in Paths /\ Last(op[c].path) \in Names
           /\ Holder(fs, op[c].path).kind = "dir" /\ Holder(fs, op[c].path).ino \in Dirs
<1> DEFINE s == op[c]
<1>1. s \in State /\ StateInv(s) /\ fs \in Tree
  BY StateTypes
<1>2. Holder(fs, From(c)).kind = "dir" /\ Holder(fs, s.path).kind = "dir"
  BY Zenon DEF RenameOutcome
<1>3. s.path # <<>> /\ s.path \in Paths
  <2>1. CASE s.req.op = "edit"
    BY <1>1, <2>1, Fields DEF StateInv, TargetInv
  <2>2. CASE s.req.op # "edit"
    BY <1>1, <2>2, PlacedFacts DEF Placed
  <2> QED
    BY <2>1, <2>2
<1>4. Front(s.path) \in Paths /\ Last(s.path) \in Names
  BY <1>3, PathParts
<1>5. /\ From(c) # <<>> /\ Front(From(c)) \in Paths
      /\ IF s.req.op = "move" THEN Last(From(c)) \in Names ELSE Last(From(c)) = c
  <2>1. CASE s.req.op = "move"
    <3>1. s.from # <<>> /\ s.from \in Paths
      BY <1>1, <2>1, Fields DEF StateInv, SourceInv, Running
    <3>2. Front(s.from) \in Paths /\ Last(s.from) \in Names
      BY <3>1, PathParts
    <3> QED
      BY <2>1, <3>1, <3>2 DEF From
  <2>2. CASE s.req.op # "move"
    <3>1. s.tino # 0
      BY <1>1, <2>2 DEF StateInv, ResultInv
    <3>2. Temp(c) # <<>> /\ Front(Temp(c)) \in Paths /\ Last(Temp(c)) = c
      BY <3>1, TempPath
    <3> QED
      BY <2>2, <3>2 DEF From
  <2> QED
    BY <2>1, <2>2
<1> QED
  BY <1>1, <1>2, <1>3, <1>4, <1>5, HolderType

\* What such a rename changes.
LEMMA Renamed ==
    ASSUME IInv, NEW c \in Calls, op[c].pc = "rename", NEW replace,
           RenameOutcome(From(c), op[c].path, replace) = "ok"
    PROVE  LET t == AfterRename(From(c), op[c].path)
               a == Holder(fs, From(c)).ino
               b == Holder(fs, op[c].path).ino
           IN  /\ Effect(t, {c})
               /\ \A d \in Dirs, n \in Names \cup Calls :
                    t[d][n] = IF d = b /\ n = Last(op[c].path) THEN fs[a][Last(From(c))]
                              ELSE IF d = a /\ n = Last(From(c)) THEN Absent ELSE fs[d][n]
<1> DEFINE a == Holder(fs, From(c)).ino
           b == Holder(fs, op[c].path).ino
           f == Last(From(c))
           g == Last(op[c].path)
           e == fs[a][f]
           u == Put(fs, a, f, Absent)
           t == Put(u, b, g, e)
<1>1. a \in Dirs /\ b \in Dirs /\ f \in Names \cup {c} /\ g \in Names
  BY RenamePlaces
<1>2. fs \in Tree /\ {c} \in SUBSET Calls /\ Absent \in Entry /\ Absent.kind # "file"
  BY StateTypes, EntriesMade DEF Absent
<1> HIDE DEF a, b, f, g
<1>3. f \in Names \cup Calls /\ e \in Entry
  BY <1>1, <1>2, TreeEntry
<1>4. Effect(u, {c})
  BY <1>1, <1>2, EffectOfNothing, EffectOfPut
<1>5. /\ u \in Tree
      /\ \A d \in Dirs, n \in Names \cup Calls : u[d][n] = IF d = a /\ n = f THEN Absent ELSE fs[d][n]
  <2> HIDE DEF e
  <2>1. /\ Put(fs, a, f, Absent) \in Tree
        /\ \A d \in Dirs, n \in Names \cup Calls :
             Put(fs, a, f, Absent)[d][n] = IF d = a /\ n = f THEN Absent ELSE fs[d][n]
    <3>1. fs \in Tree /\ a \in Dirs /\ f \in Names \cup Calls /\ Absent \in Entry
      BY <1>1, <1>2, <1>3
    <3> HIDE DEF t, u
    <3> QED
      BY <3>1, PutTree
  <2> QED
    BY <2>1
<1>6. e.kind = "file" => \E k \in Dirs, m \in Names \cup {c} :
                           fs[k][m].kind = "file" /\ fs[k][m].ino = e.ino
  BY <1>1
<1> HIDE DEF u, e
<1>7. Effect(t, {c})
  BY <1>1, <1>2, <1>3, <1>4, <1>6, EffectOfPut
<1>8. \A d \in Dirs, n \in Names \cup Calls : t[d][n] = IF d = b /\ n = g THEN e ELSE u[d][n]
  BY <1>1, <1>3, <1>5, PutTree
<1>9. t = AfterRename(From(c), op[c].path)
  BY DEF AfterRename, a, b, f, g, u, e
<1> HIDE DEF t
<1> QED
  BY <1>5, <1>7, <1>8, <1>9 DEF a, b, f, g, e

\* How a commit ends.
LEMMA Committed ==
    ASSUME NEW c \in Calls, CommitRename(c)
    PROVE  \/ \E res \in Outcomes : Refuse(c, res)
           \/ /\ RenameOutcome(From(c), op[c].path, ReplaceExisting(c)) = "ok"
              /\ \E res \in {"ok", "unsynced"} : Return(c, AfterRename(From(c), op[c].path), res)
<1>1. RenameOutcome(From(c), op[c].path, ReplaceExisting(c)) \in Outcomes
  BY DEF RenameOutcome, Outcomes, Statuses
<1> QED
  BY <1>1 DEF CommitRename, From

\* commit_replace and rename_replace.
LEMMA CommitRenameKeeps ==
    ASSUME IInv, NEW c \in Calls, CommitRename(c)
    PROVE  IInv'
<1> DEFINE t == AfterRename(From(c), op[c].path)
<1>1. op[c].pc = "rename"
  BY DEF CommitRename
<1>2. CASE \E res \in Outcomes : Refuse(c, res)
  BY <1>2, RefuseKeeps
<1>3. CASE /\ RenameOutcome(From(c), op[c].path, ReplaceExisting(c)) = "ok"
           /\ \E res \in {"ok", "unsynced"} : Return(c, t, res)
  <2>0. Last(op[c].path) \in Names
    BY <1>1, <1>3, RenamePlaces
  <2>1. /\ Effect(t, {c})
        /\ \A d \in Dirs, n \in Names \cup Calls :
             t[d][n] = IF d = Holder(fs, op[c].path).ino /\ n = Last(op[c].path)
                       THEN fs[Holder(fs, From(c)).ino][Last(From(c))]
                       ELSE IF d = Holder(fs, From(c)).ino /\ n = Last(From(c)) THEN Absent
                       ELSE fs[d][n]
    BY <1>1, <1>3, Renamed
  <2> HIDE DEF t
  <2>2. TempInv(fs, op[c], c) /\ StateInv(op[c])
    BY StateTypes
  <2>3. \A d \in Dirs : t[d][c] = Absent
    <3>1. CASE op[c].req.op = "move"
      BY <1>1, <2>0, <2>1, <2>2, <3>1, NamesApart DEF StateInv, ResultInv, TempInv
    <3>2. CASE op[c].req.op # "move"
      <4>1. Holder(fs, From(c)).ino \in Dirs /\ Last(From(c)) = c
        BY <1>1, <1>3, <3>2, RenamePlaces
      <4>2. fs[Holder(fs, From(c)).ino][c] # Absent
        <5>1. fs[Holder(fs, From(c)).ino][Last(From(c))].kind # "absent"
          BY <1>3 DEF RenameOutcome
        <5> QED
          BY <4>1, <5>1 DEF Absent
      <4> QED
        BY <2>0, <2>1, <2>2, <4>1, <4>2, NamesApart DEF TempInv
    <3> QED
      BY <3>1, <3>2
  <2>4. "ok" \in Outcomes /\ "unsynced" \in Outcomes
    BY DEF Outcomes, Statuses
  <2> QED
    BY <1>3, <2>1, <2>3, <2>4, ReturnKeeps DEF Removable
<1> QED
  BY <1>2, <1>3, Committed

\* ------------------------------------------------------- other programs
\* What other programs do to the tree.
LEMMA ForeignEffect ==
    ASSUME IInv, Foreign
    PROVE  Effect(fs', {})
<1>1. fs \in Tree /\ {} \in SUBSET Calls
  BY DEF IInv, TypeOK
<1>2. ForeignNames \subseteq Names /\ \A s \in ForeignSlots : s[1] \in Dirs /\ s[2] \in Names
  BY OpsAssumption
<1>3. ASSUME NEW n \in ForeignNames, NEW m \in ForeignNames, Exchange(n, m)
      PROVE  Effect(fs', {})
  <2>1. n \in Names /\ m \in Names /\ Root \in Dirs /\ Calls \cap Names = {}
    BY <1>2, TreeAssumption, OpsAssumption, ShapeAssumption
  <2>2. fs[Root][n] \in Entry /\ fs[Root][m] \in Entry
    BY <1>1, <2>1, TreeEntry
  <2>3. fs' = Put(Put(fs, Root, n, fs[Root][m]), Root, m, fs[Root][n])
    BY <1>1, <1>3, <2>1 DEF Exchange, Put, Tree
  <2>4. Effect(Put(fs, Root, n, fs[Root][m]), {})
    BY <1>1, <2>1, <2>2, EffectOfNothing, EffectOfPut
  <2> QED
    BY <1>1, <2>1, <2>2, <2>3, <2>4, EffectOfPut
<1>4. ASSUME NEW d \in Dirs, NEW n \in Names, PutFile(d, n)
      PROVE  Effect(fs', {})
  <2>1. NewIno \in Inos /\ NewIno \notin UsedInos
    BY <1>4, NewFile DEF PutFile
  <2>2. FileEntry(NewIno, "foreign") \in Entry /\ FileEntry(NewIno, "foreign").ino = NewIno
    BY <2>1, EntriesMade, OpsAssumption DEF FileEntry
  <2> QED
    BY <1>1, <1>4, <2>1, <2>2, EffectOfNothing, EffectOfPut DEF PutFile
<1>5. ASSUME NEW d \in Dirs, NEW n \in Names, ChangeFile(d, n)
      PROVE  Effect(fs', {})
  <2>1. fs[d][n].kind = "file" /\ fs[d][n].ino \in Inos
    BY <1>1, <1>5, TreeEntry, EntryKinds DEF ChangeFile
  <2> DEFINE e == FileEntry(fs[d][n].ino, "foreign")
  <2>2. e \in Entry /\ e.ino = fs[d][n].ino
    BY <2>1, EntriesMade, OpsAssumption DEF FileEntry
  <2>3. fs' = Put(fs, d, n, e)
    BY <1>5 DEF ChangeFile
  <2> HIDE DEF e
  <2> QED
    BY <1>1, <2>1, <2>2, <2>3, EffectOfNothing, EffectOfPut
<1>6. ASSUME NEW d \in Dirs, NEW n \in Names, RemoveFile(d, n)
      PROVE  Effect(fs', {})
  <2>1. Absent \in Entry /\ Absent.kind # "file"
    BY EntriesMade DEF Absent
  <2> QED
    BY <1>1, <1>6, <2>1, EffectOfNothing, EffectOfPut DEF RemoveFile
<1> QED
  BY <1>2, <1>3, <1>4, <1>5, <1>6 DEF Foreign

\* They keep the invariant.
LEMMA ForeignKeeps ==
    ASSUME IInv, Foreign
    PROVE  IInv'
<1>1. Effect(fs', {}) /\ Overtakes({}) /\ op' = op /\ foreign' = foreign + 1
  BY ForeignEffect DEF Foreign
<1>2. TypeOK'
  <2>1. raced' \subseteq Calls /\ disturbed' \subseteq Calls
    BY <1>1 DEF Overtakes, IInv, TypeOK
  <2> QED
    BY <1>1, <2>1 DEF IInv, TypeOK, Effect
<1>3. ASSUME NEW k \in Calls PROVE CallInv(fs, op[k], k, k \in raced, k \in disturbed)'
  <2>1. {} \in SUBSET Calls /\ k \in Calls \ {} /\ op'[k] = op[k]
    BY <1>1
  <2> QED
    BY <1>1, <2>1, OthersKept
<1> QED
  BY <1>2, <1>3 DEF IInv

\* ------------------------------------------------------- the invariant
\* The invariant holds at the start.
LEMMA InitInv ==
    ASSUME Init
    PROVE  IInv
<1>1. fs \in Tree /\ \A d \in Dirs, c \in Calls : fs[d][c] = Absent
  BY OpsAssumption DEF Init, Tree
<1>2. Idle \in State /\ Idle.tino = 0 /\ Idle.res = "none" /\ Idle.pc = "idle"
  BY IdleState
<1>3. TypeOK
  BY <1>1, <1>2 DEF Init, TypeOK
<1> DEFINE s == Idle
<1> HIDE DEF s
<1>4. StateInv(s)
  BY <1>2 DEF s, StateInv, RequestInv, WalkInv, TargetInv, SourceInv, ResultInv, Running, Placed
<1>5. ASSUME NEW c \in Calls PROVE CallInv(fs, s, c, c \in raced, c \in disturbed)
  BY <1>1, <1>2, <1>4 DEF CallInv, TempInv, AnchorInv, CheckInv, HomeInv, s
<1> QED
  BY <1>3, <1>5 DEF IInv, Init, s

\* Every step of a call keeps the invariant.
LEMMA CallStepKeeps ==
    ASSUME IInv, NEW c \in Calls, Step(c)
    PROVE  IInv'
<1>1. ASSUME NEW r \in RequestsOf[c],
             BeginWrite(c, r) \/ BeginMkdir(c, r) \/ BeginEdit(c, r) \/ BeginTransfer(c, r)
      PROVE  IInv'
  <2>1. r \in Request
    BY OpsAssumption
  <2> QED
    BY <1>1, <2>1, BeginKeeps, BeginEditKeeps, BeginTransferKeeps DEF BeginWrite, BeginMkdir
<1>2. RecheckWrite(c) \/ RecheckCopy(c) \/ RecheckEdit(c) => IInv'
  BY RecheckKeeps DEF RecheckWrite, RecheckCopy, RecheckEdit
<1> QED
  BY <1>1, <1>2, WalkComponentKeeps, CreateComponentKeeps, CheckCreatedKeeps, InspectWriteKeeps,
     VerifyParentKeeps, StageTempKeeps, CommitRenameKeeps, InspectMkdirKeeps, MakeDirectoryKeeps,
     CheckMadeKeeps, ReadForEditKeeps, OpenForWriteKeeps, TakeSourceKeeps, InspectMoveKeeps,
     RevalidateMoveKeeps, InspectCopyKeeps
     DEF Step

\* And every step keeps it.
LEMMA NextInv ==
    ASSUME IInv, [Next]_vars
    PROVE  IInv'
<1>1. CASE UNCHANGED vars
  BY <1>1 DEF vars, IInv, TypeOK, CallInv, TempInv, AnchorInv, CheckInv, HomeInv, Unmoved
<1>2. CASE Next
  BY <1>2, CallStepKeeps, ForeignKeeps DEF Next
<1> QED
  BY <1>1, <1>2

\* The invariant holds in every state of every behaviour.
LEMMA Invariant == Spec => []IInv
<1>1. Init => IInv
  BY InitInv
<1>2. IInv /\ [Next]_vars => IInv'
  BY NextInv
<1> QED
  BY <1>1, <1>2, PTL DEF Spec

\* ------------------------------------------------------- what a step changes
\* Only the call that takes a step goes on.
LEMMA OneSteps ==
    ASSUME op \in [Calls -> State], NEW c \in Calls, Step(c), NEW k \in Calls \ {c}
    PROVE  op'[k] = op[k]
<1> HIDE DEF State
<1>1. ASSUME NEW s, op' = [op EXCEPT ![c] = s] PROVE op'[k] = op[k]
  BY <1>1
<1>2. \A s : Goto(c, s) => op'[k] = op[k]
  BY <1>1 DEF Goto
<1>3. \A t, res : Return(c, t, res) => op'[k] = op[k]
  BY <1>1 DEF Return
<1>4. \A res : Refuse(c, res) => op'[k] = op[k]
  BY <1>3 DEF Refuse
<1> HIDE DEF Goto, Return, Refuse
<1>5. ASSUME NEW r, BeginWrite(c, r) \/ BeginMkdir(c, r) \/ BeginEdit(c, r) \/ BeginTransfer(c, r)
      PROVE  op'[k] = op[k]
  BY <1>2, <1>5 DEF BeginWrite, BeginMkdir, Begin, BeginEdit, BeginTransfer
<1>6. CASE WalkComponent(c) \/ CheckCreated(c) \/ TakeSource(c)
  BY <1>2, <1>4, <1>6, Zenon DEF WalkComponent, CheckCreated, TakeSource
<1>7. CASE CreateComponent(c)
  BY <1>2, <1>4, <1>7, Zenon DEF CreateComponent
<1>8. CASE InspectWrite(c) \/ VerifyParent(c) \/ InspectMkdir(c) \/ InspectMove(c) \/ InspectCopy(c)
  BY <1>2, <1>4, <1>8 DEF InspectWrite, VerifyParent, InspectMkdir, InspectMove, InspectCopy
<1>9. CASE StageTemp(c)
  BY <1>4, <1>9 DEF StageTemp
<1>10. CASE RecheckWrite(c) \/ RecheckCopy(c) \/ RecheckEdit(c) \/ RevalidateMove(c)
  BY <1>2, <1>4, <1>10 DEF RecheckWrite, RecheckCopy, RecheckEdit, Recheck, RevalidateMove
<1>11. CASE CommitRename(c)
  BY <1>3, <1>4, <1>11 DEF CommitRename
<1>12. CASE MakeDirectory(c)
  BY <1>4, <1>12 DEF MakeDirectory
<1>13. CASE CheckMade(c)
  BY <1>3, <1>4, <1>13 DEF CheckMade, CleanUpTarget
<1>14. CASE ReadForEdit(c) \/ OpenForWrite(c)
  BY <1>2, <1>4, <1>14 DEF ReadForEdit, OpenForWrite
<1> QED
  BY <1>5, <1>6, <1>7, <1>8, <1>9, <1>10, <1>11, <1>12, <1>13, <1>14 DEF Step

\* A call that goes on has taken the step itself.
LEMMA OwnStep ==
    ASSUME IInv, [Next]_vars, NEW c \in Calls, op'[c] # op[c]
    PROVE  Step(c)
<1>1. op \in [Calls -> State]
  BY DEF IInv, TypeOK
<1>2. Next /\ ~Foreign
  BY DEF vars, Foreign
<1>3. PICK k \in Calls : Step(k)
  BY <1>2 DEF Next
<1>4. k = c
  BY <1>1, <1>3, OneSteps
<1> QED
  BY <1>3, <1>4

\* What a returning call does to the entries that are not temporary.
LEMMA ReturnChanges ==
    ASSUME IInv, NEW c \in Calls, NEW t \in Tree, NEW res, Return(c, t, res)
    PROVE  \A d \in Dirs, n \in Names : fs'[d][n] = t[d][n]
<1>1. fs' = t \/ \E d \in Dirs : fs' = Put(t, d, c, Absent)
  BY WithoutTempTree DEF Return
<1>2. ASSUME NEW k \in Dirs, fs' = Put(t, k, c, Absent), NEW d \in Dirs, NEW n \in Names
      PROVE  fs'[d][n] = t[d][n]
  BY <1>2, EntriesMade, NamesApart, PutTree, SMTT(20)
<1> QED
  BY <1>1, <1>2

\* The renames that succeed.
LEMMA CommitStep ==
    ASSUME IInv, [Next]_vars, NEW c \in Calls, Commits(c)
    PROVE  /\ RenameOutcome(From(c), op[c].path, ReplaceExisting(c)) = "ok"
           /\ \E res \in {"ok", "unsynced"} : Return(c, AfterRename(From(c), op[c].path), res)
<1>1. /\ op \in [Calls -> State] /\ op[c] \in State /\ op[c].pc = "rename" /\ op[c].res = "none"
      /\ op'[c].res \in {"ok", "unsynced"}
  BY StateTypes DEF IInv, TypeOK, StateInv, ResultInv, Commits
<1>2. Step(c)
  BY <1>1, OwnStep
<1>3. CommitRename(c)
  BY <1>1, <1>2 DEF Step, BeginWrite, BeginMkdir, Begin, BeginEdit, BeginTransfer, WalkComponent,
       CreateComponent, CheckCreated, InspectWrite, VerifyParent, StageTemp, RecheckWrite,
       RecheckCopy, RecheckEdit, Recheck, InspectMkdir, MakeDirectory, CheckMade, ReadForEdit,
       OpenForWrite, TakeSource, InspectMove, RevalidateMove, InspectCopy
<1> DEFINE landed == RenameOutcome(From(c), op[c].path, ReplaceExisting(c))
<1>4. landed \in {"Io", "Exists", "ok"}
  BY DEF RenameOutcome
<1> HIDE DEF landed
<1>5. \/ landed # "ok" /\ Refuse(c, landed)
      \/ landed = "ok" /\ \E res \in {"ok", "unsynced"} :
           Return(c, AfterRename(From(c), op[c].path), res)
  BY <1>3 DEF CommitRename, From, landed
<1>6. ASSUME Refuse(c, landed) PROVE op'[c].res = landed
  <2>1. op' = [op EXCEPT ![c] = DoneWith(op[c].req, op[c].made, landed)]
    BY <1>6 DEF Refuse, Return, DoneWith
  <2>2. op'[c] = DoneWith(op[c].req, op[c].made, landed)
    BY <1>1, <2>1
  <2> QED
    BY <2>2 DEF DoneWith, Idle
<1> QED
  BY <1>1, <1>4, <1>5, <1>6 DEF landed

\* And what they change.
LEMMA CommitChanges ==
    ASSUME IInv, [Next]_vars, NEW c \in Calls, Commits(c)
    PROVE  LET a == Holder(fs, From(c)).ino
               b == Holder(fs, op[c].path).ino
           IN  /\ a \in Dirs /\ b \in Dirs /\ Last(op[c].path) \in Names
               /\ IF op[c].req.op = "move" THEN Last(From(c)) \in Names ELSE Last(From(c)) = c
               /\ fs[a][Last(From(c))].kind # "absent"
               /\ ~ReplaceExisting(c) => fs[b][Last(op[c].path)] = Absent
               /\ \A d \in Dirs, n \in Names :
                    fs'[d][n] = IF d = b /\ n = Last(op[c].path) THEN fs[a][Last(From(c))]
                                ELSE IF d = a /\ n = Last(From(c)) THEN Absent ELSE fs[d][n]
<1> DEFINE a == Holder(fs, From(c)).ino
           b == Holder(fs, op[c].path).ino
           t == AfterRename(From(c), op[c].path)
<1>1. op[c].pc = "rename" /\ fs \in Tree
  BY StateTypes DEF Commits
<1>2. /\ RenameOutcome(From(c), op[c].path, ReplaceExisting(c)) = "ok"
      /\ \E res \in {"ok", "unsynced"} : Return(c, t, res)
  BY CommitStep
<1>3. /\ a \in Dirs /\ b \in Dirs /\ Last(op[c].path) \in Names
      /\ IF op[c].req.op = "move" THEN Last(From(c)) \in Names ELSE Last(From(c)) = c
  BY <1>1, <1>2, RenamePlaces
<1>4. /\ fs[a][Last(From(c))].kind # "absent"
      /\ ~ReplaceExisting(c) => fs[b][Last(op[c].path)].kind = "absent"
  BY <1>2, Zenon DEF RenameOutcome
<1>5. fs[b][Last(op[c].path)] \in Entry
  BY <1>1, <1>3, TreeEntry
<1>6. /\ Effect(t, {c})
      /\ \A d \in Dirs, n \in Names \cup Calls :
           t[d][n] = IF d = b /\ n = Last(op[c].path) THEN fs[a][Last(From(c))]
                     ELSE IF d = a /\ n = Last(From(c)) THEN Absent ELSE fs[d][n]
  BY <1>1, <1>2, Renamed
<1>7. t \in Tree
  BY <1>6 DEF Effect
<1> HIDE DEF t
<1>8. \A d \in Dirs, n \in Names : fs'[d][n] = t[d][n]
  BY <1>2, <1>7, ReturnChanges
<1> HIDE DEF a, b
<1>9. ~ReplaceExisting(c) => fs[b][Last(op[c].path)] = Absent
  BY <1>4, <1>5, EntryKinds
<1> QED
  BY <1>3, <1>4, <1>6, <1>8, <1>9 DEF a, b

\* A staged file and its target have the same parent.
LEMMA SameParent ==
    ASSUME IInv, NEW c \in Calls, op[c].pc = "rename", op[c].req.op # "move"
    PROVE  Holder(fs, From(c)) = Holder(fs, op[c].path)
<1>1. op[c].tino # 0
  BY StateTypes DEF StateInv, ResultInv
<1> QED
  BY <1>1, TempPath DEF From, Holder

\* A staged file lands in the directory whose identity was taken.
LEMMA StagedLands ==
    ASSUME IInv, [Next]_vars, NEW c \in Calls, Commits(c), op[c].req.op \in {"write", "copy"}
    PROVE  /\ Changed(op[c].pid.ino, op[c].leaf)
           /\ \A d \in Dirs, n \in Names : Changed(d, n) => <<d, n>> = Here(c)
<1> DEFINE s == op[c]
           a == Holder(fs, From(c)).ino
<1>1. /\ s \in State /\ StateInv(s) /\ TempInv(fs, s, c) /\ fs \in Tree /\ s.pc = "rename"
      /\ AnchorInv(fs, s, c)
  BY StateTypes DEF Commits, IInv, CallInv
<1>2. s.tino # 0 /\ Placed(s)
  BY <1>1 DEF StateInv, ResultInv, Placed
<1>3. s.pid.ino \in Dirs /\ s.leaf \in Names /\ Last(s.path) = s.leaf
  BY <1>1, <1>2, PlacedFacts DEF Directory
<1>4. Holder(fs, From(c)) = Holder(fs, s.path)
  BY <1>1, SameParent
<1>5. /\ a \in Dirs /\ Last(From(c)) = c /\ fs[a][c].kind # "absent"
      /\ \A d \in Dirs, n \in Names :
           fs'[d][n] = IF d = a /\ n = s.leaf THEN fs[a][c]
                       ELSE IF d = a /\ n = c THEN Absent ELSE fs[d][n]
  BY <1>3, <1>4, CommitChanges
<1> HIDE DEF a
<1>6. fs[s.pid.ino][c].kind = "file" /\ fs[s.pid.ino][c].ino = s.tino
  BY <1>1 DEF AnchorInv
<1>7. a = s.pid.ino
  BY <1>1, <1>3, <1>5, <1>6 DEF TempInv, Absent
<1>8. \A n \in Names : n # c
  BY NamesApart
<1>9. fs[s.pid.ino][s.leaf] # fs[s.pid.ino][c]
  BY <1>1, <1>2, <1>3, <1>6, <1>8 DEF TempInv
<1> QED
  BY <1>3, <1>5, <1>7, <1>8, <1>9 DEF Changed, Here

\* A move does when nothing changed since its last look.
LEMMA MoveLands ==
    ASSUME IInv, [Next]_vars, NEW c \in Calls, Commits(c), op[c].req.op = "move", c \notin raced
    PROVE  /\ Changed(op[c].pid.ino, op[c].leaf)
           /\ \A d \in Dirs, n \in Names : Changed(d, n) =>
                \/ <<d, n>> = Here(c)
                \/ <<d, n>> = <<op[c].fromPid.ino, Last(op[c].from)>> /\ SameIdentity(fs[d][n], op[c].src)
<1> DEFINE s == op[c]
           f == Last(s.from)
<1>1. /\ s \in State /\ StateInv(s) /\ fs \in Tree /\ s.pc = "rename"
      /\ Unmoved(fs, s) /\ From(c) = s.from
  BY StateTypes DEF Commits, IInv, CallInv, CheckInv, From
<1>2. Placed(s)
  BY <1>1 DEF Placed
<1>3. /\ s.leaf \in Names /\ Last(s.path) = s.leaf /\ s.pid \in Directory /\ Front(s.path) = s.at
      /\ s.at \in Paths /\ s.path # <<>>
  BY <1>1, <1>2, PlacedFacts
<1>4. s.from # <<>> /\ s.from \in Paths /\ s.fromPid \in Directory
  BY <1>1, Fields DEF StateInv, SourceInv, Running
<1>5. Front(s.from) \in Paths /\ f \in Names
  BY <1>4, PathParts
<1>6. Holder(fs, s.from) = s.fromPid
  <2>1. DirectoryAt(fs, Front(s.from)) = s.fromPid
    BY <1>1 DEF Unmoved
  <2> QED
    BY <1>1, <1>4, <1>5, <2>1, ParentReached
<1>7. Holder(fs, s.path) = s.pid
  <2>1. DirectoryAt(fs, Front(s.path)) = s.pid
    BY <1>1, <1>3 DEF Unmoved
  <2> QED
    BY <1>1, <1>3, <2>1, ParentReached
<1>8. Lstat(fs, s.from) = fs[s.fromPid.ino][f] /\ Lstat(fs, s.path) = fs[s.pid.ino][s.leaf]
  BY <1>1, <1>3, <1>4, <1>5, <1>6, <1>7, HolderLooked DEF Directory
<1>9. /\ SameIdentity(fs[s.fromPid.ino][f], s.src)
      /\ fs[s.fromPid.ino][f] # fs[s.pid.ino][s.leaf]
  BY <1>1, <1>8, Zenon DEF Unmoved
<1>10. \A d \in Dirs, n \in Names :
         fs'[d][n] = IF d = s.pid.ino /\ n = s.leaf THEN fs[s.fromPid.ino][f]
                     ELSE IF d = s.fromPid.ino /\ n = f THEN Absent ELSE fs[d][n]
  BY <1>1, <1>3, <1>6, <1>7, CommitChanges
<1>11. s.pid.ino \in Dirs
  BY <1>3 DEF Directory
<1> HIDE DEF s, f
<1> QED
  BY <1>3, <1>9, <1>10, <1>11 DEF Changed, Here, s, f

\* A staged file is published in the directory whose identity the call took,
\* under the name it checked, in every interleaving, and a move too when
\* nothing changed after its last look.  (commit_write, commit_replace of
\* copy_file, move_path.)
THEOREM FilesLandWhereChecked == Spec => LandsWhereChecked
<1> DEFINE Lands == \A c \in Calls : Commits(c) /\ op[c].req.op # "edit" =>
             \/ op[c].req.op = "move" /\ c \in raced
             \/ /\ Changed(op[c].pid.ino, op[c].leaf)
                /\ \A d \in Dirs, n \in Names : Changed(d, n) =>
                     \/ <<d, n>> = Here(c)
                     \/ op[c].req.op = "move" /\ <<d, n>> = <<op[c].fromPid.ino, Last(op[c].from)>>
                        /\ SameIdentity(fs[d][n], op[c].src)
<1>1. ASSUME IInv, [Next]_vars PROVE Lands
  <2> SUFFICES ASSUME NEW c \in Calls, Commits(c), op[c].req.op # "edit",
                      ~(op[c].req.op = "move" /\ c \in raced)
               PROVE  /\ Changed(op[c].pid.ino, op[c].leaf)
                      /\ \A d \in Dirs, n \in Names : Changed(d, n) =>
                           \/ <<d, n>> = Here(c)
                           \/ op[c].req.op = "move"
                              /\ <<d, n>> = <<op[c].fromPid.ino, Last(op[c].from)>>
                              /\ SameIdentity(fs[d][n], op[c].src)
    OBVIOUS
  <2>1. op[c].req.op \in {"write", "copy", "move"}
    BY <1>1, StateTypes DEF Commits, StateInv, RequestInv, OperationsAt, Running
  <2> QED
    BY <1>1, <2>1, StagedLands, MoveLands
<1>2. IInv /\ [Next]_vars => [Lands]_vars
  BY <1>1
<1> QED
  BY <1>2, Invariant, PTL DEF Spec, LandsWhereChecked

\* A call that looks, or is refused, changes no entry that is not temporary.
LEMMA LooksOnly ==
    ASSUME IInv, NEW c \in Calls, (\E s : Goto(c, s)) \/ (\E res : Refuse(c, res))
    PROVE  \A d \in Dirs, n \in Names : fs'[d][n] = fs[d][n]
<1>1. CASE \E s : Goto(c, s)
  BY <1>1 DEF Goto
<1>2. CASE \E res : Refuse(c, res)
  BY <1>2, StateTypes, ReturnChanges DEF Refuse
<1> QED
  BY <1>1, <1>2

\* A directory is made where nothing is.
LEMMA MakesNew ==
    ASSUME IInv, NEW c \in Calls, CreateComponent(c) \/ MakeDirectory(c),
           NEW d \in Dirs, NEW n \in Names, Changed(d, n)
    PROVE  fs[d][n].kind = "absent"
<1> DEFINE next == Append(op[c].at, Head(op[c].rest))
           New(p, m) == \/ \E s : Goto(c, s)
                        \/ \E res : Refuse(c, res)
                        \/ /\ Holder(fs, p).kind = "dir" /\ fs[Holder(fs, p).ino][m].kind = "absent"
                           /\ DirSpace /\ fs' = Put(fs, Holder(fs, p).ino, m, DirEntry(NewDir))
<1>1. op[c] \in State /\ StateInv(op[c]) /\ fs \in Tree
  BY StateTypes
<1>2. \E p, m : Front(p) \in Paths /\ m \in Names /\ New(p, m)
  <2>1. CASE CreateComponent(c)
    <3>1. op[c].pc = "create"
      BY <2>1, Zenon DEF CreateComponent
    <3>2. Head(op[c].rest) \in Names /\ Front(next) = op[c].at /\ Last(next) = Head(op[c].rest)
          /\ op[c].at \in Paths
      BY <1>1, <3>1, OnItsWalk, Fields
    <3>3. New(next, Last(next))
      BY <2>1, Zenon DEF CreateComponent
    <3> QED
      BY <3>2, <3>3, Zenon
  <2>2. CASE MakeDirectory(c)
    <3>1. Placed(op[c])
      BY <2>2, Zenon DEF MakeDirectory, Placed
    <3>2. Front(op[c].path) \in Paths /\ op[c].leaf \in Names
      BY <1>1, <3>1, PlacedFacts
    <3>3. New(op[c].path, op[c].leaf)
      BY <2>2, Zenon DEF MakeDirectory
    <3> QED
      BY <3>2, <3>3
  <2> QED
    BY <2>1, <2>2
<1>3. PICK p, m : Front(p) \in Paths /\ m \in Names /\ New(p, m)
  BY <1>2
<1>4. CASE (\E s : Goto(c, s)) \/ (\E res : Refuse(c, res))
  BY <1>4, LooksOnly DEF Changed
<1>5. CASE /\ Holder(fs, p).kind = "dir" /\ fs[Holder(fs, p).ino][m].kind = "absent"
           /\ DirSpace /\ fs' = Put(fs, Holder(fs, p).ino, m, DirEntry(NewDir))
  <2>1. Holder(fs, p).ino \in Dirs /\ DirEntry(NewDir) \in Entry
    BY <1>1, <1>3, <1>5, HolderType, NewDirectory, EntriesMade
  <2>2. fs'[d][n] = IF d = Holder(fs, p).ino /\ n = m THEN DirEntry(NewDir) ELSE fs[d][n]
    BY <1>1, <1>3, <1>5, <2>1, PutTree
  <2> QED
    BY <1>5, <2>2 DEF Changed
<1> QED
  BY <1>3, <1>4, <1>5

\* A temporary file has a name of its own.
LEMMA StagesApart ==
    ASSUME IInv, NEW c \in Calls, StageTemp(c), NEW d \in Dirs, NEW n \in Names
    PROVE  ~Changed(d, n)
<1> DEFINE k == Holder(fs, Temp(c)).ino
           e == FileEntry(NewIno, StagedData(c))
<1>1. fs \in Tree /\ op[c].pc = "stage"
  BY StateTypes DEF StageTemp
<1>2. CASE Refuse(c, "Io") \/ Refuse(c, "FileTooLarge")
  BY <1>2, LooksOnly DEF Changed
<1>3. CASE Holder(fs, Temp(c)).kind = "dir" /\ FileSpace /\ fs' = Put(fs, k, c, e)
  <2>1. k \in Dirs
    BY <1>1, <1>3, TempPath, HolderType
  <2>2. e \in Entry
    BY <1>1, <1>3, NewFile, StagedType, EntriesMade
  <2> HIDE DEF k, e
  <2>3. fs'[d][n] = fs[d][n]
    BY <1>1, <1>3, <2>1, <2>2, PutTree, NamesApart
  <2> QED
    BY <2>3 DEF Changed
<1> QED
  BY <1>2, <1>3 DEF StageTemp

\* mkdir takes back an empty directory only.
LEMMA TakesBack ==
    ASSUME IInv, NEW c \in Calls, CheckMade(c), NEW d \in Dirs, NEW n \in Names, Changed(d, n)
    PROVE  op[c].pc = "mkcheck" /\ fs[d][n].kind = "dir" /\ Empty(fs, fs[d][n].ino)
<1> DEFINE s == op[c]
           e == Lstat(fs, s.path)
           t == Put(fs, s.pid.ino, s.leaf, Absent)
<1>1. s \in State /\ StateInv(s) /\ fs \in Tree /\ s.pc = "mkcheck" /\ Placed(s)
  BY StateTypes DEF CheckMade, Placed
<1>2. /\ s.leaf \in Names /\ s.at \in Paths /\ Front(s.path) = s.at /\ Last(s.path) = s.leaf
      /\ s.pid \in Directory /\ s.pid.ino \in Dirs /\ s.path # <<>>
  BY <1>1, PlacedFacts DEF Directory
<1>3. \/ \E res : Refuse(c, res)
      \/ /\ ParentStays(c) /\ e.kind = "dir" /\ Empty(fs, e.ino)
         /\ Return(c, t, TargetRefusal(c))
  BY DEF CheckMade, CleanUpTarget
<1>4. CASE \E res : Refuse(c, res)
  BY <1>4, LooksOnly DEF Changed
<1>5. CASE /\ ParentStays(c) /\ e.kind = "dir" /\ Empty(fs, e.ino)
           /\ Return(c, t, TargetRefusal(c))
  <2>1. DirectoryAt(fs, Front(s.path)) = s.pid
    BY <1>2, <1>5 DEF ParentStays, SameDirectory
  <2>2. Holder(fs, s.path) = s.pid
    BY <1>1, <1>2, <2>1, ParentReached
  <2>3. e = fs[s.pid.ino][s.leaf]
    BY <1>1, <1>2, <1>5, <2>2, LstatInHolder
  <2>4. t \in Tree /\ \A k \in Dirs, m \in Names :
                        t[k][m] = IF k = s.pid.ino /\ m = s.leaf THEN Absent ELSE fs[k][m]
    <3> DEFINE p == s.pid.ino
               q == s.leaf
    <3>1. fs \in Tree /\ p \in Dirs /\ q \in Names \cup Calls /\ Absent \in Entry
      BY <1>1, <1>2, EntriesMade
    <3> HIDE DEF p, q, t
    <3>2. /\ Put(fs, p, q, Absent) \in Tree
          /\ \A k \in Dirs, m \in Names \cup Calls :
               Put(fs, p, q, Absent)[k][m] = IF k = p /\ m = q THEN Absent ELSE fs[k][m]
      BY <3>1, PutTree, SMTT(20)
    <3> QED
      BY <3>2 DEF t, p, q
  <2> HIDE DEF t
  <2>5. fs'[d][n] = t[d][n]
    BY <1>5, <2>4, ReturnChanges
  <2>6. d = s.pid.ino /\ n = s.leaf
    BY <2>4, <2>5 DEF Changed
  <2> QED
    BY <1>1, <1>5, <2>3, <2>6, Zenon
<1> QED
  BY <1>3, <1>4, <1>5

\* A rename that may not replace finds nothing at its destination; what it
\* takes from elsewhere is there afterwards.
LEMMA RenamesOnto ==
    ASSUME IInv, [Next]_vars, NEW c \in Calls, CommitRename(c),
           op[c].req.op \in {"write", "copy", "move"}, ~op[c].req.over,
           NEW d \in Dirs, NEW n \in Names, Changed(d, n)
    PROVE  \/ fs[d][n].kind = "absent"
           \/ op[c].req.op = "move" /\ fs'[d][n] = Absent
              /\ \E k \in Dirs, m \in Names : fs'[k][m] = fs[d][n] /\ fs[k][m] = Absent
<1> DEFINE a == Holder(fs, From(c)).ino
           b == Holder(fs, op[c].path).ino
           f == Last(From(c))
           g == Last(op[c].path)
<1>1. op[c] \in State /\ StateInv(op[c]) /\ fs \in Tree /\ op[c].pc = "rename" /\ op \in [Calls -> State]
  BY StateTypes DEF CommitRename, IInv, TypeOK
<1>2. ~ReplaceExisting(c)
  BY <1>1 DEF ReplaceExisting, StateInv, TargetInv, Running
<1>3. CASE \E res \in Outcomes : Refuse(c, res)
  BY <1>3, LooksOnly DEF Changed
<1>4. CASE \E res \in {"ok", "unsynced"} : Return(c, AfterRename(From(c), op[c].path), res)
  <2>1. PICK res \in {"ok", "unsynced"} : Return(c, AfterRename(From(c), op[c].path), res)
    BY <1>4
  <2>2. op' = [op EXCEPT ![c] = DoneWith(op[c].req, op[c].made, res)]
    BY <2>1 DEF Return, DoneWith
  <2>3. op'[c].res = res
    <3>1. op'[c] = DoneWith(op[c].req, op[c].made, res)
      BY <1>1, <2>2
    <3> QED
      BY <3>1 DEF DoneWith, Idle
  <2>4. Commits(c)
    BY <1>1, <2>3 DEF Commits
  <2>5. /\ a \in Dirs /\ b \in Dirs /\ g \in Names
        /\ IF op[c].req.op = "move" THEN f \in Names ELSE f = c
        /\ fs[a][f].kind # "absent" /\ fs[b][g] = Absent
        /\ \A x \in Dirs, y \in Names :
             fs'[x][y] = IF x = b /\ y = g THEN fs[a][f]
                         ELSE IF x = a /\ y = f THEN Absent ELSE fs[x][y]
    BY <1>2, <2>4, CommitChanges
  <2> HIDE DEF a, b, f, g
  <2>6. CASE d = b /\ n = g
    BY <2>5, <2>6 DEF Absent
  <2>7. CASE ~(d = b /\ n = g)
    <3>1. d = a /\ n = f /\ fs'[d][n] = Absent
      BY <2>5, <2>7 DEF Changed
    <3>2. op[c].req.op = "move"
      BY <2>5, <3>1, NamesApart
    <3>3. fs'[b][g] = fs[d][n]
      BY <2>5, <3>1
    <3> QED
      BY <2>5, <3>1, <3>2, <3>3
  <2> QED
    BY <2>6, <2>7
<1> QED
  BY <1>3, <1>4, Committed

\* A call that takes a step is not over, and most steps only look.
LEMMA StepKinds ==
    ASSUME NEW c \in Calls, Step(c)
    PROVE  /\ op[c].pc # "done"
           /\ \/ (\E s : Goto(c, s)) \/ (\E res : Refuse(c, res))
              \/ CreateComponent(c) \/ MakeDirectory(c) \/ StageTemp(c) \/ CheckMade(c) \/ CommitRename(c)
<1> DEFINE Kinds == /\ op[c].pc # "done"
                    /\ \/ (\E s : Goto(c, s)) \/ (\E res : Refuse(c, res))
                       \/ CreateComponent(c) \/ MakeDirectory(c) \/ StageTemp(c) \/ CheckMade(c)
                       \/ CommitRename(c)
<1>1. ASSUME NEW r, BeginWrite(c, r) \/ BeginMkdir(c, r) \/ BeginEdit(c, r) \/ BeginTransfer(c, r)
      PROVE  Kinds
  <2>1. op[c].pc = "idle" /\ \E s : Goto(c, s)
    <3> HIDE DEF Goto
    <3> QED
      BY <1>1 DEF BeginWrite, BeginMkdir, Begin, BeginEdit, BeginTransfer
  <2> QED
    BY <2>1
<1> HIDE DEF Goto, Refuse
<1>2. CASE WalkComponent(c) \/ CheckCreated(c) \/ TakeSource(c)
  BY <1>2, Zenon DEF WalkComponent, CheckCreated, TakeSource
<1>3. CASE InspectWrite(c) \/ VerifyParent(c) \/ InspectMkdir(c) \/ InspectMove(c) \/ InspectCopy(c)
  BY <1>3 DEF InspectWrite, VerifyParent, InspectMkdir, InspectMove, InspectCopy
<1>4. CASE RecheckWrite(c) \/ RecheckCopy(c) \/ RecheckEdit(c) \/ RevalidateMove(c)
  BY <1>4 DEF RecheckWrite, RecheckCopy, RecheckEdit, Recheck, RevalidateMove
<1>5. CASE ReadForEdit(c) \/ OpenForWrite(c)
  BY <1>5 DEF ReadForEdit, OpenForWrite
<1>6. CASE CreateComponent(c) \/ MakeDirectory(c) \/ StageTemp(c) \/ CheckMade(c) \/ CommitRename(c)
  <2>1. op[c].pc # "done"
    BY <1>6, Zenon DEF CreateComponent, MakeDirectory, StageTemp, CheckMade, CommitRename
  <2> QED
    BY <1>6, <2>1
<1>7. CASE \E r \in RequestsOf[c] :
             BeginWrite(c, r) \/ BeginMkdir(c, r) \/ BeginEdit(c, r) \/ BeginTransfer(c, r)
  BY <1>1, <1>7
<1> QED
  BY <1>2, <1>3, <1>4, <1>5, <1>6, <1>7 DEF Step

\* A call that may not overwrite replaces and removes nothing that is at its
\* destination, whatever appeared there since it looked.  (rename_no_replace,
\* create_dir, cleanup_created_target_dir.)
THEOREM NothingIsClobbered == Spec => NoClobber
<1> DEFINE Spares(c, d, n) ==
             \/ fs[d][n].kind = "absent"
             \/ op[c].pc = "mkcheck" /\ fs[d][n].kind = "dir" /\ Empty(fs, fs[d][n].ino)
             \/ op[c].req.op = "move" /\ fs'[d][n] = Absent
                /\ \E k \in Dirs, m \in Names : fs'[k][m] = fs[d][n] /\ fs[k][m] = Absent
           SparesAll ==
             \A c \in Calls : op'[c] # op[c] /\ op[c].pc # "idle"
                 /\ op[c].req.op \in {"write", "copy", "move", "mkdir"}
                 /\ (op[c].req.op = "mkdir" \/ ~op[c].req.over) =>
                    \A d \in Dirs, n \in Names : Changed(d, n) => Spares(c, d, n)
<1>1. ASSUME IInv, [Next]_vars PROVE SparesAll
  <2> SUFFICES ASSUME NEW c \in Calls, op'[c] # op[c], op[c].pc # "idle",
                      op[c].req.op \in {"write", "copy", "move", "mkdir"},
                      op[c].req.op = "mkdir" \/ ~op[c].req.over,
                      NEW d \in Dirs, NEW n \in Names, Changed(d, n)
               PROVE  Spares(c, d, n)
    OBVIOUS
  <2>1. Step(c)
    BY <1>1, OwnStep
  <2>2. CASE (\E s : Goto(c, s)) \/ (\E res : Refuse(c, res))
    BY <1>1, <2>2, LooksOnly DEF Changed
  <2>3. CASE CreateComponent(c) \/ MakeDirectory(c)
    BY <1>1, <2>3, MakesNew
  <2>4. CASE StageTemp(c)
    BY <1>1, <2>4, StagesApart
  <2>5. CASE CheckMade(c)
    BY <1>1, <2>5, TakesBack
  <2>6. CASE CommitRename(c)
    <3>1. op[c].req.op \in {"write", "copy", "move"}
      BY <1>1, <2>6, StateTypes DEF CommitRename, StateInv, RequestInv, OperationsAt, Running
    <3> QED
      BY <1>1, <2>6, <3>1, RenamesOnto
  <2> HIDE DEF Spares
  <2> QED
    BY <2>1, <2>2, <2>3, <2>4, <2>5, <2>6, StepKinds
<1>2. IInv /\ [Next]_vars => [SparesAll]_vars
  BY <1>1
<1> QED
  BY <1>2, Invariant, PTL DEF Spec, NoClobber

\* An edit or a patch replaces the file it read, unless others changed the
\* tree after its very last check.  (write_bytes_atomic_impl.)
THEOREM EditsWhatItRead == Spec => EditReplacesWhatItRead
<1> DEFINE Replaces ==
             \A c \in Calls : Commits(c) /\ op[c].req.op = "edit" /\ c \notin raced =>
               \A d \in Dirs, n \in Names : Changed(d, n) =>
                  fs[d][n].kind = "file" /\ fs[d][n].ino = op[c].target.ino
<1>1. ASSUME IInv, [Next]_vars PROVE Replaces
  <2> SUFFICES ASSUME NEW c \in Calls, Commits(c), op[c].req.op = "edit", c \notin raced,
                      NEW d \in Dirs, NEW n \in Names, Changed(d, n)
               PROVE  fs[d][n].kind = "file" /\ fs[d][n].ino = op[c].target.ino
    OBVIOUS
  <2> DEFINE s == op[c]
             b == Holder(fs, s.path)
             g == Last(s.path)
  <2>1. s \in State /\ StateInv(s) /\ fs \in Tree /\ s.pc = "rename" /\ CheckInv(fs, s)
    BY <1>1, StateTypes DEF Commits, IInv, CallInv
  <2>2. s.path # <<>> /\ s.path \in Paths /\ s.target.kind = "file"
    BY <2>1, Fields DEF StateInv, TargetInv
  <2>3. Front(s.path) \in Paths /\ Last(s.path) \in Names
    BY <2>2, PathParts
  <2>4. Lstat(fs, s.path) \in Entry \cup {Other} /\ SameIdentity(Lstat(fs, s.path), s.target)
    BY <2>1, <2>3, LstatType DEF CheckInv
  <2>5. Lstat(fs, s.path).kind \in {"absent", "file", "dir", "link", "error"}
    BY <2>4, EntryKinds DEF Other
  <2>6. Lstat(fs, s.path).kind = "file" /\ Lstat(fs, s.path).ino = s.target.ino
    BY <2>2, <2>4, <2>5, SameKinds
  <2>7. Lstat(fs, s.path) = fs[b.ino][g]
    BY <2>1, <2>2, <2>3, <2>6, LstatInHolder
  <2>8. Holder(fs, From(c)) = b
    BY <1>1, <2>1, SameParent
  <2>9. /\ Last(From(c)) = c /\ g \in Names
        /\ \A x \in Dirs, y \in Names :
             fs'[x][y] = IF x = b.ino /\ y = g THEN fs[b.ino][Last(From(c))]
                         ELSE IF x = b.ino /\ y = Last(From(c)) THEN Absent ELSE fs[x][y]
    BY <1>1, <2>8, CommitChanges
  <2>10. d = b.ino /\ n = g
    BY <2>9, NamesApart DEF Changed
  <2> QED
    BY <2>6, <2>7, <2>10
<1>2. IInv /\ [Next]_vars => [Replaces]_vars
  BY <1>1
<1> QED
  BY <1>2, Invariant, PTL DEF Spec, EditReplacesWhatItRead

\* The tree is a tree, and a call is always in one of its stages and knows
\* paths, entries and requests only, whatever the others do.
THEOREM TypeCorrect == Spec => []TypeOK
<1>1. IInv => TypeOK
  BY DEF IInv
<1> QED
  BY <1>1, Invariant, PTL

\* A call that is over, however it ended, has left no temporary file, unless
\* somebody moved a directory or a link meanwhile: the first part of
\* NothingLeftBehind.  (StagedTempFile.)
THEOREM TemporaryFilesRemoved == Spec => []NoTemporaryFiles
<1>1. IInv => NoTemporaryFiles
  BY DEF IInv, CallInv, HomeInv, NoTemporaryFiles, Undisturbed
<1> QED
  BY <1>1, Invariant, PTL

\* An entry on a plain path that is not denied is not hidden, nor is a
\* temporary file beside it.
LEMMA Visible ==
    ASSUME DeniedClosed, NEW t \in Tree, WellShaped(t), NEW p \in Paths, PlainDir(t, p),
           NEW n \in Names, ~IsPathDenied(Append(p, n))
    PROVE  LET d == NoLinks(t)[p].entry.ino
           IN  ~IsHidden(t, d, n) /\ \A c \in Calls : ~IsHidden(t, d, c)
<1> DEFINE r == NoLinks(t)[p]
<1>1. r.entry = DirEntry(r.entry.ino)
  BY Sight
<1>2. \A q \in PathsTo(t, r.entry.ino) : q = p
  BY ShortPathTo
<1>3. ~IsPathDenied(p)
  BY DeniedBelow
<1> QED
  BY <1>2, <1>3, DeniedTemporary DEF IsHidden

\* ----------------------------------------------------- preview and walk
\* The preview goes on from r: where the walk will end in the tree as it is.
Ahead(t, r) ==
  LET walk[q \in Paths] ==
        IF q = <<>> THEN r ELSE PreviewComponent(t, walk[Front(q)], Last(q), FALSE)
  IN  walk

\* One component at a time.
LEMMA AheadUnfolds ==
    ASSUME NEW t \in Tree, NEW r \in Results
    PROVE  /\ \A p \in Paths : Ahead(t, r)[p] \in Results
           /\ Ahead(t, r)[<<>>] = r
           /\ \A p \in Paths : p # <<>> =>
                Ahead(t, r)[p] = PreviewComponent(t, Ahead(t, r)[Front(p)], Last(p), FALSE)
<1> DEFINE Body(g) == [q \in Paths |-> IF q = <<>> THEN r ELSE PreviewComponent(t, g[Front(q)], Last(q), FALSE)]
           step == [x \in Results \X Names |-> PreviewComponent(t, x[1], x[2], FALSE)]
           walk == CHOOSE g : g = Body(g)
<1>1. step \in [Results \X Names -> Results]
  BY ComponentTypes
<1>2. <<>> \in Paths
  BY DEF Paths
<1>3. \A q \in Paths : q # <<>> => Front(q) \in Paths /\ Last(q) \in Names
  BY FrontAndLast DEF Paths
<1>4. \E f : f = Body(f)
  <2>1. PICK f \in [Paths -> Results] : Steps(f, Names, r, step)
    <3> HIDE DEF step, Results
    <3> QED
      BY <1>1, Recursion DEF Paths
  <2>2. \A q \in Paths : f[q] = IF q = <<>> THEN r ELSE step[<<f[Front(q)], Last(q)>>]
    BY <2>1 DEF Steps, Paths
  <2>3. \A q \in Paths : f[q] = Body(f)[q]
    BY <1>3, <2>2
  <2> QED
    BY <2>1, <2>3
<1>5. walk = Body(walk)
  <2> HIDE DEF Body
  <2> QED
    BY <1>4
<1>6. Ahead(t, r) = walk
  BY DEF Ahead
<1> HIDE DEF walk
<1>7. \A q \in Paths : walk[q] = IF q = <<>> THEN r ELSE PreviewComponent(t, walk[Front(q)], Last(q), FALSE)
  <2>1. \A q \in Paths : Body(walk)[q] = IF q = <<>> THEN r
                                         ELSE PreviewComponent(t, walk[Front(q)], Last(q), FALSE)
    OBVIOUS
  <2> HIDE DEF Body
  <2> QED
    BY <1>5, <2>1
<1> DEFINE Typed == {q \in Paths : walk[q] \in Results}
<1>8. \A q \in Paths : q # <<>> /\ Front(q) \in Typed => q \in Typed
  BY <1>3, <1>7, ComponentTypes
<1>9. <<>> \in Typed
  BY <1>2, <1>7
<1>10. Paths \subseteq Typed
  <2> HIDE DEF Typed
  <2> QED
    BY <1>8, <1>9, EverySequence DEF Paths
<1> QED
  BY <1>2, <1>6, <1>7, <1>10

\* The front of a path is the front of what follows its first name.
LEMMA FrontOfTail ==
    ASSUME NEW n \in Names, NEW q \in Paths
    PROVE  LET p == <<n>> \o q
           IN  /\ p \in Paths /\ p # <<>> /\ Head(p) = n /\ Tail(p) = q
               /\ q = <<>> => Front(p) = <<>> /\ Last(p) = n
               /\ q # <<>> => Front(p) = <<n>> \o Front(q) /\ Last(p) = Last(q)
<1> DEFINE p == <<n>> \o q
<1>1. /\ q \in Seq(Names) /\ p \in Seq(Names) /\ Len(p) = Len(q) + 1 /\ Len(q) \in Nat
      /\ p[1] = n /\ \A i \in 1 .. Len(q) : p[i + 1] = q[i]
  BY DEF Paths
<1>2. p # <<>> /\ Head(p) = n /\ Tail(p) = q
  BY <1>1
<1>3. q = <<>> => Front(p) = <<>> /\ Last(p) = n
  BY <1>1 DEF Front, Last
<1>4. q # <<>> => Front(p) = <<n>> \o Front(q) /\ Last(p) = Last(q)
  <2> SUFFICES ASSUME q # <<>> PROVE Front(p) = <<n>> \o Front(q) /\ Last(p) = Last(q)
    OBVIOUS
  <2>1. /\ Front(q) \in Seq(Names) /\ Len(Front(q)) = Len(q) - 1 /\ Len(q) # 0 /\ Last(q) = q[Len(q)]
        /\ \A i \in 1 .. Len(q) - 1 : Front(q)[i] = q[i]
    BY <1>1, FrontAndLast
  <2>2. /\ Front(p) \in Seq(Names) /\ Len(Front(p)) = Len(q) /\ Last(p) = p[Len(q) + 1]
        /\ \A i \in 1 .. Len(q) : Front(p)[i] = p[i]
    <3> HIDE DEF p
    <3>1. p \in Seq(Names) /\ p # <<>> /\ Len(p) = Len(q) + 1 /\ Len(q) \in Nat
      BY <1>1, <1>2
    <3>2. /\ Front(p) \in Seq(Names) /\ Len(Front(p)) = Len(p) - 1 /\ Last(p) = p[Len(p)]
          /\ \A i \in 1 .. Len(p) - 1 : Front(p)[i] = p[i]
      BY <3>1, FrontAndLast
    <3>3. Len(p) - 1 = Len(q)
      BY <3>1
    <3> QED
      BY <3>1, <3>2, <3>3
  <2> DEFINE u == <<n>> \o Front(q)
  <2>3. /\ u \in Seq(Names) /\ Len(u) = Len(q) /\ u[1] = n
        /\ \A i \in 1 .. Len(q) - 1 : u[i + 1] = Front(q)[i]
    BY <2>1
  <2>4. \A i \in 1 .. Len(q) : Front(p)[i] = u[i]
    <3> SUFFICES ASSUME NEW i \in 1 .. Len(q) PROVE Front(p)[i] = u[i]
      OBVIOUS
    <3>1. CASE i = 1
      BY <1>1, <2>2, <2>3, <3>1
    <3>2. CASE i # 1
      <4>1. i - 1 \in 1 .. Len(q) - 1 /\ i - 1 \in 1 .. Len(q) /\ (i - 1) + 1 = i
        BY <1>1, <3>2
      <4>2. p[i] = q[i - 1] /\ u[i] = Front(q)[i - 1] /\ Front(q)[i - 1] = q[i - 1]
        BY <1>1, <2>1, <2>3, <4>1
      <4> QED
        BY <2>2, <4>2
    <3> QED
      BY <3>1, <3>2
  <2> HIDE DEF u, p
  <2>5. Front(p) = u
    BY <2>2, <2>3, <2>4
  <2>6. Last(p) = Last(q)
    <3>1. Len(q) \in 1 .. Len(q)
      BY <1>1, <2>1
    <3> QED
      BY <1>1, <2>1, <2>2, <3>1
  <2> QED
    BY <2>5, <2>6 DEF u
<1> QED
  BY <1>1, <1>2, <1>3, <1>4 DEF Paths

\* The first component may be taken first.
LEMMA AheadShifts ==
    ASSUME NEW t \in Tree, NEW r \in Results, NEW p \in Paths, p # <<>>
    PROVE  Ahead(t, r)[p] = Ahead(t, PreviewComponent(t, r, Head(p), FALSE))[Tail(p)]
<1> DEFINE n == Head(p)
           k == PreviewComponent(t, r, n, FALSE)
           Good == {q \in Paths : Ahead(t, r)[<<n>> \o q] = Ahead(t, k)[q]}
<1>1. n \in Names /\ Tail(p) \in Paths /\ p = <<n>> \o Tail(p)
  BY DEF Paths
<1> HIDE DEF n
<1>2. k \in Results
  BY <1>1, ComponentTypes
<1> HIDE DEF k
<1>7. \A x \in Paths : x # <<>> =>
        /\ Ahead(t, r)[x] = PreviewComponent(t, Ahead(t, r)[Front(x)], Last(x), FALSE)
        /\ Ahead(t, k)[x] = PreviewComponent(t, Ahead(t, k)[Front(x)], Last(x), FALSE)
  BY <1>2, AheadUnfolds
<1>8. Ahead(t, r)[<<>>] = r /\ Ahead(t, k)[<<>>] = k
  BY <1>2, AheadUnfolds
<1>3. <<>> \in Good
  <2>1. <<>> \in Paths
    BY DEF Paths
  <2> DEFINE s == <<n>> \o <<>>
  <2>2. s \in Paths /\ s # <<>> /\ Front(s) = <<>> /\ Last(s) = n
    BY <1>1, <2>1, FrontOfTail
  <2> HIDE DEF s
  <2>3. Ahead(t, r)[s] = k
    BY <1>7, <1>8, <2>2 DEF k
  <2> QED
    BY <1>8, <2>1, <2>3 DEF s
<1>4. ASSUME NEW q \in Paths, q # <<>>, Front(q) \in Good PROVE q \in Good
  <2> DEFINE s == <<n>> \o q
  <2>1. s \in Paths /\ s # <<>> /\ Front(s) = <<n>> \o Front(q) /\ Last(s) = Last(q)
    BY <1>1, <1>4, FrontOfTail
  <2> HIDE DEF s
  <2>2. Ahead(t, r)[s] = PreviewComponent(t, Ahead(t, r)[<<n>> \o Front(q)], Last(q), FALSE)
    BY <1>7, <2>1
  <2>3. Ahead(t, k)[q] = PreviewComponent(t, Ahead(t, k)[Front(q)], Last(q), FALSE)
    BY <1>4, <1>7
  <2> QED
    BY <1>4, <2>2, <2>3 DEF s
<1> HIDE DEF Good
<1>5. Paths \subseteq Good
  BY <1>3, <1>4, EverySequence DEF Paths
<1>6. Ahead(t, r)[<<n>> \o Tail(p)] = Ahead(t, k)[Tail(p)]
  BY <1>1, <1>5 DEF Good
<1> QED
  BY <1>1, <1>6 DEF n, k

\* ------------------------------------------------- what a call goes by
\* As long as nobody moves a directory or a link, the directories a call goes by
\* are on plain paths ...
OnWalk(s)   == s.pc \in {"walk", "create", "created", "found"}
Foretold(s) == s.req.op \in {"write", "mkdir"} \/ s.create
Transfers(s) == Running(s) /\ s.req.op \in {"move", "copy"}
PlaceInv(t, s) ==
  /\ OnWalk(s) \/ Placed(s) \/ (s.pc = "source" /\ ~s.create) => PlainDir(t, s.at)
  /\ Running(s) /\ s.req.op = "edit" /\ s.path # <<>> => PlainDir(t, Front(s.path))
  /\ Transfers(s) => PlainDir(t, Front(s.from))

\* ... what it changes there, or copies, is not denied ...
AllowedInv(s) ==
  /\ Running(s) /\ s.req.op = "edit" => ~IsPathDenied(s.path)
  /\ Transfers(s) => ~IsPathDenied(s.from)
  /\ s.pc \in {"create", "created"} => ~IsPathDenied(Append(s.at, Head(s.rest)))
  /\ Placed(s) /\ (s.pc # "inspect" \/ Foretold(s)) => ~IsPathDenied(s.path)

\* ... and neither is the place its walk will end at, which it has previewed: as
\* the tree is, or below the directories it creates.
ForeInv(t, s) == OnWalk(s) /\ Foretold(s) =>
  IF s.made = {}
  THEN LET a == Ahead(t, NoLinks(t)[s.at])[s.rest]
       IN  a.st = "ok" => ~IsPathDenied(Append(a.path, s.leaf))
  ELSE ~IsPathDenied(Append(s.at \o s.rest, s.leaf))

\* In a directory it has created there is nothing but files.
FreshInv(t, s) ==
  LET d == NoLinks(t)[s.at].entry.ino
  IN  /\ s.pc \in {"create", "created", "found"} => s.create
      /\ s.pc \in {"walk", "create", "found"} /\ s.made # {} => Bare(t, d)
      /\ s.pc = "created" => /\ s.made # {} /\ t[d][Head(s.rest)].kind = "dir"
                             /\ Bare(t, t[d][Head(s.rest)].ino)
      /\ s.pc = "source" => s.made = {}
      /\ Running(s) /\ s.made # {} => Foretold(s)
      /\ s.pc = "done" /\ s.res \in {"Denied", "OutsideRoot"} => s.made = {}

ViewInv(t, s) == PlaceInv(t, s) /\ AllowedInv(s) /\ ForeInv(t, s) /\ FreshInv(t, s)
SInv == WellShaped(fs) /\ \A c \in Calls : c \notin disturbed => ViewInv(Skeleton(fs), op[c])

\* ------------------------------------------------- what a walk comes to
\* Paths put together.
LEMMA Joined ==
    ASSUME NEW p \in Paths, NEW q \in Paths
    PROVE  /\ p \o q \in Paths /\ p \o <<>> = p
           /\ q # <<>> => /\ p \o q = Append(p \o Front(q), Last(q))
                          /\ p \o q = Append(p, Head(q)) \o Tail(q)
<1>1. p \in Seq(Names) /\ q \in Seq(Names)
  BY DEF Paths
<1>2. p \o q \in Seq(Names) /\ p \o <<>> = p
  BY <1>1
<1>3. ASSUME q # <<>> PROVE p \o q = Append(p \o Front(q), Last(q))
  <2>1. Front(q) \in Seq(Names) /\ Last(q) \in Names /\ q = Append(Front(q), Last(q))
    BY <1>1, <1>3, FrontAndLast DEF Front, Last
  <2>2. q = Front(q) \o <<Last(q)>> /\ Append(p \o Front(q), Last(q)) = (p \o Front(q)) \o <<Last(q)>>
    <3>1. p \o Front(q) \in Seq(Names)
      BY <1>1, <2>1
    <3> QED
      BY <2>1, <3>1, AppendIsConcat
  <2>3. <<Last(q)>> \in Seq(Names)
    BY <2>1
  <2>4. (p \o Front(q)) \o <<Last(q)>> = p \o (Front(q) \o <<Last(q)>>)
    BY <1>1, <2>1, <2>3, ConcatAssociative, SMTT(20)
  <2> QED
    BY <2>2, <2>4
<1>4. ASSUME q # <<>> PROVE p \o q = Append(p, Head(q)) \o Tail(q)
  <2>1. Head(q) \in Names /\ Tail(q) \in Seq(Names) /\ q = <<Head(q)>> \o Tail(q) /\ <<Head(q)>> \in Seq(Names)
    BY <1>1, <1>4
  <2>2. Append(p, Head(q)) = p \o <<Head(q)>>
    BY <1>1, <2>1, AppendIsConcat
  <2>3. (p \o <<Head(q)>>) \o Tail(q) = p \o (<<Head(q)>> \o Tail(q))
    BY <1>1, <2>1, ConcatAssociative
  <2> QED
    BY <2>1, <2>2, <2>3
<1> QED
  BY <1>2, <1>3, <1>4 DEF Paths

\* What is below a denied path is denied.
LEMMA DeniedAbove ==
    ASSUME DeniedClosed, NEW p \in Paths, IsPathDenied(p), NEW q \in Paths
    PROVE  IsPathDenied(p \o q)
<1> DEFINE Good == {x \in Paths : IsPathDenied(p \o x)}
<1>1. <<>> \in Good
  <2>1. <<>> \in Paths
    BY DEF Paths
  <2> QED
    BY <2>1, Joined
<1>2. ASSUME NEW x \in Paths, x # <<>>, Front(x) \in Good PROVE x \in Good
  <2>1. Front(x) \in Paths /\ Last(x) \in Names
    BY <1>2, PathParts
  <2>2. p \o Front(x) \in Paths /\ IsPathDenied(p \o Front(x))
    BY <1>2, <2>1, Joined
  <2>3. IsPathDenied(Append(p \o Front(x), Last(x)))
    BY <2>1, <2>2, DeniedBelow
  <2>4. p \o x = Append(p \o Front(x), Last(x))
    BY <1>2, Joined
  <2> QED
    BY <2>3, <2>4
<1> HIDE DEF Good
<1>3. Paths \subseteq Good
  BY <1>1, <1>2, EverySequence DEF Paths
<1> QED
  BY <1>3 DEF Good

\* Below a missing component everything is missing.
LEMMA MissingAhead ==
    ASSUME NEW t \in Tree, NEW p \in Paths, NEW q \in Paths
    PROVE  Ahead(t, Resolved(p, Absent))[q] = Resolved(p \o q, Absent)
<1> DEFINE r == Resolved(p, Absent)
           Good == {x \in Paths : Ahead(t, r)[x] = Resolved(p \o x, Absent)}
<1>1. r \in Results
  BY ResultsMade, EntriesMade
<1> HIDE DEF r
<1>2. Ahead(t, r)[<<>>] = r /\ \A x \in Paths : x # <<>> =>
        Ahead(t, r)[x] = PreviewComponent(t, Ahead(t, r)[Front(x)], Last(x), FALSE)
  BY <1>1, AheadUnfolds
<1>3. <<>> \in Good
  <2>1. <<>> \in Paths
    BY DEF Paths
  <2> QED
    BY <1>2, <2>1, Joined DEF r
<1>4. ASSUME NEW x \in Paths, x # <<>>, Front(x) \in Good PROVE x \in Good
  <2> DEFINE y == p \o Front(x)
  <2>1. Ahead(t, r)[x] = PreviewComponent(t, Resolved(y, Absent), Last(x), FALSE)
    BY <1>2, <1>4
  <2> HIDE DEF y
  <2>2. PreviewComponent(t, Resolved(y, Absent), Last(x), FALSE) = Resolved(Append(y, Last(x)), Absent)
    BY DEF PreviewComponent, Resolved
  <2>3. p \o x = Append(y, Last(x))
    BY <1>4, Joined DEF y
  <2> QED
    BY <1>4, <2>1, <2>2, <2>3
<1> HIDE DEF Good
<1>5. Paths \subseteq Good
  BY <1>3, <1>4, EverySequence DEF Paths
<1> QED
  BY <1>5 DEF Good, r

\* The preview of one component, from a plain path.
LEMMA Foreseen ==
    ASSUME NEW t \in Tree, NEW p \in Paths, PlainDir(t, p), NEW n \in Names
    PROVE  LET S == Skeleton(t)
               r == NoLinks(t)[p]
               e == t[r.entry.ino][n]
               next == Append(p, n)
           IN  /\ next \in Paths /\ r \in Results /\ r.path = p /\ r.entry.ino \in Dirs /\ e \in Entry
               /\ NoLinks(S)[p] = r /\ Lstat(t, next) = e
               /\ S[r.entry.ino][n] = IF IsPart(e) THEN e ELSE Absent
               /\ PreviewComponent(S, r, n, FALSE) =
                    IF IsPart(e) THEN PreviewInside(Canonicalize(S, next), FALSE) ELSE Resolved(next, Absent)
<1> DEFINE S == Skeleton(t)
           r == NoLinks(t)[p]
           d == r.entry.ino
           e == t[d][n]
           next == Append(p, n)
<1>1. S \in Tree /\ NoLinks(S)[p] = r /\ PlainDir(S, p)
  BY SkeletonOf, SkeletonShows
<1>2. r \in Results /\ r.path = p /\ d \in Dirs /\ r.st = "ok" /\ r.entry.kind = "dir" /\ next \in Paths
  BY Sight, NoLinksUnfolds, PathAppended DEF PlainDir, IsDirectory
<1>3. e \in Entry /\ Lstat(t, next) = e
  BY <1>2, Sight, TreeEntry
<1>4. S[d][n] = IF IsPart(e) THEN e ELSE Absent
  BY <1>2, SkeletonOf
<1>5. Lstat(S, next) = S[d][n]
  BY <1>1, Sight
<1>6. r.entry # Absent
  BY <1>2 DEF Absent
<1> HIDE DEF S, r, d, e, next
<1>7. PreviewComponent(S, r, n, FALSE) = Previewed(S, next, S[d][n], FALSE)
  BY <1>2, <1>5, <1>6 DEF PreviewComponent, next
<1>8. CASE IsPart(e)
  BY <1>1, <1>2, <1>3, <1>4, <1>7, <1>8 DEF Previewed, IsPart, S, r, d, e, next
<1>9. CASE ~IsPart(e)
  <2>1. PreviewComponent(S, r, n, FALSE) = Resolved(next, Absent)
    <3>1. S[d][n] = Absent /\ Absent.kind = "absent"
      BY <1>4, <1>9 DEF IsPart, Absent
    <3> QED
      BY <1>7, <3>1 DEF Previewed
  <2> QED
    BY <1>1, <1>2, <1>3, <1>4, <1>9, <2>1 DEF S, r, d, e, next
<1> QED
  BY <1>8, <1>9

\* A component that is passed is one the preview passes.
LEMMA Passed ==
    ASSUME NEW t \in Tree, NEW p \in Paths, PlainDir(t, p), NEW n \in Names, NEW flag,
           LET next == Append(p, n)
               x == ExistingComponent(t, next, Lstat(t, next), flag)
           IN  x.st = "ok" /\ InRoot(x.path)
    PROVE  LET next == Append(p, n)
               x == ExistingComponent(t, next, Lstat(t, next), flag)
           IN  /\ x \in Results /\ x.path \in Paths /\ PlainDir(t, x.path) /\ NoLinks(t)[x.path] = x
               /\ IsPart(Lstat(t, next)) /\ PreviewComponent(Skeleton(t), NoLinks(t)[p], n, FALSE) = x
<1> DEFINE S == Skeleton(t)
           r == NoLinks(t)[p]
           next == Append(p, n)
           e == Lstat(t, next)
           x == ExistingComponent(t, next, e, flag)
           k == Canonicalize(t, next)
<1>1. /\ next \in Paths /\ e = t[r.entry.ino][n] /\ e \in Entry
      /\ PreviewComponent(S, r, n, FALSE) =
           IF IsPart(e) THEN PreviewInside(Canonicalize(S, next), FALSE) ELSE Resolved(next, Absent)
  <2>1. e = t[r.entry.ino][n]
    BY Foreseen, ZenonT(40)
  <2> HIDE DEF e
  <2> QED
    BY <2>1, Foreseen, ZenonT(40)
<1>2. e.kind = "dir" => NoLinks(t)[next] = Resolved(next, e) /\ k = Resolved(next, e)
  <2>1. e = t[NoLinks(t)[p].entry.ino][n]
    BY <1>1
  <2> HIDE DEF S, e, x
  <2> QED
    BY <2>1, StepDown
<1>3. x.st = "ok" /\ InRoot(x.path)
  OBVIOUS
<1> HIDE DEF S, r, e, next, k, x
<1>4. IsPart(e) /\ x = k /\ IsDirectory(k)
  <2>1. x = IF e.kind = "link" \/ (e.kind = "dir" /\ flag) THEN DirectoryInside(k)
            ELSE IF e.kind = "dir" THEN Resolved(next, e)
            ELSE Failed("InvalidPath")
    BY DEF x, ExistingComponent, k
  <2>2. CASE e.kind = "link" \/ (e.kind = "dir" /\ flag)
    <3>1. DirectoryInside(k).st = "ok"
      BY <1>3, <2>1, <2>2
    <3>2. DirectoryInside(k) = k /\ k.st = "ok" /\ k.entry.kind = "dir"
      BY <3>1 DEF DirectoryInside, Failed
    <3> QED
      BY <2>1, <2>2, <3>2 DEF IsPart, IsDirectory
  <2>3. CASE e.kind = "dir" /\ ~flag
    BY <1>2, <2>1, <2>3 DEF IsPart, IsDirectory, Resolved
  <2>4. CASE e.kind \notin {"dir", "link"}
    BY <1>3, <2>1, <2>4 DEF Failed
  <2> QED
    BY <2>2, <2>3, <2>4
<1>5. /\ k \in Results /\ k.path \in Paths /\ NoLinks(t)[k.path] = k /\ PlainDir(t, k.path)
      /\ Canonicalize(S, next) = k
  BY <1>1, <1>4, DirectoryLands DEF k, S
<1>6. PreviewInside(k, FALSE) = k
  BY <1>3, <1>4 DEF PreviewInside
<1> QED
  BY <1>1, <1>4, <1>5, <1>6 DEF S, r, e, next, k, x

\* Where the walk gets, the preview gets.
LEMMA EnsuredAhead ==
    ASSUME NEW t \in Tree, NEW p \in Paths, EnsureDir(t, p).st = "ok"
    PROVE  LET r == EnsureDir(t, p)
           IN  /\ r \in Results /\ r.path \in Paths /\ NoLinks(t)[r.path] = r /\ PlainDir(t, r.path)
               /\ Ahead(Skeleton(t), AtRoot)[p] = r
<1> DEFINE a == Ahead(Skeleton(t), AtRoot)
           Good == {q \in Paths : EnsureDir(t, q).st = "ok" =>
                      LET r == EnsureDir(t, q)
                      IN  /\ r \in Results /\ r.path \in Paths /\ NoLinks(t)[r.path] = r /\ PlainDir(t, r.path)
                          /\ a[q] = r}
<1>1. AtRoot \in Results /\ <<>> \in Paths /\ AtRoot.path = <<>> /\ IsDirectory(AtRoot)
  BY ResultsMade DEF Paths, AtRoot, Resolved, IsDirectory, DirEntry
<1>2. /\ a[<<>>] = AtRoot
      /\ \A x \in Paths : x # <<>> =>
           a[x] = PreviewComponent(Skeleton(t), a[Front(x)], Last(x), FALSE)
  BY <1>1, SkeletonOf, AheadUnfolds, ZenonT(40)
<1> HIDE DEF a
<1>3. <<>> \in Good
  BY <1>1, <1>2, EnsureDirUnfolds, NoLinksUnfolds DEF PlainDir
<1>4. ASSUME NEW x \in Paths, x # <<>>, Front(x) \in Good PROVE x \in Good
  <2> SUFFICES ASSUME EnsureDir(t, x).st = "ok" PROVE x \in Good
    OBVIOUS
  <2> DEFINE r == EnsureDir(t, Front(x))
             n == Last(x)
             next == Append(r.path, n)
             k == ExistingComponent(t, next, Lstat(t, next), TRUE)
  <2>1. Front(x) \in Paths /\ n \in Names
    BY <1>4, PathParts
  <2>2. EnsureDir(t, x) = EnsureComponent(t, r, n)
    BY <1>4, EnsureDirUnfolds
  <2>3. r.st = "ok"
    BY <2>2 DEF EnsureComponent
  <2>4. r \in Results /\ r.path \in Paths /\ NoLinks(t)[r.path] = r /\ PlainDir(t, r.path) /\ a[Front(x)] = r
    BY <1>4, <2>3
  <2>5. EnsureDir(t, x) = k /\ k.st = "ok" /\ InRoot(k.path)
    <3>1. EnsureComponent(t, r, n) = Ensured(t, next, Lstat(t, next))
      BY <2>3 DEF EnsureComponent
    <3> HIDE DEF r, next, k
    <3>2. Ensured(t, next, Lstat(t, next)).st = "ok"
      BY <2>2, <3>1
    <3>3. Ensured(t, next, Lstat(t, next)) = Allowed(k) /\ Allowed(k).st = "ok"
      BY <3>2 DEF Ensured, Failed, k
    <3> QED
      BY <2>2, <3>1, <3>3 DEF Allowed, Failed, IsPathDenied
  <2>6. a[x] = PreviewComponent(Skeleton(t), r, n, FALSE)
    BY <1>2, <1>4, <2>4
  <2>7. /\ k \in Results /\ k.path \in Paths /\ PlainDir(t, k.path) /\ NoLinks(t)[k.path] = k
        /\ PreviewComponent(Skeleton(t), NoLinks(t)[r.path], n, FALSE) = k
    <3> HIDE DEF r
    <3> QED
      BY <2>1, <2>4, <2>5, Passed, ZenonT(40)
  <2> HIDE DEF r, k, next
  <2> QED
    BY <2>4, <2>5, <2>6, <2>7
<1> HIDE DEF Good
<1>5. Paths \subseteq Good
  BY <1>3, <1>4, EverySequence DEF Paths
<1> QED
  BY <1>5 DEF Good, a

\* The preview of a tree with files is that of one without, if both pass.
LEMMA PreviewedAhead ==
    ASSUME NEW t \in Tree, NEW p \in Paths, NEW flag, PreviewParent(t, p, flag).st = "ok",
           Ahead(Skeleton(t), AtRoot)[p].st = "ok"
    PROVE  Ahead(Skeleton(t), AtRoot)[p] = PreviewParent(t, p, flag)
<1> DEFINE S == Skeleton(t)
           a == Ahead(S, AtRoot)
           v(q) == PreviewParent(t, q, flag)
           Good == {q \in Paths : v(q).st = "ok" /\ a[q].st = "ok" =>
                      /\ a[q] = v(q)
                      /\ a[q].entry = Absent
                           \/ (a[q].path \in Paths /\ NoLinks(t)[a[q].path] = a[q] /\ PlainDir(t, a[q].path))}
<1>1. AtRoot \in Results /\ <<>> \in Paths /\ AtRoot.path = <<>> /\ IsDirectory(AtRoot)
  BY ResultsMade DEF Paths, AtRoot, Resolved, IsDirectory, DirEntry
<1>2. /\ a[<<>>] = AtRoot
      /\ \A x \in Paths : x # <<>> => a[x] = PreviewComponent(S, a[Front(x)], Last(x), FALSE)
  BY <1>1, SkeletonOf, AheadUnfolds, ZenonT(40)
<1> HIDE DEF a
<1>3. <<>> \in Good
  BY <1>1, <1>2, PreviewParentUnfolds, NoLinksUnfolds DEF PlainDir
<1>4. ASSUME NEW x \in Paths, x # <<>>, Front(x) \in Good PROVE x \in Good
  <2> DEFINE r == v(Front(x))
             n == Last(x)
             next == Append(r.path, n)
  <2> SUFFICES ASSUME v(x).st = "ok", a[x].st = "ok"
               PROVE  /\ a[x] = v(x)
                      /\ a[x].entry = Absent
                           \/ (a[x].path \in Paths /\ NoLinks(t)[a[x].path] = a[x] /\ PlainDir(t, a[x].path))
    OBVIOUS
  <2>1. Front(x) \in Paths /\ n \in Names
    BY <1>4, PathParts
  <2>2. v(x) = PreviewComponent(t, r, n, flag) /\ a[x] = PreviewComponent(S, a[Front(x)], n, FALSE)
    BY <1>2, <1>4, PreviewParentUnfolds
  <2>3. r.st = "ok" /\ a[Front(x)].st = "ok"
    BY <2>2 DEF PreviewComponent
  <2>4. /\ a[Front(x)] = r
        /\ r.entry = Absent \/ (r.path \in Paths /\ NoLinks(t)[r.path] = r /\ PlainDir(t, r.path))
    BY <1>4, <2>3
  <2>5. CASE r.entry = Absent
    <3> HIDE DEF r
    <3>1. v(x) = Resolved(next, Absent) /\ a[x] = Resolved(next, Absent)
      BY <2>2, <2>3, <2>4, <2>5 DEF PreviewComponent
    <3> HIDE DEF next, v
    <3> QED
      BY <3>1 DEF Resolved
  <2>6. CASE r.entry # Absent
    <3> DEFINE e == Lstat(t, next)
               k == Canonicalize(t, next)
    <3> HIDE DEF r
    <3>1. r.path \in Paths /\ NoLinks(t)[r.path] = r /\ PlainDir(t, r.path)
      BY <2>4, <2>6
    <3>2. /\ next \in Paths /\ e \in Entry
          /\ a[x] = IF IsPart(e) THEN PreviewInside(Canonicalize(S, next), FALSE) ELSE Resolved(next, Absent)
      <4> DEFINE g == t[NoLinks(t)[r.path].entry.ino][n]
      <4>1. /\ next \in Paths /\ g \in Entry /\ e = g
            /\ PreviewComponent(S, NoLinks(t)[r.path], n, FALSE) =
                 IF IsPart(g) THEN PreviewInside(Canonicalize(S, next), FALSE) ELSE Resolved(next, Absent)
        BY <2>1, <3>1, Foreseen, ZenonT(40)
      <4> HIDE DEF e, g, next
      <4> QED
        BY <2>2, <2>4, <3>1, <4>1
    <3>3. v(x) = Previewed(t, next, e, flag)
      BY <2>2, <2>3, <2>6 DEF PreviewComponent
    <3> HIDE DEF next, e, v
    <3>4. e.kind \in {"absent", "file", "dir", "link"}
      BY <3>2, EntryKinds
    <3>5. e.kind # "file"
      BY <3>3 DEF Previewed, Failed
    <3>6. CASE e.kind = "absent"
      <4>1. v(x) = Resolved(next, Absent) /\ a[x] = Resolved(next, Absent)
        BY <3>2, <3>3, <3>6 DEF Previewed, IsPart
      <4> QED
        BY <4>1 DEF Resolved
    <3>7. CASE e.kind \in {"dir", "link"}
      <4>1. v(x) = PreviewInside(k, flag) /\ a[x] = PreviewInside(Canonicalize(S, next), FALSE)
        BY <3>2, <3>3, <3>7 DEF Previewed, IsPart
      <4> HIDE DEF S, k
      <4>2. v(x) = k /\ a[x] = Canonicalize(S, next) /\ Canonicalize(S, next).st = "ok"
        BY <4>1 DEF PreviewInside, Failed
      <4>3. IsDirectory(k) /\ k = Canonicalize(S, next)
        BY <3>2, <4>2, OnlyDirectories DEF S, k
      <4>4. k.path \in Paths /\ NoLinks(t)[k.path] = k /\ PlainDir(t, k.path)
        BY <3>2, <4>3, DirectoryLands DEF k
      <4> QED
        BY <4>2, <4>3, <4>4
    <3> QED
      BY <3>4, <3>5, <3>6, <3>7
  <2> QED
    BY <2>5, <2>6
<1> HIDE DEF Good
<1>5. Paths \subseteq Good
  BY <1>3, <1>4, EverySequence DEF Paths
<1> QED
  BY <1>5 DEF Good, a

\* What is checked before anything is created is where the walk will end.
LEMMA Foretelling ==
    ASSUME NEW t \in Tree, NEW p \in Paths, NEW create, NEW flag,
           ExpectedParent(t, p, create, flag).st = "ok", Ahead(Skeleton(t), AtRoot)[p].st = "ok"
    PROVE  Ahead(Skeleton(t), AtRoot)[p] = ExpectedParent(t, p, create, flag)
<1>1. \/ ExpectedParent(t, p, create, flag) = EnsureDir(t, p)
      \/ ExpectedParent(t, p, create, flag) = PreviewParent(t, p, flag)
  BY DEF ExpectedParent
<1> QED
  BY <1>1, EnsuredAhead, PreviewedAhead

\* --------------------------------------------------------- what a call sees
\* A call that does not run has nothing to see.
LEMMA Resting ==
    ASSUME NEW t, NEW s, s.pc \in {"idle", "done"},
           s.pc = "done" /\ s.res \in {"Denied", "OutsideRoot"} => s.made = {}
    PROVE  ViewInv(t, s)
BY Zenon DEF ViewInv, PlaceInv, AllowedInv, ForeInv, FreshInv, OnWalk, Placed, Running, Transfers

\* What others see stays true.
LEMMA OthersSee ==
    ASSUME IInv, SInv, IInv', NEW who, Overtakes(who), NEW k \in Calls \ who, op'[k] = op[k],
           k \notin disturbed'
    PROVE  ViewInv(Skeleton(fs'), op'[k])
<1>1. k \notin disturbed /\ ViewInv(Skeleton(fs), op[k])
  BY DEF Overtakes, SInv
<1>2. fs \in Tree /\ fs' \in Tree
  BY DEF IInv, TypeOK
<1>3. CASE op[k].pc \in {"idle", "done"}
  <2>1. op[k].pc = "done" /\ op[k].res \in {"Denied", "OutsideRoot"} => op[k].made = {}
    BY <1>1 DEF ViewInv, FreshInv
  <2>2. ViewInv(Skeleton(fs'), op[k])
    BY <1>3, <2>1, Resting
  <2> QED
    BY <2>2
<1>4. CASE op[k].pc \notin {"idle", "done"}
  <2>1. Structure(fs) = Structure(fs')
    BY <1>4 DEF Overtakes
  <2> QED
    BY <1>1, <1>2, <2>1, SameSkeleton
<1> QED
  BY <1>3, <1>4

\* A step of a call, after which it sees what s says.
LEMMA StepSees ==
    ASSUME IInv, SInv, IInv', NEW c \in Calls, NEW s, op' = [op EXCEPT ![c] = s], By(c),
           WellShaped(fs'), c \notin disturbed => ViewInv(Skeleton(fs'), s)
    PROVE  SInv'
<1>1. op \in [Calls -> State]
  BY DEF IInv, TypeOK
<1>2. op'[c] = s /\ \A k \in Calls \ {c} : op'[k] = op[k]
  <2> HIDE DEF State
  <2> QED
    BY <1>1
<1>3. disturbed \subseteq disturbed' /\ Overtakes({c})
  BY DEF By, Overtakes
<1>4. ASSUME NEW k \in Calls, k \notin disturbed' PROVE ViewInv(Skeleton(fs'), op'[k])
  <2>1. CASE k = c
    BY <1>2, <1>3, <1>4, <2>1
  <2>2. CASE k # c
    <3>1. k \in Calls \ {c} /\ op'[k] = op[k]
      BY <1>2, <2>2
    <3> HIDE DEF SInv, IInv, Overtakes
    <3> QED
      BY <1>3, <1>4, <3>1, OthersSee
  <2> QED
    BY <2>1, <2>2
<1> QED
  BY <1>4 DEF SInv

\* The removal of a temporary file changes no directory.
LEMMA WithoutTempShape ==
    ASSUME IInv, NEW c \in Calls, NEW t \in Tree, WellShaped(t)
    PROVE  WellShaped(WithoutTemp(t, c))
<1>1. ASSUME NEW d \in Dirs, WithoutTemp(t, c) = Put(t, d, c, Absent) PROVE WellShaped(WithoutTemp(t, c))
  <2> DEFINE u == Put(t, d, c, Absent)
  <2>1. /\ u \in Tree
        /\ \A k \in Dirs, m \in Names \cup Calls : u[k][m] = IF k = d /\ m = c THEN Absent ELSE t[k][m]
    BY EntriesMade, PutTree
  <2> HIDE DEF u
  <2>2. \A k \in Dirs, m \in Names : u[k][m] = t[k][m]
    BY <2>1, NamesApart
  <2>3. Structure(t) = Structure(u)
    BY <2>2 DEF Structure
  <2>4. OnlyFiles(u)
    BY <2>1 DEF OnlyFiles, WellShaped, Absent
  <2>5. WellShaped(u)
    BY <2>1, <2>3, <2>4, SameShape
  <2> QED
    BY <1>1, <2>5 DEF u
<1> QED
  BY <1>1, WithoutTempTree

\* A call returns.
LEMMA ReturnSees ==
    ASSUME IInv, SInv, IInv', NEW c \in Calls, NEW t \in Tree, WellShaped(t), NEW res, Return(c, t, res),
           c \notin disturbed /\ res \in {"Denied", "OutsideRoot"} => op[c].made = {}
    PROVE  SInv'
<1> DEFINE s == DoneWith(op[c].req, op[c].made, res)
<1>1. op' = [op EXCEPT ![c] = s] /\ By(c) /\ fs' = WithoutTemp(t, c)
  BY DEF Return, DoneWith
<1>2. s.pc = "done" /\ s.res = res /\ s.made = op[c].made
  BY DEF DoneWith, Idle
<1> HIDE DEF s
<1>3. WellShaped(fs')
  BY <1>1, WithoutTempShape
<1>4. c \notin disturbed => ViewInv(Skeleton(fs'), s)
  BY <1>2, Resting
<1> QED
  BY <1>1, <1>3, <1>4, StepSees

\* Or is refused.
LEMMA RefuseSees ==
    ASSUME IInv, SInv, IInv', NEW c \in Calls, NEW res, Refuse(c, res),
           c \notin disturbed /\ res \in {"Denied", "OutsideRoot"} => op[c].made = {}
    PROVE  SInv'
<1>1. fs \in Tree /\ WellShaped(fs)
  BY DEF IInv, TypeOK, SInv
<1> QED
  BY <1>1, ReturnSees DEF Refuse

\* Or goes on.
LEMMA GotoSees ==
    ASSUME IInv, SInv, IInv', NEW c \in Calls, NEW s, Goto(c, s),
           c \notin disturbed => ViewInv(Skeleton(fs), s)
    PROVE  SInv'
<1>1. op' = [op EXCEPT ![c] = s] /\ By(c) /\ fs' = fs
  BY DEF Goto
<1>2. WellShaped(fs') /\ (c \notin disturbed => ViewInv(Skeleton(fs'), s))
  BY <1>1 DEF SInv
<1> QED
  BY <1>1, <1>2, StepSees

\* What a call sees at its place stays true while it stays there.
LEMMA PlacedSees ==
    ASSUME NEW t, NEW s, NEW u, ViewInv(t, s), Running(s),
           u.at = s.at, u.path = s.path, u.from = s.from, u.req = s.req, u.create = s.create,
           u.made = s.made,
           \/ Placed(s) /\ Placed(u) /\ (s.pc = "inspect" => ~IsPathDenied(s.path))
           \/ s.req.op = "edit" /\ u.pc \in {"open", "stage", "recheck", "rename"}
    PROVE  ViewInv(t, u)
<1>1. Foretold(u) <=> Foretold(s)
  BY DEF Foretold
<1>2. CASE Placed(s) /\ Placed(u) /\ (s.pc = "inspect" => ~IsPathDenied(s.path))
  <2>1. Running(u) /\ ~OnWalk(u) /\ u.pc \notin {"source", "walk", "create", "created", "found", "done"}
    BY <1>2 DEF Placed, Running, OnWalk
  <2>2. PlaceInv(t, u)
    BY <1>2, <2>1 DEF ViewInv, PlaceInv, Transfers
  <2>3. AllowedInv(u)
    BY <1>1, <1>2, <2>1 DEF ViewInv, AllowedInv, Transfers
  <2>4. ForeInv(t, u) /\ FreshInv(t, u)
    BY <1>1, <1>2, <2>1, Zenon DEF ViewInv, ForeInv, FreshInv
  <2> QED
    BY <2>2, <2>3, <2>4 DEF ViewInv
<1>3. CASE s.req.op = "edit" /\ u.pc \in {"open", "stage", "recheck", "rename"}
  <2>1. Running(u) /\ ~OnWalk(u) /\ ~Placed(u) /\ ~Transfers(u)
        /\ u.pc \notin {"source", "walk", "create", "created", "found", "done"}
    BY <1>3 DEF Placed, Running, OnWalk, Transfers
  <2>2. PlaceInv(t, u)
    BY <1>3, <2>1 DEF ViewInv, PlaceInv
  <2>3. AllowedInv(u)
    BY <1>1, <1>3, <2>1 DEF ViewInv, AllowedInv
  <2>4. ForeInv(t, u) /\ FreshInv(t, u)
    BY <1>1, <1>3, <2>1, Zenon DEF ViewInv, ForeInv, FreshInv
  <2> QED
    BY <2>2, <2>3, <2>4 DEF ViewInv
<1> QED
  BY <1>2, <1>3

\* What a call sees when its walk goes on, or ends.
LEMMA WalkedSees ==
    ASSUME NEW t \in Tree, NEW s \in State, NEW at \in Paths, NEW rest \in Paths, PlainDir(t, at),
           s.req.op \in {"write", "mkdir", "move", "copy"},
           s.req.op \in {"move", "copy"} => PlainDir(t, Front(s.from)) /\ ~IsPathDenied(s.from),
           Foretold(s) => IF s.made = {}
                          THEN LET a == Ahead(t, NoLinks(t)[at])[rest]
                               IN  a.st = "ok" => ~IsPathDenied(Append(a.path, s.leaf))
                          ELSE ~IsPathDenied(Append(at \o rest, s.leaf)),
           s.made # {} => Foretold(s) /\ Bare(t, NoLinks(t)[at].entry.ino)
    PROVE  ViewInv(t, Walked(s, at, rest))
<1> DEFINE u == Walked(s, at, rest)
<1>1. CASE rest = <<>>
  <2>1. /\ u.pc = "inspect" /\ u.at = at /\ u.path = Append(at, s.leaf) /\ u.req = s.req /\ u.from = s.from
        /\ u.create = s.create /\ u.made = s.made
    BY <1>1 DEF Walked, State
  <2> HIDE DEF u
  <2>2. Foretold(u) <=> Foretold(s)
    BY <2>1 DEF Foretold
  <2>3. Foretold(s) => ~IsPathDenied(Append(at, s.leaf))
    <3>1. NoLinks(t)[at] \in Results /\ NoLinks(t)[at].st = "ok" /\ NoLinks(t)[at].path = at
      BY NoLinksUnfolds, Straight DEF PlainDir, IsDirectory
    <3>2. Ahead(t, NoLinks(t)[at])[rest] = NoLinks(t)[at]
      BY <1>1, <3>1, AheadUnfolds
    <3>3. at \o rest = at
      BY <1>1, Joined
    <3> QED
      BY <3>1, <3>2, <3>3
  <2>4. ~OnWalk(u) /\ Running(u) /\ Placed(u)
    BY <2>1 DEF OnWalk, Running, Placed
  <2>5. PlaceInv(t, u) /\ AllowedInv(u)
    BY <2>1, <2>2, <2>3, <2>4 DEF PlaceInv, AllowedInv, Transfers
  <2>6. ForeInv(t, u) /\ FreshInv(t, u)
    BY <2>1, <2>2, <2>4 DEF ForeInv, FreshInv
  <2> QED
    BY <2>5, <2>6 DEF ViewInv, u
<1>2. CASE rest # <<>>
  <2>1. /\ u.pc = "walk" /\ u.at = at /\ u.rest = rest /\ u.leaf = s.leaf /\ u.req = s.req
        /\ u.from = s.from /\ u.create = s.create /\ u.made = s.made
    BY <1>2 DEF Walked, State
  <2> HIDE DEF u
  <2>2. Foretold(u) <=> Foretold(s)
    BY <2>1 DEF Foretold
  <2>4. OnWalk(u) /\ Running(u) /\ ~Placed(u)
    BY <2>1 DEF OnWalk, Running, Placed
  <2>5. PlaceInv(t, u) /\ AllowedInv(u)
    BY <2>1, <2>2, <2>4 DEF PlaceInv, AllowedInv, Transfers
  <2>6. ForeInv(t, u)
    BY <2>1, <2>2 DEF ForeInv
  <2>7. FreshInv(t, u)
    BY <2>1, <2>2, <2>4 DEF FreshInv
  <2> QED
    BY <2>5, <2>6, <2>7 DEF ViewInv, u
<1> QED
  BY <1>1, <1>2

\* ------------------------------------------------- the walk sees its way
\* What an undisturbed call knows of the tree and its skeleton.
LEMMA Own ==
    ASSUME IInv, SInv, NEW c \in Calls
    PROVE  /\ fs \in Tree /\ WellShaped(fs) /\ Skeleton(fs) \in Tree
           /\ op[c] \in State /\ StateInv(op[c])
           /\ c \notin disturbed => ViewInv(Skeleton(fs), op[c])
BY StateTypes, SkeletonOf DEF SInv

\* In a directory with nothing but files there is no directory and no link.
LEMMA BareAhead ==
    ASSUME NEW t \in Tree, NEW p \in Paths, PlainDir(t, p), NEW n \in Names,
           Bare(Skeleton(t), NoLinks(Skeleton(t))[p].entry.ino)
    PROVE  Lstat(t, Append(p, n)).kind \in {"absent", "file"}
<1> DEFINE S == Skeleton(t)
           r == NoLinks(t)[p]
           d == r.entry.ino
           e == Lstat(t, Append(p, n))
<1>1. /\ d \in Dirs /\ e \in Entry /\ NoLinks(S)[p] = r
      /\ S[d][n] = IF IsPart(e) THEN e ELSE Absent
  <2>1. d \in Dirs /\ e = t[d][n] /\ t[d][n] \in Entry /\ NoLinks(S)[p] = r
    BY Sight, SkeletonShows, TreeEntry
  <2> HIDE DEF e
  <2>2. S[d][n] = IF IsPart(t[d][n]) THEN t[d][n] ELSE Absent
    BY <2>1, SkeletonOf
  <2> QED
    BY <2>1, <2>2
<1>2. Bare(S, d)
  BY <1>1
<1> HIDE DEF d, S, r, e
<1>3. ~IsPart(e)
  BY <1>1, <1>2 DEF Bare, IsPart
<1> QED
  BY <1>1, <1>3, EntryKinds DEF IsPart, e

\* What has been passed, by its name.
LEMMA PassedThrough ==
    ASSUME NEW t \in Tree, NEW p \in Paths, PlainDir(t, p), NEW n \in Names, NEW flag, NEW x,
           x = ExistingComponent(t, Append(p, n), Lstat(t, Append(p, n)), flag),
           x.st = "ok", InRoot(x.path)
    PROVE  /\ x \in Results /\ x.path \in Paths /\ PlainDir(t, x.path) /\ NoLinks(t)[x.path] = x
           /\ PreviewComponent(Skeleton(t), NoLinks(t)[p], n, FALSE) = x
<1> DEFINE k == ExistingComponent(t, Append(p, n), Lstat(t, Append(p, n)), flag)
<1>1. k.st = "ok" /\ InRoot(k.path)
  OBVIOUS
<1>2. /\ k \in Results /\ k.path \in Paths /\ PlainDir(t, k.path) /\ NoLinks(t)[k.path] = k
      /\ PreviewComponent(Skeleton(t), NoLinks(t)[p], n, FALSE) = k
  BY <1>1, Passed, ZenonT(40)
<1> HIDE DEF k
<1>3. x = k
  BY DEF k
<1> QED
  BY <1>2, <1>3

\* An undisturbed call on its walk.
LEMMA OnPlainWalk ==
    ASSUME IInv, SInv, NEW c \in Calls, c \notin disturbed, OnWalk(op[c])
    PROVE  LET s == op[c]
               r == NoLinks(fs)[s.at]
           IN  /\ PlainDir(fs, s.at) /\ PlainDir(Skeleton(fs), s.at) /\ NoLinks(Skeleton(fs))[s.at] = r
               /\ s.at \in Paths /\ s.rest \in Paths /\ s.rest # <<>> /\ s.leaf \in Names
               /\ Head(s.rest) \in Names /\ Tail(s.rest) \in Paths
               /\ Append(s.at, Head(s.rest)) \in Paths
               /\ Append(s.at, Head(s.rest)) \o Tail(s.rest) = s.at \o s.rest
<1> DEFINE s == op[c]
<1>1. s \in State /\ StateInv(s) /\ fs \in Tree /\ ViewInv(Skeleton(fs), s)
  BY Own
<1>2. /\ s.at \in Paths /\ s.rest \in Paths /\ s.rest # <<>> /\ s.leaf \in Names
      /\ Head(s.rest) \in Names /\ Tail(s.rest) \in Paths
      /\ Append(s.at, Head(s.rest)) \in Paths
  BY <1>1, Fields, OnItsWalk DEF OnWalk
<1>3. PlainDir(Skeleton(fs), s.at)
  BY <1>1 DEF ViewInv, PlaceInv
<1>4. PlainDir(fs, s.at) /\ NoLinks(Skeleton(fs))[s.at] = NoLinks(fs)[s.at]
  BY <1>1, <1>2, <1>3, SkeletonShows
<1>5. Append(s.at, Head(s.rest)) \o Tail(s.rest) = s.at \o s.rest
  BY <1>2, Joined
<1> QED
  BY <1>2, <1>3, <1>4, <1>5, Zenon

\* Before it creates anything it goes on where the preview went.
LEMMA GoesOn ==
    ASSUME IInv, SInv, NEW c \in Calls, c \notin disturbed, OnWalk(op[c]), op[c].made = {}, NEW flag,
           LET next == Append(op[c].at, Head(op[c].rest))
               x == ExistingComponent(fs, next, Lstat(fs, next), flag)
           IN  x.st = "ok" /\ ~IsPathDenied(x.path)
    PROVE  LET next == Append(op[c].at, Head(op[c].rest))
               x == ExistingComponent(fs, next, Lstat(fs, next), flag)
           IN  ViewInv(Skeleton(fs), Walked(op[c], x.path, Tail(op[c].rest)))
<1> DEFINE s == op[c]
           S == Skeleton(fs)
           n == Head(s.rest)
           next == Append(s.at, n)
           x == ExistingComponent(fs, next, Lstat(fs, next), flag)
<1>1. s \in State /\ StateInv(s) /\ fs \in Tree /\ S \in Tree /\ ViewInv(S, s)
  BY Own
<1>2. /\ PlainDir(fs, s.at) /\ NoLinks(S)[s.at] = NoLinks(fs)[s.at]
      /\ s.at \in Paths /\ s.rest \in Paths /\ s.rest # <<>> /\ n \in Names /\ Tail(s.rest) \in Paths
  BY OnPlainWalk, Zenon
<1>3. x.st = "ok" /\ InRoot(x.path)
  BY DEF IsPathDenied
<1> DEFINE at == s.at
<1>13. at = s.at
  OBVIOUS
<1>12. /\ fs \in Tree /\ at \in Paths /\ PlainDir(fs, at) /\ n \in Names
       /\ x = ExistingComponent(fs, Append(at, n), Lstat(fs, Append(at, n)), flag)
  BY <1>1, <1>2
<1> HIDE DEF n, x, s, at
<1>4. /\ x \in Results /\ x.path \in Paths /\ PlainDir(fs, x.path) /\ NoLinks(fs)[x.path] = x
      /\ PreviewComponent(S, NoLinks(fs)[s.at], n, FALSE) = x
  <2>1. /\ x \in Results /\ x.path \in Paths /\ PlainDir(fs, x.path) /\ NoLinks(fs)[x.path] = x
        /\ PreviewComponent(S, NoLinks(fs)[at], n, FALSE) = x
    BY ONLY <1>3, <1>12, PassedThrough, ZenonT(40)
  <2> QED
    BY <1>13, <2>1
<1> USE DEF s
<1>5. PlainDir(S, x.path) /\ NoLinks(S)[x.path] = x
  BY <1>1, <1>4, SkeletonShows
<1>6. NoLinks(S)[s.at] \in Results
  BY <1>1, <1>2, NoLinksUnfolds
<1> HIDE DEF S, next, n
<1>11. PreviewComponent(S, NoLinks(S)[s.at], Head(s.rest), FALSE) = x
  BY <1>2, <1>4 DEF n
<1>7. Ahead(S, NoLinks(S)[s.at])[s.rest] = Ahead(S, x)[Tail(s.rest)]
  BY <1>1, <1>2, <1>11, <1>6, AheadShifts
<1>8. /\ s.req.op \in {"write", "mkdir", "move", "copy"}
      /\ s.req.op \in {"move", "copy"} => PlainDir(S, Front(s.from)) /\ ~IsPathDenied(s.from)
  <2>1. s.req.op \in {"write", "mkdir", "move", "copy"} /\ Running(s)
    BY <1>1, OnItsWalk DEF OnWalk, Running
  <2> QED
    BY <1>1, <2>1 DEF ViewInv, PlaceInv, AllowedInv, Transfers
<1>9. Foretold(s) => LET a == Ahead(S, NoLinks(S)[x.path])[Tail(s.rest)]
                     IN  a.st = "ok" => ~IsPathDenied(Append(a.path, s.leaf))
  BY <1>1, <1>5, <1>7 DEF ViewInv, ForeInv
<1>10. ViewInv(S, Walked(s, x.path, Tail(s.rest)))
  BY <1>1, <1>2, <1>4, <1>5, <1>8, <1>9, WalkedSees
<1> QED
  BY <1>10 DEF S, x, next, n

\* After that nothing on its way is denied.
LEMMA NothingDenied ==
    ASSUME DeniedClosed, IInv, SInv, NEW c \in Calls, c \notin disturbed, OnWalk(op[c]), op[c].made # {}
    PROVE  ~IsPathDenied(Append(op[c].at, Head(op[c].rest)))
<1> DEFINE s == op[c]
           next == Append(s.at, Head(s.rest))
<1>1. ViewInv(Skeleton(fs), s) /\ Running(s)
  BY Own, SMTT(20) DEF OnWalk, Running
<1>2. ~IsPathDenied(Append(s.at \o s.rest, s.leaf))
  BY <1>1, Zenon DEF ViewInv, ForeInv, FreshInv
<1>3. next \in Paths /\ Tail(s.rest) \in Paths /\ next \o Tail(s.rest) = s.at \o s.rest /\ s.leaf \in Names
  BY OnPlainWalk
<1> HIDE DEF next
<1>4. next \o Tail(s.rest) \in Paths
  BY <1>3, Joined
<1>5. ~IsPathDenied(next \o Tail(s.rest))
  BY <1>2, <1>3, <1>4, DeniedBelow
<1>6. ~IsPathDenied(next)
  BY <1>3, <1>5, DeniedAbove
<1> QED
  BY <1>6 DEF next

\* ensure_dir_under_root on one component.
LEMMA WalkComponentSees ==
    ASSUME DeniedClosed, IInv, SInv, IInv', NEW c \in Calls, WalkComponent(c)
    PROVE  SInv'
<1> DEFINE s    == op[c]
           S    == Skeleton(fs)
           next == Append(s.at, Head(s.rest))
           e    == Lstat(fs, next)
           x    == ExistingComponent(fs, next, e, ~s.create)
           pid  == DirectoryAt(fs, s.at)
           u    == [s EXCEPT !.pc = "create", !.pid = pid]
<1>1. s \in State /\ StateInv(s) /\ fs \in Tree /\ s.pc = "walk" /\ OnWalk(s)
      /\ (c \notin disturbed => ViewInv(S, s))
  BY Own, Zenon DEF WalkComponent, OnWalk
<1>2. ASSUME c \notin disturbed, s.made # {} PROVE e.kind \in {"absent", "file"} /\ ~IsPathDenied(next)
  <2>1. PlainDir(fs, s.at) /\ s.at \in Paths /\ Head(s.rest) \in Names
    BY <1>1, <1>2, OnPlainWalk
  <2>2. Bare(S, NoLinks(S)[s.at].entry.ino)
    BY <1>1, <1>2 DEF ViewInv, FreshInv
  <2> QED
    BY <1>1, <1>2, <2>1, <2>2, BareAhead, NothingDenied
<1>3. e.kind = "file" => x = Failed("InvalidPath")
  BY DEF ExistingComponent
<1> HIDE DEF e, x, pid, S
<1>4. \/ \E res \in {"InvalidPath", "Io", "NotFound"} : Refuse(c, res)
      \/ e.kind = "absent" /\ IsPathDenied(next) /\ Refuse(c, "Denied")
      \/ s.create /\ ~IsPathDenied(next) /\ Goto(c, u)
      \/ e.kind \notin {"error", "absent"} /\ x.st # "ok" /\ Refuse(c, x.st)
      \/ e.kind \notin {"error", "absent"} /\ x.st = "ok" /\ IsPathDenied(x.path) /\ Refuse(c, "Denied")
      \/ e.kind \notin {"error", "absent"} /\ x.st = "ok" /\ ~IsPathDenied(x.path)
         /\ Goto(c, Walked(s, x.path, Tail(s.rest)))
  BY Zenon DEF WalkComponent, e, x, pid
<1>5. CASE \E res \in {"InvalidPath", "Io", "NotFound"} : Refuse(c, res)
  BY <1>5, RefuseSees
<1>6. CASE e.kind = "absent" /\ IsPathDenied(next) /\ Refuse(c, "Denied")
  BY <1>2, <1>6, RefuseSees
<1>7. CASE s.create /\ ~IsPathDenied(next) /\ Goto(c, u)
  <2>1. /\ u.pc = "create" /\ u.at = s.at /\ u.rest = s.rest /\ u.leaf = s.leaf /\ u.req = s.req
        /\ u.from = s.from /\ u.create = s.create /\ u.made = s.made /\ u.path = s.path
    BY <1>1 DEF State
  <2>2. Goto(c, u)
    BY <1>7
  <2> HIDE DEF u
  <2>3. ASSUME c \notin disturbed PROVE ViewInv(S, u)
    <3>1. /\ OnWalk(u) /\ Running(u) /\ ~Placed(u) /\ Running(s) /\ ~Placed(s) /\ (Foretold(u) <=> Foretold(s))
          /\ (Transfers(u) <=> Transfers(s)) /\ u.pc # "source"
      BY <1>1, <2>1 DEF OnWalk, Running, Placed, Foretold, Transfers
    <3>2. PlaceInv(S, u)
      BY <1>1, <2>1, <2>3, <3>1 DEF ViewInv, PlaceInv
    <3>3. AllowedInv(u)
      BY <1>1, <1>7, <2>1, <2>3, <3>1 DEF ViewInv, AllowedInv
    <3>4. ForeInv(S, u)
      BY <1>1, <2>1, <2>3, <3>1 DEF ViewInv, ForeInv
    <3>5. FreshInv(S, u)
      BY <1>1, <1>7, <2>1, <2>3, <3>1 DEF ViewInv, FreshInv, Foretold
    <3> QED
      BY <3>2, <3>3, <3>4, <3>5 DEF ViewInv
  <2> QED
    BY <2>2, <2>3, GotoSees DEF S
<1>8. CASE e.kind \notin {"error", "absent"} /\ x.st # "ok" /\ Refuse(c, x.st)
  BY <1>2, <1>3, <1>8, RefuseSees DEF Failed
<1>9. CASE e.kind \notin {"error", "absent"} /\ x.st = "ok" /\ IsPathDenied(x.path) /\ Refuse(c, "Denied")
  BY <1>2, <1>3, <1>9, RefuseSees DEF Failed
<1>10. CASE e.kind \notin {"error", "absent"} /\ x.st = "ok" /\ ~IsPathDenied(x.path)
            /\ Goto(c, Walked(s, x.path, Tail(s.rest)))
  <2>1. ASSUME c \notin disturbed PROVE ViewInv(S, Walked(s, x.path, Tail(s.rest)))
    <3>1. s.made = {}
      BY <1>2, <1>3, <1>10, <2>1 DEF Failed
    <3> QED
      BY <1>1, <1>10, <2>1, <3>1, GoesOn, Zenon DEF S, x, e
  <2> QED
    BY <1>10, <2>1, GotoSees DEF S
<1> QED
  BY <1>4, <1>5, <1>6, <1>7, <1>8, <1>9, <1>10

\* What a call that runs carries along.
LEMMA Carried ==
    ASSUME NEW t, NEW s \in State, ViewInv(t, s), StateInv(s), OnWalk(s)
    PROVE  /\ Running(s) /\ s.req.op \in {"write", "mkdir", "move", "copy"}
           /\ s.req.op \in {"move", "copy"} => PlainDir(t, Front(s.from)) /\ ~IsPathDenied(s.from)
           /\ s.made # {} => Foretold(s) /\ ~IsPathDenied(Append(s.at \o s.rest, s.leaf))
<1>1. s.req.op \in {"write", "mkdir", "move", "copy"} /\ Running(s)
  BY OnItsWalk DEF OnWalk, Running
<1>2. s.req.op \in {"move", "copy"} => PlainDir(t, Front(s.from)) /\ ~IsPathDenied(s.from)
  BY <1>1 DEF ViewInv, PlaceInv, AllowedInv, Transfers
<1>3. s.made # {} => Foretold(s)
  BY <1>1, Zenon DEF ViewInv, FreshInv
<1>4. s.made # {} => ~IsPathDenied(Append(s.at \o s.rest, s.leaf))
  BY <1>3 DEF ViewInv, ForeInv
<1> QED
  BY <1>1, <1>2, <1>3, <1>4

\* The directory it has created is where it goes on.
LEMMA Entered ==
    ASSUME DeniedClosed, IInv, SInv, NEW c \in Calls, c \notin disturbed, op[c].pc = "created"
    PROVE  LET next == Append(op[c].at, Head(op[c].rest))
           IN  /\ Lstat(fs, next).kind = "dir" /\ ~IsPathDenied(next)
               /\ ViewInv(Skeleton(fs), Walked(op[c], next, Tail(op[c].rest)))
<1> DEFINE s == op[c]
           S == Skeleton(fs)
           n == Head(s.rest)
           next == Append(s.at, n)
           d == NoLinks(fs)[s.at].entry.ino
           i == S[d][n]
<1>1. s \in State /\ StateInv(s) /\ fs \in Tree /\ S \in Tree /\ ViewInv(S, s) /\ OnWalk(s)
  BY Own DEF OnWalk
<1>2. /\ PlainDir(fs, s.at) /\ PlainDir(S, s.at) /\ NoLinks(S)[s.at] = NoLinks(fs)[s.at]
      /\ s.at \in Paths /\ n \in Names /\ Tail(s.rest) \in Paths
      /\ next \in Paths /\ next \o Tail(s.rest) = s.at \o s.rest
  BY <1>1, OnPlainWalk
<1>3. /\ s.made # {} /\ i.kind = "dir" /\ Bare(S, i.ino)
  BY <1>1, <1>2, Zenon DEF ViewInv, FreshInv
<1>4. Lstat(fs, next).kind = "dir"
  <2>1. d \in Dirs /\ Lstat(fs, next) = fs[d][n]
    <3>1. fs \in Tree /\ PlainDir(fs, s.at) /\ s.at \in Paths /\ n \in Names
      BY <1>1, <1>2, Zenon
    <3> HIDE DEF s, n, S, i
    <3> QED
      BY ONLY <3>1, Sight DEF d, next
  <2>2. i = IF n \in Names /\ IsPart(fs[d][n]) THEN fs[d][n] ELSE Absent
    BY <1>1, <1>2, <2>1, SkeletonOf, Zenon
  <2> HIDE DEF i
  <2> QED
    BY <1>3, <2>1, <2>2, Zenon DEF Absent
<1>5. ~IsPathDenied(next)
  BY <1>1, <1>3, NothingDenied, Zenon
<1>6. PlainDir(S, next) /\ NoLinks(S)[next].entry = i
  <2> DEFINE at == s.at
  <2>1. S \in Tree /\ at \in Paths /\ PlainDir(S, at) /\ n \in Names /\ i = S[NoLinks(S)[at].entry.ino][n]
        /\ next = Append(at, n)
    BY <1>1, <1>2
  <2> HIDE DEF at, n, i, S, next, s
  <2>2. NoLinks(S)[next] = Resolved(next, i)
    BY ONLY <1>3, <2>1, StepDown, Zenon
  <2> QED
    BY <1>3, <2>2 DEF PlainDir, IsDirectory, Resolved
<1>7. ViewInv(S, Walked(s, next, Tail(s.rest)))
  <2> HIDE DEF S, i, s, next
  <2>1. s.made # {} /\ Bare(S, NoLinks(S)[next].entry.ino) /\ ~IsPathDenied(Append(next \o Tail(s.rest), s.leaf))
        /\ Foretold(s)
    BY <1>1, <1>2, <1>3, <1>6, Carried
  <2>2. /\ s.req.op \in {"write", "mkdir", "move", "copy"}
        /\ s.req.op \in {"move", "copy"} => PlainDir(S, Front(s.from)) /\ ~IsPathDenied(s.from)
    BY <1>1, Carried
  <2> QED
    BY <1>1, <1>2, <1>6, <2>1, <2>2, WalkedSees
<1> QED
  BY <1>4, <1>5, <1>7

\* create_parents once it has created a component, or found it.
LEMMA CheckCreatedSees ==
    ASSUME DeniedClosed, IInv, SInv, IInv', NEW c \in Calls, CheckCreated(c)
    PROVE  SInv'
<1> DEFINE s    == op[c]
           S    == Skeleton(fs)
           next == Append(s.at, Head(s.rest))
           e    == Lstat(fs, next)
           x    == ExistingComponent(fs, next, e, FALSE)
           changed == ~SameDirectory(fs, s.at, s.pid) \/ (s.pc = "created" /\ e.kind # "dir")
           refusal == IF e.kind = "absent" THEN "NotFound"
                      ELSE IF changed THEN "InvalidPath"
                      ELSE IF x.st # "ok" THEN x.st
                      ELSE IF IsPathDenied(x.path) THEN "Denied"
                      ELSE "none"
           u    == Walked(s, x.path, Tail(s.rest))
<1>1. s.pc \in {"created", "found"} /\ OnWalk(s)
  BY DEF CheckCreated, OnWalk
<1>2. IF refusal # "none" THEN Refuse(c, refusal) ELSE Goto(c, u)
  BY Zenon DEF CheckCreated
<1>3. e.kind = "dir" => x = Resolved(next, e)
  BY DEF ExistingComponent
<1>4. e.kind = "file" => x = Failed("InvalidPath")
  BY DEF ExistingComponent
<1>5. ASSUME c \notin disturbed, s.pc = "created" 
      PROVE  e.kind = "dir" /\ ~IsPathDenied(next) /\ ViewInv(S, Walked(s, next, Tail(s.rest)))
  BY <1>5, Entered
<1>6. ASSUME c \notin disturbed, s.pc = "found", s.made # {} PROVE e.kind \in {"absent", "file"}
  <2> DEFINE at == s.at
             n  == Head(s.rest)
  <2>1. PlainDir(fs, at) /\ at \in Paths /\ n \in Names /\ fs \in Tree
    BY <1>1, <1>6, OnPlainWalk, Own
  <2>2. Bare(S, NoLinks(S)[at].entry.ino)
    BY <1>6, Own, Zenon DEF ViewInv, FreshInv
  <2> HIDE DEF at, n
  <2>3. Lstat(fs, Append(at, n)).kind \in {"absent", "file"}
    BY <2>1, <2>2, BareAhead
  <2> QED
    BY <2>3 DEF at, n
<1>7. ASSUME c \notin disturbed, s.pc = "found", s.made = {}, refusal = "none" PROVE ViewInv(S, u)
  <2>1. x.st # "none"
    <3>1. next \in Paths /\ e \in Entry \cup {Other} /\ fs \in Tree
      BY <1>1, <1>7, OnPlainWalk, Own, LstatType, PathParts, FrontOfAppend DEF Paths
    <3> HIDE DEF s, S, e, next
    <3>2. x \in Results
      BY <3>1, ExistingType
    <3> QED
      BY <3>2, ResultParts DEF Statuses
  <2>2. x.st = "ok" /\ ~IsPathDenied(x.path)
    <3> HIDE DEF s, S, e, x, next, changed
    <3> QED
      BY <1>7, <2>1
  <2> QED
    BY <1>1, <1>7, <2>2, GoesOn
<1> HIDE DEF s, S, e, x, next, changed
<1>8. ASSUME c \notin disturbed, refusal \in {"Denied", "OutsideRoot"} PROVE s.made = {}
  BY <1>1, <1>3, <1>4, <1>5, <1>6, <1>8 DEF Resolved, Failed
<1>9. ASSUME c \notin disturbed, refusal = "none" PROVE ViewInv(S, u)
  <2>1. CASE s.pc = "created"
    BY <1>3, <1>5, <1>9, <2>1 DEF Resolved
  <2>2. CASE s.pc = "found" /\ s.made = {}
    BY <1>7, <1>9, <2>2
  <2>3. CASE s.pc = "found" /\ s.made # {}
    BY <1>4, <1>6, <1>9, <2>3 DEF Failed
  <2> QED
    BY <1>1, <2>1, <2>2, <2>3
<1> HIDE DEF refusal, u
<1>10. CASE Refuse(c, refusal)
  BY <1>8, <1>10, RefuseSees DEF s
<1>11. CASE refusal = "none" /\ Goto(c, u)
  BY <1>9, <1>11, GotoSees DEF S
<1> QED
  BY <1>2, <1>10, <1>11

\* The identity of a new directory is nobody's.
LEMMA NewFresh ==
    ASSUME IInv, DirSpace
    PROVE  Fresh(fs, NewDir)
<1>1. NewDir \in Dirs /\ NewDir \notin UsedDirs
  BY DEF DirSpace, NewDir
<1>2. NewDir # Root
  BY <1>1 DEF UsedDirs
<1>3. ASSUME NEW d \in Dirs, NEW n \in Names, fs[d][n] = DirEntry(NewDir) PROVE FALSE
  <2>1. fs[d][n].kind = "dir" /\ fs[d][n].ino = NewDir /\ fs[d][n] \in Entries(fs)
    BY <1>3 DEF DirEntry, Entries
  <2> QED
    BY <1>1, <2>1 DEF UsedDirs
<1> QED
  BY <1>1, <1>2, <1>3 DEF Fresh

\* What a new directory changes of what is seen.
LEMMA MadeView ==
    ASSUME NEW t \in Tree, WellShaped(t), NEW d \in Dirs, Live(t, d), NEW n \in Names,
           t[d][n].kind = "absent", NEW k, Fresh(t, k)
    PROVE  LET u == Put(t, d, n, DirEntry(k))
           IN  /\ u \in Tree /\ WellShaped(u) /\ Skeleton(u)[d][n] = DirEntry(k) /\ Bare(Skeleton(u), k)
               /\ \A p \in Paths : PlainDir(Skeleton(t), p) =>
                    PlainDir(Skeleton(u), p) /\ NoLinks(Skeleton(u))[p] = NoLinks(Skeleton(t))[p]
               /\ \A x \in Dirs : Bare(Skeleton(t), x) /\ x # d => Bare(Skeleton(u), x)
<1> DEFINE u == Put(t, d, n, DirEntry(k))
           S == Skeleton(t)
           U == Skeleton(u)
<1>1. /\ u \in Tree
      /\ \A x \in Dirs, m \in Names \cup Calls : u[x][m] = IF x = d /\ m = n THEN DirEntry(k) ELSE t[x][m]
  <2>1. DirEntry(k) \in Entry /\ n \in Names \cup Calls
    BY EntriesMade DEF Fresh
  <2> QED
    BY <2>1, PutTree
<1>2. WellShaped(u)
  BY MadeShape
<1> HIDE DEF u
<1>3. /\ S \in Tree /\ U \in Tree
      /\ \A x \in Dirs, m \in Names : S[x][m] = IF IsPart(t[x][m]) THEN t[x][m] ELSE Absent
      /\ \A x \in Dirs, m \in Names : U[x][m] = IF IsPart(u[x][m]) THEN u[x][m] ELSE Absent
  BY <1>1, SkeletonOf
<1>4. IsPart(DirEntry(k)) /\ ~IsPart(t[d][n]) /\ ~IsPart(Absent)
  BY DEF IsPart, DirEntry, Absent
<1> HIDE DEF S, U
<1>5. \A x \in Dirs, m \in Names : U[x][m] = IF x = d /\ m = n THEN DirEntry(k) ELSE S[x][m]
  BY <1>1, <1>3, <1>4
<1>6. S[d][n] = Absent
  BY <1>3, <1>4
<1>7. \A x \in Dirs, m \in Names : S[x][m].kind = "dir" => U[x][m] = S[x][m]
  BY <1>5, <1>6 DEF Absent
<1>8. \A p \in Paths : PlainDir(S, p) => PlainDir(U, p) /\ NoLinks(U)[p] = NoLinks(S)[p]
  BY <1>3, <1>7, Grown
<1>9. Bare(U, k)
  <2>1. k \in Dirs /\ ~Live(t, k)
    BY DEF Fresh, Live
  <2>2. k # d /\ Bare(t, k)
    BY <2>1 DEF WellShaped
  <2>3. ASSUME NEW m \in Names PROVE U[k][m].kind \notin {"dir", "link"}
    BY <1>3, <1>4, <1>5, <2>1, <2>2 DEF Bare, IsPart
  <2> QED
    BY <2>3 DEF Bare
<1>10. \A x \in Dirs : Bare(S, x) /\ x # d => Bare(U, x)
  BY <1>5 DEF Bare
<1> QED
  BY <1>1, <1>2, <1>5, <1>8, <1>9, <1>10 DEF u, S, U

\* What the call has previewed is what it creates.
LEMMA MissingAllowed ==
    ASSUME IInv, SInv, NEW c \in Calls, c \notin disturbed, OnWalk(op[c]), Foretold(op[c]),
           ~IsPart(fs[NoLinks(fs)[op[c].at].entry.ino][Head(op[c].rest)])
    PROVE  ~IsPathDenied(Append(op[c].at \o op[c].rest, op[c].leaf))
<1> DEFINE s == op[c]
           S == Skeleton(fs)
           at == s.at
           rest == s.rest
           n == Head(rest)
           r == NoLinks(S)[at]
           next == Append(at, n)
<1>1. s \in State /\ StateInv(s) /\ fs \in Tree /\ S \in Tree /\ ViewInv(S, s)
  BY Own, Zenon
<1>2. CASE s.made # {}
  BY <1>1, <1>2, Carried, Zenon
<1>3. CASE s.made = {}
  <2>1. /\ PlainDir(fs, at) /\ NoLinks(S)[at] = NoLinks(fs)[at]
        /\ at \in Paths /\ rest \in Paths /\ rest # <<>> /\ n \in Names /\ Tail(rest) \in Paths
        /\ next \in Paths /\ next \o Tail(rest) = at \o rest
    BY OnPlainWalk, Zenon
  <2>2. ~IsPart(fs[NoLinks(fs)[at].entry.ino][n])
    BY Zenon
  <2>3. LET a == Ahead(S, r)[rest] IN a.st = "ok" => ~IsPathDenied(Append(a.path, s.leaf))
    BY <1>1, <1>3, Zenon DEF ViewInv, ForeInv
  <2>4. fs \in Tree /\ S \in Tree
    BY <1>1, Zenon
  <2> HIDE DEF at, rest, n, s
  <2>5. PreviewComponent(S, NoLinks(fs)[at], n, FALSE) = Resolved(next, Absent) /\ NoLinks(fs)[at] \in Results
    BY ONLY <2>1, <2>2, <2>4, Foreseen
  <2> HIDE DEF S, next
  <2>6. Ahead(S, r)[rest] = Ahead(S, Resolved(next, Absent))[Tail(rest)]
    <3>1. PreviewComponent(S, r, Head(rest), FALSE) = Resolved(next, Absent)
      BY <2>1, <2>5, Zenon DEF n
    <3>2. r \in Results
      BY <2>1, <2>5, Zenon
    <3> HIDE DEF r
    <3> QED
      BY ONLY <2>1, <2>4, <3>1, <3>2, AheadShifts
  <2> HIDE DEF r
  <2>7. Ahead(S, r)[rest] = Resolved(at \o rest, Absent)
    <3>1. Ahead(S, Resolved(next, Absent))[Tail(rest)] = Resolved(next \o Tail(rest), Absent)
      BY ONLY <2>1, <2>4, MissingAhead
    <3> QED
      BY <2>1, <2>6, <3>1, Zenon
  <2>8. ~IsPathDenied(Append(at \o rest, s.leaf))
    <3>1. Ahead(S, r)[rest].st = "ok" /\ Ahead(S, r)[rest].path = at \o rest
      BY ONLY <2>7 DEF Resolved
    <3> QED
      BY <2>3, <3>1, Zenon
  <2> QED
    BY <2>8, Zenon DEF at, rest, s
<1> QED
  BY <1>2, <1>3, Zenon

\* create_dir of a missing component.
LEMMA CreateComponentSees ==
    ASSUME DeniedClosed, IInv, SInv, IInv', NEW c \in Calls, CreateComponent(c)
    PROVE  SInv'
<1> DEFINE s    == op[c]
           S    == Skeleton(fs)
           n    == Head(s.rest)
           next == Append(s.at, n)
           dir  == Holder(fs, next)
           k    == NewDir
           u    == [s EXCEPT !.pc = "created", !.made = @ \cup {k}]
           v    == [s EXCEPT !.pc = "found"]
<1>1. /\ s \in State /\ StateInv(s) /\ fs \in Tree /\ s.pc = "create" /\ OnWalk(s) /\ WellShaped(fs)
      /\ (c \notin disturbed => ViewInv(S, s)) /\ op \in [Calls -> State]
  BY Own, Zenon DEF CreateComponent, OnWalk, IInv, TypeOK
<1>2. n \in Names /\ s.at \in Paths /\ next \in Paths /\ Front(next) = s.at /\ Last(next) = n
  BY <1>1, OnItsWalk, Fields
<1>3. dir.kind = "dir" => dir.ino \in Dirs
  BY <1>1, <1>2, HolderType
<1>4. \/ Refuse(c, "Io")
      \/ Goto(c, v)
      \/ /\ dir.kind = "dir" /\ fs[dir.ino][n].kind = "absent" /\ DirSpace
         /\ fs' = Put(fs, dir.ino, n, DirEntry(k))
         /\ op' = [op EXCEPT ![c].pc = "created", ![c].made = @ \cup {k}]
         /\ By(c)
  BY <1>2, Zenon DEF CreateComponent
<1>5. CASE Refuse(c, "Io")
  BY <1>5, RefuseSees
<1>6. CASE Goto(c, v)
  <2>1. /\ v.pc = "found" /\ v.at = s.at /\ v.rest = s.rest /\ v.leaf = s.leaf /\ v.req = s.req
        /\ v.from = s.from /\ v.create = s.create /\ v.made = s.made
    BY <1>1 DEF State
  <2>2. Goto(c, v)
    BY <1>6
  <2> HIDE DEF v
  <2>3. ASSUME c \notin disturbed PROVE ViewInv(S, v)
    <3>1. /\ OnWalk(v) /\ Running(v) /\ ~Placed(v) /\ (Foretold(v) <=> Foretold(s))
          /\ (Transfers(v) <=> Transfers(s)) /\ Running(s) /\ s.req.op # "edit"
      BY <1>1, <2>1, Carried, <2>3 DEF OnWalk, Running, Placed, Foretold, Transfers
    <3>2. PlaceInv(S, v)
      BY <1>1, <2>1, <2>3, <3>1 DEF ViewInv, PlaceInv
    <3>3. AllowedInv(v)
      BY <1>1, <2>1, <2>3, <3>1 DEF ViewInv, AllowedInv
    <3>4. ForeInv(S, v)
      BY <1>1, <2>1, <2>3, <3>1 DEF ViewInv, ForeInv
    <3>5. FreshInv(S, v)
      BY <1>1, <2>1, <2>3, <3>1, SMTT(20) DEF ViewInv, FreshInv
    <3> QED
      BY <3>2, <3>3, <3>4, <3>5 DEF ViewInv
  <2> QED
    BY <2>2, <2>3, GotoSees DEF S
<1>7. CASE /\ dir.kind = "dir" /\ fs[dir.ino][n].kind = "absent" /\ DirSpace
           /\ fs' = Put(fs, dir.ino, n, DirEntry(k))
           /\ op' = [op EXCEPT ![c].pc = "created", ![c].made = @ \cup {k}]
           /\ By(c)
  <2> DEFINE T == Skeleton(fs')
             d == dir.ino
  <2>1. d \in Dirs /\ Live(fs, d) /\ Fresh(fs, k) /\ fs[d][n].kind = "absent"
    BY <1>1, <1>2, <1>3, <1>7, HolderLive, NewFresh, Zenon
  <2>2. op' = [op EXCEPT ![c] = u]
    BY <1>1, <1>7, Zenon
  <2>3. /\ u.pc = "created" /\ u.at = s.at /\ u.rest = s.rest /\ u.leaf = s.leaf /\ u.req = s.req
        /\ u.from = s.from /\ u.create = s.create /\ u.made = s.made \cup {k}
    BY <1>1 DEF State
  <2> HIDE DEF u, k
  <2>4. /\ WellShaped(fs') /\ T[d][n] = DirEntry(k) /\ Bare(T, k)
        /\ \A p \in Paths : PlainDir(S, p) => PlainDir(T, p) /\ NoLinks(T)[p] = NoLinks(S)[p]
    <3> HIDE DEF d, n
    <3>1. fs' = Put(fs, d, n, DirEntry(k))
      BY <1>7, Zenon DEF d, n
    <3> QED
      BY <1>1, <1>2, <2>1, <3>1, MadeView
  <2>5. ASSUME c \notin disturbed PROVE ViewInv(T, u)
    <3>1. ViewInv(S, s) /\ Running(s) /\ s.req.op \in {"write", "mkdir", "move", "copy"}
      BY <1>1, <2>5, Carried
    <3>2. /\ OnWalk(u) /\ Running(u) /\ ~Placed(u) /\ (Foretold(u) <=> Foretold(s))
          /\ (Transfers(u) <=> Transfers(s)) /\ s.req.op # "edit" /\ u.made # {}
      BY <1>1, <2>3, <3>1 DEF OnWalk, Running, Placed, Foretold, Transfers
    <3>3. PlainDir(S, s.at) /\ PlainDir(fs, s.at) /\ NoLinks(S)[s.at] = NoLinks(fs)[s.at]
      BY <1>1, <2>5, OnPlainWalk
    <3>4. d = NoLinks(fs)[s.at].entry.ino
      <4> DEFINE at == s.at
      <4>1. fs \in Tree /\ at \in Paths /\ PlainDir(fs, at) /\ n \in Names /\ d = Holder(fs, Append(at, n)).ino
        BY <1>1, <1>2, <3>3
      <4> HIDE DEF at, n, d, s
      <4>2. d = NoLinks(fs)[at].entry.ino
        BY ONLY <4>1, Sight
      <4> QED
        BY <4>2 DEF at
    <3>5. s.create /\ Foretold(s)
      BY <1>1, <3>1 DEF ViewInv, FreshInv, Foretold
    <3> HIDE DEF T, S, d, s
    <3>6. Transfers(s) => PlainDir(T, Front(s.from))
      <4>1. ASSUME Transfers(s) PROVE PlainDir(S, Front(s.from)) /\ Front(s.from) \in Paths
        <5>1. s.from # <<>> /\ s.from \in Paths
          BY <1>1, <4>1, OnItsWalk, Fields DEF Transfers
        <5> QED
          BY <3>1, <4>1, <5>1, PathParts DEF ViewInv, PlaceInv
      <4> QED
        BY <2>4, <4>1
    <3>7. PlaceInv(T, u)
      BY <1>2, <2>3, <2>4, <3>2, <3>3, <3>6 DEF PlaceInv
    <3>8. AllowedInv(u)
      BY <1>1, <2>3, <3>1, <3>2 DEF ViewInv, AllowedInv
    <3>9. ForeInv(T, u)
      <4>1. ~IsPart(fs[NoLinks(fs)[s.at].entry.ino][Head(s.rest)])
        BY <2>1, <3>4, Zenon DEF IsPart
      <4>2. ~IsPathDenied(Append(s.at \o s.rest, s.leaf))
        BY <1>1, <2>5, <3>5, <4>1, MissingAllowed, Zenon DEF s
      <4> QED
        BY <2>3, <3>2, <4>2 DEF ForeInv
    <3>10. FreshInv(T, u)
      <4>1. NoLinks(T)[u.at].entry.ino = d
        BY <1>2, <2>3, <2>4, <3>3, <3>4
      <4>2. T[d][Head(u.rest)].kind = "dir" /\ Bare(T, T[d][Head(u.rest)].ino)
        BY <2>3, <2>4 DEF DirEntry
      <4>3. u.create /\ Foretold(u) /\ u.pc = "created" /\ u.made # {}
        BY <2>3, <3>2, <3>5
      <4> QED
        BY <4>1, <4>2, <4>3 DEF FreshInv
    <3> QED
      BY <3>7, <3>8, <3>9, <3>10 DEF ViewInv
  <2> QED
    BY <1>7, <2>2, <2>4, <2>5, StepSees, Zenon DEF T
<1> QED
  BY <1>4, <1>5, <1>6, <1>7, Zenon

\* ------------------------------------------------ a call begins and looks on
\* The root is a plain directory.
LEMMA RootPlain ==
    ASSUME NEW t \in Tree
    PROVE  <<>> \in Paths /\ PlainDir(t, <<>>) /\ NoLinks(t)[<<>>] = AtRoot
<1>1. <<>> \in Paths
  BY DEF Paths
<1>2. NoLinks(t)[<<>>] = AtRoot
  BY <1>1, NoLinksUnfolds
<1> QED
  BY <1>1, <1>2 DEF PlainDir, IsDirectory, AtRoot, Resolved, DirEntry

\* A refused request leaves nothing to see.
LEMMA RefusalSees ==
    ASSUME IInv, SInv, IInv', NEW c \in Calls, NEW r, NEW res,
           Goto(c, [Idle EXCEPT !.pc = "done", !.req = r, !.res = res])
    PROVE  SInv'
<1> DEFINE u == [Idle EXCEPT !.pc = "done", !.req = r, !.res = res]
<1>1. u.pc = "done" /\ u.made = {}
  BY DEF Idle
<1> HIDE DEF u
<1>2. ViewInv(Skeleton(fs), u)
  BY <1>1, Resting
<1> QED
  BY <1>2, GotoSees DEF u

\* write_file and mkdir begin.
LEMMA BeginSees ==
    ASSUME IInv, SInv, IInv', NEW c \in Calls, NEW r \in Request, r.op \in {"write", "mkdir"}, NEW large,
           Begin(c, r, large)
    PROVE  SInv'
<1> DEFINE lex     == ResolveLexically(r.path)
           leaf    == Last(lex.path)
           preview == ExpectedParent(fs, Front(lex.path), r.parents, TRUE)
           u0      == [Idle EXCEPT !.req = r, !.leaf = leaf, !.create = r.parents]
           S       == Skeleton(fs)
<1>1. r.path \in Segments /\ r.parents \in BOOLEAN /\ op[c].pc = "idle" /\ fs \in Tree /\ S \in Tree
  BY RequestKinds, Own DEF Begin
<1>2. lex \in Results /\ lex.st \in Statuses /\ lex.path \in Paths
  BY <1>1, ResolveLexicallyType, ResultParts
<1> HIDE DEF lex
<1>3. lex.path # <<>> => Front(lex.path) \in Paths /\ leaf \in Names /\ preview.st \in Statuses
  BY <1>1, <1>2, PathParts, ResolvedTypes, ResultParts
<1> HIDE DEF leaf, preview
<1>4. \/ \E res : Goto(c, [Idle EXCEPT !.pc = "done", !.req = r, !.res = res])
      \/ /\ lex.path # <<>> /\ preview.st = "ok" /\ ~IsPathDenied(Append(preview.path, leaf))
         /\ Goto(c, Walked(u0, <<>>, Front(lex.path)))
  <2> USE DEF lex, leaf, preview
  <2> QED
    BY <1>2, <1>3, Zenon DEF Begin, Statuses
<1>5. CASE \E res : Goto(c, [Idle EXCEPT !.pc = "done", !.req = r, !.res = res])
  BY <1>5, RefusalSees
<1>6. CASE /\ lex.path # <<>> /\ preview.st = "ok" /\ ~IsPathDenied(Append(preview.path, leaf))
           /\ Goto(c, Walked(u0, <<>>, Front(lex.path)))
  <2>1. u0 \in State /\ u0.req = r /\ u0.leaf = leaf /\ u0.made = {}
    BY <1>1, <1>3, <1>6, IdleState DEF State, Idle
  <2>2. <<>> \in Paths /\ PlainDir(S, <<>>) /\ NoLinks(S)[<<>>] = AtRoot
    BY <1>1, RootPlain
  <2> DEFINE rest == Front(lex.path)
             a    == Ahead(S, AtRoot)[rest]
  <2>3. a.st = "ok" => a = preview
    <3>1. preview = ExpectedParent(fs, rest, r.parents, TRUE)
      BY DEF preview
    <3>2. rest \in Paths /\ fs \in Tree
      BY <1>1, <1>3, <1>6
    <3> HIDE DEF rest
    <3> QED
      BY <1>6, <3>1, <3>2, Foretelling
  <2> HIDE DEF u0, S, a, rest
  <2>4. a.st = "ok" => ~IsPathDenied(Append(a.path, u0.leaf))
    BY <1>6, <2>1, <2>3
  <2>5. LET k == Ahead(S, NoLinks(S)[<<>>])[rest] IN k.st = "ok" => ~IsPathDenied(Append(k.path, u0.leaf))
    BY <2>2, <2>4 DEF a
  <2>6. rest \in Paths /\ u0.req.op \in {"write", "mkdir"}
    BY <1>3, <1>6, <2>1 DEF rest
  <2>7. ViewInv(S, Walked(u0, <<>>, rest))
    BY <1>1, <2>1, <2>2, <2>5, <2>6, WalkedSees
  <2> QED
    BY <1>6, <2>7, GotoSees DEF S, rest
<1> QED
  BY <1>4, <1>5, <1>6

\* edit_range and apply_unified_patch begin.
LEMMA BeginEditSees ==
    ASSUME IInv, SInv, IInv', NEW c \in Calls, NEW r \in Request, BeginEdit(c, r)
    PROVE  SInv'
<1> DEFINE lex == ResolveLexically(r.path)
           k   == CanonicalPathInRoot(fs, lex.path)
           u   == [Idle EXCEPT !.pc = "read", !.req = r, !.path = k.path]
           S   == Skeleton(fs)
<1>1. r.op = "edit" /\ r.path \in Segments /\ op[c].pc = "idle" /\ fs \in Tree /\ S \in Tree
  BY RequestKinds, Own DEF BeginEdit
<1>2. lex \in Results /\ lex.st \in Statuses /\ lex.path \in Paths
  BY <1>1, ResolveLexicallyType, ResultParts
<1> HIDE DEF lex
<1>3. k.st \in Statuses /\ k.path \in Paths
  BY <1>1, <1>2, ResolvedTypes, ResultParts
<1>4. k.st = "ok" => k = Canonicalize(fs, lex.path) /\ ~IsPathDenied(k.path)
  <2>1. ClassifyNotFoundEscape(fs, lex.path) \in Statuses
    BY <1>1, <1>2, ClassifyNotFoundEscapeType
  <2> QED
    BY <2>1 DEF CanonicalPathInRoot, InRootOrRefused, Failed
<1> HIDE DEF k
<1>5. \/ \E res : Goto(c, [Idle EXCEPT !.pc = "done", !.req = r, !.res = res])
      \/ k.st = "ok" /\ Goto(c, u)
  <2> USE DEF lex, k
  <2> QED
    BY <1>2, <1>3 DEF BeginEdit, Statuses
<1>6. CASE \E res : Goto(c, [Idle EXCEPT !.pc = "done", !.req = r, !.res = res])
  BY <1>6, RefusalSees
<1>7. CASE k.st = "ok" /\ Goto(c, u)
  <2>1. u.pc = "read" /\ u.req = r /\ u.path = k.path /\ u.made = {}
    BY DEF Idle
  <2> HIDE DEF u
  <2>2. k.path # <<>> => PlainDir(S, Front(k.path))
    <3>1. NoLinks(fs)[k.path] = k
      BY <1>1, <1>2, <1>4, <1>7, Landing DEF Canonical
    <3>2. k.path # <<>> => Front(k.path) \in Paths /\ PlainDir(fs, Front(k.path))
      BY <1>1, <1>3, <1>7, <3>1, StepUp
    <3> QED
      BY <1>1, <3>2, SkeletonShows
  <2>3. /\ ~OnWalk(u) /\ ~Placed(u) /\ ~Transfers(u)
        /\ u.pc \notin {"source", "walk", "create", "created", "found", "done", "inspect"}
    BY <1>1, <2>1 DEF OnWalk, Placed, Transfers
  <2>4. PlaceInv(S, u)
    BY <2>1, <2>2, <2>3 DEF PlaceInv
  <2>5. AllowedInv(u)
    BY <1>4, <1>7, <2>1, <2>3 DEF AllowedInv
  <2>6. ForeInv(S, u) /\ FreshInv(S, u)
    BY <2>1, <2>3 DEF ForeInv, FreshInv
  <2>7. ViewInv(S, u)
    BY <2>4, <2>5, <2>6 DEF ViewInv
  <2> QED
    BY <1>7, <2>7, GotoSees
<1> QED
  BY <1>5, <1>6, <1>7

\* move_path and copy_file begin.
LEMMA BeginTransferSees ==
    ASSUME IInv, SInv, IInv', NEW c \in Calls, NEW r \in Request, BeginTransfer(c, r)
    PROVE  SInv'
<1> DEFINE from == ResolveLexically(r.from)
           to   == ResolveLexically(r.to)
           fp   == EnsureDir(fs, Front(from.path))
           tp   == EnsureDir(fs, Front(to.path))
           missing == tp.st = "NotFound" /\ r.parents
           source  == Append(fp.path, Last(from.path))
           u == [Idle EXCEPT !.pc = "source", !.req = r, !.from = source, !.at = tp.path,
                             !.create = missing, !.leaf = Last(to.path)]
           S == Skeleton(fs)
<1>1. /\ r.op \in {"move", "copy"} /\ r.from \in Segments /\ r.to \in Segments /\ r.parents \in BOOLEAN
      /\ op[c].pc = "idle" /\ fs \in Tree /\ S \in Tree
  BY RequestKinds, Own DEF BeginTransfer
<1>2. from.st \in Statuses /\ from.path \in Paths /\ to.st \in Statuses /\ to.path \in Paths
  BY <1>1, ResolveLexicallyType, ResultParts
<1> HIDE DEF from, to
<1>3. <<>> \notin {from.path, to.path} => Front(from.path) \in Paths /\ Front(to.path) \in Paths
  BY <1>2, PathParts
<1>4. <<>> \notin {from.path, to.path} => fp.st \in Statuses /\ tp.st \in Statuses
  BY <1>1, <1>3, EnsureDirType, ResultParts
<1>5. /\ <<>> \notin {from.path, to.path} /\ fp.st = "ok" => PlainDir(S, fp.path) /\ fp.path \in Paths
      /\ <<>> \notin {from.path, to.path} /\ tp.st = "ok" => PlainDir(S, tp.path)
  <2>1. /\ <<>> \notin {from.path, to.path} /\ fp.st = "ok" => PlainDir(fs, fp.path) /\ fp.path \in Paths
        /\ <<>> \notin {from.path, to.path} /\ tp.st = "ok" => PlainDir(fs, tp.path) /\ tp.path \in Paths
    BY <1>1, <1>3, EnsuredAhead
  <2> QED
    BY <1>1, <2>1, SkeletonShows
<1> HIDE DEF fp, tp
<1>6. \/ \E res : Goto(c, [Idle EXCEPT !.pc = "done", !.req = r, !.res = res])
      \/ /\ <<>> \notin {from.path, to.path} /\ fp.st = "ok" /\ (tp.st = "ok" \/ missing)
         /\ ~IsPathDenied(source) /\ Goto(c, u)
  <2> USE DEF from, to, fp, tp
  <2> HIDE DEF source
  <2>1. \/ \E res : Goto(c, [Idle EXCEPT !.pc = "done", !.req = r, !.res = res])
        \/ /\ <<>> \notin {from.path, to.path} /\ fp.st = "ok" /\ (tp.st = "ok" \/ missing)
           /\ ~IsPathDenied(source) /\ Goto(c, u)
    BY <1>2, <1>4, Zenon DEF BeginTransfer, Statuses, source
  <2> QED
    BY <2>1
<1>7. CASE \E res : Goto(c, [Idle EXCEPT !.pc = "done", !.req = r, !.res = res])
  BY <1>7, RefusalSees
<1>8. CASE /\ <<>> \notin {from.path, to.path} /\ fp.st = "ok" /\ (tp.st = "ok" \/ missing)
           /\ ~IsPathDenied(source) /\ Goto(c, u)
  <2>1. Front(source) = fp.path
    BY <1>5, <1>8, FrontOfAppend DEF Paths
  <2> HIDE DEF source, missing
  <2>2. /\ u.pc = "source" /\ u.req = r /\ u.from = source /\ u.at = tp.path /\ u.create = missing
        /\ u.made = {}
    BY DEF Idle
  <2> HIDE DEF u
  <2>3. ~OnWalk(u) /\ ~Placed(u) /\ u.req.op # "edit"
    BY <1>1, <2>2 DEF OnWalk, Placed
  <2>4. PlaceInv(S, u)
    BY <1>5, <1>8, <2>1, <2>2, <2>3 DEF PlaceInv
  <2>5. AllowedInv(u)
    BY <1>8, <2>2, <2>3 DEF AllowedInv
  <2>6. ForeInv(S, u) /\ FreshInv(S, u)
    BY <2>2, <2>3 DEF ForeInv, FreshInv
  <2>7. ViewInv(S, u)
    BY <2>4, <2>5, <2>6 DEF ViewInv
  <2> QED
    BY <1>8, <2>7, GotoSees
<1> QED
  BY <1>6, <1>7, <1>8

\* They look at their source.
LEMMA TakeSourceSees ==
    ASSUME IInv, SInv, IInv', NEW c \in Calls, TakeSource(c)
    PROVE  SInv'
<1> DEFINE s       == op[c]
           r       == s.req
           to      == NormalizeLexical(r.to)
           e       == Lstat(fs, s.from)
           pid     == DirectoryAt(fs, Front(s.from))
           preview == ExpectedParent(fs, Front(to), s.create, FALSE)
           taken   == [s EXCEPT !.src = e, !.fromPid = pid]
           S       == Skeleton(fs)
<1>1. /\ s \in State /\ StateInv(s) /\ fs \in Tree /\ S \in Tree /\ s.pc = "source"
      /\ (c \notin disturbed => ViewInv(S, s))
  BY Own DEF TakeSource
<1>2. /\ r \in Request /\ r.op \in {"move", "copy"} /\ s.leaf \in Names
      /\ s.from # <<>> /\ to \in Paths \ {<<>>}
  BY <1>1 DEF StateInv, RequestInv, WalkInv, TargetInv, SourceInv, ResultInv, OperationsAt, Running
<1>3. s.at \in Paths /\ s.from \in Paths /\ Front(s.from) \in Paths /\ Last(s.from) \in Names
  BY <1>1, <1>2, Fields, PathParts
<1>4. Front(to) \in Paths /\ preview.st \in Statuses
  BY <1>1, <1>2, PathParts, ResolvedTypes, ResultParts
<1>5. e \in Entry \cup {Other} /\ pid \in Directory \cup {NoDir}
  BY <1>1, <1>3, LstatType, DirectoryAtType
<1> HIDE DEF e, pid, preview, to
<1>6. \/ \E res : Refuse(c, res)
      \/ /\ e.kind \notin {"absent", "error"}
         /\ preview.st = "ok" /\ ~IsPathDenied(Append(preview.path, s.leaf))
         /\ \/ s.create /\ Goto(c, Walked(taken, <<>>, Front(to)))
            \/ ~s.create /\ Goto(c, Walked(taken, s.at, <<>>))
  <2> USE DEF e, pid, preview, to
  <2> QED
    BY <1>4 DEF TakeSource, Statuses
<1>7. CASE \E res : Refuse(c, res)
  <2>1. c \notin disturbed => s.made = {}
    BY <1>1 DEF ViewInv, FreshInv
  <2> QED
    BY <1>7, <2>1, RefuseSees
<1>8. CASE /\ e.kind \notin {"absent", "error"}
           /\ preview.st = "ok" /\ ~IsPathDenied(Append(preview.path, s.leaf))
           /\ \/ s.create /\ Goto(c, Walked(taken, <<>>, Front(to)))
              \/ ~s.create /\ Goto(c, Walked(taken, s.at, <<>>))
  <2>1. e \in Entry
    BY <1>5, <1>8 DEF Other
  <2>2. /\ taken \in State /\ taken.req = r /\ taken.leaf = s.leaf /\ taken.from = s.from
        /\ taken.made = s.made /\ taken.create = s.create
    BY <1>1, <1>2, <1>5, <2>1 DEF State
  <2> HIDE DEF taken
  <2>3. ASSUME c \notin disturbed
        PROVE  /\ taken.made = {} /\ PlainDir(S, Front(taken.from)) /\ ~IsPathDenied(taken.from)
               /\ ~s.create => PlainDir(S, s.at)
    <3>1. Transfers(s) /\ ViewInv(S, s)
      BY <1>1, <1>2, <2>3 DEF Transfers, Running
    <3> QED
      BY <1>1, <2>2, <3>1 DEF ViewInv, PlaceInv, AllowedInv, FreshInv
  <2>4. CASE s.create /\ Goto(c, Walked(taken, <<>>, Front(to)))
    <3> DEFINE rest == Front(to)
               a    == Ahead(S, AtRoot)[rest]
    <3>1. <<>> \in Paths /\ PlainDir(S, <<>>) /\ NoLinks(S)[<<>>] = AtRoot
      BY <1>1, RootPlain
    <3>2. a.st = "ok" => a = preview
      <4> DEFINE create == s.create
      <4>1. preview = ExpectedParent(fs, rest, create, FALSE)
        BY DEF preview
      <4>2. rest \in Paths /\ fs \in Tree
        BY <1>1, <1>4
      <4> HIDE DEF rest, create
      <4> QED
        BY <1>8, <4>1, <4>2, Foretelling
    <3> HIDE DEF S, a, rest
    <3>3. LET k == Ahead(S, NoLinks(S)[<<>>])[rest] IN k.st = "ok" => ~IsPathDenied(Append(k.path, taken.leaf))
      BY <1>8, <2>2, <3>1, <3>2 DEF a
    <3>4. c \notin disturbed => ViewInv(S, Walked(taken, <<>>, rest))
      BY <1>1, <1>2, <1>4, <2>2, <2>3, <3>1, <3>3, WalkedSees DEF rest
    <3> QED
      BY <2>4, <3>4, GotoSees DEF S, rest
  <2>5. CASE ~s.create /\ Goto(c, Walked(taken, s.at, <<>>))
    <3>1. <<>> \in Paths /\ ~Foretold(taken)
      BY <1>2, <2>2, <2>5 DEF Paths, Foretold
    <3> HIDE DEF S
    <3>2. c \notin disturbed => ViewInv(S, Walked(taken, s.at, <<>>))
      BY <1>1, <1>2, <1>3, <2>2, <2>3, <2>5, <3>1, WalkedSees
    <3> QED
      BY <2>5, <3>2, GotoSees DEF S
  <2> QED
    BY <1>8, <2>4, <2>5
<1> QED
  BY <1>6, <1>7, <1>8

\* A call that is placed goes on at its place.
LEMMA OnwardSees ==
    ASSUME IInv, SInv, IInv', NEW c \in Calls, NEW u, Goto(c, u), Running(op[c]),
           u.at = op[c].at, u.path = op[c].path, u.from = op[c].from, u.req = op[c].req,
           u.create = op[c].create, u.made = op[c].made,
           \/ Placed(op[c]) /\ Placed(u) /\ (op[c].pc = "inspect" =>
                \/ ~IsPathDenied(op[c].path)
                \/ Foretold(op[c]))
           \/ op[c].req.op = "edit" /\ u.pc \in {"open", "stage", "recheck", "rename"}
    PROVE  SInv'
<1> DEFINE s == op[c]
           S == Skeleton(fs)
<1>1. ASSUME c \notin disturbed PROVE ViewInv(S, u)
  <2>1. ViewInv(S, s)
    BY <1>1, Own
  <2>2. Placed(s) /\ s.pc = "inspect" /\ Foretold(s) => ~IsPathDenied(s.path)
    BY <2>1 DEF ViewInv, AllowedInv
  <2> HIDE DEF S, s
  <2>3. /\ Running(s) /\ u.at = s.at /\ u.path = s.path /\ u.from = s.from /\ u.req = s.req
        /\ u.create = s.create /\ u.made = s.made
        /\ \/ Placed(s) /\ Placed(u) /\ (s.pc = "inspect" => ~IsPathDenied(s.path))
           \/ s.req.op = "edit" /\ u.pc \in {"open", "stage", "recheck", "rename"}
    BY <2>2 DEF s
  <2> QED
    BY <2>1, <2>3, PlacedSees
<1> QED
  BY <1>1, GotoSees

\* write_file looks at its destination.
LEMMA InspectWriteSees ==
    ASSUME IInv, SInv, IInv', NEW c \in Calls, InspectWrite(c)
    PROVE  SInv'
<1> DEFINE s   == op[c]
           pid == DirectoryAt(fs, s.at)
           e   == Lstat(fs, s.path)
           u   == [s EXCEPT !.pc = "verify", !.pid = pid, !.target = e]
<1>1. s \in State /\ s.pc = "inspect" /\ s.req.op = "write" /\ Placed(s) /\ Running(s) /\ Foretold(s)
  BY Own DEF InspectWrite, Placed, Running, Foretold
<1>2. (\E res \in {"InvalidPath", "Exists"} : Refuse(c, res)) \/ Goto(c, u)
  BY DEF InspectWrite
<1>3. CASE \E res \in {"InvalidPath", "Exists"} : Refuse(c, res)
  BY <1>3, RefuseSees
<1>4. CASE Goto(c, u)
  <2>1. /\ u.pc = "verify" /\ u.at = s.at /\ u.path = s.path /\ u.from = s.from /\ u.req = s.req
        /\ u.create = s.create /\ u.made = s.made
    BY <1>1 DEF State
  <2>2. Goto(c, u)
    BY <1>4
  <2> HIDE DEF u
  <2>3. Placed(u)
    BY <2>1 DEF Placed
  <2> QED
    BY <1>1, <2>1, <2>2, <2>3, OnwardSees
<1> QED
  BY <1>2, <1>3, <1>4

\* verify_parent_identity.
LEMMA VerifyParentSees ==
    ASSUME IInv, SInv, IInv', NEW c \in Calls, VerifyParent(c)
    PROVE  SInv'
<1> DEFINE s == op[c]
           u == [s EXCEPT !.pc = "stage"]
<1>1. s \in State /\ StateInv(s) /\ s.pc = "verify" /\ Placed(s) /\ Running(s) /\ s.req.op # "edit"
  BY Own, PlacedFacts DEF VerifyParent, Placed, Running
<1>2. Refuse(c, "InvalidPath") \/ Goto(c, u)
  BY DEF VerifyParent
<1>3. CASE Refuse(c, "InvalidPath")
  BY <1>3, RefuseSees
<1>4. CASE Goto(c, u)
  <2>1. /\ u.pc = "stage" /\ u.at = s.at /\ u.path = s.path /\ u.from = s.from /\ u.req = s.req
        /\ u.create = s.create /\ u.made = s.made
    BY <1>1 DEF State
  <2>2. Goto(c, u)
    BY <1>4
  <2> HIDE DEF u
  <2>3. Placed(u)
    BY <1>1, <2>1 DEF Placed
  <2> QED
    BY <1>1, <2>1, <2>2, <2>3, OnwardSees
<1> QED
  BY <1>2, <1>3, <1>4

\* The file to edit is read.
LEMMA ReadForEditSees ==
    ASSUME IInv, SInv, IInv', NEW c \in Calls, ReadForEdit(c)
    PROVE  SInv'
<1> DEFINE s == op[c]
           u == [s EXCEPT !.pc = "open", !.target = Lstat(fs, s.path)]
<1>1. s \in State /\ StateInv(s) /\ s.pc = "read" /\ Running(s) /\ s.req.op = "edit"
  BY Own DEF ReadForEdit, Running, StateInv, RequestInv, OperationsAt
<1>2. (\E res \in {"InvalidPath", "NotFound", "FileTooLarge", "ok"} : Refuse(c, res)) \/ Goto(c, u)
  BY DEF ReadForEdit
<1>3. CASE \E res \in {"InvalidPath", "NotFound", "FileTooLarge", "ok"} : Refuse(c, res)
  BY <1>3, RefuseSees
<1>4. CASE Goto(c, u)
  <2>1. /\ u.pc = "open" /\ u.at = s.at /\ u.path = s.path /\ u.from = s.from /\ u.req = s.req
        /\ u.create = s.create /\ u.made = s.made
    BY <1>1 DEF State
  <2>2. Goto(c, u)
    BY <1>4
  <2> HIDE DEF u
  <2> QED
    BY <1>1, <2>1, <2>2, OnwardSees
<1> QED
  BY <1>2, <1>3, <1>4

\* And opened for writing.
LEMMA OpenForWriteSees ==
    ASSUME IInv, SInv, IInv', NEW c \in Calls, OpenForWrite(c)
    PROVE  SInv'
<1> DEFINE s == op[c]
           u == [s EXCEPT !.pc = "stage"]
<1>1. s \in State /\ StateInv(s) /\ s.pc = "open" /\ Running(s) /\ s.req.op = "edit"
  BY Own DEF OpenForWrite, Running, StateInv, RequestInv, OperationsAt
<1>2. (\E res \in {"InvalidPath", "NotFound"} : Refuse(c, res)) \/ Goto(c, u)
  BY DEF OpenForWrite
<1>3. CASE \E res \in {"InvalidPath", "NotFound"} : Refuse(c, res)
  BY <1>3, RefuseSees
<1>4. CASE Goto(c, u)
  <2>1. /\ u.pc = "stage" /\ u.at = s.at /\ u.path = s.path /\ u.from = s.from /\ u.req = s.req
        /\ u.create = s.create /\ u.made = s.made
    BY <1>1 DEF State
  <2>2. Goto(c, u)
    BY <1>4
  <2> HIDE DEF u
  <2> QED
    BY <1>1, <2>1, <2>2, OnwardSees
<1> QED
  BY <1>2, <1>3, <1>4

\* The checks before the rename.
LEMMA RecheckSees ==
    ASSUME IInv, SInv, IInv', NEW c \in Calls, NEW kind, NEW unchanged, Recheck(c, kind, unchanged)
    PROVE  SInv'
<1> DEFINE s == op[c]
           u == [s EXCEPT !.pc = "rename"]
<1>1. s \in State /\ s.pc = "recheck" /\ Running(s) /\ (s.req.op # "edit" => Placed(s))
  BY Own DEF Recheck, Running, Placed
<1>2. Refuse(c, "InvalidPath") \/ Goto(c, u)
  BY DEF Recheck
<1>3. CASE Refuse(c, "InvalidPath")
  BY <1>3, RefuseSees
<1>4. CASE Goto(c, u)
  <2>1. /\ u.pc = "rename" /\ u.at = s.at /\ u.path = s.path /\ u.from = s.from /\ u.req = s.req
        /\ u.create = s.create /\ u.made = s.made
    BY <1>1 DEF State
  <2>2. Goto(c, u)
    BY <1>4
  <2> HIDE DEF u
  <2>3. s.req.op # "edit" => Placed(u)
    BY <2>1 DEF Placed
  <2> QED
    BY <1>1, <2>1, <2>2, <2>3, OnwardSees
<1> QED
  BY <1>2, <1>3, <1>4

\* move_path looks at its destination.
LEMMA InspectMoveSees ==
    ASSUME IInv, SInv, IInv', NEW c \in Calls, InspectMove(c)
    PROVE  SInv'
<1> DEFINE s   == op[c]
           pid == DirectoryAt(fs, s.at)
           why == DestinationRefusal(c, Lstat(fs, s.path))
           u   == [s EXCEPT !.pc = "revalidate", !.pid = pid]
<1>1. s \in State /\ s.pc = "inspect" /\ s.req.op = "move" /\ Placed(s) /\ Running(s)
  BY Own DEF InspectMove, Placed, Running
<1>2. why \notin {"Denied", "OutsideRoot"}
  BY DEF DestinationRefusal
<1> HIDE DEF why
<1>3. (\E res : res \notin {"Denied", "OutsideRoot"} /\ Refuse(c, res)) \/ (~IsPathDenied(s.path) /\ Goto(c, u))
  BY <1>2 DEF InspectMove, why
<1>4. CASE \E res : res \notin {"Denied", "OutsideRoot"} /\ Refuse(c, res)
  BY <1>4, RefuseSees
<1>5. CASE ~IsPathDenied(s.path) /\ Goto(c, u)
  <2>1. /\ u.pc = "revalidate" /\ u.at = s.at /\ u.path = s.path /\ u.from = s.from /\ u.req = s.req
        /\ u.create = s.create /\ u.made = s.made
    BY <1>1 DEF State
  <2>2. Goto(c, u)
    BY <1>5
  <2> HIDE DEF u
  <2>3. Placed(u)
    BY <2>1 DEF Placed
  <2> QED
    BY <1>1, <1>5, <2>1, <2>2, <2>3, OnwardSees
<1> QED
  BY <1>3, <1>4, <1>5

\* And once more.
LEMMA RevalidateMoveSees ==
    ASSUME IInv, SInv, IInv', NEW c \in Calls, RevalidateMove(c)
    PROVE  SInv'
<1> DEFINE s   == op[c]
           why == DestinationRefusal(c, Lstat(fs, s.path))
           u   == [s EXCEPT !.pc = "rename"]
<1>1. s \in State /\ StateInv(s) /\ s.pc = "revalidate" /\ Placed(s) /\ Running(s) /\ s.req.op # "edit"
  BY Own, PlacedFacts DEF RevalidateMove, Placed, Running
<1>2. why \notin {"Denied", "OutsideRoot"}
  BY DEF DestinationRefusal
<1> HIDE DEF why
<1>3. (\E res : res \notin {"Denied", "OutsideRoot"} /\ Refuse(c, res)) \/ Goto(c, u)
  BY <1>2 DEF RevalidateMove, why
<1>4. CASE \E res : res \notin {"Denied", "OutsideRoot"} /\ Refuse(c, res)
  BY <1>4, RefuseSees
<1>5. CASE Goto(c, u)
  <2>1. /\ u.pc = "rename" /\ u.at = s.at /\ u.path = s.path /\ u.from = s.from /\ u.req = s.req
        /\ u.create = s.create /\ u.made = s.made
    BY <1>1 DEF State
  <2>2. Goto(c, u)
    BY <1>5
  <2> HIDE DEF u
  <2>3. Placed(u)
    BY <1>1, <2>1 DEF Placed
  <2> QED
    BY <1>1, <2>1, <2>2, <2>3, OnwardSees
<1> QED
  BY <1>3, <1>4, <1>5

\* copy_file looks at its destination.
LEMMA InspectCopySees ==
    ASSUME IInv, SInv, IInv', NEW c \in Calls, InspectCopy(c)
    PROVE  SInv'
<1> DEFINE s   == op[c]
           pid == DirectoryAt(fs, s.at)
           u   == [s EXCEPT !.pc = "verify", !.pid = pid]
<1>1. s \in State /\ s.pc = "inspect" /\ s.req.op = "copy" /\ Placed(s) /\ Running(s)
  BY Own DEF InspectCopy, Placed, Running
<1>2. \/ \E res : res \notin {"Denied", "OutsideRoot"} /\ Refuse(c, res)
      \/ IsPathDenied(s.path) /\ Refuse(c, "Denied")
      \/ ~IsPathDenied(s.path) /\ Goto(c, u)
  BY DEF InspectCopy
<1>3. CASE \E res : res \notin {"Denied", "OutsideRoot"} /\ Refuse(c, res)
  BY <1>3, RefuseSees
<1>4. CASE IsPathDenied(s.path) /\ Refuse(c, "Denied")
  <2>1. ASSUME c \notin disturbed PROVE s.made = {}
    <3>1. ViewInv(Skeleton(fs), s)
      BY <2>1, Own
    <3> QED
      BY <1>1, <1>4, <3>1 DEF ViewInv, FreshInv, AllowedInv
  <2> QED
    BY <1>4, <2>1, RefuseSees
<1>5. CASE ~IsPathDenied(s.path) /\ Goto(c, u)
  <2>1. /\ u.pc = "verify" /\ u.at = s.at /\ u.path = s.path /\ u.from = s.from /\ u.req = s.req
        /\ u.create = s.create /\ u.made = s.made
    BY <1>1 DEF State
  <2>2. Goto(c, u)
    BY <1>5
  <2> HIDE DEF u
  <2>3. Placed(u)
    BY <2>1 DEF Placed
  <2> QED
    BY <1>1, <1>5, <2>1, <2>2, <2>3, OnwardSees
<1> QED
  BY <1>2, <1>3, <1>4, <1>5

\* ----------------------------------------------- what it sees when it writes
\* A place that is allowed is inside the root.
LEMMA TargetInside ==
    ASSUME IInv, SInv, NEW c \in Calls, c \notin disturbed, Placed(op[c]), Foretold(op[c]),
           Lstat(fs, op[c].path).kind = "dir"
    PROVE  TargetRefusal(c) = "none"
<1> DEFINE s == op[c]
           p == s.at
           n == s.leaf
           S == Skeleton(fs)
           d == NoLinks(fs)[p].entry.ino
<1>1. s \in State /\ StateInv(s) /\ fs \in Tree /\ ViewInv(S, s)
  BY Own
<1>2. p \in Paths /\ n \in Names /\ s.path = Append(p, n)
  BY <1>1, PlacedFacts
<1>3. PlainDir(fs, p) /\ ~IsPathDenied(s.path)
  <2>1. PlainDir(S, p) /\ ~IsPathDenied(s.path)
    BY <1>1 DEF ViewInv, PlaceInv, AllowedInv
  <2> QED
    BY <1>1, <1>2, <2>1, SkeletonShows
<1>4. Lstat(fs, Append(p, n)).kind = "dir"
  BY <1>2
<1> HIDE DEF s, p, n
<1>5. Canonicalize(fs, Append(p, n)).st = "ok" /\ Canonicalize(fs, Append(p, n)).path = Append(p, n)
  <2>1. fs[d][n].kind = "dir"
    BY <1>1, <1>2, <1>3, <1>4, Sight
  <2>2. Canonicalize(fs, Append(p, n)) = Resolved(Append(p, n), fs[d][n])
    BY <1>1, <1>2, <1>3, <2>1, StepDown
  <2> QED
    BY <2>2 DEF Resolved
<1> QED
  BY <1>2, <1>3, <1>5 DEF TargetRefusal, IsPathDenied, s

\* What mkdir answers where something is.
LEMMA ExistingAnswers ==
    ASSUME IInv, SInv, NEW c \in Calls, Placed(op[c]), Foretold(op[c]), Lstat(fs, op[c].path).kind = "dir"
    PROVE  c \notin disturbed => ExistingDirectory(c) \notin {"Denied", "OutsideRoot"}
BY TargetInside DEF ExistingDirectory

\* mkdir looks at its destination.
LEMMA InspectMkdirSees ==
    ASSUME IInv, SInv, IInv', NEW c \in Calls, InspectMkdir(c)
    PROVE  SInv'
<1> DEFINE s   == op[c]
           pid == DirectoryAt(fs, s.at)
           u   == [s EXCEPT !.pc = "mkdir", !.pid = pid]
           x   == ExistingDirectory(c)
<1>1. s \in State /\ s.pc = "inspect" /\ s.req.op = "mkdir" /\ Placed(s) /\ Running(s) /\ Foretold(s)
  BY Own DEF InspectMkdir, Placed, Running, Foretold
<1> HIDE DEF x
<1>2. \/ Refuse(c, "InvalidPath")
      \/ Lstat(fs, s.path).kind = "dir" /\ Refuse(c, x)
      \/ Goto(c, u)
  BY DEF InspectMkdir, x
<1>3. CASE Refuse(c, "InvalidPath")
  BY <1>3, RefuseSees
<1>4. CASE Lstat(fs, s.path).kind = "dir" /\ Refuse(c, x)
  <2>1. c \notin disturbed => x \notin {"Denied", "OutsideRoot"}
    BY <1>1, <1>4, ExistingAnswers DEF x
  <2> QED
    BY <1>4, <2>1, RefuseSees
<1>5. CASE Goto(c, u)
  <2>1. /\ u.pc = "mkdir" /\ u.at = s.at /\ u.path = s.path /\ u.from = s.from /\ u.req = s.req
        /\ u.create = s.create /\ u.made = s.made
    BY <1>1 DEF State
  <2>2. Goto(c, u)
    BY <1>5
  <2> HIDE DEF u
  <2>3. Placed(u)
    BY <2>1 DEF Placed
  <2> QED
    BY <1>1, <2>1, <2>2, <2>3, OnwardSees
<1> QED
  BY <1>2, <1>3, <1>4, <1>5

\* mkdir creates its directory.
LEMMA MakeDirectorySees ==
    ASSUME IInv, SInv, IInv', NEW c \in Calls, MakeDirectory(c)
    PROVE  SInv'
<1> DEFINE s   == op[c]
           S   == Skeleton(fs)
           n   == s.leaf
           k   == NewDir
           dir == Holder(fs, s.path)
           u   == [s EXCEPT !.pc = "mkcheck", !.made = @ \cup {k}]
           x   == ExistingTarget(c, Lstat(fs, s.path))
<1>1. /\ s \in State /\ StateInv(s) /\ fs \in Tree /\ WellShaped(fs) /\ s.pc = "mkdir"
      /\ op \in [Calls -> State] /\ Placed(s) /\ Running(s)
      /\ (c \notin disturbed => ViewInv(S, s))
  BY Own DEF MakeDirectory, IInv, TypeOK, Placed, Running
<1>2. n \in Names /\ Front(s.path) \in Paths /\ s.at \in Paths /\ s.req.op = "mkdir"
  BY <1>1, PlacedFacts DEF StateInv, RequestInv, OperationsAt
<1>3. dir.kind = "dir" => dir.ino \in Dirs
  BY <1>1, <1>2, HolderType
<1>4. c \notin disturbed => x \notin {"Denied", "OutsideRoot"}
  <2>1. Foretold(s)
    BY <1>2 DEF Foretold
  <2> QED
    BY <1>1, <2>1, ExistingAnswers DEF ExistingTarget
<1> HIDE DEF dir, x
<1>5. \/ Refuse(c, "Io") \/ Refuse(c, x)
      \/ /\ dir.kind = "dir" /\ fs[dir.ino][n].kind = "absent" /\ DirSpace
         /\ fs' = Put(fs, dir.ino, n, DirEntry(k))
         /\ op' = [op EXCEPT ![c].pc = "mkcheck", ![c].made = @ \cup {k}]
         /\ By(c)
  BY Zenon DEF MakeDirectory, dir, x
<1>6. CASE Refuse(c, "Io") \/ Refuse(c, x)
  BY <1>4, <1>6, RefuseSees
<1>7. CASE /\ dir.kind = "dir" /\ fs[dir.ino][n].kind = "absent" /\ DirSpace
           /\ fs' = Put(fs, dir.ino, n, DirEntry(k))
           /\ op' = [op EXCEPT ![c].pc = "mkcheck", ![c].made = @ \cup {k}]
           /\ By(c)
  <2> DEFINE T == Skeleton(fs')
             d == dir.ino
  <2>1. d \in Dirs /\ Live(fs, d) /\ Fresh(fs, k) /\ fs[d][n].kind = "absent"
    BY <1>1, <1>2, <1>3, <1>7, HolderLive, NewFresh DEF dir
  <2>2. op' = [op EXCEPT ![c] = u]
    BY <1>1, <1>7
  <2>3. /\ u.pc = "mkcheck" /\ u.at = s.at /\ u.path = s.path /\ u.req = s.req
        /\ u.from = s.from /\ u.create = s.create
    BY <1>1 DEF State
  <2> HIDE DEF u, k
  <2>4. /\ WellShaped(fs')
        /\ \A p \in Paths : PlainDir(S, p) => PlainDir(T, p) /\ NoLinks(T)[p] = NoLinks(S)[p]
    <3> HIDE DEF d, n
    <3>1. fs' = Put(fs, d, n, DirEntry(k))
      BY <1>7 DEF d, n
    <3> QED
      BY <1>1, <1>2, <2>1, <3>1, MadeView
  <2>5. ASSUME c \notin disturbed PROVE ViewInv(T, u)
    <3>1. ViewInv(S, s)
      BY <1>1, <2>5
    <3>2. /\ ~OnWalk(u) /\ Running(u) /\ Placed(u) /\ ~Transfers(u) /\ u.req.op = "mkdir" /\ Foretold(u)
          /\ u.pc \notin {"source", "done", "walk", "create", "created", "found"}
      BY <1>2, <2>3 DEF OnWalk, Running, Placed, Foretold, Transfers
    <3> HIDE DEF S, T
    <3>3. PlaceInv(T, u)
      <4>1. PlainDir(S, s.at)
        BY <1>1, <3>1 DEF ViewInv, PlaceInv
      <4>2. PlainDir(T, u.at)
        BY <1>2, <2>3, <2>4, <4>1
      <4> QED
        BY <3>2, <4>2 DEF PlaceInv
    <3>4. AllowedInv(u)
      BY <1>1, <2>3, <3>1, <3>2 DEF ViewInv, AllowedInv
    <3>5. ForeInv(T, u) /\ FreshInv(T, u)
      BY <3>2, Zenon DEF ForeInv, FreshInv
    <3> QED
      BY <3>3, <3>4, <3>5 DEF ViewInv
  <2> QED
    BY <1>7, <2>2, <2>4, <2>5, StepSees DEF T
<1> QED
  BY <1>5, <1>6, <1>7

\* And looks at it, or takes it back.
LEMMA CheckMadeSees ==
    ASSUME IInv, SInv, IInv', NEW c \in Calls, CheckMade(c)
    PROVE  SInv'
<1> DEFINE s == op[c]
           d == s.pid.ino
           n == s.leaf
           t == Put(fs, d, n, Absent)
           x == TargetRefusal(c)
<1>1. /\ s \in State /\ StateInv(s) /\ fs \in Tree /\ WellShaped(fs) /\ Placed(s) /\ s.pc = "mkcheck"
  BY Own DEF CheckMade, Placed
<1>2. /\ n \in Names /\ s.pid \in Directory /\ d \in Dirs /\ s.path # <<>> /\ Front(s.path) = s.at
      /\ s.at \in Paths /\ Last(s.path) = n /\ s.req.op = "mkdir"
  BY <1>1, PlacedFacts DEF Directory, StateInv, RequestInv, OperationsAt, Running
<1>3. c \notin disturbed /\ Lstat(fs, s.path).kind = "dir" => x = "none"
  BY <1>1, <1>2, TargetInside DEF Foretold
<1> HIDE DEF x
<1>4. \/ Refuse(c, "InvalidPath") \/ Refuse(c, "ok") \/ Refuse(c, "Io")
      \/ /\ ParentStays(c) /\ Lstat(fs, s.path).kind = "dir" /\ Empty(fs, Lstat(fs, s.path).ino)
         /\ x # "none" /\ Return(c, t, x)
  BY DEF CheckMade, CleanUpTarget, x
<1>5. CASE Refuse(c, "InvalidPath") \/ Refuse(c, "ok") \/ Refuse(c, "Io")
  BY <1>5, RefuseSees
<1>6. CASE /\ ParentStays(c) /\ Lstat(fs, s.path).kind = "dir" /\ Empty(fs, Lstat(fs, s.path).ino)
           /\ x # "none" /\ Return(c, t, x)
  <2>1. Holder(fs, s.path) = s.pid
    <3>1. DirectoryAt(fs, Front(s.path)) = s.pid
      BY <1>2, <1>6 DEF ParentStays, SameDirectory
    <3> QED
      BY <1>1, <1>2, <3>1, ParentReached
  <2>2. Lstat(fs, s.path) = fs[d][n]
    BY <1>1, <1>2, <2>1, HolderLooked, SMTT(20) DEF Directory
  <2>3. fs[d][n].kind = "dir" /\ Bare(fs, fs[d][n].ino)
    BY <1>6, <2>2, Zenon DEF Empty, Bare
  <2> HIDE DEF d, n
  <2>4. t \in Tree /\ WellShaped(t)
    BY <1>1, <1>2, <2>3, PutTree, EntriesMade, RemovedShape
  <2> HIDE DEF t
  <2> QED
    BY <1>3, <1>6, <2>4, ReturnSees
<1> QED
  BY <1>4, <1>5, <1>6

\* A file is staged.
LEMMA StageTempSees ==
    ASSUME IInv, SInv, IInv', NEW c \in Calls, StageTemp(c)
    PROVE  SInv'
<1> DEFINE s   == op[c]
           dir == Holder(fs, Temp(c))
           e   == FileEntry(NewIno, StagedData(c))
           u   == [s EXCEPT !.pc = "recheck", !.tino = NewIno]
<1>1. /\ s \in State /\ StateInv(s) /\ fs \in Tree /\ fs' \in Tree /\ WellShaped(fs) /\ s.pc = "stage"
      /\ op \in [Calls -> State] /\ (s.req.op # "edit" => Placed(s)) /\ Running(s)
  BY Own DEF StageTemp, IInv, TypeOK, Placed, Running
<1>2. dir.kind = "dir" => dir.ino \in Dirs
  BY <1>1, TempPath, HolderType
<1>3. StagedData(c) \in Contents
  BY <1>1, StagedType
<1> HIDE DEF dir
<1>4. \/ Refuse(c, "Io") \/ Refuse(c, "FileTooLarge")
      \/ /\ dir.kind = "dir" /\ FileSpace /\ fs' = Put(fs, dir.ino, c, e)
         /\ op' = [op EXCEPT ![c].pc = "recheck", ![c].tino = NewIno]
         /\ By(c)
  BY DEF StageTemp, dir
<1>5. CASE Refuse(c, "Io") \/ Refuse(c, "FileTooLarge")
  BY <1>5, RefuseSees
<1>6. CASE /\ dir.kind = "dir" /\ FileSpace /\ fs' = Put(fs, dir.ino, c, e)
           /\ op' = [op EXCEPT ![c].pc = "recheck", ![c].tino = NewIno]
           /\ By(c)
  <2>1. NewIno \in Inos
    BY <1>6, NewFile
  <2>2. /\ u.pc = "recheck" /\ u.path = s.path /\ u.at = s.at /\ u.req = s.req /\ u.from = s.from
        /\ u.create = s.create /\ u.made = s.made
    BY <1>1 DEF State
  <2>3. op' = [op EXCEPT ![c] = u]
    BY <1>1, <1>6
  <2> HIDE DEF u
  <2>4. e \in Entry /\ e.kind = "file"
    BY <1>3, <2>1, EntriesMade DEF FileEntry
  <2> HIDE DEF e
  <2>5. \A k \in Dirs, m \in Names \cup Calls :
          fs'[k][m] = IF k = dir.ino /\ m = c THEN e ELSE fs[k][m]
    BY <1>1, <1>2, <1>6, <2>4, PutTree
  <2>6. Structure(fs) = Structure(fs')
    <3>1. \A d \in Dirs, n \in Names : fs'[d][n] = fs[d][n]
      BY <2>5, NamesApart
    <3> QED
      BY <3>1 DEF Structure
  <2>7. OnlyFiles(fs')
    BY <1>1, <2>4, <2>5 DEF OnlyFiles, WellShaped
  <2>8. WellShaped(fs') /\ Skeleton(fs') = Skeleton(fs)
    BY <1>1, <2>6, <2>7, SameShape, SameSkeleton
  <2>9. c \notin disturbed => ViewInv(Skeleton(fs), u)
    <3>1. c \notin disturbed => ViewInv(Skeleton(fs), s)
      BY Own
    <3>2. s.req.op # "edit" => Placed(u)
      BY <2>2 DEF Placed
    <3> HIDE DEF s
    <3> QED
      BY <1>1, <2>2, <3>1, <3>2, PlacedSees
  <2> QED
    BY <1>6, <2>3, <2>8, <2>9, StepSees
<1> QED
  BY <1>4, <1>5, <1>6

\* commit_replace and rename_replace.
LEMMA CommitRenameSees ==
    ASSUME IInv, SInv, IInv', NEW c \in Calls, CommitRename(c)
    PROVE  SInv'
<1> DEFINE t == AfterRename(From(c), op[c].path)
           a == Holder(fs, From(c)).ino
           b == Holder(fs, op[c].path).ino
           f == Last(From(c))
           g == Last(op[c].path)
           x == RenameOutcome(From(c), op[c].path, ReplaceExisting(c))
<1>1. op[c].pc = "rename" /\ fs \in Tree /\ WellShaped(fs)
  BY Own DEF CommitRename
<1>2. x \in {"ok", "Io", "Exists"}
  BY DEF RenameOutcome
<1> HIDE DEF x
<1>3. \/ Refuse(c, "Io") \/ Refuse(c, "Exists")
      \/ x = "ok" /\ \E res \in {"ok", "unsynced"} : Return(c, t, res)
  BY <1>2 DEF CommitRename, From, x
<1>4. CASE Refuse(c, "Io") \/ Refuse(c, "Exists")
  BY <1>4, RefuseSees
<1>5. CASE x = "ok" /\ \E res \in {"ok", "unsynced"} : Return(c, t, res)
  <2>1. /\ a \in Dirs /\ b \in Dirs /\ f \in Names \cup Calls /\ g \in Names
        /\ Holder(fs, op[c].path).kind = "dir" /\ Front(op[c].path) \in Paths
    BY <1>1, <1>5, RenamePlaces, NamesApart DEF x
  <2>2. Live(fs, b)
    BY <1>1, <2>1, HolderLive
  <2>3. /\ t \in Tree
        /\ \A d \in Dirs, n \in Names \cup Calls :
             t[d][n] = IF d = b /\ n = g THEN fs[a][f] ELSE IF d = a /\ n = f THEN Absent ELSE fs[d][n]
    BY <1>1, <1>5, Renamed DEF x, Effect
  <2>4. /\ fs[a][f].kind # "absent"
        /\ fs[a][f].kind = "dir" => b \notin Below(fs, fs[a][f].ino)
        /\ fs[b][g].kind = "dir" => Empty(fs, fs[b][g].ino)
    BY <1>5, Zenon DEF x, RenameOutcome
  <2>5. fs[a][f] # DirEntry(b)
    BY <2>4, SMTT(20) DEF DirEntry, Below
  <2>6. fs[b][g].kind = "dir" => \A m \in Names \cup Calls : fs[fs[b][g].ino][m].kind = "absent"
    BY <2>4, Zenon DEF Empty
  <2> HIDE DEF t, a, b, f, g
  <2>7. WellShaped(t)
    BY <1>1, <2>1, <2>2, <2>3, <2>4, <2>5, <2>6, MovedShape
  <2> QED
    BY <1>5, <2>3, <2>7, ReturnSees
<1> QED
  BY <1>3, <1>4, <1>5

\* ------------------------------------------------------- what everybody sees
\* Where there is a file or nothing before and after, the directories and links
\* stay.
LEMMA FileShape ==
    ASSUME NEW t \in Tree, WellShaped(t), NEW d \in Dirs, NEW n \in Names, NEW e \in Entry,
           ~IsPart(t[d][n]), ~IsPart(e)
    PROVE  WellShaped(Put(t, d, n, e))
<1> DEFINE u == Put(t, d, n, e)
<1>1. /\ u \in Tree
      /\ \A k \in Dirs, m \in Names \cup Calls : u[k][m] = IF k = d /\ m = n THEN e ELSE t[k][m]
  BY PutTree
<1> HIDE DEF u
<1>2. Structure(t) = Structure(u)
  BY <1>1 DEF Structure, IsPart
<1>3. OnlyFiles(u)
  <2>1. ASSUME NEW k \in Dirs, NEW c \in Calls PROVE u[k][c] = t[k][c]
    BY <1>1, NamesApart
  <2> QED
    BY <2>1 DEF OnlyFiles, WellShaped
<1> QED
  BY <1>1, <1>2, <1>3, SameShape DEF u

\* Other programs leave every directory with one name.
LEMMA ForeignShape ==
    ASSUME IInv, SInv, IInv', Foreign
    PROVE  WellShaped(fs')
<1>1. fs \in Tree /\ fs' \in Tree /\ WellShaped(fs)
  BY DEF IInv, TypeOK, SInv
<1>2. ForeignNames \subseteq Names /\ \A s \in ForeignSlots : s[1] \in Dirs /\ s[2] \in Names
  BY OpsAssumption
<1>3. ASSUME NEW n \in ForeignNames, NEW m \in ForeignNames, Exchange(n, m)
      PROVE  WellShaped(fs')
  <2>1. n \in Names /\ m \in Names /\ Root \in Dirs
    BY <1>2, TreeAssumption
  <2>2. \A d \in Dirs, k \in Names \cup Calls :
          fs'[d][k] = IF d = Root /\ k = n THEN fs[Root][m]
                      ELSE IF d = Root /\ k = m THEN fs[Root][n] ELSE fs[d][k]
    BY <1>1, <1>3, <2>1 DEF Exchange, Tree
  <2> QED
    BY <1>1, <2>1, <2>2, ExchangedShape
<1>4. ASSUME NEW d \in Dirs, NEW n \in Names, PutFile(d, n) \/ ChangeFile(d, n) \/ RemoveFile(d, n)
      PROVE  WellShaped(fs')
  <2>1. ~IsPart(fs[d][n])
    BY <1>4 DEF PutFile, ChangeFile, RemoveFile, IsPart
  <2>2. CASE PutFile(d, n)
    <3>1. FileEntry(NewIno, "foreign") \in Entry /\ ~IsPart(FileEntry(NewIno, "foreign"))
      BY <2>2, NewFile, EntriesMade, OpsAssumption DEF PutFile, FileEntry, IsPart
    <3> QED
      BY <1>1, <2>1, <2>2, <3>1, FileShape DEF PutFile
  <2>3. CASE ChangeFile(d, n)
    <3> DEFINE i == fs[d][n].ino
    <3>1. i \in Inos /\ fs' = Put(fs, d, n, FileEntry(i, "foreign"))
      BY <1>1, <2>3, TreeEntry, EntryKinds DEF ChangeFile
    <3> HIDE DEF i
    <3>2. FileEntry(i, "foreign") \in Entry /\ ~IsPart(FileEntry(i, "foreign"))
      BY <3>1, EntriesMade, OpsAssumption DEF FileEntry, IsPart
    <3> QED
      BY <1>1, <2>1, <3>1, <3>2, FileShape
  <2>4. CASE RemoveFile(d, n)
    <3>1. Absent \in Entry /\ ~IsPart(Absent)
      BY EntriesMade DEF Absent, IsPart
    <3> QED
      BY <1>1, <2>1, <2>4, <3>1, FileShape DEF RemoveFile
  <2> QED
    BY <1>4, <2>2, <2>3, <2>4
<1> QED
  BY <1>2, <1>3, <1>4 DEF Foreign

\* And calls that are not disturbed see what they saw.
LEMMA ForeignSees ==
    ASSUME IInv, SInv, IInv', Foreign
    PROVE  SInv'
<1>1. WellShaped(fs')
  BY ForeignShape
<1>2. op' = op /\ Overtakes({})
  BY DEF Foreign
<1>3. ASSUME NEW k \in Calls, k \notin disturbed' PROVE ViewInv(Skeleton(fs'), op'[k])
  <2>1. k \in Calls \ {} /\ op'[k] = op[k]
    BY <1>2
  <2> QED
    BY <1>2, <1>3, <2>1, OthersSee
<1> QED
  BY <1>1, <1>3 DEF SInv

\* At the start nobody has seen anything.
LEMMA InitSees ==
    ASSUME Init
    PROVE  SInv
<1>0. fs \in Trees /\ op = [c \in Calls |-> Idle]
  BY DEF Init
<1>1. WellShaped(fs) /\ \A c \in Calls : op[c] = Idle
  <2>1. WellShaped(fs)
    BY <1>0, OpsAssumption
  <2> QED
    BY <1>0, <2>1
<1>2. Idle.pc = "idle"
  BY IdleState
<1> QED
  BY <1>1, <1>2, Resting DEF SInv

\* Every step of a call keeps what the calls see,
LEMMA CallStepSees ==
    ASSUME DeniedClosed, IInv, SInv, IInv', NEW c \in Calls, Step(c)
    PROVE  SInv'
<1>1. ASSUME NEW r \in RequestsOf[c],
             BeginWrite(c, r) \/ BeginMkdir(c, r) \/ BeginEdit(c, r) \/ BeginTransfer(c, r)
      PROVE  SInv'
  <2>1. r \in Request
    BY OpsAssumption
  <2> QED
    BY <1>1, <2>1, BeginSees, BeginEditSees, BeginTransferSees DEF BeginWrite, BeginMkdir
<1>2. RecheckWrite(c) \/ RecheckCopy(c) \/ RecheckEdit(c) => SInv'
  BY RecheckSees DEF RecheckWrite, RecheckCopy, RecheckEdit
<1> QED
  BY <1>1, <1>2, WalkComponentSees, CreateComponentSees, CheckCreatedSees, InspectWriteSees,
     VerifyParentSees, StageTempSees, CommitRenameSees, InspectMkdirSees, MakeDirectorySees,
     CheckMadeSees, ReadForEditSees, OpenForWriteSees, TakeSourceSees, InspectMoveSees,
     RevalidateMoveSees, InspectCopySees
     DEF Step

\* and so does every step.
LEMMA NextSees ==
    ASSUME DeniedClosed, IInv, SInv, IInv', [Next]_vars
    PROVE  SInv'
<1>1. CASE UNCHANGED vars
  BY <1>1 DEF vars, SInv
<1>2. CASE Next
  BY <1>2, CallStepSees, ForeignSees DEF Next
<1> QED
  BY <1>1, <1>2

\* What undisturbed calls see is as they left it, where denied paths are closed.
LEMMA SeenInvariant == DeniedClosed => (Spec => [](IInv /\ SInv))
<1> SUFFICES ASSUME DeniedClosed PROVE Spec => [](IInv /\ SInv)
  OBVIOUS
<1>1. Init => IInv /\ SInv
  BY InitInv, InitSees
<1>2. IInv /\ SInv /\ [Next]_vars => (IInv /\ SInv)'
  BY NextInv, NextSees
<1> QED
  BY <1>1, <1>2, PTL DEF Spec

\* ------------------------------------------------------ what stays untouched
\* A place on a plain path that is not denied is not hidden, nor is a temporary
\* file next to it.
LEMMA PlaceShown ==
    ASSUME DeniedClosed, IInv, SInv, NEW p \in Paths, p # <<>>, PlainDir(Skeleton(fs), Front(p)),
           ~IsPathDenied(p)
    PROVE  LET d == Holder(fs, p).ino
           IN  /\ ~IsHidden(fs, d, Last(p)) /\ \A c \in Calls : ~IsHidden(fs, d, c)
               /\ \A c \in Calls : Holder(fs, Append(Front(p), c)) = Holder(fs, p)
<1> DEFINE q == Front(p)
           n == Last(p)
           r == NoLinks(fs)[q]
<1>1. fs \in Tree /\ WellShaped(fs)
  BY DEF IInv, TypeOK, SInv
<1>2. q \in Paths /\ n \in Names
  BY PathParts
<1>3. p = Append(q, n)
  BY DEF Paths, Front, Last
<1>4. PlainDir(fs, q)
  BY <1>1, <1>2, SkeletonShows
<1>5. ~IsPathDenied(Append(q, n))
  BY <1>3
<1> HIDE DEF q, n, r
<1>6. ~IsHidden(fs, r.entry.ino, n) /\ \A c \in Calls : ~IsHidden(fs, r.entry.ino, c)
  BY <1>1, <1>2, <1>4, <1>5, Visible DEF r
<1>7. \A m \in Names \cup Calls : Holder(fs, Append(q, m)) = r.entry
  BY <1>1, <1>2, <1>4, Sight DEF r
<1>8. Holder(fs, p) = r.entry
  BY <1>2, <1>3, <1>7
<1> QED
  BY <1>6, <1>7, <1>8 DEF q, n

\* Where a call that changes something works is such a place.
LEMMA WorksAt ==
    ASSUME IInv, SInv, NEW c \in Calls, c \notin disturbed,
           op[c].pc \in {"open", "stage", "recheck", "rename", "mkdir", "mkcheck"}
    PROVE  /\ op[c].path \in Paths /\ op[c].path # <<>> /\ PlainDir(Skeleton(fs), Front(op[c].path))
           /\ ~IsPathDenied(op[c].path)
<1> DEFINE s == op[c]
<1>1. s \in State /\ StateInv(s) /\ ViewInv(Skeleton(fs), s) /\ Running(s)
  BY Own DEF Running
<1>2. CASE Placed(s)
  BY <1>1, <1>2, PlacedFacts DEF ViewInv, PlaceInv, AllowedInv
<1>3. CASE ~Placed(s)
  <2>1. s.req.op = "edit" /\ s.path # <<>> /\ s.path \in Paths
    BY <1>1, <1>3, Fields DEF StateInv, RequestInv, TargetInv, OperationsAt, Running, Placed
  <2> QED
    BY <1>1, <2>1 DEF ViewInv, PlaceInv, AllowedInv
<1> QED
  BY <1>2, <1>3

\* Its temporary file is at one, too.
LEMMA OwnHome ==
    ASSUME DeniedClosed, IInv, SInv, NEW c \in Calls, c \notin disturbed, op[c].pc # "done",
           NEW d \in Dirs, fs[d][c] # Absent
    PROVE  ~IsHidden(fs, d, c)
<1>1. StateInv(op[c]) /\ TempInv(fs, op[c], c) /\ HomeInv(fs, op[c], c)
  BY StateTypes
<1>2. op[c].tino # 0
  BY <1>1 DEF TempInv
<1>3. Holder(fs, Append(Front(op[c].path), c)) = DirEntry(d)
  BY <1>1, <1>2 DEF HomeInv
<1>4. op[c].pc \in {"recheck", "rename"}
  BY <1>1, <1>2 DEF StateInv, ResultInv
<1> DEFINE p == op[c].path
<1>5. p \in Paths /\ p # <<>> /\ PlainDir(Skeleton(fs), Front(p)) /\ ~IsPathDenied(p)
  BY <1>4, WorksAt
<1> HIDE DEF p
<1>6. ~IsHidden(fs, Holder(fs, p).ino, c) /\ Holder(fs, Append(Front(p), c)) = Holder(fs, p)
  BY <1>5, PlaceShown
<1> QED
  BY <1>3, <1>6 DEF p, DirEntry

\* A call that returns touches what the tree it returns with has changed, and
\* its temporary file.
LEMMA ReturnTouches ==
    ASSUME IInv, NEW c \in Calls, NEW t \in Tree, NEW res, Return(c, t, res),
           NEW d \in Dirs, NEW n \in Names \cup Calls, Changed(d, n)
    PROVE  t[d][n] # fs[d][n] \/ (n = c /\ fs[d][c] # Absent)
<1>1. fs' = t \/ \E e \in Dirs : fs' = Put(t, e, c, Absent)
  BY WithoutTempTree DEF Return
<1>2. CASE fs' = t
  BY <1>2 DEF Changed
<1>3. CASE \E e \in Dirs : fs' = Put(t, e, c, Absent)
  <2>1. PICK e \in Dirs : fs' = Put(t, e, c, Absent)
    BY <1>3
  <2>2. c \in Names \cup Calls /\ Absent \in Entry
    BY EntriesMade
  <2>3. fs'[d][n] = IF d = e /\ n = c THEN Absent ELSE t[d][n]
    BY <2>1, <2>2, PutTree
  <2> QED
    BY <2>3 DEF Changed
<1> QED
  BY <1>1, <1>2, <1>3

\* A step that only looks, or refuses, touches at most the temporary file.
LEMMA LooksTouch ==
    ASSUME DeniedClosed, IInv, SInv, NEW c \in Calls, c \notin disturbed, op[c].pc # "done",
           (\E s : Goto(c, s)) \/ (\E res : Refuse(c, res)),
           NEW d \in Dirs, NEW n \in Names \cup Calls, Changed(d, n)
    PROVE  ~IsHidden(fs, d, n)
<1>1. \E res : Refuse(c, res)
  BY DEF Goto, Changed
<1>2. fs \in Tree
  BY StateTypes
<1>3. n = c /\ fs[d][c] # Absent
  BY <1>1, <1>2, ReturnTouches DEF Refuse
<1> QED
  BY <1>3, OwnHome

\* What is put at such a place.
LEMMA PutTouches ==
    ASSUME NEW t \in Tree, NEW a \in Dirs, NEW m \in Names \cup Calls, NEW e \in Entry,
           NEW d \in Dirs, NEW n \in Names \cup Calls, Put(t, a, m, e)[d][n] # t[d][n]
    PROVE  d = a /\ n = m
BY PutTree

\* create_dir of a parent happens where nothing is hidden ...
LEMMA CreateTouches ==
    ASSUME DeniedClosed, IInv, SInv, NEW c \in Calls, c \notin disturbed, CreateComponent(c),
           NEW d \in Dirs, NEW n \in Names \cup Calls, Changed(d, n)
    PROVE  ~IsHidden(fs, d, n)
<1> DEFINE at == op[c].at
           m == Head(op[c].rest)
           next == Append(at, m)
           a == Holder(fs, next).ino
<1>1. op[c].pc = "create" /\ OnWalk(op[c]) /\ fs \in Tree /\ ViewInv(Skeleton(fs), op[c])
  BY Own, Zenon DEF CreateComponent, OnWalk
<1>2. at \in Paths /\ m \in Names /\ next \in Paths /\ PlainDir(Skeleton(fs), at)
  BY <1>1, OnPlainWalk
<1>3. ~IsPathDenied(next)
  BY <1>1 DEF ViewInv, AllowedInv
<1> HIDE DEF at, m
<1>4. next # <<>> /\ Front(next) = at /\ Last(next) = m
  BY <1>2, FrontOfAppend DEF Paths
<1> HIDE DEF next
<1>5. ~IsHidden(fs, a, m)
  BY <1>2, <1>3, <1>4, PlaceShown
<1>6. \/ \E s : Goto(c, s)
      \/ \E res : Refuse(c, res)
      \/ Holder(fs, next).kind = "dir" /\ DirSpace /\ fs' = Put(fs, a, Last(next), DirEntry(NewDir))
  BY Zenon DEF CreateComponent, next, at, m
<1>7. CASE (\E s : Goto(c, s)) \/ (\E res : Refuse(c, res))
  BY <1>1, <1>7, LooksTouch
<1>8. CASE Holder(fs, next).kind = "dir" /\ DirSpace /\ fs' = Put(fs, a, Last(next), DirEntry(NewDir))
  <2>1. a \in Dirs /\ DirEntry(NewDir) \in Entry
    BY <1>1, <1>2, <1>4, <1>8, HolderType, NewDirectory, EntriesMade
  <2> HIDE DEF a
  <2>2. d = a /\ n = m
    BY <1>1, <1>2, <1>4, <1>8, <2>1, PutTouches DEF Changed
  <2> QED
    BY <1>5, <2>2 DEF a
<1> QED
  BY <1>6, <1>7, <1>8

\* ... and so does create_dir of the target of mkdir ...
LEMMA MakeTouches ==
    ASSUME DeniedClosed, IInv, SInv, NEW c \in Calls, c \notin disturbed, MakeDirectory(c),
           NEW d \in Dirs, NEW n \in Names \cup Calls, Changed(d, n)
    PROVE  ~IsHidden(fs, d, n)
<1> DEFINE p == op[c].path
           m == op[c].leaf
           a == Holder(fs, p).ino
<1>1. op[c].pc = "mkdir" /\ fs \in Tree /\ op[c] \in State /\ StateInv(op[c]) /\ Placed(op[c])
  BY StateTypes DEF MakeDirectory, Placed
<1>2. /\ p \in Paths /\ p # <<>> /\ PlainDir(Skeleton(fs), Front(p)) /\ ~IsPathDenied(p)
      /\ Last(p) = m /\ m \in Names /\ Front(p) \in Paths
  BY <1>1, WorksAt, PlacedFacts
<1>3. \/ \E s : Goto(c, s)
      \/ \E res : Refuse(c, res)
      \/ Holder(fs, p).kind = "dir" /\ DirSpace /\ fs' = Put(fs, a, m, DirEntry(NewDir))
  BY DEF MakeDirectory
<1> HIDE DEF p, m
<1>4. ~IsHidden(fs, a, m)
  BY <1>2, PlaceShown
<1>5. CASE (\E s : Goto(c, s)) \/ (\E res : Refuse(c, res))
  BY <1>1, <1>5, LooksTouch
<1>6. CASE Holder(fs, p).kind = "dir" /\ DirSpace /\ fs' = Put(fs, a, m, DirEntry(NewDir))
  <2>1. a \in Dirs /\ DirEntry(NewDir) \in Entry
    BY <1>1, <1>2, <1>6, HolderType, NewDirectory, EntriesMade
  <2> HIDE DEF a
  <2>2. d = a /\ n = m
    BY <1>1, <1>2, <1>6, <2>1, PutTouches DEF Changed
  <2> QED
    BY <1>4, <2>2 DEF a
<1> QED
  BY <1>3, <1>5, <1>6

\* ... the staging of a file ...
LEMMA StageTouches ==
    ASSUME DeniedClosed, IInv, SInv, NEW c \in Calls, c \notin disturbed, StageTemp(c),
           NEW d \in Dirs, NEW n \in Names \cup Calls, Changed(d, n)
    PROVE  ~IsHidden(fs, d, n)
<1> DEFINE p == op[c].path
           a == Holder(fs, Temp(c)).ino
           e == FileEntry(NewIno, StagedData(c))
<1>1. op[c].pc = "stage" /\ fs \in Tree
  BY StateTypes DEF StageTemp
<1>2. p \in Paths /\ p # <<>> /\ PlainDir(Skeleton(fs), Front(p)) /\ ~IsPathDenied(p)
  BY <1>1, WorksAt
<1>3. Temp(c) = Append(Front(p), c)
  BY DEF Temp
<1>4. \/ \E res : Refuse(c, res)
      \/ Holder(fs, Temp(c)).kind = "dir" /\ FileSpace /\ fs' = Put(fs, a, c, e)
  BY DEF StageTemp
<1>5. CASE \E res : Refuse(c, res)
  BY <1>1, <1>5, LooksTouch
<1>6. CASE Holder(fs, Temp(c)).kind = "dir" /\ FileSpace /\ fs' = Put(fs, a, c, e)
  <2>1. a \in Dirs
    BY <1>1, <1>6, TempPath, HolderType
  <2>2. e \in Entry
    BY <1>1, <1>6, NewFile, StagedType, EntriesMade
  <2> HIDE DEF p
  <2>3. ~IsHidden(fs, a, c)
    BY <1>2, <1>3, PlaceShown
  <2> HIDE DEF a, e
  <2>4. d = a /\ n = c
    BY <1>1, <1>6, <2>1, <2>2, PutTouches DEF Changed
  <2> QED
    BY <2>3, <2>4
<1> QED
  BY <1>4, <1>5, <1>6

\* ... the last look of mkdir, which takes nothing back ...
LEMMA CheckTouches ==
    ASSUME DeniedClosed, IInv, SInv, NEW c \in Calls, c \notin disturbed, CheckMade(c),
           NEW d \in Dirs, NEW n \in Names \cup Calls, Changed(d, n)
    PROVE  ~IsHidden(fs, d, n)
<1>1. op[c].pc = "mkcheck" /\ Placed(op[c]) /\ Foretold(op[c])
  BY StateTypes DEF CheckMade, Placed, Foretold, StateInv, RequestInv, OperationsAt, Running
<1>2. Lstat(fs, op[c].path).kind = "dir" => TargetRefusal(c) = "none"
  BY <1>1, TargetInside
<1>3. \E res : Refuse(c, res)
  BY <1>2 DEF CheckMade
<1> QED
  BY <1>1, <1>3, LooksTouch

\* ... and the rename, at both of its ends.
LEMMA RenameTouches ==
    ASSUME DeniedClosed, IInv, SInv, NEW c \in Calls, c \notin disturbed, CommitRename(c),
           NEW d \in Dirs, NEW n \in Names \cup Calls, Changed(d, n)
    PROVE  ~IsHidden(fs, d, n)
<1> DEFINE t == AfterRename(From(c), op[c].path)
           a == Holder(fs, From(c)).ino
           b == Holder(fs, op[c].path).ino
           f == Last(From(c))
           g == Last(op[c].path)
           p == op[c].path
           q == op[c].from
<1>1. op[c].pc = "rename" /\ op[c] \in State /\ StateInv(op[c]) /\ ViewInv(Skeleton(fs), op[c])
  BY Own DEF CommitRename
<1>2. p \in Paths /\ p # <<>> /\ PlainDir(Skeleton(fs), Front(p)) /\ ~IsPathDenied(p)
  BY <1>1, WorksAt
<1>3. ~IsHidden(fs, b, g)
  <2> HIDE DEF p
  <2>1. ~IsHidden(fs, Holder(fs, p).ino, Last(p))
    BY <1>2, PlaceShown
  <2> QED
    BY <2>1 DEF p
<1>4. ~IsHidden(fs, a, f)
  <2>1. CASE op[c].req.op = "move"
    <3>1. q \in Paths /\ q # <<>> /\ PlainDir(Skeleton(fs), Front(q)) /\ ~IsPathDenied(q)
      BY <1>1, <2>1, Fields
         DEF ViewInv, PlaceInv, AllowedInv, Transfers, StateInv, SourceInv, Running
    <3>2. From(c) = q
      BY <2>1 DEF From
    <3> HIDE DEF q
    <3> QED
      BY <3>1, <3>2, PlaceShown
  <2>2. CASE op[c].req.op # "move"
    <3>1. From(c) = Append(Front(p), c)
      BY <2>2 DEF From, Temp
    <3>2. Front(p) \in Paths
      BY <1>2, PathParts
    <3> HIDE DEF p
    <3>3. Last(From(c)) = c
      BY <3>1, <3>2, FrontOfAppend DEF Paths
    <3>4. ~IsHidden(fs, Holder(fs, p).ino, c) /\ Holder(fs, Append(Front(p), c)) = Holder(fs, p)
      BY <1>2, PlaceShown
    <3> QED
      BY <3>1, <3>3, <3>4
  <2> QED
    BY <2>1, <2>2
<1>5. CASE \E res \in Outcomes : Refuse(c, res)
  BY <1>1, <1>5, LooksTouch
<1>6. CASE /\ RenameOutcome(From(c), op[c].path, ReplaceExisting(c)) = "ok"
           /\ \E res \in {"ok", "unsynced"} : Return(c, t, res)
  <2>1. /\ t \in Tree
        /\ \A k \in Dirs, m \in Names \cup Calls :
             t[k][m] = IF k = b /\ m = g THEN fs[a][f] ELSE IF k = a /\ m = f THEN Absent ELSE fs[k][m]
    BY <1>1, <1>6, Renamed DEF Effect
  <2> HIDE DEF t, a, b, f, g
  <2>2. t[d][n] # fs[d][n] \/ (n = c /\ fs[d][c] # Absent)
    BY <1>6, <2>1, ReturnTouches
  <2>3. CASE t[d][n] # fs[d][n]
    BY <1>3, <1>4, <2>1, <2>3
  <2>4. CASE n = c /\ fs[d][c] # Absent
    BY <1>1, <2>4, OwnHome
  <2> QED
    BY <2>2, <2>3, <2>4
<1> QED
  BY <1>5, <1>6, Committed

\* What a call changes is not hidden.
LEMMA ChangesShown ==
    ASSUME DeniedClosed, IInv, SInv, NEW c \in Calls, c \notin disturbed, Step(c),
           NEW d \in Dirs, NEW n \in Names \cup Calls, Changed(d, n)
    PROVE  ~IsHidden(fs, d, n)
<1>1. op[c].pc # "done"
  BY StepKinds
<1>2. CASE (\E s : Goto(c, s)) \/ (\E res : Refuse(c, res))
  BY <1>1, <1>2, LooksTouch
<1> QED
  BY <1>2, StepKinds, CreateTouches, MakeTouches, StageTouches, CheckTouches, RenameTouches

\* A file that is edited is not hidden ...
LEMMA EditShown ==
    ASSUME DeniedClosed, IInv, SInv, NEW c \in Calls, c \notin disturbed, Step(c),
           op[c].pc = "read", op'[c].pc = "open"
    PROVE  ~IsHidden(fs, Holder(fs, op[c].path).ino, Last(op[c].path))
<1> DEFINE s == op[c]
           p == s.path
<1>1. s \in State /\ StateInv(s) /\ ViewInv(Skeleton(fs), s) /\ op \in [Calls -> State]
  BY Own DEF IInv, TypeOK
<1>2. ReadForEdit(c)
  BY DEF Step, BeginWrite, BeginMkdir, Begin, BeginEdit, BeginTransfer, WalkComponent, CreateComponent,
         CheckCreated, InspectWrite, VerifyParent, StageTemp, RecheckWrite, RecheckCopy, RecheckEdit,
         Recheck, CommitRename, InspectMkdir, MakeDirectory, CheckMade, OpenForWrite, TakeSource,
         InspectMove, RevalidateMove, InspectCopy
<1>3. ~(\E res : Refuse(c, res))
  BY <1>1 DEF Refuse, Return, Idle
<1>4. p # <<>>
  <2>1. Lstat(fs, p).kind = "file"
    BY <1>2, <1>3 DEF ReadForEdit
  <2> QED
    BY <2>1 DEF Lstat, DirEntry
<1>5. p \in Paths /\ PlainDir(Skeleton(fs), Front(p)) /\ ~IsPathDenied(p)
  BY <1>1, <1>4, Fields
     DEF ViewInv, PlaceInv, AllowedInv, StateInv, RequestInv, OperationsAt, Running
<1> HIDE DEF p
<1> QED
  BY <1>4, <1>5, PlaceShown DEF p

\* ... and neither is one that is copied or moved.
LEMMA SourceShown ==
    ASSUME DeniedClosed, IInv, SInv, NEW c \in Calls, c \notin disturbed, op[c].pc = "source"
    PROVE  ~IsHidden(fs, Holder(fs, op[c].from).ino, Last(op[c].from))
<1> DEFINE p == op[c].from
<1>1. op[c] \in State /\ StateInv(op[c]) /\ ViewInv(Skeleton(fs), op[c])
  BY Own
<1>2. p \in Paths /\ p # <<>> /\ PlainDir(Skeleton(fs), Front(p)) /\ ~IsPathDenied(p)
  BY <1>1, Fields
     DEF ViewInv, PlaceInv, AllowedInv, Transfers, StateInv, RequestInv, OperationsAt, SourceInv, Running
<1> HIDE DEF p
<1> QED
  BY <1>2, PlaceShown DEF p

\* Where what is below a denied path is denied as well, no call changes, copies
\* or edits anything at one, whatever others do, unless a directory or a link
\* moved while it ran.
THEOREM DeniedStaysUntouched == DeniedClosed => (Spec => DeniedUntouched)
<1> SUFFICES ASSUME DeniedClosed PROVE Spec => DeniedUntouched
  OBVIOUS
<1> DEFINE Spared ==
      \A c \in Calls : op'[c] # op[c] /\ c \notin disturbed =>
        /\ \A d \in Dirs, n \in Names \cup Calls : Changed(d, n) => ~IsHidden(fs, d, n)
        /\ op[c].pc = "read" /\ op'[c].pc = "open" =>
             ~IsHidden(fs, Holder(fs, op[c].path).ino, Last(op[c].path))
        /\ op[c].pc = "source" /\ op'[c].src.kind = "file" =>
             ~IsHidden(fs, Holder(fs, op[c].from).ino, Last(op[c].from))
<1>1. ASSUME IInv, SInv, [Next]_vars PROVE Spared
  <2> SUFFICES ASSUME NEW c \in Calls, op'[c] # op[c], c \notin disturbed
               PROVE  /\ \A d \in Dirs, n \in Names \cup Calls : Changed(d, n) => ~IsHidden(fs, d, n)
                      /\ op[c].pc = "read" /\ op'[c].pc = "open" =>
                           ~IsHidden(fs, Holder(fs, op[c].path).ino, Last(op[c].path))
                      /\ op[c].pc = "source" /\ op'[c].src.kind = "file" =>
                           ~IsHidden(fs, Holder(fs, op[c].from).ino, Last(op[c].from))
    OBVIOUS
  <2>1. Step(c)
    BY <1>1, OwnStep
  <2> QED
    BY <1>1, <2>1, ChangesShown, EditShown, SourceShown
<1>2. IInv /\ SInv /\ [Next]_vars => [Spared]_vars
  BY <1>1
<1>3. Spec => [](IInv /\ SInv)
  BY SeenInvariant
<1> QED
  BY <1>2, <1>3, PTL DEF Spec, DeniedUntouched

\* And a call that ends leaves no temporary file, nor, when it is refused
\* because of a denied or an outside path, a directory it has created.
THEOREM NothingIsLeftBehind == DeniedClosed => (Spec => []NothingLeftBehind)
<1> SUFFICES ASSUME DeniedClosed PROVE Spec => []NothingLeftBehind
  OBVIOUS
<1>1. IInv /\ SInv => NothingLeftBehind
  <2>1. IInv => NoTemporaryFiles
    BY SMTT(20) DEF IInv, CallInv, HomeInv, NoTemporaryFiles, Undisturbed
  <2>2. ASSUME SInv, NEW c \in Calls, Undisturbed(c), op[c].res \in {"Denied", "OutsideRoot"}
        PROVE  op[c].made = {}
    BY <2>2, Zenon DEF SInv, Undisturbed, ViewInv, FreshInv
  <2> QED
    BY <2>1, <2>2 DEF NothingLeftBehind
<1>2. Spec => [](IInv /\ SInv)
  BY SeenInvariant
<1> QED
  BY <1>1, <1>2, PTL

\* ------------------------------------------------ FsWalk: trees that change
\* Trees in which only what was absent differs are walked alike where the walk
\* succeeds.
LEMMA FollowWider ==
    ASSUME NEW t \in Tree, NEW u \in Tree,
           \A d \in Dirs, n \in Names : t[d][n].kind # "absent" => u[d][n] = t[d][n],
           NEW k \in [Paths -> Results], NEW l \in [Paths -> Results],
           \A p \in Paths : k[p].st = "ok" => l[p] = k[p]
    PROVE  \A p \in Paths : Follow(t, k)[p].st = "ok" => Follow(u, l)[p] = Follow(t, k)[p]
<1>1. /\ Follow(t, k) \in [Paths -> Results] /\ Follow(u, l) \in [Paths -> Results]
      /\ Follow(t, k)[<<>>] = AtRoot /\ Follow(u, l)[<<>>] = AtRoot
      /\ \A p \in Paths : p # <<>> =>
           /\ Follow(t, k)[p] = Enter(t, Follow(t, k)[Front(p)], Last(p), k)
           /\ Follow(u, l)[p] = Enter(u, Follow(u, l)[Front(p)], Last(p), l)
  BY FollowUnfolds
<1> DEFINE Same == {p \in Paths : Follow(t, k)[p].st = "ok" => Follow(u, l)[p] = Follow(t, k)[p]}
<1>2. <<>> \in Same
  BY <1>1 DEF Paths
<1>3. ASSUME NEW s \in Paths, s # <<>>, Front(s) \in Same PROVE s \in Same
  <2> SUFFICES ASSUME Follow(t, k)[s].st = "ok" PROVE Follow(u, l)[s] = Follow(t, k)[s]
    OBVIOUS
  <2> DEFINE r == Follow(t, k)[Front(s)]
             n == Last(s)
             e == t[r.entry.ino][n]
             f == u[r.entry.ino][n]
  <2>1. Front(s) \in Paths /\ n \in Names
    BY <1>3, FrontAndLast DEF Paths
  <2>2. r \in Results /\ Follow(t, k)[s] = Enter(t, r, n, k)
    BY <1>1, <1>3, <2>1, SMTT(20)
  <2>3. r.st = "ok" /\ r.entry.kind = "dir"
    <3> HIDE DEF r, n
    <3>1. Enter(t, r, n, k).st = "ok"
      BY <2>2
    <3> QED
      BY <3>1, EnteredFrom
  <2>4. Follow(u, l)[s] = Enter(u, r, n, l)
    BY <1>1, <1>3, <2>1, <2>3
  <2>5. r.entry.ino \in Dirs
    BY <2>2, <2>3, ResultParts, EntryKinds
  <2>6. e \in Entry
    BY <2>1, <2>5, TreeEntry
  <2>7. /\ Enter(t, r, n, k) = IF e.kind = "absent" THEN Failed("NotFound")
                               ELSE IF e.kind = "link" THEN k[e.to]
                               ELSE Resolved(Append(r.path, n), e)
        /\ Enter(u, r, n, l) = IF f.kind = "absent" THEN Failed("NotFound")
                               ELSE IF f.kind = "link" THEN l[f.to]
                               ELSE Resolved(Append(r.path, n), f)
    BY <2>3 DEF Enter
  <2>8. e.kind # "absent" => f = e
    BY <2>1, <2>5
  <2> HIDE DEF e, f, r, n
  <2>9. e.kind # "absent" /\ f = e
    BY <2>2, <2>7, <2>8 DEF Failed
  <2>10. e.kind = "link" => e.to \in Paths
    BY <2>6, EntryKinds
  <2> QED
    BY <2>2, <2>4, <2>7, <2>9, <2>10
<1> HIDE DEF Same
<1>4. Paths \subseteq Same
  BY <1>2, <1>3, EverySequence DEF Paths
<1> QED
  BY <1>4 DEF Same

\* What leads somewhere still does when entries are created where none was.
LEMMA FilledLeads ==
    ASSUME NEW t \in Tree, NEW u \in Tree,
           \A d \in Dirs, n \in Names : t[d][n].kind # "absent" => u[d][n] = t[d][n],
           NEW p \in Paths, Canonicalize(t, p).st = "ok"
    PROVE  Canonicalize(u, p) = Canonicalize(t, p)
<1> DEFINE none == [q \in Paths |-> Failed("Io")]
<1>1. none \in [Paths -> Results] /\ \A q \in Paths : none[q].st = "ok" => none[q] = none[q]
  BY ResultsMade DEF Statuses
<1>2. NoLinks(t) = Follow(t, none) /\ NoLinks(u) = Follow(u, none)
  BY DEF NoLinks
<1> HIDE DEF none
<1>3. \A q \in Paths : NoLinks(t)[q].st = "ok" => NoLinks(u)[q] = NoLinks(t)[q]
  BY <1>1, <1>2, FollowWider
<1>4. \A q \in Paths : OneLink(t)[q].st = "ok" => OneLink(u)[q] = OneLink(t)[q]
  BY <1>3, LinksType, FollowWider DEF OneLink
<1> QED
  BY <1>4, LinksType, FollowWider DEF Canonicalize

\* What is reached with fewer links is reached with more.
LEMMA MoreLinks ==
    ASSUME NEW t \in Tree, NEW p \in Paths
    PROVE  /\ NoLinks(t)[p].st = "ok" => OneLink(t)[p] = NoLinks(t)[p]
           /\ OneLink(t)[p].st = "ok" => Canonicalize(t, p) = OneLink(t)[p]
<1>1. NoLinks(t) \in [Paths -> Results] /\ OneLink(t) \in [Paths -> Results]
  BY LinksType
<1>2. \A q \in Paths : NoLinks(t)[q].st = "ok" => OneLink(t)[q] = NoLinks(t)[q]
  BY <1>1, StraightFollowed DEF OneLink
<1>3. \A q \in Paths : Follow(t, NoLinks(t))[q].st = "ok"
                         => Follow(t, OneLink(t))[q] = Follow(t, NoLinks(t))[q]
  BY <1>1, <1>2, FollowWider
<1> QED
  BY <1>2, <1>3 DEF OneLink, Canonicalize

\* An entry that leads to a directory, when links lead where k says.
Leading(e, k) == e.kind = "dir" \/ (e.kind = "link" /\ IsDirectory(k[e.to]))

\* Trees that differ in entries that lead to no directory show the same ones.
LEMMA FollowBetween ==
    ASSUME NEW t \in Tree, NEW u \in Tree,
           NEW k \in [Paths -> Results], NEW l \in [Paths -> Results],
           \A p \in Paths : Alike(k[p], l[p]),
           \A d \in Dirs, n \in Names :
             t[d][n] = u[d][n] \/ (~Leading(t[d][n], k) /\ ~Leading(u[d][n], k))
    PROVE  \A p \in Paths : Alike(Follow(t, k)[p], Follow(u, l)[p])
<1>1. ASSUME NEW r \in Results, NEW q \in Results, Alike(r, q), NEW n \in Names
      PROVE  Alike(Enter(t, r, n, k), Enter(u, q, n, l))
  <2>1. CASE ~(r.st = "ok" /\ r.entry.kind = "dir")
    BY <1>1, <2>1, Zenon DEF Alike, IsDirectory, Enter, Failed
  <2>2. CASE r.st = "ok" /\ r.entry.kind = "dir"
    <3> DEFINE e == t[r.entry.ino][n]
               f == u[r.entry.ino][n]
               After(x, m) == IF x.kind = "absent" THEN Failed("NotFound")
                              ELSE IF x.kind = "link" THEN m[x.to]
                              ELSE Resolved(Append(r.path, n), x)
    <3>1. r = q /\ r.entry.ino \in Dirs
      BY <1>1, <2>2, ResultParts, EntryKinds DEF Alike, IsDirectory
    <3>2. e = f \/ (~Leading(e, k) /\ ~Leading(f, k))
      BY <3>1
    <3>3. e \in Entry /\ f \in Entry
      BY <3>1, TreeEntry
    <3>4. Enter(t, r, n, k) = After(e, k) /\ Enter(u, q, n, l) = After(f, l)
      BY <2>2, <3>1 DEF Enter
    <3>5. \A x \in Entry : x.kind = "link" => Alike(k[x.to], l[x.to])
      BY EntryKinds
    <3>6. \A x, m : IsDirectory(After(x, m)) => Leading(x, m)
      BY DEF IsDirectory, Leading, Failed, Resolved
    <3>7. CASE e = f
      <4>1. e.kind # "link" => After(e, k) = After(e, l)
        OBVIOUS
      <4>2. e.kind = "link" => After(e, k) = k[e.to] /\ After(e, l) = l[e.to]
        OBVIOUS
      <4> HIDE DEF After, e, f
      <4> QED
        BY <3>3, <3>4, <3>5, <3>7, <4>1, <4>2 DEF Alike
    <3>8. CASE ~Leading(e, k) /\ ~Leading(f, k)
      <4>1. ~Leading(f, l)
        BY <3>3, <3>5, <3>8, Zenon DEF Leading, Alike
      <4> HIDE DEF After, e, f
      <4> QED
        BY <3>4, <3>6, <3>8, <4>1 DEF Alike
    <3> QED
      BY <3>2, <3>7, <3>8
  <2> QED
    BY <2>1, <2>2, SMTT(20)
<1>2. /\ Follow(t, k) \in [Paths -> Results] /\ Follow(u, l) \in [Paths -> Results]
      /\ Follow(t, k)[<<>>] = AtRoot /\ Follow(u, l)[<<>>] = AtRoot
      /\ \A p \in Paths : p # <<>> =>
           /\ Follow(t, k)[p] = Enter(t, Follow(t, k)[Front(p)], Last(p), k)
           /\ Follow(u, l)[p] = Enter(u, Follow(u, l)[Front(p)], Last(p), l)
  BY FollowUnfolds
<1> DEFINE Same == {p \in Paths : Alike(Follow(t, k)[p], Follow(u, l)[p])}
<1>3. <<>> \in Same
  BY <1>2 DEF Paths, Alike, IsDirectory
<1>4. ASSUME NEW s \in Paths, s # <<>>, Front(s) \in Same PROVE s \in Same
  <2>1. Front(s) \in Paths /\ Last(s) \in Names
    BY <1>4, FrontAndLast DEF Paths
  <2>2. Follow(t, k)[Front(s)] \in Results /\ Follow(u, l)[Front(s)] \in Results
    BY <1>2, <2>1
  <2> QED
    BY <1>1, <1>2, <1>4, <2>1, <2>2
<1> HIDE DEF Same
<1>5. Paths \subseteq Same
  BY <1>3, <1>4, EverySequence DEF Paths
<1> QED
  BY <1>5 DEF Same

\* Directories and the links to them stay, whatever else changes.
LeftAlone(t, u) ==
  \A d \in Dirs, n \in Names :
    \/ t[d][n] = u[d][n]
    \/ ~Leading(t[d][n], OneLink(t)) /\ ~Leading(u[d][n], OneLink(t))

\* So the same directories are seen at every path.
LEMMA LeftAloneSeen ==
    ASSUME NEW t \in Tree, NEW u \in Tree, LeftAlone(t, u), NEW p \in Paths
    PROVE  /\ Alike(Canonicalize(t, p), Canonicalize(u, p))
           /\ PlainDir(t, p) => PlainDir(u, p)
           /\ Lstat(u, p).kind = "dir" => Lstat(t, p).kind = "dir"
<1> DEFINE none == [q \in Paths |-> Failed("Io")]
<1>1. none \in [Paths -> Results] /\ \A q \in Paths : none[q].st = "Io"
  BY ResultsMade DEF Statuses, Failed
<1>2. NoLinks(t) = Follow(t, none) /\ NoLinks(u) = Follow(u, none)
  BY DEF NoLinks
<1> HIDE DEF none
<1>3. NoLinks(t) \in [Paths -> Results] /\ OneLink(t) \in [Paths -> Results]
        /\ NoLinks(u) \in [Paths -> Results] /\ OneLink(u) \in [Paths -> Results]
  BY LinksType
<1>4. ASSUME NEW e \in Entry, ~Leading(e, OneLink(t))
      PROVE  ~Leading(e, NoLinks(t)) /\ ~Leading(e, none)
  <2>1. e.kind = "link" => e.to \in Paths
    BY EntryKinds
  <2> QED
    BY <1>1, <1>4, <2>1, MoreLinks DEF Leading, IsDirectory
<1>5. ASSUME NEW d \in Dirs, NEW n \in Names
      PROVE  /\ t[d][n] = u[d][n] \/ (~Leading(t[d][n], none) /\ ~Leading(u[d][n], none))
             /\ t[d][n] = u[d][n] \/ (~Leading(t[d][n], NoLinks(t)) /\ ~Leading(u[d][n], NoLinks(t)))
  <2>1. t[d][n] \in Entry /\ u[d][n] \in Entry
    BY TreeEntry
  <2> QED
    BY <1>4, <2>1 DEF LeftAlone
<1>6. \A q \in Paths : Alike(none[q], none[q])
  BY DEF Alike
<1>7. \A q \in Paths : Alike(NoLinks(t)[q], NoLinks(u)[q])
  BY <1>1, <1>2, <1>5, <1>6, FollowBetween
<1>8. \A q \in Paths : Alike(OneLink(t)[q], OneLink(u)[q])
  BY <1>3, <1>5, <1>7, FollowBetween DEF OneLink
<1>9. \A q \in Paths : Alike(Canonicalize(t, q), Canonicalize(u, q))
  BY <1>3, <1>8, FollowBetween DEF Canonicalize, LeftAlone
<1>10. PlainDir(t, p) => PlainDir(u, p)
  BY <1>7 DEF PlainDir, Alike
<1>11. ASSUME Lstat(u, p).kind = "dir" PROVE Lstat(t, p).kind = "dir"
  <2>1. CASE p = <<>>
    BY <1>11, <2>1 DEF Lstat, DirEntry
  <2>2. CASE p # <<>>
    <3> DEFINE c == Canonicalize(u, Front(p))
    <3>1. Front(p) \in Paths /\ Last(p) \in Names
      BY <2>2, PathParts
    <3>2. c.st = "ok" /\ c.entry.kind = "dir" /\ u[c.entry.ino][Last(p)].kind = "dir"
      BY <1>11, <2>2 DEF Lstat, EntryIn, Absent, Other
    <3>3. c \in Results /\ c.entry.ino \in Dirs
      BY <3>1, <3>2, CanonicalizeType, ResultParts, EntryKinds
    <3>4. Canonicalize(t, Front(p)) = c
      BY <1>9, <3>1, <3>2 DEF Alike, IsDirectory
    <3> HIDE DEF c
    <3>5. t[c.entry.ino][Last(p)].kind = "dir"
      BY <3>1, <3>2, <3>3 DEF LeftAlone, Leading
    <3> QED
      BY <2>2, <3>2, <3>4, <3>5 DEF Lstat, EntryIn
  <2> QED
    BY <2>1, <2>2
<1> QED
  BY <1>9, <1>10, <1>11

\* -------------------------------------------------------------- the state
WalkStages == {"resolve", "open", "walk", "entry", "file"}
ListStages == {"capture", "read", "opened", "scanned", "entries", "answer"}
StatStages == {"metadata", "identity", "resolveAgain", "metadataAgain", "handleAgain"}
Listed      == [name : Names, kind : {"absent", "file", "dir", "link"}]
WalkFrames  == [path : Paths, todo : SUBSET Listed, failed : BOOLEAN]
WalkEntries == [path : Paths, link : BOOLEAN, at : Paths]

WalkTypes == /\ disk \in Tree /\ req \in WalkRequest /\ root \in Paths
             /\ stack \in Seq(WalkFrames) /\ cur \in WalkEntries /\ changes \in Nat

\* Which operations reach a stage.
StageOfRequest == /\ pc \in WalkStages => req.op \in {"glob", "grep"}
                  /\ pc \in ListStages => req.op = "list"
                  /\ pc \in StatStages => req.op = "stat"

\* No rule denies where a walk starts; what is a directory there is on a path
\* without links; and while nothing changes the path is known to be allowed.
RootInv ==
  /\ pc \in WalkStages => root = <<>> \/ ~IsPathDenied(root)
  /\ pc = "open" /\ ~moved /\ Lstat(disk, root).kind = "dir" => PlainDir(disk, root)
  /\ pc \in WalkStages \ {"resolve"} /\ ~touched =>
       root = <<>> \/ InRootNow(root).st \in {"ok", "NotFound"}

\* The open directories, and the ones in them, are on paths without links.
PlainFrames(t) == {f \in WalkFrames : /\ PlainDir(t, f.path)
                                      /\ \A x \in f.todo : x.kind = "dir" => PlainDir(t, Append(f.path, x.name))}
StackInv == ~moved => stack \in Seq(PlainFrames(disk))

\* Where the entry in work is: where the walk started, or at an allowed path.
AllowedAt(t, p) == p = <<>> \/ (~IsPathDenied(p) /\ PlainDir(t, Front(p)))
CurInv == pc \in {"entry", "file"} /\ ~moved => cur.at = root \/ AllowedAt(disk, cur.at)

\* What stat knows of the entry whose identity it took.
HandleInv ==
  /\ pc \in {"resolveAgain", "metadataAgain"} /\ changes = 0 => HandleOf(root) = dirId /\ dirId # Absent
  /\ pc = "handleAgain" /\ changes = 0 => meta = dirId
  /\ pc = "handleAgain" /\ changes = 1 => meta = dirId \/ HandleOf(root) = meta
  /\ pc = "handleAgain" => meta # Absent

SearchInv == WalkTypes /\ StageOfRequest /\ RootInv /\ StackInv /\ CurInv /\ HandleInv

\* ----------------------------------------------------- what a path leads to
\* What lstat finds, if no link, is where the path leads.
LEMMA LstatLeads ==
    ASSUME NEW t \in Tree, NEW p \in Paths, Lstat(t, p).kind \notin {"absent", "error", "link"}
    PROVE  Canonicalize(t, p).st = "ok" /\ Canonicalize(t, p).entry = Lstat(t, p)
<1>1. CASE p = <<>>
  BY <1>1, CanonicalizeUnfolds DEF Lstat, AtRoot, Resolved
<1>2. CASE p # <<>>
  <2> DEFINE r == Canonicalize(t, Front(p))
  <2>1. Front(p) \in Paths /\ Last(p) \in Names
    BY <1>2, PathParts
  <2>2. r.st = "ok" /\ r.entry.kind = "dir" /\ Lstat(t, p) = t[r.entry.ino][Last(p)]
    BY <1>2 DEF Lstat, EntryIn, Absent, Other
  <2>3. Canonicalize(t, p) = Enter(t, r, Last(p), OneLink(t))
    BY <1>2, CanonicalizeUnfolds
  <2> HIDE DEF r
  <2>4. Canonicalize(t, p) = Resolved(Append(r.path, Last(p)), Lstat(t, p))
    BY <2>2, <2>3 DEF Enter
  <2> QED
    BY <2>4 DEF Resolved
<1> QED
  BY <1>1, <1>2

\* A path without links on which there is a directory is plain.
LEMMA PlainWhenStraight ==
    ASSUME NEW t \in Tree, NEW p \in Paths, NoLinks(t)[p].st = "ok", Lstat(t, p).kind = "dir"
    PROVE  PlainDir(t, p)
<1>1. Canonicalize(t, p) = NoLinks(t)[p]
  BY LinksType, StraightFollowed DEF Canonicalize
<1>2. Canonicalize(t, p).entry.kind = "dir"
  BY LstatLeads
<1> QED
  BY <1>1, <1>2 DEF PlainDir, IsDirectory

\* What canonical_path_in_root gives is inside the root, allowed and canonical.
LEMMA InRootWhere ==
    ASSUME disk \in Tree, NEW segs \in Segments, InRootNow(segs).st = "ok"
    PROVE  LET c == InRootNow(segs)
           IN  c \in Results /\ c.path \in Paths /\ ~IsPathDenied(c.path) /\ NoLinks(disk)[c.path] = c
<1> DEFINE lex == ResolveLexically(segs)
           c == Canonicalize(disk, lex.path)
<1>1. lex \in Results /\ lex.path \in Paths
  BY ResolveLexicallyType, ResultParts
<1>2. c \in Results /\ Canonical(disk, c)
  BY <1>1, CanonicalizeType, Landing
<1>3. lex.st = "ok" /\ InRootNow(segs) = InRootOrRefused(c, ClassifyNotFoundEscape(disk, lex.path))
  BY DEF InRootNow, CanonicalPathInRoot
<1>4. ClassifyNotFoundEscape(disk, lex.path) \in Statuses
  BY <1>1, ClassifyNotFoundEscapeType
<1> HIDE DEF c, lex
<1>5. InRootNow(segs) = c /\ ~IsPathDenied(c.path) /\ c.st = "ok"
  BY <1>3 DEF InRootOrRefused, Failed
<1> QED
  BY <1>2, <1>5, ResultParts DEF Canonical

\* What is at an allowed path without links is inside the root.
LEMMA InRootStraight ==
    ASSUME disk \in Tree, NEW p \in Paths, p # <<>>, NoLinks(disk)[p].st = "ok", ~IsPathDenied(p)
    PROVE  InRootNow(p).st = "ok"
<1> DEFINE c == Canonicalize(disk, p)
<1>1. c = NoLinks(disk)[p] /\ c.path = p
  BY LinksType, StraightFollowed, Straight DEF Canonicalize
<1>2. NormalizeLexical(p) = p
  BY NormalPath
<1>3. Head(p) \in Names /\ Head(p) # ".."
  BY ShapeAssumption DEF Paths
<1>4. ResolveLexically(p) = Resolved(p, Absent)
  BY <1>2, <1>3 DEF ResolveLexically, ResolveNormal
<1>5. InRootNow(p) = InRootOrRefused(c, ClassifyNotFoundEscape(disk, p))
  BY <1>4 DEF InRootNow, CanonicalPathInRoot, Resolved
<1> HIDE DEF c
<1> QED
  BY <1>1, <1>5 DEF InRootOrRefused, IsPathDenied

\* What exists is not reported as missing.
LEMMA InRootFound ==
    ASSUME disk \in Tree, NEW p \in Paths, Canonicalize(disk, p).st = "ok"
    PROVE  InRootNow(p).st # "NotFound"
<1> DEFINE c == Canonicalize(disk, p)
<1>1. NormalizeLexical(p) = p
  BY NormalPath
<1>2. ResolveLexically(p).st # "NotFound"
  BY DEF ResolveLexically, ResolveNormal, Failed, Resolved
<1>3. ResolveLexically(p).st = "ok" => ResolveLexically(p).path = p
  BY <1>1, NormalPath, ResolveLexicallyType
<1>4. ResolveLexically(p).st = "ok" =>
        InRootNow(p) = InRootOrRefused(c, ClassifyNotFoundEscape(disk, p))
  BY <1>3 DEF InRootNow, CanonicalPathInRoot
<1>5. ResolveLexically(p).st # "ok" => InRootNow(p) = ResolveLexically(p)
  BY DEF InRootNow
<1> HIDE DEF c
<1>6. c.st = "ok" => InRootOrRefused(c, ClassifyNotFoundEscape(disk, p)).st # "NotFound"
  BY DEF InRootOrRefused, Failed
<1> QED
  BY <1>2, <1>4, <1>5, <1>6 DEF c

\* A file at a path whose parent is plain is inside the root unless denied.
LEMMA FileInside ==
    ASSUME disk \in Tree, NEW p \in Paths, p # <<>>, ~IsPathDenied(p), PlainDir(disk, Front(p)),
           Lstat(disk, p).kind = "file"
    PROVE  InRootNow(p).st = "ok"
<1>1. PICK q \in Paths, n \in Names : p = Append(q, n) /\ q = Front(p)
  <2>1. Front(p) \in Paths /\ Last(p) \in Names /\ p = Append(Front(p), Last(p))
    BY PathParts DEF Paths, Front, Last
  <2> QED
    BY <2>1
<1> DEFINE e == disk[NoLinks(disk)[q].entry.ino][n]
<1>2. PlainDir(disk, q)
  BY <1>1
<1>3. Lstat(disk, Append(q, n)) = e
  BY <1>2, Sight
<1>4. e.kind = "file"
  BY <1>1, <1>3
<1>5. NoLinks(disk)[Append(q, n)] = Resolved(Append(q, n), e)
  BY <1>2, <1>4, StepDown
<1> HIDE DEF e
<1>6. NoLinks(disk)[p].st = "ok"
  BY <1>1, <1>5 DEF Resolved
<1> QED
  BY <1>6, InRootStraight

\* A frame of what is read of a directory without links is plain.
LEMMA FramePlain ==
    ASSUME disk \in Tree, NEW p \in Paths
    PROVE  Frame(p) \in WalkFrames /\ (PlainDir(disk, p) => Frame(p) \in PlainFrames(disk))
<1> DEFINE r == Canonicalize(disk, p)
           l == ReadDir(disk, p)
<1>1. r \in Results
  BY CanonicalizeType
<1>2. \/ l.entries = {}
      \/ r.st = "ok" /\ r.entry.kind = "dir" /\ l.entries = EntriesOf(disk, r.entry.ino)
  BY DEF ReadDir, ListingOf
<1>3. \A x \in l.entries : /\ r.st = "ok" /\ r.entry.kind = "dir" /\ x.name \in Names
                          /\ x = [name |-> x.name, kind |-> disk[r.entry.ino][x.name].kind]
  BY <1>2 DEF EntriesOf
<1>4. Frame(p) = [path |-> p, todo |-> l.entries, failed |-> l.st # "ok"]
  BY DEF Frame
<1> HIDE DEF r, l
<1>5. r.st = "ok" /\ r.entry.kind = "dir" => r.entry.ino \in Dirs
  BY <1>1, ResultParts, EntryKinds
<1>6. ASSUME NEW x \in l.entries PROVE x \in Listed
  <2>1. disk[r.entry.ino][x.name] \in Entry /\ x.name \in Names
    BY <1>3, <1>5, TreeEntry
  <2>2. disk[r.entry.ino][x.name].kind \in {"absent", "file", "dir", "link"}
    BY <2>1, EntryKinds
  <2>3. x = [name |-> x.name, kind |-> disk[r.entry.ino][x.name].kind]
    BY <1>3
  <2> QED
    BY <2>1, <2>2, <2>3 DEF Listed
<1>7. Frame(p) \in WalkFrames
  BY <1>4, <1>6 DEF WalkFrames
<1>8. ASSUME PlainDir(disk, p), NEW x \in l.entries, x.kind = "dir"
      PROVE  PlainDir(disk, Append(p, x.name))
  <2>1. r = NoLinks(disk)[p] /\ x.name \in Names
    BY <1>3, <1>8, Sight DEF r
  <2>2. disk[NoLinks(disk)[p].entry.ino][x.name].kind = "dir"
    BY <1>3, <1>8, <2>1
  <2>3. NoLinks(disk)[Append(p, x.name)]
          = Resolved(Append(p, x.name), disk[NoLinks(disk)[p].entry.ino][x.name])
    BY <1>8, <2>1, <2>2, StepDown
  <2> QED
    BY <2>2, <2>3 DEF PlainDir, IsDirectory, Resolved
<1> QED
  BY <1>4, <1>7, <1>8 DEF PlainFrames

\* A set of numbers that is not empty has a least one.
LEMMA LeastNumber ==
    ASSUME NEW S \in SUBSET Nat, S # {}
    PROVE  Min(S) \in S /\ \A x \in S : Min(S) <= x
<1> DEFINE Bounded == {n \in Nat : \A T \in SUBSET Nat : n \in T =>
                                     \E x \in T : \A y \in T : x <= y}
           Under == {n \in Nat : \A m \in 0 .. n : m \in Bounded}
<1>1. 0 \in Under
  <2>1. \A m \in 0 .. 0 : m \in Bounded
    OBVIOUS
  <2> QED
    BY <2>1
<1>2. ASSUME NEW n \in Nat, n \in Under PROVE n + 1 \in Under
  <2>1. ASSUME NEW T \in SUBSET Nat, n + 1 \in T PROVE \E x \in T : \A y \in T : x <= y
    <3>1. CASE \A y \in T : n + 1 <= y
      BY <2>1, <3>1
    <3>2. CASE \E y \in T : y <= n
      <4>1. PICK y \in T : y <= n
        BY <3>2
      <4>2. y \in 0 .. n
        BY <4>1
      <4> QED
        BY <1>2, <4>1, <4>2
    <3> QED
      BY <3>1, <3>2
  <2>2. n + 1 \in Bounded
    BY <2>1
  <2> HIDE DEF Bounded
  <2> QED
    BY <1>2, <2>2
<1> HIDE DEF Under
<1>3. Nat \subseteq Under
  BY <1>1, <1>2, EveryNumber
<1>4. \E x \in S : \A y \in S : x <= y
  <2>1. PICK n \in S : TRUE
    OBVIOUS
  <2>2. n \in Under
    BY <1>3, <2>1
  <2>3. n \in Bounded
    BY <2>1, <2>2 DEF Under
  <2> QED
    BY <2>1, <2>3
<1> QED
  BY <1>4 DEF Min

\* The names before the first wildcard are a path.
LEMMA LiteralPrefixType ==
    ASSUME NEW pattern \in Seq(Names \cup Wild)
    PROVE  LiteralPrefix(pattern) \in Paths
<1> DEFINE wild == {i \in 1 .. Len(pattern) : pattern[i] \in Wild}
<1>1. CASE wild = {}
  <2>1. \A i \in 1 .. Len(pattern) : pattern[i] \in Names
    BY <1>1
  <2> QED
    BY <1>1, <2>1 DEF LiteralPrefix, Paths
<1>2. CASE wild # {}
  <2> DEFINE k == Min(wild)
  <2>1. k \in wild /\ \A x \in wild : k <= x
    <3>1. wild \in SUBSET Nat
      OBVIOUS
    <3> HIDE DEF wild
    <3> QED
      BY <1>2, <3>1, LeastNumber
  <2> HIDE DEF k
  <2>2. \A i \in 1 .. k - 1 : i \in 1 .. Len(pattern) /\ i \notin wild
    BY <2>1
  <2>3. \A i \in 1 .. k - 1 : pattern[i] \in Names
    BY <2>2
  <2>4. SubSeq(pattern, 1, k - 1) \in Seq(Names)
    BY <2>1, <2>3
  <2> QED
    BY <1>2, <2>4 DEF LiteralPrefix, Paths, k
<1> QED
  BY <1>1, <1>2

\* ---------------------------------------------------------- other programs
\* An entry that does not lead on is no directory and no link to one.
LEMMA NotLeading ==
    ASSUME disk \in Tree, NEW n \in Names, ~Leads(n)
    PROVE  ~Leading(disk[Root][n], OneLink(disk))
<1> DEFINE e == disk[Root][n]
           c == Canonicalize(disk, <<n>>)
<1>1. <<n>> \in Paths /\ <<n>> # <<>> /\ Front(<<n>>) = <<>> /\ Last(<<n>>) = n /\ <<>> \in Paths
  BY DEF Paths, Front, Last
<1>2. Canonicalize(disk, <<>>) = AtRoot /\ c = Enter(disk, AtRoot, n, OneLink(disk))
  BY <1>1, CanonicalizeUnfolds
<1>3. Enter(disk, AtRoot, n, OneLink(disk)) =
        IF e.kind = "absent" THEN Failed("NotFound")
        ELSE IF e.kind = "link" THEN OneLink(disk)[e.to] ELSE Resolved(<<n>>, e)
  BY DEF Enter, AtRoot, Resolved, DirEntry
<1>4. c.entry.kind # "dir"
  BY DEF Leads
<1> HIDE DEF c, e
<1> QED
  BY <1>2, <1>3, <1>4 DEF Leading, IsDirectory, Resolved, e

\* What other programs do: a file appears, or something is counted as a change;
\* and unless it counts as a move, directories and the links to them stay.
LEMMA OthersChange ==
    ASSUME disk \in Tree, Environment
    PROVE  /\ disk' \in Tree /\ Touch
           /\ \/ /\ changes' = changes
                 /\ \A d \in Dirs, n \in Names : disk[d][n].kind # "absent" => disk'[d][n] = disk[d][n]
              \/ changes' = changes + 1
           /\ ~moved' => ~moved /\ LeftAlone(disk, disk')
<1>1. CASE \E s \in CreatorSlots : CreateFile(s[1], s[2]) \/ UnlinkFile(s[1], s[2])
  <2> PICK s \in CreatorSlots : CreateFile(s[1], s[2]) \/ UnlinkFile(s[1], s[2])
    BY <1>1
  <2> DEFINE d == s[1]
             n == s[2]
  <2>1. d \in Dirs /\ n \in Names
    BY WalkAssumption
  <2> HIDE DEF d, n
  <2>2. PICK e \in Entry :
          /\ disk' = Put(disk, d, n, e) /\ Touch /\ UNCHANGED moved
          /\ disk[d][n].kind \in {"absent", "file"} /\ e.kind \in {"absent", "file"}
          /\ \/ changes' = changes /\ disk[d][n].kind = "absent"
             \/ changes' = changes + 1
    <3>1. CASE CreateFile(d, n)
      <4>1. FileEntry(Created, "hits") \in Entry /\ FileEntry(Created, "hits").kind = "file"
        BY WalkAssumption, EntriesMade DEF FileEntry
      <4> QED
        BY <3>1, <4>1 DEF CreateFile, Absent
    <3>2. CASE UnlinkFile(d, n)
      <4>1. Absent \in Entry /\ Absent.kind = "absent"
        BY EntriesMade DEF Absent
      <4> QED
        BY <3>2, <4>1 DEF UnlinkFile
    <3> QED
      BY <3>1, <3>2 DEF d, n
  <2>3. /\ disk' \in Tree
        /\ \A k \in Dirs, m \in Names : disk'[k][m] = IF k = d /\ m = n THEN e ELSE disk[k][m]
    BY <2>1, <2>2, PutTree
  <2>4. LeftAlone(disk, disk')
    BY <2>2, <2>3 DEF LeftAlone, Leading
  <2> QED
    BY <2>2, <2>3, <2>4
<1>2. CASE \E n, m \in ExchangedNames : ExchangeEntries(n, m)
  <2> PICK n \in ExchangedNames, m \in ExchangedNames : ExchangeEntries(n, m)
    BY <1>2
  <2>1. n \in Names /\ m \in Names /\ Root \in Dirs /\ n # m
    BY WalkAssumption, TreeAssumption DEF ExchangeEntries
  <2>2. /\ disk' = [disk EXCEPT ![Root][n] = disk[Root][m], ![Root][m] = disk[Root][n]]
        /\ Touch /\ changes' = changes + 1 /\ moved' = (moved \/ Leads(n) \/ Leads(m))
    BY DEF ExchangeEntries
  <2>3. /\ disk' \in Tree
        /\ \A d \in Dirs, k \in Names \cup Calls :
             disk'[d][k] = IF d = Root /\ k = n THEN disk[Root][m]
                           ELSE IF d = Root /\ k = m THEN disk[Root][n] ELSE disk[d][k]
    <3> HIDE DEF Entry
    <3> QED
      BY <2>1, <2>2 DEF Tree
  <2>4. ~moved' => ~moved /\ ~Leads(n) /\ ~Leads(m)
    BY <2>2
  <2>5. ~moved' => /\ ~Leading(disk[Root][n], OneLink(disk))
                   /\ ~Leading(disk[Root][m], OneLink(disk))
    BY <2>1, <2>4, NotLeading
  <2>6. ~moved' => LeftAlone(disk, disk')
    BY <2>3, <2>5 DEF LeftAlone
  <2> QED
    BY <2>2, <2>3, <2>4, <2>6
<1> QED
  BY <1>1, <1>2 DEF Environment

\* Sequences of members of a set are sequences of members of a larger one.
LEMMA SeqWider ==
    ASSUME NEW A, NEW B, A \subseteq B, NEW s \in Seq(A)
    PROVE  s \in Seq(B)
OBVIOUS

\* What other programs do keeps the invariant.
LEMMA OthersKeep ==
    ASSUME SearchInv, Environment
    PROVE  SearchInv'
<1>1. /\ disk' \in Tree /\ Touch
      /\ \/ /\ changes' = changes
            /\ \A d \in Dirs, n \in Names : disk[d][n].kind # "absent" => disk'[d][n] = disk[d][n]
         \/ changes' = changes + 1
      /\ ~moved' => ~moved /\ LeftAlone(disk, disk')
  BY OthersChange DEF SearchInv, WalkTypes
<1>2. /\ touched' = TRUE
      /\ UNCHANGED <<pc, req, root, stack, cur, dirId, meta>>
  BY <1>1 DEF Touch, searchVars, listVars
<1>3. WalkTypes' /\ StageOfRequest'
  BY <1>1, <1>2 DEF SearchInv, WalkTypes, StageOfRequest
<1>4. ASSUME ~moved', NEW p \in Paths
      PROVE  /\ PlainDir(disk, p) => PlainDir(disk', p)
             /\ Lstat(disk', p).kind = "dir" => Lstat(disk, p).kind = "dir"
  BY <1>1, <1>4, LeftAloneSeen DEF SearchInv, WalkTypes
<1>5. RootInv'
  BY <1>1, <1>2, <1>4 DEF SearchInv, RootInv, WalkTypes
<1>6. StackInv'
  <2> SUFFICES ASSUME ~moved' PROVE stack \in Seq(PlainFrames(disk'))
    BY <1>2 DEF StackInv
  <2>1. ASSUME NEW f \in PlainFrames(disk) PROVE f \in PlainFrames(disk')
    <3>1. f \in WalkFrames /\ f.path \in Paths /\ f.todo \subseteq Listed
      BY DEF PlainFrames, WalkFrames
    <3>2. \A x \in f.todo : Append(f.path, x.name) \in Paths
      BY <3>1, PathAppended DEF Listed
    <3> QED
      BY <1>4, <3>1, <3>2 DEF PlainFrames
  <2> QED
    BY <1>1, <2>1, SeqWider DEF SearchInv, StackInv
<1>7. CurInv'
  <2>1. ASSUME ~moved', NEW p \in Paths, AllowedAt(disk, p) PROVE AllowedAt(disk', p)
    <3>1. p # <<>> => Front(p) \in Paths
      BY PathParts
    <3> QED
      BY <1>4, <2>1, <3>1 DEF AllowedAt
  <2>2. cur.at \in Paths
    BY DEF SearchInv, WalkTypes, WalkEntries
  <2> QED
    BY <1>1, <1>2, <2>1, <2>2 DEF SearchInv, CurInv
<1>8. HandleInv'
  <2>1. CASE changes' = changes + 1
    BY <1>2, <2>1 DEF SearchInv, WalkTypes, HandleInv
  <2>2. CASE changes' # changes + 1
    <3>1. changes' = changes
            /\ \A d \in Dirs, n \in Names : disk[d][n].kind # "absent" => disk'[d][n] = disk[d][n]
      BY <1>1, <2>2
    <3>2. Canonicalize(disk, root).st = "ok" => Canonicalize(disk', root) = Canonicalize(disk, root)
      BY <1>1, <3>1, FilledLeads DEF SearchInv, WalkTypes
    <3>3. HandleOf(root) # Absent => HandleOf(root)' = HandleOf(root)
      BY <1>2, <3>2 DEF HandleOf
    <3> QED
      BY <1>2, <3>1, <3>3 DEF SearchInv, HandleInv
  <2> QED
    BY <2>1, <2>2
<1> QED
  BY <1>3, <1>5, <1>6, <1>7, <1>8 DEF SearchInv

\* ---------------------------------------------------------------- the calls
\* At the start.
LEMMA WalkInitInv ==
    ASSUME WalkInit
    PROVE  SearchInv
<1>1. /\ disk \in Tree /\ req \in WalkRequest /\ root = <<>> /\ stack = <<>> /\ changes = 0
      /\ pc = "start" /\ cur = NoEntry
  BY WalkAssumption DEF WalkInit
<1>2. WalkTypes
  BY <1>1 DEF WalkTypes, NoEntry, WalkEntries, Paths
<1>3. StageOfRequest /\ RootInv /\ CurInv /\ HandleInv
  BY <1>1 DEF StageOfRequest, RootInv, CurInv, HandleInv, WalkStages, ListStages, StatStages
<1>4. StackInv
  BY <1>1 DEF StackInv
<1> QED
  BY <1>2, <1>3, <1>4 DEF SearchInv

\* A call that ends.
LEMMA EndedInv ==
    ASSUME SearchInv, Keep, pc' = "done", UNCHANGED <<root, cur>>, stack' = <<>> \/ stack' = stack
    PROVE  SearchInv'
<1>1. UNCHANGED <<disk, req, changes, touched, moved>>
  BY DEF Keep, envVars
<1>2. \A S : stack \in Seq(S) => stack' \in Seq(S)
  <2>1. \A S : <<>> \in Seq(S)
    OBVIOUS
  <2>2. CASE stack' = <<>>
    BY <2>1, <2>2
  <2>3. CASE stack' = stack
    BY <2>3
  <2> QED
    BY <2>2, <2>3
<1>3. WalkTypes'
  BY <1>1, <1>2 DEF SearchInv, WalkTypes
<1>4. StageOfRequest' /\ RootInv' /\ CurInv' /\ HandleInv'
  BY DEF StageOfRequest, RootInv, CurInv, HandleInv, WalkStages, ListStages, StatStages
<1>5. StackInv'
  BY <1>1, <1>2 DEF SearchInv, StackInv
<1> QED
  BY <1>3, <1>4, <1>5 DEF SearchInv

\* It fails, or it answers a search.
LEMMA FailInv ==
    ASSUME SearchInv, NEW r, Fail(r)
    PROVE  SearchInv'
BY EndedInv DEF Fail, searchVars

\* It answers a search.
LEMMA RespondInv ==
    ASSUME SearchInv, NEW d, NEW ms, Respond(d, ms)
    PROVE  SearchInv'
BY EndedInv DEF Respond

\* The walk goes on.
LEMMA WalkOnInv ==
    ASSUME SearchInv, pc \in WalkStages \ {"resolve"}, pc' \in {"walk", "entry", "file"}, Keep, root' = root,
           stack' \in Seq(WalkFrames), ~moved => stack' \in Seq(PlainFrames(disk)), cur' \in WalkEntries,
           pc' \in {"entry", "file"} /\ ~moved => cur'.at = root \/ AllowedAt(disk, cur'.at)
    PROVE  SearchInv'
<1>1. UNCHANGED <<disk, req, changes, touched, moved>>
  BY DEF Keep, envVars
<1>2. WalkTypes'
  BY <1>1 DEF SearchInv, WalkTypes
<1>3. StageOfRequest' /\ HandleInv'
  BY <1>1 DEF SearchInv, StageOfRequest, HandleInv, WalkStages, ListStages, StatStages
<1>4. RootInv'
  BY <1>1 DEF SearchInv, RootInv, WalkStages, InRootNow
<1>5. StackInv' /\ CurInv'
  BY <1>1 DEF StackInv, CurInv
<1> QED
  BY <1>2, <1>3, <1>4, <1>5 DEF SearchInv

\* And when the open directories and the entry in work stay.
LEMMA WalkSameInv ==
    ASSUME SearchInv, pc \in WalkStages \ {"resolve"}, pc' = "walk", Keep, UNCHANGED <<root, stack, cur>>
    PROVE  SearchInv'
BY WalkOnInv DEF SearchInv, WalkTypes, StackInv

\* A step of list_dir or stat.
LEMMA LookInv ==
    ASSUME SearchInv, Keep, UNCHANGED <<stack, cur>>, root' \in Paths, HandleInv',
           \/ pc' \in ListStages /\ req.op = "list"
           \/ pc' \in StatStages /\ req.op = "stat"
    PROVE  SearchInv'
<1>1. UNCHANGED <<disk, req, changes, touched, moved>>
  BY DEF Keep, envVars
<1>2. WalkTypes'
  BY <1>1 DEF SearchInv, WalkTypes
<1>3. StageOfRequest' /\ RootInv' /\ CurInv'
  BY <1>1 DEF StageOfRequest, RootInv, CurInv, WalkStages, ListStages, StatStages
<1>4. StackInv'
  BY <1>1 DEF SearchInv, StackInv
<1> QED
  BY <1>2, <1>3, <1>4 DEF SearchInv

\* A search begins.
LEMMA BeginSearchInv ==
    ASSUME SearchInv, BeginSearch
    PROVE  SearchInv'
<1> DEFINE prefix == LiteralPrefix(req.pattern)
<1>1. req.op \in {"glob", "grep"} /\ prefix \in Paths
  <2>1. req \in WalkRequest /\ req.op \in {"glob", "grep"}
    BY DEF SearchInv, WalkTypes, BeginSearch, Search
  <2>2. req.pattern \in Seq(Names \cup Wild)
    BY <2>1 DEF WalkRequest
  <2> QED
    BY <2>1, <2>2, LiteralPrefixType
<1>2. CASE Fail("NotPermitted")
  BY <1>2, FailInv
<1>3. CASE Respond(diag, <<>>)
  BY <1>3, RespondInv
<1>4. CASE /\ prefix = <<>> \/ ~Filtered(prefix, Lstat(disk, prefix).kind = "dir")
           /\ pc' = "resolve" /\ root' = prefix /\ UNCHANGED searchVars /\ Keep
  <2> HIDE DEF prefix
  <2>1. UNCHANGED <<disk, req, changes, touched, moved, stack, cur>>
    BY <1>4 DEF Keep, envVars, searchVars
  <2>2. prefix = <<>> \/ ~IsPathDenied(prefix)
    BY <1>4 DEF Filtered
  <2>3. WalkTypes'
    BY <1>1, <1>4, <2>1 DEF SearchInv, WalkTypes
  <2>4. StageOfRequest' /\ RootInv' /\ CurInv' /\ HandleInv'
    BY <1>1, <1>4, <2>1, <2>2 DEF StageOfRequest, RootInv, CurInv, HandleInv, WalkStages, ListStages, StatStages
  <2>5. StackInv'
    BY <2>1 DEF SearchInv, StackInv
  <2> QED
    BY <2>3, <2>4, <2>5 DEF SearchInv
<1> QED
  BY <1>2, <1>3, <1>4 DEF BeginSearch

\* The root of the walk is resolved.
LEMMA ResolveWalkRootInv ==
    ASSUME SearchInv, ResolveWalkRoot
    PROVE  SearchInv'
<1> DEFINE c == InRootNow(root)
           alias == Lstat(disk, root).kind \in {"file", "link"}
<1>1. /\ pc = "resolve" /\ disk \in Tree /\ root \in Paths
      /\ root = <<>> \/ ~IsPathDenied(root)
      /\ req.op \in {"glob", "grep"}
  BY DEF SearchInv, WalkTypes, RootInv, StageOfRequest, ResolveWalkRoot, WalkStages
<1>2. CASE \E r : Fail(r)
  BY <1>2, FailInv
<1>3. CASE /\ root = <<>> \/ c.st \in {"ok", "NotFound"}
           /\ pc' = "open" /\ root' = IF root # <<>> /\ c.st = "ok" /\ ~alias THEN c.path ELSE root
           /\ UNCHANGED searchVars /\ Keep
  <2>1. UNCHANGED <<disk, req, changes, touched, moved, stack, cur>>
    BY <1>3 DEF Keep, envVars, searchVars
  <2> DEFINE Good(p) == /\ p \in Paths /\ (p = <<>> \/ ~IsPathDenied(p))
                        /\ Lstat(disk, p).kind = "dir" => PlainDir(disk, p)
                        /\ p = <<>> \/ InRootNow(p).st \in {"ok", "NotFound"}
  <2>2. Good(root')
    <3>1. CASE root = <<>>
      <4>1. PlainDir(disk, <<>>)
        <5>1. <<>> \in Paths
          BY DEF Paths
        <5> QED
          BY <1>1, <5>1, NoLinksUnfolds DEF PlainDir, IsDirectory, AtRoot, Resolved, DirEntry
      <4> QED
        BY <1>1, <1>3, <3>1, <4>1
    <3>2. CASE root # <<>> /\ c.st = "ok" /\ ~alias
      <4>1. c.path \in Paths /\ ~IsPathDenied(c.path) /\ NoLinks(disk)[c.path] = c
        BY <1>1, <3>2, NormalPath, InRootWhere
      <4>2. Lstat(disk, c.path).kind = "dir" => PlainDir(disk, c.path)
        BY <1>1, <3>2, <4>1, PlainWhenStraight
      <4>3. c.path = <<>> \/ InRootNow(c.path).st = "ok"
        BY <1>1, <3>2, <4>1, InRootStraight
      <4>4. root' = c.path
        BY <1>3, <3>2
      <4> HIDE DEF c
      <4> QED
        BY <4>1, <4>2, <4>3, <4>4
    <3>3. CASE root # <<>> /\ ~(c.st = "ok" /\ ~alias)
      <4>1. ASSUME Lstat(disk, root).kind = "dir" PROVE FALSE
        <5>1. c.st = "NotFound"
          BY <1>3, <3>3, <4>1
        <5>2. Canonicalize(disk, root).st = "ok"
          BY <1>1, <4>1, LstatLeads
        <5> QED
          BY <1>1, <5>1, <5>2, InRootFound
      <4> QED
        BY <1>1, <1>3, <3>3, <4>1
    <3> QED
      BY <3>1, <3>2, <3>3
  <2>3. WalkTypes'
    BY <2>1, <2>2 DEF SearchInv, WalkTypes
  <2>4. StageOfRequest' /\ CurInv' /\ HandleInv'
    BY <1>1, <1>3, <2>1 DEF StageOfRequest, CurInv, HandleInv, WalkStages, ListStages, StatStages
  <2>5. RootInv'
    BY <1>3, <2>1, <2>2, Zenon DEF RootInv, InRootNow
  <2>6. StackInv'
    BY <2>1 DEF SearchInv, StackInv
  <2> QED
    BY <2>3, <2>4, <2>5, <2>6 DEF SearchInv
<1> QED
  BY <1>2, <1>3 DEF ResolveWalkRoot

\* The time is up.
LEMMA LimitInv ==
    ASSUME SearchInv, NEW why, Limit(why)
    PROVE  SearchInv'
BY RespondInv DEF Limit

\* The root is opened, or is the only entry.
LEMMA OpenWalkRootInv ==
    ASSUME SearchInv, OpenWalkRoot
    PROVE  SearchInv'
<1> DEFINE e == Lstat(disk, root)
           f == Frame(root)
<1>1. pc = "open" /\ disk \in Tree /\ root \in Paths /\ stack \in Seq(WalkFrames)
  BY DEF SearchInv, WalkTypes, OpenWalkRoot
<1>2. CASE Respond(diag, matches)
  BY <1>2, RespondInv
<1>3. CASE Fail("Io")
  BY <1>3, FailInv
<1>4. CASE Expired \/ Limit("Files")
  BY <1>4, LimitInv DEF Expired
<1>5. CASE /\ e.kind = "dir" /\ pc' = "walk" /\ stack' = <<f>>
           /\ UNCHANGED <<root, cur>> /\ Keep
  <2>1. f \in WalkFrames /\ (~moved => f \in PlainFrames(disk))
    BY <1>1, <1>5, FramePlain DEF SearchInv, RootInv
  <2> HIDE DEF f
  <2>2. stack' \in Seq(WalkFrames) /\ (~moved => stack' \in Seq(PlainFrames(disk)))
    BY <1>5, <2>1
  <2> QED
    BY <1>1, <1>5, <2>2, WalkOnInv DEF SearchInv, WalkTypes, WalkStages
<1>6. CASE /\ pc' = "entry" /\ cur' = [path |-> root, link |-> e.kind = "link", at |-> root]
           /\ UNCHANGED <<root, stack>> /\ Keep
  <2>1. cur' \in WalkEntries /\ cur'.at = root
    BY <1>1, <1>6 DEF WalkEntries
  <2> QED
    BY <1>1, <1>6, <2>1, WalkOnInv DEF SearchInv, WalkTypes, StackInv, WalkStages
<1> QED
  BY <1>2, <1>3, <1>4, <1>5, <1>6 DEF OpenWalkRoot

\* What is open when an entry of the innermost directory is taken.
Rest(e) == Append(Front(stack), [Top EXCEPT !.todo = @ \ {e}])

\* It is open and plain as before.
LEMMA RestOpen ==
    ASSUME SearchInv, stack # <<>>, NEW e
    PROVE  /\ Rest(e) \in Seq(WalkFrames) /\ (~moved => Rest(e) \in Seq(PlainFrames(disk)))
           /\ Front(stack) \in Seq(WalkFrames) /\ (~moved => Front(stack) \in Seq(PlainFrames(disk)))
           /\ Top \in WalkFrames /\ (~moved => Top \in PlainFrames(disk))
<1>1. stack \in Seq(WalkFrames) /\ (~moved => stack \in Seq(PlainFrames(disk)))
  BY DEF SearchInv, WalkTypes, StackInv
<1>2. Front(stack) \in Seq(WalkFrames) /\ Top \in WalkFrames
  BY <1>1, FrontAndLast DEF Top
<1>3. ~moved => Front(stack) \in Seq(PlainFrames(disk)) /\ Top \in PlainFrames(disk)
  BY <1>1, FrontAndLast DEF Top
<1> DEFINE g == [Top EXCEPT !.todo = @ \ {e}]
<1>4. g \in WalkFrames /\ g.path = Top.path /\ g.todo \subseteq Top.todo
  BY <1>2 DEF WalkFrames
<1>5. Top \in PlainFrames(disk) => g \in PlainFrames(disk)
  <2> HIDE DEF g
  <2> QED
    BY <1>4 DEF PlainFrames
<1> HIDE DEF g
<1>6. Rest(e) = Append(Front(stack), g)
  BY DEF Rest, g
<1> QED
  BY <1>2, <1>3, <1>4, <1>5, <1>6

\* An entry is filtered, entered or looked at.
LEMMA NextEntryInv ==
    ASSUME SearchInv, NEW n \in Names, NEW k \in {"file", "dir", "link"},
           NextEntry([name |-> n, kind |-> k])
    PROVE  SearchInv'
<1> DEFINE e == [name |-> n, kind |-> k]
           p == Append(Top.path, e.name)
<1>1. pc = "walk" /\ stack # <<>> /\ e \in Top.todo /\ disk \in Tree /\ cur \in WalkEntries
  BY DEF NextEntry, SearchInv, WalkTypes
<1>2. /\ Rest(e) \in Seq(WalkFrames) /\ (~moved => Rest(e) \in Seq(PlainFrames(disk)))
      /\ Top \in WalkFrames /\ (~moved => Top \in PlainFrames(disk))
  BY <1>1, RestOpen
<1>3. Top.path \in Paths /\ p \in Paths /\ p # <<>> /\ Front(p) = Top.path
  <2>1. Top.path \in Paths
    BY <1>2 DEF WalkFrames
  <2> QED
    BY <2>1, PathAppended, FrontOfAppend DEF Paths
<1>4. ~moved => PlainDir(disk, Top.path) /\ (e.kind = "dir" => PlainDir(disk, p))
  BY <1>1, <1>2 DEF PlainFrames
<1>5. CASE /\ stack' = Rest(e) /\ UNCHANGED <<pc, root, cur>> /\ Keep
  BY <1>1, <1>2, <1>5, WalkOnInv DEF WalkStages
<1>6. CASE Expired \/ Limit("Entries") \/ (\E d : Respond(d, matches))
  BY <1>6, LimitInv, RespondInv DEF Expired
<1>7. CASE /\ e.kind = "dir" /\ stack' = Append(Rest(e), Frame(p))
           /\ UNCHANGED <<pc, root, cur>> /\ Keep
  <2>1. Frame(p) \in WalkFrames /\ (~moved => Frame(p) \in PlainFrames(disk))
    BY <1>1, <1>3, <1>4, <1>7, FramePlain
  <2>2. stack' \in Seq(WalkFrames) /\ (~moved => stack' \in Seq(PlainFrames(disk)))
    BY <1>2, <1>7, <2>1
  <2> QED
    BY <1>1, <1>7, <2>2, WalkOnInv DEF WalkStages
<1>8. CASE /\ ~Filtered(p, e.kind = "dir") /\ pc' = "entry" /\ stack' = Rest(e)
           /\ cur' = [path |-> p, link |-> e.kind = "link", at |-> p] /\ UNCHANGED root /\ Keep
  <2>1. cur' \in WalkEntries /\ cur'.at = p
    BY <1>3, <1>8 DEF WalkEntries
  <2>2. ~IsPathDenied(p)
    BY <1>8 DEF Filtered
  <2>3. ~moved => AllowedAt(disk, p)
    BY <1>3, <1>4, <2>2 DEF AllowedAt
  <2> HIDE DEF p, e
  <2> QED
    BY <1>1, <1>2, <1>8, <2>1, <2>3, WalkOnInv DEF WalkStages
<1> QED
  BY <1>5, <1>6, <1>7, <1>8 DEF NextEntry, Rest

\* A directory is left, or could not be opened.
LEMMA LeaveDirectoryInv ==
    ASSUME SearchInv, FailedDirectory \/ LeaveDirectory
    PROVE  SearchInv'
<1>1. pc = "walk"
  BY DEF FailedDirectory, LeaveDirectory
<1>2. CASE Expired \/ Limit("Entries") \/ Respond(diag, matches)
  BY <1>2, LimitInv, RespondInv DEF Expired
<1>3. CASE stack # <<>> /\ stack' = Front(stack) /\ UNCHANGED <<pc, root, cur>> /\ Keep
  BY <1>1, <1>3, RestOpen, WalkOnInv DEF SearchInv, WalkTypes, WalkStages
<1> QED
  BY <1>2, <1>3 DEF FailedDirectory, LeaveDirectory

\* The walk goes on after an entry.
LEMMA WalkedInv ==
    ASSUME SearchInv, pc \in {"entry", "file"}, NEW d, Walk(d)
    PROVE  SearchInv'
BY WalkSameInv DEF Walk, WalkStages

\* A path is added to what glob found.
LEMMA AddPathInv ==
    ASSUME SearchInv, pc \in {"entry", "file"}, NEW p, AddPath(p)
    PROVE  SearchInv'
BY WalkedInv, LimitInv DEF AddPath

\* An entry is resolved again, if it must be.
LEMMA ResolveEntryInv ==
    ASSUME SearchInv, ResolveEntry
    PROVE  SearchInv'
<1> DEFINE c == InRootNow(cur.path)
<1>1. pc = "entry" /\ disk \in Tree /\ cur \in WalkEntries /\ cur.path \in Paths
  BY DEF ResolveEntry, SearchInv, WalkTypes, WalkEntries
<1>2. CASE AddPath(cur.path)
  BY <1>1, <1>2, AddPathInv
<1>3. CASE \E counter : Skip(counter)
  BY <1>1, <1>3, WalkedInv DEF Skip
<1>4. CASE pc' = "file" /\ cur' = cur /\ UNCHANGED <<root, stack>> /\ Keep
  BY <1>1, <1>4, WalkOnInv DEF SearchInv, WalkTypes, StackInv, CurInv, WalkStages
<1>5. CASE c.st = "ok" /\ pc' = "file" /\ cur' = [cur EXCEPT !.at = c.path] /\ UNCHANGED <<root, stack>> /\ Keep
  <2>1. c.path \in Paths /\ ~IsPathDenied(c.path) /\ NoLinks(disk)[c.path].st = "ok"
    BY <1>1, <1>5, NormalPath, InRootWhere
  <2> HIDE DEF c
  <2>2. AllowedAt(disk, c.path)
    BY <1>1, <2>1, StepUp DEF AllowedAt
  <2>3. cur' \in WalkEntries /\ cur'.at = c.path
    BY <1>1, <1>5, <2>1 DEF WalkEntries
  <2> QED
    BY <1>1, <1>5, <2>2, <2>3, WalkOnInv DEF SearchInv, WalkTypes, StackInv, WalkStages
<1> QED
  BY <1>2, <1>3, <1>4, <1>5 DEF ResolveEntry

\* A file is read.
LEMMA ReadFileInv ==
    ASSUME SearchInv, ReadFile
    PROVE  SearchInv'
<1>1. pc = "file"
  BY DEF ReadFile
<1>2. (\E d : Walk(d)) \/ (\E d, ms : Respond(d, ms))
  BY DEF ReadFile, Skip
<1> QED
  BY <1>1, <1>2, WalkedInv, RespondInv

\* The stages of list_dir and stat that do not concern an entry's identity.
LEMMA PlainLook ==
    ASSUME SearchInv, Keep, UNCHANGED <<stack, cur>>, root' \in Paths,
           \/ pc' \in ListStages /\ req.op = "list"
           \/ pc' \in {"metadata", "identity"} /\ req.op = "stat"
    PROVE  SearchInv'
<1>1. HandleInv'
  BY DEF HandleInv, ListStages
<1> QED
  BY <1>1, LookInv DEF StatStages

\* A list or a stat begins.
LEMMA BeginLookInv ==
    ASSUME SearchInv, BeginList \/ BeginStat
    PROVE  SearchInv'
<1> DEFINE c == InRootNow(req.path)
<1>1. disk \in Tree /\ req.op \in {"list", "stat"} /\ req.path \in Segments
  BY DEF SearchInv, WalkTypes, WalkRequest, BeginList, BeginStat
<1>2. CASE \E r : Fail(r)
  BY <1>2, FailInv
<1>3. CASE /\ c.st = "ok" /\ root' = c.path /\ Keep /\ UNCHANGED searchVars
           /\ \/ pc' = "capture" /\ req.op = "list"
              \/ pc' = "metadata" /\ req.op = "stat"
  <2>1. c.path \in Paths
    BY <1>1, <1>3, InRootWhere
  <2> QED
    BY <1>3, <2>1, PlainLook DEF searchVars, ListStages
<1> QED
  BY <1>2, <1>3 DEF BeginList, BeginStat, ToStage

\* A stage of list_dir before its answer.
LEMMA ListStageInv ==
    ASSUME SearchInv, CaptureDirectory \/ ReadDirectory \/ CountEntries \/ VerifyOpened \/ VerifyScanned
                      \/ MaterializeEntry
    PROVE  SearchInv'
<1>1. pc \in ListStages
  BY DEF CaptureDirectory, ReadDirectory, CountEntries, VerifyOpened, VerifyScanned, MaterializeEntry, ListStages
<1>2. req.op = "list" /\ root \in Paths
  BY <1>1 DEF SearchInv, WalkTypes, StageOfRequest
<1>3. (\E r : Fail(r)) \/ (pc' \in ListStages /\ Keep /\ UNCHANGED <<root, stack, cur>>)
  <2>1. CASE CaptureDirectory
    BY <2>1 DEF CaptureDirectory, ToStage, searchVars, ListStages
  <2>2. CASE ReadDirectory
    BY <2>2 DEF ReadDirectory, ListStages
  <2>3. CASE CountEntries
    BY <2>3 DEF CountEntries, ListStages
  <2>4. CASE VerifyOpened
    BY <2>4 DEF VerifyOpened, ToStage, searchVars, ListStages
  <2>5. CASE VerifyScanned
    BY <2>5 DEF VerifyScanned, ToStage, searchVars, ListStages
  <2>6. CASE MaterializeEntry
    BY <2>6 DEF MaterializeEntry, ListStages
  <2> QED
    BY <2>1, <2>2, <2>3, <2>4, <2>5, <2>6
<1> QED
  BY <1>2, <1>3, FailInv, PlainLook

\* A list is answered, or a stat.
LEMMA AnswerInv ==
    ASSUME SearchInv, AnswerList \/ AnswerStat
    PROVE  SearchInv'
<1>1. (\E r : Fail(r)) \/ (pc' = "done" /\ Keep /\ UNCHANGED <<root, stack, cur>>)
  BY DEF AnswerList, AnswerStat, searchVars
<1> QED
  BY <1>1, FailInv, EndedInv

\* A stage of stat before its answer: its two looks at an identity agree unless
\* something changed.
LEMMA StatStageInv ==
    ASSUME SearchInv, StatMetadata \/ StatIdentity \/ StatResolveAgain \/ StatMetadataAgain
    PROVE  SearchInv'
<1>1. pc \in StatStages
  BY DEF StatMetadata, StatIdentity, StatResolveAgain, StatMetadataAgain, StatStages
<1>2. req.op = "stat" /\ root \in Paths /\ disk \in Tree
  BY <1>1 DEF SearchInv, WalkTypes, StageOfRequest
<1>3. CASE \E r : Fail(r)
  BY <1>3, FailInv
<1>4. CASE StatMetadata /\ ~(\E r : Fail(r))
  BY <1>2, <1>4, PlainLook DEF StatMetadata, ToStage, searchVars
<1>5. CASE StatIdentity /\ ~(\E r : Fail(r))
  <2>1. /\ HandleOf(root) # Absent /\ dirId' = HandleOf(root) /\ root' = root
        /\ pc' = "resolveAgain" /\ Keep /\ UNCHANGED <<stack, cur>>
    BY <1>5 DEF StatIdentity, ToStage, searchVars
  <2>2. disk' = disk /\ HandleOf(root)' = HandleOf(root)
    BY <2>1 DEF Keep, HandleOf
  <2>3. HandleInv'
    BY <2>1, <2>2 DEF HandleInv
  <2> QED
    BY <1>2, <2>1, <2>3, LookInv DEF StatStages
<1>6. CASE StatResolveAgain /\ ~(\E r : Fail(r))
  <2>1. /\ pc = "resolveAgain" /\ pc' = "metadataAgain" /\ Keep /\ UNCHANGED <<stack, cur, root, dirId, meta>>
    BY <1>6 DEF StatResolveAgain, ToStage, searchVars, listVars
  <2>2. changes' = changes /\ HandleOf(root)' = HandleOf(root)
    BY <2>1 DEF Keep, envVars, HandleOf
  <2>3. HandleInv'
    BY <2>1, <2>2 DEF SearchInv, HandleInv
  <2> QED
    BY <1>2, <2>1, <2>3, LookInv DEF StatStages
<1>7. CASE StatMetadataAgain /\ ~(\E r : Fail(r))
  <2> DEFINE e == Lstat(disk, root)
  <2>1. /\ pc = "metadataAgain" /\ pc' = "handleAgain" /\ Keep /\ UNCHANGED <<stack, cur, root, dirId>>
        /\ meta' = e /\ e.kind \notin {"absent", "error", "link"}
    BY <1>7 DEF StatMetadataAgain, HasMetadata, ToStage, searchVars
  <2>2. changes' = changes /\ HandleOf(root)' = HandleOf(root)
    BY <2>1 DEF Keep, envVars, HandleOf
  <2>3. HandleOf(root) = e /\ e # Absent
    BY <1>2, <2>1, LstatLeads DEF HandleOf, Absent
  <2> HIDE DEF e
  <2>4. HandleInv'
    BY <2>1, <2>2, <2>3 DEF SearchInv, HandleInv
  <2> QED
    BY <1>2, <2>1, <2>4, LookInv DEF StatStages
<1> QED
  BY <1>3, <1>4, <1>5, <1>6, <1>7

\* Nothing happens.
LEMMA WalkStutterInv ==
    ASSUME SearchInv, UNCHANGED walkVars
    PROVE  SearchInv'
<1>1. UNCHANGED <<disk, pc, req, root, stack, cur, dirId, meta, changes, touched, moved>>
  BY DEF walkVars, searchVars, listVars, envVars
<1> QED
  BY <1>1 DEF SearchInv, WalkTypes, StageOfRequest, RootInv, StackInv, CurInv, HandleInv, InRootNow, HandleOf

\* Every step keeps the invariant.
LEMMA WalkNextInv ==
    ASSUME SearchInv, [WalkNext]_walkVars
    PROVE  SearchInv'
<1>1. CASE Call
  BY <1>1, BeginSearchInv, ResolveWalkRootInv, OpenWalkRootInv, LeaveDirectoryInv, ResolveEntryInv,
     ReadFileInv, NextEntryInv, BeginLookInv, ListStageInv, AnswerInv, StatStageInv DEF Call
<1>2. CASE Environment
  BY <1>2, OthersKeep
<1>3. CASE UNCHANGED walkVars
  BY <1>3, WalkStutterInv
<1> QED
  BY <1>1, <1>2, <1>3 DEF WalkNext, Terminated

\* The invariant holds always.
LEMMA WalkInvariant == WalkSpec => []SearchInv
BY WalkInitInv, WalkNextInv, PTL DEF WalkSpec

\* ------------------------------------------------------------ what is shown
\* Lines are taken from what is a file when it is opened.
LEMMA TakenFromFile ==
    ASSUME WalkNext, TakesLines
    PROVE  Lstat(disk, cur.at).kind = "file"
<1>1. pc = "file" /\ (matches' # matches \/ bytes' # bytes)
  BY DEF TakesLines
<1>2. CASE ReadFile
  <2>1. CASE UNCHANGED <<matches, bytes>>
    BY <1>1, <2>1
  <2>2. CASE OpenedFile(cur.at).kind = "file"
    BY <2>2 DEF OpenedFile
  <2> QED
    BY <1>2, <2>1, <2>2 DEF ReadFile, Skip
<1>3. CASE Environment \/ Terminated
  BY <1>1, <1>3 DEF Environment, CreateFile, UnlinkFile, ExchangeEntries, Touch, Terminated
<1>4. Call => ReadFile
  <2>1. ~BeginSearch /\ ~ResolveWalkRoot /\ ~OpenWalkRoot /\ ~FailedDirectory /\ ~LeaveDirectory /\ ~ResolveEntry
    BY <1>1 DEF BeginSearch, ResolveWalkRoot, OpenWalkRoot, FailedDirectory, LeaveDirectory, ResolveEntry
  <2>2. \A e : ~NextEntry(e)
    BY <1>1 DEF NextEntry
  <2>3. /\ ~BeginList /\ ~CaptureDirectory /\ ~ReadDirectory /\ ~CountEntries /\ ~VerifyOpened
        /\ ~VerifyScanned /\ ~MaterializeEntry /\ ~AnswerList
    BY <1>1 DEF BeginList, CaptureDirectory, ReadDirectory, CountEntries, VerifyOpened, VerifyScanned,
                MaterializeEntry, AnswerList
  <2>4. /\ ~BeginStat /\ ~StatMetadata /\ ~StatIdentity /\ ~StatResolveAgain /\ ~StatMetadataAgain
        /\ ~AnswerStat
    BY <1>1 DEF BeginStat, StatMetadata, StatIdentity, StatResolveAgain, StatMetadataAgain, AnswerStat
  <2> QED
    BY <2>1, <2>2, <2>3, <2>4 DEF Call
<1> QED
  BY <1>2, <1>3, <1>4 DEF WalkNext

\* And it is inside the root and allowed.
LEMMA TakenAllowed ==
    ASSUME SearchInv, WalkNext, TakesLines, touched => cur.at # root \/ Plain(root)
    PROVE  InRootNow(cur.at).st = "ok"
<1>1. /\ pc = "file" /\ ~moved /\ disk \in Tree /\ cur.at \in Paths /\ root \in Paths
      /\ root = <<>> \/ ~IsPathDenied(root)
      /\ ~touched => root = <<>> \/ InRootNow(root).st \in {"ok", "NotFound"}
      /\ cur.at = root \/ AllowedAt(disk, cur.at)
  BY DEF TakesLines, SearchInv, WalkTypes, WalkEntries, RootInv, CurInv, WalkStages
<1>2. Lstat(disk, cur.at).kind = "file" /\ cur.at # <<>>
  BY TakenFromFile DEF Lstat, DirEntry
<1>3. CASE AllowedAt(disk, cur.at)
  BY <1>1, <1>2, <1>3, FileInside DEF AllowedAt
<1>4. CASE cur.at = root /\ ~touched
  <2>1. Canonicalize(disk, root).st = "ok"
    BY <1>1, <1>2, <1>4, LstatLeads
  <2> QED
    BY <1>1, <1>2, <1>4, <2>1, InRootFound
<1>5. CASE cur.at = root /\ Plain(root)
  <2> DEFINE q == Front(root)
             c == Canonicalize(disk, q)
  <2>1. root # <<>> /\ q \in Paths /\ Len(root) \in Nat \ {0} /\ q = SubSeq(root, 1, Len(root) - 1)
    BY <1>1, <1>2, <1>5, PathParts DEF Paths, Front
  <2>2. c.path = q
    <3>1. CASE Len(root) = 1
      <4>1. q = <<>> /\ <<>> \in Paths
        <5>1. SubSeq(root, 1, 0) = <<>>
          OBVIOUS
        <5>2. Len(root) - 1 = 0
          BY <3>1
        <5> HIDE DEF q
        <5> QED
          BY <2>1, <5>1, <5>2
      <4>2. Canonicalize(disk, <<>>) = AtRoot
        BY <1>1, <4>1, CanonicalizeUnfolds
      <4>3. AtRoot.path = <<>>
        BY DEF AtRoot, Resolved
      <4> QED
        BY <4>1, <4>2, <4>3
    <3>2. CASE Len(root) # 1
      <4>1. Len(root) - 1 \in 1..(Len(root) - 1)
        <5>1. Len(root) \in Nat \ {0}
          BY <2>1
        <5>2. \A m \in Nat \ {0} : m # 1 => m - 1 \in 1..(m - 1)
          OBVIOUS
        <5> QED
          BY <3>2, <5>1, <5>2
      <4>2. \A k \in 1..(Len(root) - 1) : Canonicalize(disk, SubSeq(root, 1, k)).path = SubSeq(root, 1, k)
        BY <1>5 DEF Plain
      <4>3. Canonicalize(disk, SubSeq(root, 1, Len(root) - 1)).path = SubSeq(root, 1, Len(root) - 1)
        BY <4>1, <4>2
      <4> QED
        BY <2>1, <4>3
    <3> QED
      BY <3>1, <3>2
  <2>3. c.st = "ok" /\ c.entry.kind = "dir"
    BY <1>2, <1>5, <2>1 DEF Lstat, EntryIn, Absent, Other
  <2>4. NoLinks(disk)[c.path] = c
    BY <1>1, <2>1, <2>3, Landing DEF Canonical
  <2>5. PlainDir(disk, q)
    <3> HIDE DEF c, q
    <3> QED
      BY <2>2, <2>3, <2>4 DEF PlainDir, IsDirectory
  <2> QED
    BY <1>1, <1>2, <1>5, <2>1, <2>5, FileInside
<1> QED
  BY <1>1, <1>3, <1>4, <1>5

\* Answers come from the last look at an identity.
LEMMA AnsweredBy ==
    ASSUME SearchInv, [WalkNext]_walkVars, outcome = "none", outcome' = "ok"
    PROVE  \/ req.op \in {"glob", "grep"}
           \/ pc = "answer" /\ Verified(pc)
           \/ pc = "handleAgain" /\ SameHandle
<1> DEFINE Searching == pc \in WalkStages \/ Search
           Fails == \E r : r # "ok" /\ Fail(r)
<1>1. Searching => req.op \in {"glob", "grep"}
  BY DEF SearchInv, StageOfRequest, Search
<1>2. ~Fails /\ outcome' # outcome
  BY DEF Fail
<1>3. ~Environment /\ ~Terminated /\ ~(UNCHANGED walkVars)
  BY <1>2 DEF Environment, CreateFile, UnlinkFile, ExchangeEntries, Touch, Terminated, walkVars
<1>4. /\ BeginSearch \/ ResolveWalkRoot \/ OpenWalkRoot \/ FailedDirectory \/ LeaveDirectory
           \/ ResolveEntry \/ ReadFile => Searching
      /\ \A e : NextEntry(e) => Searching
  BY DEF BeginSearch, ResolveWalkRoot, OpenWalkRoot, FailedDirectory, LeaveDirectory, ResolveEntry,
         ReadFile, NextEntry, WalkStages
<1> HIDE DEF Searching
<1>5. ~BeginList /\ ~CaptureDirectory /\ ~ReadDirectory /\ ~CountEntries /\ ~VerifyOpened
        /\ ~VerifyScanned /\ ~MaterializeEntry
  <2>1. ~BeginList /\ ~CaptureDirectory
    BY <1>2 DEF BeginList, CaptureDirectory, ToStage
  <2>2. ~ReadDirectory /\ ~CountEntries
    BY <1>2 DEF ReadDirectory, CountEntries
  <2>3. ~VerifyOpened /\ ~VerifyScanned
    BY <1>2 DEF VerifyOpened, VerifyScanned, ToStage
  <2>4. ~MaterializeEntry
    BY <1>2 DEF MaterializeEntry
  <2> QED
    BY <2>1, <2>2, <2>3, <2>4
<1>6. ~BeginStat /\ ~StatMetadata /\ ~StatIdentity /\ ~StatResolveAgain /\ ~StatMetadataAgain
  BY <1>2 DEF BeginStat, StatMetadata, StatIdentity, StatResolveAgain, StatMetadataAgain, ToStage, Refused
<1>7. AnswerList => pc = "answer" /\ Verified(pc)
  BY <1>2 DEF AnswerList
<1>8. AnswerStat => pc = "handleAgain" /\ SameHandle
  BY <1>2 DEF AnswerStat
<1> QED
  BY <1>1, <1>3, <1>4, <1>5, <1>6, <1>7, <1>8 DEF WalkNext, Call

\* An answer is of one directory or one entry.
LEMMA OneEntryStep ==
    ASSUME SearchInv, [WalkNext]_walkVars, outcome = "none", outcome' = "ok"
    PROVE  /\ req.op = "list" => DirectoryAt(disk, root) = dirId
           /\ req.op = "stat" /\ changes < 2 => SameIdentity(meta, dirId)
<1>1. \/ req.op \in {"glob", "grep"}
      \/ pc = "answer" /\ Verified(pc)
      \/ pc = "handleAgain" /\ SameHandle
  BY AnsweredBy
<1>2. (pc = "answer" => req.op = "list") /\ (pc = "handleAgain" => req.op = "stat") /\ changes \in Nat
  BY DEF SearchInv, WalkTypes, StageOfRequest, ListStages, StatStages
<1>3. ASSUME req.op = "list" PROVE DirectoryAt(disk, root) = dirId
  BY <1>1, <1>2, <1>3 DEF Verified, ListVerified, SameDirectory
<1>4. ASSUME req.op = "stat", changes < 2 PROVE SameIdentity(meta, dirId)
  <2>1. pc = "handleAgain" /\ SameIdentity(HandleOf(root), dirId)
    BY <1>1, <1>2, <1>4 DEF SameHandle
  <2>2. meta = dirId \/ HandleOf(root) = meta
    BY <1>2, <1>4, <2>1 DEF SearchInv, HandleInv
  <2>3. CASE meta = dirId
    BY <2>3, Zenon DEF SameIdentity
  <2>4. CASE HandleOf(root) = meta
    BY <2>1, <2>4
  <2> QED
    BY <2>2, <2>3, <2>4
<1> QED
  BY <1>3, <1>4

\* What an answer holds comes from where the call looked and may look, whatever
\* other programs exchange meanwhile: list_dir answers of one directory, stat of
\* one entry, and grep takes lines only at an allowed path inside the root
\* (list_dir.rs, stat.rs, grep.rs), for every tree, every request and any number
\* of changes.
THEOREM AnswersComeFromTheirPath == WalkSpec => AnswersFromTheirPath
<1>1. SearchInv /\ [WalkNext]_walkVars =>
        [outcome = "none" /\ outcome' = "ok" =>
           /\ req.op = "list" => DirectoryAt(disk, root) = dirId
           /\ req.op = "stat" /\ changes < 2 => SameIdentity(meta, dirId)]_walkVars
  BY OneEntryStep
<1>2. SearchInv /\ [WalkNext]_walkVars =>
        [TakesLines /\ (touched => cur.at # root \/ Plain(root)) => InRootNow(cur.at).st = "ok"]_walkVars
  BY TakenAllowed
<1> QED
  BY <1>1, <1>2, WalkInvariant, PTL DEF WalkSpec, AnswersFromTheirPath, OneEntry, DeniedUnread

=============================================================================
