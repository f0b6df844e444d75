------------------------------ MODULE FsPolicy ------------------------------
(***************************************************************************)
(* How omne-fs takes its policy (src/crates/omne-fs/src: policy_io.rs,     *)
(* policy.rs, redaction.rs and ops/context.rs): the file is found, opened  *)
(* without following links and read up to a limit while other programs     *)
(* append to it or exchange it, then parsed, validated and compiled into   *)
(* a context: disjoint canonical roots, limits within hard caps, deny      *)
(* globs and redaction words.  A policy text is a sequence of items (a     *)
(* root, the limits, a glob, a word), each one unit long.                  *)
(***************************************************************************)
EXTENDS Naturals, Sequences, FiniteSets, SequencesExt

CONSTANTS Formats,       \* [file extensions -> format, or "unsupported"]
          Texts,         \* policy texts a file can hold
          Calls,         \* [ext, max]: the file's extension and the caller's max_bytes
          HardMaxBytes,  \* HARD_MAX_POLICY_BYTES
          Additions,     \* items another program appends to the policy file
          MaxForeign,    \* bound of the changes by other programs
          ValidIds,      \* root ids of 1 to 64 characters out of [A-Za-z0-9._-]
          Canonical,     \* [declared root paths -> [kind, path]]: canonicalize
          NameOrder,     \* [names -> Nat], the order of path components
          Usize,         \* 2^w: one more than the largest usize
          Caps,          \* the hard caps of the limits and of a response
          DefaultLimits, DefaultDeny,   \* what a text that is silent means
          MaxPatterns, MaxPatternBytes  \* MAX_DENY_GLOBS, MAX_RULE_PATTERNS_TOTAL_BYTES

ASSUME PolicyAssumption ==
  /\ HardMaxBytes \in Nat /\ MaxForeign \in Nat /\ MaxPatterns \in Nat
  /\ MaxPatternBytes \in Nat /\ Usize \in Nat \ {0}

VARIABLES loader,   \* where the call stands; its limit; the inode it opened
          inodes,   \* the texts of the two files that can be at the path
          leaf,     \* what is at the path: inode 1 or 2, or 0: a symbolic link
          policy,   \* the policy in force, once the context is built
          foreign   \* changes by other programs
policyVars == <<loader, inodes, leaf, policy, foreign>>

\* ---------------------------------------------------------------- limits
Bounded(value, cap) == 0 < value /\ value <= cap

\* checked_mul: no value when the product does not fit.
CheckedMul(a, b) == IF a * b < Usize THEN {a * b} ELSE {}

\* The worst case of a response: every result a line of the largest size.
ResponseBudget(l) == \E worst \in CheckedMul(l.results, l.line) : worst <= Caps.response
GlobBudget(l)     == IF l.glob = {} THEN ResponseBudget(l)
                     ELSE \A bytes \in l.glob : bytes <= Caps.response

ValidLimits(l) ==
  /\ \A field \in {"read", "write", "results", "files", "entries", "line"} : Bounded(l[field], Caps[field])
  /\ \A bytes \in l.patch : Bounded(bytes, Caps.patch)
  /\ \A bytes \in l.glob : Bounded(bytes, Caps.response)
  /\ l.files <= l.entries
  /\ GlobBudget(l) /\ ResponseBudget(l)

\* ---------------------------------------------------------------- globs
\* A pattern is the sequence of its segments: "./d/**" is <<".", "d", "**">>,
\* an absolute one begins with an empty segment.
RECURSIVE StripCurrent(_)
StripCurrent(glob) == IF Len(glob) > 1 /\ Head(glob) = "." THEN StripCurrent(Tail(glob)) ELSE glob
NormalizeGlob(glob) == LET g == StripCurrent(glob) IN IF g = <<"">> THEN <<".">> ELSE g

ValidGlob(glob) == ~(Len(glob) > 1 /\ Head(glob) = "") /\ \A i \in DOMAIN glob : glob[i] # ".."

\* literal_separator: "*" is one name, "**" any number, at the end at least one.
RECURSIVE GlobMatches(_, _)
GlobMatches(glob, path) ==
  CASE glob = <<>>        -> path = <<>>
    [] glob = <<"**">>    -> path # <<>>
    [] Head(glob) = "**" /\ Len(glob) > 1 ->
         \E k \in 0..Len(path) : GlobMatches(Tail(glob), SubSeq(path, k + 1, Len(path)))
    [] OTHER -> /\ path # <<>> /\ Head(glob) \in {"*", Head(path)}
                /\ GlobMatches(Tail(glob), Tail(path))

\* Mutant: "d/**" denies what is in d and not d itself.
DenyPatternsBelow(glob) == <<NormalizeGlob(glob)>>

\* What one deny glob compiles to: "d/**" also denies d itself.
DenyPatterns(glob) ==
  LET g == NormalizeGlob(glob)
  IN  IF Len(g) > 1 /\ Last(g) = "**" THEN <<g, Front(g)>> ELSE <<g>>

AllPatterns(deny) == FlattenSeq([i \in DOMAIN deny |-> DenyPatterns(deny[i])])
TotalBytes(seqs)  == FoldLeft(LAMBDA n, s : n + Len(s), 0, seqs)

\* SecretRedactor::from_rules.
ValidSecrets(p) ==
  /\ Len(p.deny) <= MaxPatterns /\ Len(p.redact) <= MaxPatterns
  /\ \A i \in DOMAIN p.deny : p.deny[i] # <<"">>
  /\ \A i \in DOMAIN AllPatterns(p.deny) : ValidGlob(AllPatterns(p.deny)[i])
  /\ \A i \in DOMAIN p.redact : p.redact[i] # <<>>
  /\ TotalBytes(AllPatterns(p.deny) \o p.redact) <= MaxPatternBytes

ValidSkips(skip) == /\ Len(skip) <= MaxPatterns /\ TotalBytes(skip) <= MaxPatternBytes
                    /\ \A i \in DOMAIN skip : ValidGlob(NormalizeGlob(skip[i]))

\* is_path_denied, for a path of components (std::path drops "." ones).
Denies(deny, path) ==
  LET p == SelectSeq(path, LAMBDA s : s # ".")
  IN  \/ \E i \in DOMAIN p : p[i] = ".."
      \/ \E i \in DOMAIN AllPatterns(deny) : GlobMatches(AllPatterns(deny)[i], p)

\* ---------------------------------------------------------------- roots
ValidRoots(roots) ==
  /\ roots # <<>>
  /\ \A i \in DOMAIN roots : roots[i].id \in ValidIds /\ roots[i].absolute /\ roots[i].path # <<>>
  /\ \A i, j \in DOMAIN roots : roots[i].id = roots[j].id => i = j

\* Mutant: shorter paths come first.
PathBeforeByLength(p, q) == Len(p) < Len(q)

\* The order of paths, component by component; a prefix comes first.
PathBefore(p, q) ==
  \/ IsStrictPrefix(p, q)
  \/ \E i \in DOMAIN p \cap DOMAIN q : /\ SubSeq(p, 1, i - 1) = SubSeq(q, 1, i - 1)
                                       /\ NameOrder[p[i]] < NameOrder[q[i]]

Nested(p, q) == IsPrefix(p, q) \/ IsPrefix(q, p)

\* validate_canonical_roots_non_overlapping: only neighbours are compared.
RootsApart(paths) ==
  LET sorted == SortSeq(paths, PathBefore)
  IN  \A i \in 1..(Len(sorted) - 1) : ~Nested(sorted[i], sorted[i + 1])

\* ---------------------------------------------------------------- parsing
Items(text, kind) == SelectSeq(text, LAMBDA item : item.is = kind)
Parse(text) ==
  LET limits == Items(text, "limits")
      deny   == Items(text, "deny")
      redact == Items(text, "redact")
      skip   == Items(text, "skip")
  IN  [roots  |-> Items(text, "root"),
       limits |-> IF limits = <<>> THEN DefaultLimits ELSE limits[1].v,
       deny   |-> IF deny = <<>> THEN DefaultDeny ELSE [i \in DOMAIN deny |-> deny[i].glob],
       redact |-> [i \in DOMAIN redact |-> redact[i].word],
       skip   |-> [i \in DOMAIN skip |-> skip[i].glob]]
\* Unknown fields are denied, and a table is given once.
Parses(text) == Items(text, "unknown") = <<>> /\ Len(Items(text, "limits")) <= 1

\* parse_policy: validate_structural on what was parsed.
ValidPolicy(p) == ValidRoots(p.roots) /\ ValidLimits(p.limits)

CanonicalRoots(p) == [i \in DOMAIN p.roots |-> Canonical[p.roots[i].path]]

\* Context::build_from_policy.
BuildsContext(p) ==
  /\ ValidPolicy(p) /\ ValidSecrets(p)
  /\ \A i \in DOMAIN p.roots : CanonicalRoots(p)[i].kind = "dir"
  /\ RootsApart([i \in DOMAIN p.roots |-> CanonicalRoots(p)[i].path])
  /\ ValidSkips(p.skip)

\* ---------------------------------------------------------------- loading
NoPolicy == [roots |-> <<>>, limits |-> DefaultLimits, deny |-> <<>>, redact |-> <<>>, skip |-> <<>>]

PolicyInit == \E call \in Calls, text \in Texts, other \in Texts :
  /\ loader = [at |-> "detect", ext |-> call.ext, max |-> call.max, fd |-> 0, seen |-> <<>>]
  /\ inodes = <<text, other>> /\ leaf = 1 /\ policy = NoPolicy /\ foreign = 0

Refuse(why) == loader' = [loader EXCEPT !.at = why] /\ UNCHANGED <<inodes, leaf, policy, foreign>>
GoOn(at)    == loader' = [loader EXCEPT !.at = at] /\ UNCHANGED <<inodes, leaf, policy, foreign>>

\* detect_policy_format and the caller's limit.
Detect ==
  /\ loader.at = "detect"
  /\ IF Formats[loader.ext] = "unsupported" \/ loader.max = 0 \/ loader.max > HardMaxBytes
     THEN Refuse("InvalidPolicy") ELSE GoOn("inspect")

\* open_policy_file looks at the last component before it opens it.
InspectLeaf ==
  /\ loader.at = "inspect"
  /\ IF leaf = 0 THEN Refuse("InvalidPath") ELSE GoOn("open")

\* open_regular_file_at does not follow a link; the size is the opened file's.
OpenPolicy ==
  /\ loader.at = "open"
  /\ CASE leaf = 0 -> Refuse("InvalidPath")
       [] leaf # 0 /\ Len(inodes[leaf]) > loader.max -> Refuse("FileTooLarge")
       [] OTHER -> /\ loader' = [loader EXCEPT !.at = "read", !.fd = leaf]
                   /\ UNCHANGED <<inodes, leaf, policy, foreign>>

First(seq, n) == SubSeq(seq, 1, IF n < Len(seq) THEN n ELSE Len(seq))

\* Mutant: what lies beyond the limit is left out.
TakePrefix(text, max) == [bytes |-> First(text, max), truncated |-> FALSE]

\* read_to_end_limited_with_capacity.
ReadLimited(text, max) ==
  LET bytes == First(text, max + 1) IN [bytes |-> bytes, truncated |-> Len(bytes) > max]

ReadPolicy ==
  LET r == ReadLimited(inodes[loader.fd], loader.max)
  IN  /\ loader.at = "read"
      /\ IF r.truncated THEN Refuse("FileTooLarge")
         ELSE IF ~Parses(r.bytes) \/ ~ValidPolicy(Parse(r.bytes)) THEN Refuse("InvalidPolicy")
         ELSE /\ loader' = [loader EXCEPT !.at = "build", !.seen = inodes[loader.fd]]
              /\ policy' = Parse(r.bytes) /\ UNCHANGED <<inodes, leaf, foreign>>

\* Context::new, on the policy that was read.
BuildContext ==
  /\ loader.at = "build"
  /\ IF BuildsContext(policy) THEN GoOn("ready") ELSE Refuse("InvalidPolicy")

\* Once a request comes the file does not matter any more.
Forget == /\ loader' = [at |-> "served", ext |-> "", max |-> 0, fd |-> 0, seen |-> <<>>]
          /\ inodes' = <<<<>>, <<>>>> /\ leaf' = 1 /\ foreign' = 0 /\ UNCHANGED policy

Loading == loader.at \in {"detect", "inspect", "open", "read"}

\* Another program appends to the file at the path, or exchanges it.
AppendItem == /\ Loading /\ foreign < MaxForeign /\ leaf # 0
              /\ \E item \in Additions : inodes' = [inodes EXCEPT ![leaf] = Append(@, item)]
              /\ foreign' = foreign + 1 /\ UNCHANGED <<loader, leaf, policy>>
ExchangeLeaf == /\ Loading /\ foreign < MaxForeign
                /\ \E other \in {0, 1, 2} \ {leaf} : leaf' = other
                /\ foreign' = foreign + 1 /\ UNCHANGED <<loader, inodes, policy>>

PolicyStep == Detect \/ InspectLeaf \/ OpenPolicy \/ ReadPolicy \/ BuildContext
=============================================================================
