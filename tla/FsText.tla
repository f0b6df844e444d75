------------------------------- MODULE FsText -------------------------------
(***************************************************************************)
(* What omne-fs does with the bytes of a text file (src/crates/omne-fs/    *)
(* src/ops: read.rs, grep.rs, edit.rs, patch.rs; ../redaction.rs), under   *)
(* the policy FsPolicy loaded.  A read of a line range and a search stream *)
(* the file through a buffer that the operating system fills with pieces   *)
(* of any size; an edit and a patch work on the whole text.  A byte is     *)
(* "LF", "CR", a letter, "2" or "3" (the first byte of a character of so   *)
(* many bytes) or "c" (a later byte of one).                               *)
(***************************************************************************)
EXTENDS FsPolicy, FiniteSetsExt

CONSTANTS Files,        \* contents
          Requests,     \* [op |-> "read" | "grep" | "edit" | "patch", ...]
          Slack,        \* what a retained line may hold beyond max_line_bytes
          MaxRegexLine, \* MAX_REGEX_LINE_BYTES
          MaxRedacted,  \* MAX_REDACTED_OUTPUT_BYTES
          Replacement,  \* secrets.replacement
          MaxWorkingSet, \* MAX_PATCH_WORKING_SET_BYTES
          Permitted,    \* operations the permissions enable
          Probes        \* paths the deny globs are asked about

ASSUME TextAssumption == Slack \in Nat /\ MaxRedacted \in Nat /\ MaxRegexLine \in Nat

VARIABLES req, file,    \* the request and the bytes of its file
          before,       \* the file when the request came
          rest, buf,    \* bytes not yet read; BufReader's buffer
          cur,          \* the line in work
          lineNo, scanned,
          out,          \* read: the bytes of the range; grep: the matches
          res
streamVars == <<rest, buf, cur, lineNo, scanned>>
vars == <<policyVars, req, file, before, streamVars, out, res>>

Limits == policy.limits
None   == [op |-> "none"]
NoLine == [n |-> 0, buf |-> <<>>, capped |-> FALSE, cr |-> FALSE,
           pending |-> <<>>, valid |-> TRUE, window |-> <<>>, hit |-> FALSE]

Init == /\ PolicyInit /\ req = None /\ file = <<>> /\ before = <<>> /\ rest = <<>> /\ buf = <<>>
        /\ cur = NoLine /\ lineNo = 0 /\ scanned = 0 /\ out = <<>> /\ res = "none"

\* ---------------------------------------------------------------- UTF-8
Continued(b) == CASE b = "2" -> 1 [] b = "3" -> 2 [] OTHER -> 0
\* str::from_utf8: the end of the longest valid prefix, how many bytes the
\* last character still lacks, and whether a byte is out of place.
Decode(bytes) ==
  LET Next1(d, i) ==
        IF d.bad THEN d
        ELSE IF bytes[i] = "c"
        THEN IF d.need = 0 THEN [d EXCEPT !.bad = TRUE]
             ELSE [d EXCEPT !.need = @ - 1, !.valid = IF d.need = 1 THEN i ELSE @]
        ELSE IF d.need > 0 THEN [d EXCEPT !.bad = TRUE]
        ELSE [d EXCEPT !.need = Continued(bytes[i]), !.valid = IF Continued(bytes[i]) = 0 THEN i ELSE @]
  IN  FoldLeft(Next1, [valid |-> 0, need |-> 0, bad |-> FALSE], [i \in DOMAIN bytes |-> i])
IsUtf8(bytes) == LET d == Decode(bytes) IN ~d.bad /\ d.need = 0

From(seq, i) == SubSeq(seq, i, Len(seq))

\* Mutant: a character split between two chunks is an error.
AbsorbWhole(line, chunk) == [line EXCEPT !.valid = @ /\ IsUtf8(chunk)]

\* update_utf8_validation_state: at most three bytes of a character that is
\* not complete wait for the next chunk.
RECURSIVE Absorb(_, _)
Absorb(line, chunk) ==
  LET take     == IF line.pending = <<>> THEN Len(chunk) ELSE Min({4 - Len(line.pending), Len(chunk)})
      combined == line.pending \o SubSeq(chunk, 1, take)
      d        == Decode(combined)
  IN  IF ~line.valid \/ chunk = <<>> THEN line
      ELSE IF d.bad \/ Len(combined) - d.valid > 3
      THEN [line EXCEPT !.valid = FALSE, !.pending = <<>>]
      ELSE Absorb([line EXCEPT !.pending = From(combined, d.valid + 1)], From(chunk, take + 1))

\* ---------------------------------------------------------------- searching
\* memmem: where the needle begins in the haystack.
Occurrences(hay, needle) ==
  {i \in 1..(Len(hay) - Len(needle) + 1) : SubSeq(hay, i, i + Len(needle) - 1) = needle}
ContainsSubslice(hay, needle) == Occurrences(hay, needle) # {}

LastBytes(seq, n) == IF Len(seq) <= n THEN seq ELSE From(seq, Len(seq) - n + 1)

\* Mutant: only the last chunk is kept for a match that spans chunks.
SearchLastChunk(line, query, chunk) ==
  [line EXCEPT !.hit = @ \/ ContainsSubslice(line.window \o chunk, query),
               !.window = LastBytes(chunk, Len(query) - 1)]

\* update_query_match_state: a match that spans chunks is found through the
\* window, the last Len(query) - 1 bytes before the chunk.
SearchChunk(line, query, chunk) ==
  LET keep == Len(query) - 1
      edge == line.window \o First(chunk, keep)
  IN  IF line.hit THEN line
      ELSE [line EXCEPT !.hit = ContainsSubslice(chunk, query) \/ (line.window # <<>> /\ ContainsSubslice(edge, query)),
                        !.window = LastBytes(line.window \o chunk, keep)]

\* ---------------------------------------------------------------- redaction
\* replace_regex_with_limit: one pass, from where the last match ended.
RECURSIVE ReplaceFrom(_, _, _)
ReplaceFrom(input, word, done) ==
  LET hits == Occurrences(input, word)
      at   == Min(hits)
      next == done \o SubSeq(input, 1, at - 1) \o Replacement
  IN  IF hits = {} THEN IF Len(done) + Len(input) > MaxRedacted THEN {} ELSE {done \o input}
      ELSE IF Len(next) > MaxRedacted THEN {}
      ELSE ReplaceFrom(From(input, at + Len(word)), word, next)

\* Mutant: the reused buffer is not cleared.
ClearedNever(buffer) == buffer
Cleared(buffer) == <<>>

\* redact_text_outcome: two buffers take turns; no value when the output
\* limit is exceeded.
RedactPass(r, word) ==
  LET source == IF r.active = 0 THEN r.input ELSE r.buffers[r.active]
      target == IF r.active = 1 THEN 2 ELSE 1
      text   == ReplaceFrom(source, word, Cleared(r.buffers[target]))
  IN  IF r.over \/ Occurrences(source, word) = {} THEN r
      ELSE IF text = {} THEN [r EXCEPT !.over = TRUE]
      ELSE [r EXCEPT !.active = target, !.buffers[target] = CHOOSE t \in text : TRUE]
Redact(input) ==
  LET r == FoldLeft(RedactPass, [input |-> input, active |-> 0, buffers |-> <<<<>>, <<>>>>, over |-> FALSE],
                    policy.redact)
  IN  IF r.over THEN {} ELSE {IF r.active = 0 THEN input ELSE r.buffers[r.active]}

\* ---------------------------------------------------------------- requests
Finish(r)  == res' = r /\ UNCHANGED <<policyVars, req, before>>
Refused(r) == Finish(r) /\ UNCHANGED <<file, streamVars, out>>
NotUtf8    == "InvalidUtf8"

\* What a whole-file read refuses, before the operation goes on.
Unreadable(bytes) == IF Len(bytes) > Limits.read THEN "FileTooLarge"
                     ELSE IF ~IsUtf8(bytes) THEN NotUtf8 ELSE "no"

ValidQuery(query) == \E i \in DOMAIN query : query[i] \notin {"LF", "CR", " "}
RangeGiven(r)     == 0 < r.from /\ r.from <= r.to

\* read_line_range and grep open the file and read it up to one byte more
\* than the limit; grep skips a file that is too large as it stands.
Stream(bytes, r) ==
  IF r.op = "read" /\ ~RangeGiven(r) THEN "InvalidPath"
  ELSE IF r.op = "grep" /\ ~ValidQuery(r.query) THEN "InvalidPath"
  ELSE IF r.op = "grep" /\ Len(bytes) > Limits.read THEN "FileTooLarge" ELSE "none"

Begin == \E bytes \in Files, r \in Requests :
  /\ loader.at = "ready" /\ req = None /\ Forget
  /\ req' = r /\ file' = bytes /\ before' = bytes /\ UNCHANGED <<cur, lineNo, scanned, out, buf>>
  /\ rest' = First(bytes, Limits.read + 1)
  /\ res' = IF r.op \notin Permitted THEN "NotPermitted" ELSE Stream(bytes, r)

\* The text a read returns, redacted; "Io" when that would be too long.
Answer(bytes) == IF Redact(bytes) = {} THEN Finish("Io") /\ out' = <<>>
                 ELSE Finish("ok") /\ out' = CHOOSE text \in Redact(bytes) : TRUE

\* read without a range.
ReadFull ==
  /\ req.op = "full" /\ res = "none"
  /\ IF Unreadable(file) # "no" THEN Refused(Unreadable(file))
     ELSE Answer(file) /\ UNCHANGED <<file, streamVars>>

\* ---------------------------------------------------------------- streaming
Streaming == req.op \in {"read", "grep"} /\ res = "none"
Regex     == req.op = "grep" /\ req.regex
Plain     == req.op = "grep" /\ ~req.regex
\* read_line_range drops the lines before the range.
Discards  == req.op = "read" /\ lineNo + 1 < req.from
LineCap   == IF Regex THEN Min({Limits.read, MaxRegexLine}) ELSE Limits.line + Slack

\* fill_buf: the next piece of the file, of any size.
FillBuffer == /\ Streaming /\ buf = <<>> /\ rest # <<>>
              /\ \E k \in 1..Len(rest) : buf' = SubSeq(rest, 1, k) /\ rest' = From(rest, k + 1)
              /\ UNCHANGED <<policyVars, req, file, before, cur, lineNo, scanned, out, res>>

\* What a piece of a line does to the line in work: the lines before a range
\* are only checked, a search retains up to LineCap bytes.
FeedRange(line, chunk) ==
  IF Discards THEN Absorb([line EXCEPT !.n = @ + Len(chunk)], chunk)
  ELSE [line EXCEPT !.n = @ + Len(chunk), !.buf = @ \o chunk]
Retain(line, chunk) ==
  LET kept == First(chunk, LineCap - Len(line.buf))
  IN  IF line.capped THEN line
      ELSE [line EXCEPT !.buf = @ \o kept, !.capped = Len(kept) < Len(chunk)]
FeedSearch(line, chunk) ==
  LET counted == [line EXCEPT !.n = @ + Len(chunk)]
  IN  Retain(IF Plain THEN SearchChunk(Absorb(counted, chunk), req.query, chunk) ELSE counted, chunk)
Feed(line, chunk) == IF req.op = "read" THEN FeedRange(line, chunk) ELSE FeedSearch(line, chunk)

\* utf8_prefix_within: the longest prefix of whole characters.
Utf8Prefix(text, max) == First(text, Decode(First(text, max)).valid)

StripEnding(line) ==
  LET noLf == IF line # <<>> /\ Last(line) = "LF" THEN Front(line) ELSE line
  IN  IF noLf # <<>> /\ Last(noLf) = "CR" THEN Front(noLf) ELSE noLf

\* The loop body of read_line_range, for the line c; its bytes are kept.
TakeLine(c) ==
  LET bytes == out \o c.buf
  IN  IF ~c.valid \/ c.pending # <<>> THEN Finish(NotUtf8) /\ UNCHANGED <<out, lineNo, scanned>>
      ELSE IF scanned + c.n > Limits.read THEN Finish("FileTooLarge") /\ UNCHANGED <<out, lineNo, scanned>>
      ELSE /\ lineNo' = lineNo + 1 /\ scanned' = scanned + c.n
           /\ IF lineNo + 1 = req.to
              THEN IF IsUtf8(bytes) THEN Answer(bytes) ELSE Finish(NotUtf8) /\ UNCHANGED out
              ELSE out' = bytes /\ UNCHANGED <<policyVars, req, before, res>>

\* What a line of a searched file is: a reason to skip the file, or a match.
Verdict(c) ==
  LET text == StripEnding(c.buf)
      d    == Decode(text)
  IN  IF scanned + c.n > Limits.read \/ (Regex /\ c.capped) THEN "FileTooLarge"
      ELSE IF Plain /\ (~c.valid \/ c.pending # <<>>) THEN NotUtf8
      ELSE IF Plain /\ ~c.hit THEN "miss"
      ELSE IF d.bad \/ (d.need > 0 /\ ~c.capped) THEN NotUtf8
      ELSE IF Plain \/ ContainsSubslice(text, req.query) THEN "match" ELSE "miss"

\* The match as it is shown: redacted first, then cut.
Shown(c) ==
  LET text     == StripEnding(c.buf)
      line     == First(text, Decode(text).valid)
      redacted == Redact(line)
      whole    == IF redacted = {} THEN <<"!">> ELSE CHOOSE t \in redacted : TRUE
  IN  [line |-> lineNo + 1, text |-> Utf8Prefix(whole, Limits.line),
       cut |-> redacted = {} \/ c.capped \/ Len(whole) > Limits.line]

SearchLine(c) ==
  LET verdict == Verdict(c)
  IN  CASE verdict \in {"FileTooLarge", NotUtf8} -> Finish(verdict) /\ out' = <<>> /\ UNCHANGED <<lineNo, scanned>>
        [] verdict = "match" /\ Len(out) >= Limits.results -> Finish("ok") /\ UNCHANGED <<out, lineNo, scanned>>
        [] OTHER -> /\ out' = IF verdict = "match" THEN Append(out, Shown(c)) ELSE out
                    /\ lineNo' = lineNo + 1 /\ scanned' = scanned + c.n
                    /\ UNCHANGED <<policyVars, req, before, res>>

LineDone(c) == /\ cur' = NoLine /\ UNCHANGED <<file, rest>>
               /\ IF req.op = "read" THEN TakeLine(c) ELSE SearchLine(c)

\* A piece up to the end of the line or of the buffer.
Consume ==
  LET ends   == {i \in DOMAIN buf : buf[i] \in {"LF", "CR"}}
      split  == IF ends = {} THEN Len(buf) ELSE Min(ends)
      piece  == SubSeq(buf, 1, split)
      line   == Feed(cur, piece)
  IN  /\ Streaming /\ buf # <<>> /\ ~cur.cr
      /\ buf' = From(buf, split + 1)
      /\ IF (Regex /\ line.capped) \/ Last(piece) = "LF" THEN LineDone(line)
         ELSE /\ cur' = [line EXCEPT !.cr = Last(piece) = "CR"]
              /\ UNCHANGED <<policyVars, req, file, before, rest, lineNo, scanned, out, res>>

\* After a carriage return the next byte is looked at, which may need another
\* piece of the file.
AfterReturn ==
  LET line == Feed(cur, <<"LF">>)
  IN  /\ Streaming /\ cur.cr /\ buf # <<>>
      /\ IF Head(buf) = "LF" THEN buf' = Tail(buf) /\ LineDone(line)
         ELSE UNCHANGED buf /\ LineDone(cur)

EndOfFile ==
  /\ Streaming /\ buf = <<>> /\ rest = <<>> /\ UNCHANGED buf
  /\ IF cur.n > 0 THEN LineDone(cur)
     ELSE /\ Finish(IF req.op = "read" THEN "InvalidPath" ELSE "ok")
          /\ UNCHANGED <<file, rest, cur, lineNo, scanned, out>>

\* ---------------------------------------------------------------- edit
\* Mutant: a carriage return before a line feed is a line of its own.
LineEndAtReturn(bytes, at) ==
  LET stops == {i \in at..Len(bytes) : bytes[i] \in {"LF", "CR"}}
  IN  IF stops = {} THEN Len(bytes) ELSE Min(stops)

\* locate_edit_range_offsets: the last byte of the line that begins at at.
LineEnd(bytes, at) ==
  LET stops == {i \in at..Len(bytes) : bytes[i] \in {"LF", "CR"}}
      i     == Min(stops)
  IN  IF stops = {} THEN Len(bytes)
      ELSE IF bytes[i] = "CR" /\ i < Len(bytes) /\ bytes[i + 1] = "LF" THEN i + 1 ELSE i
RECURSIVE LineStart(_, _)
LineStart(bytes, k) == IF k = 1 THEN 1 ELSE LineEnd(bytes, LineStart(bytes, k - 1)) + 1

LineEnding(line) == From(line, Len(StripEnding(line)) + 1)

\* normalize_replacement_line_endings.
NormalizeEndings(text, newline) ==
  IF newline = <<>> THEN text
  ELSE FlattenSeq([i \in DOMAIN text |->
         IF text[i] = "CR" THEN newline
         ELSE IF text[i] # "LF" THEN <<text[i]>>
         ELSE IF i > 1 /\ text[i - 1] = "CR" THEN <<>> ELSE newline])

\* The replacement ends as the last line it replaces does.
EndsLike(text, newline) ==
  IF text = <<>> \/ newline = <<>> \/ LastBytes(text, Len(newline)) = newline THEN text ELSE text \o newline

Write(bytes) == IF Len(bytes) > Limits.write THEN Refused("FileTooLarge")
                ELSE file' = bytes /\ Finish("ok") /\ UNCHANGED <<streamVars, out>>

Edit ==
  LET start == LineStart(file, req.from)
      last  == LineStart(file, req.to)
      end   == LineEnd(file, last)
      newline == LineEnding(SubSeq(file, last, end))
      text  == EndsLike(NormalizeEndings(req.text, newline), newline)
  IN  /\ req.op = "edit" /\ res = "none"
      /\ IF ~RangeGiven(req) THEN Refused("Patch")
         ELSE IF Unreadable(file) # "no" THEN Refused(Unreadable(file))
         ELSE IF last > Len(file) THEN Refused("Patch")
         ELSE Write(SubSeq(file, 1, start - 1) \o text \o From(file, end + 1))

\* ---------------------------------------------------------------- patch
GitPrefixed(header, prefix) == Len(header) > 1 /\ Head(header) = prefix /\ Tail(header) # <<"">>
GitPair(r) == \/ GitPrefixed(r.original, "a") /\ GitPrefixed(r.modified, "b")
              \/ GitPrefixed(r.original, "b") /\ GitPrefixed(r.modified, "a")

\* normalized_patch_header_path: a root-relative path, or none.
HeaderPath(header) ==
  LET value == StripCurrent(header)
  IN  IF value \in {<<>>, <<"">>} \/ Head(value) = "" \/ (\E i \in DOMAIN value : value[i] = "..") THEN {}
      ELSE {SelectSeq(value, LAMBDA s : s \notin {".", ""})}

HeaderMatches(header, r) ==
  \/ r.path \in HeaderPath(header)
  \/ /\ GitPair(r) /\ (GitPrefixed(header, "a") \/ GitPrefixed(header, "b"))
     /\ r.path \in HeaderPath(Tail(header))

HeadersMatch(r) ==
  /\ r.original # <<>> /\ r.modified # <<>>
  /\ \/ r.original = <<"original">> /\ r.modified = <<"modified">>
     \/ HeaderMatches(r.original, r) /\ HeaderMatches(r.modified, r)

LinesOf(hunk, tags) == FlattenSeq([i \in DOMAIN hunk |-> IF hunk[i].tag \in tags THEN hunk[i].text ELSE <<>>])

\* diffy::apply, for a hunk the file has at one place.
Applied(bytes, hunk) ==
  LET old == LinesOf(hunk, {" ", "-"})
      at  == Occurrences(bytes, old)
  IN  IF at = {} THEN {}
      ELSE {SubSeq(bytes, 1, Min(at) - 1) \o LinesOf(hunk, {" ", "+"}) \o From(bytes, Min(at) + Len(old))}

\* Mutant: what the patch takes away is not counted.
EstimateGrown(len, hunk) == {len + Len(LinesOf(hunk, {"+"}))}

\* estimate_patched_content_len: no value below zero.
Estimate(len, hunk) ==
  LET grown == len + Len(LinesOf(hunk, {"+"}))
      less  == Len(LinesOf(hunk, {"-"}))
  IN  IF less > grown THEN {} ELSE {grown - less}

PatchLimit == IF Limits.patch = {} THEN Limits.read ELSE CHOOSE n \in Limits.patch : TRUE
\* estimated_patch_working_set_bytes and effective_patch_working_set_limit:
\* the file, the patch and the result are in memory together.
OverWorkingSet(r, estimate) ==
  Len(file) + r.size + estimate > Min({Limits.read + PatchLimit + Limits.write, MaxWorkingSet})

ApplyPatch ==
  LET len      == Estimate(Len(file), req.hunk)
      estimate == CHOOSE n \in len : TRUE
      updated  == Applied(file, req.hunk)
  IN  /\ req.op = "patch" /\ res = "none"
      /\ IF req.size > PatchLimit THEN Refused("InputTooLarge")
         ELSE IF ~HeadersMatch(req) THEN Refused("Patch")
         ELSE IF Unreadable(file) # "no" THEN Refused(Unreadable(file))
         ELSE IF len = {} THEN Refused("Patch")
         ELSE IF estimate > Limits.write THEN Refused("FileTooLarge")
         ELSE IF OverWorkingSet(req, estimate) THEN Refused("InputTooLarge")
         ELSE IF updated = {} THEN Refused("Patch")
         ELSE Write(CHOOSE text \in updated : TRUE)

\* ---------------------------------------------------------------- behaviour
Load   == PolicyStep /\ UNCHANGED <<req, file, before, streamVars, out, res>>
Others == (AppendItem \/ ExchangeLeaf) /\ UNCHANGED <<req, file, before, streamVars, out, res>>
Ended  == loader.at \in {"InvalidPolicy", "InvalidPath", "FileTooLarge"} \/ res # "none"
Terminated == Ended /\ UNCHANGED vars
Next == \/ Load \/ Others \/ Begin \/ ReadFull \/ FillBuffer \/ Consume \/ AfterReturn \/ EndOfFile
        \/ Edit \/ ApplyPatch \/ Terminated

Spec == Init /\ [][Next]_vars

\* ---------------------------------------------------------------- reference
\* The lines of a text, by where they end.
Ends(bytes)  == {i \in DOMAIN bytes : \/ i = Len(bytes) \/ bytes[i] = "LF"
                                      \/ bytes[i] = "CR" /\ bytes[i + 1] # "LF"}
Lines(bytes) == LET ends == SetToSortSeq(Ends(bytes), <)
                IN  [k \in DOMAIN ends |-> SubSeq(bytes, IF k = 1 THEN 1 ELSE ends[k - 1] + 1, ends[k])]

RECURSIVE Replaced(_, _)
Replaced(text, word) ==
  IF text = <<>> THEN <<>>
  ELSE IF IsPrefix(word, text) THEN Replacement \o Replaced(From(text, Len(word) + 1), word)
  ELSE <<Head(text)>> \o Replaced(Tail(text), word)
TooLong(text, word) == ContainsSubslice(text, word) /\ Len(Replaced(text, word)) > MaxRedacted
RedactedText(text) ==
  FoldLeft(LAMBDA acc, word : IF acc = {} \/ (\E t \in acc : TooLong(t, word)) THEN {}
                              ELSE {Replaced(t, word) : t \in acc}, {text}, policy.redact)

\* ---------------------------------------------------------------- properties
\* A read returns the requested lines of the file, redacted, whatever pieces
\* the bytes arrived in, exactly when they and all before them are text within
\* the read limit; it returns nothing when redaction would exceed its limit.
RangeIsSlice ==
  (req.op \in {"read", "full"} /\ res \notin {"none", "NotPermitted"}) =>
    LET lines == Lines(before)
        upTo  == IF req.op = "full" THEN before ELSE FlattenSeq(SubSeq(lines, 1, req.to))
        slice == IF req.op = "full" THEN before ELSE FlattenSeq(SubSeq(lines, req.from, req.to))
        exists == req.op = "full" \/ (RangeGiven(req) /\ req.to <= Len(lines))
    IN  IF exists /\ Len(upTo) <= Limits.read /\ IsUtf8(upTo)
        THEN IF RedactedText(slice) = {} THEN res = "Io" ELSE res = "ok" /\ {out} = RedactedText(slice)
        ELSE res \notin {"ok", "Io"}

\* What a search makes of each line, by the whole line.
LineVerdict(line) ==
  IF Regex /\ Len(line) > LineCap THEN "FileTooLarge"
  ELSE IF ~IsUtf8(line) THEN NotUtf8
  ELSE IF ContainsSubslice(IF Regex THEN StripEnding(line) ELSE line, req.query) THEN "match" ELSE "miss"

\* A search finds the lines that hold the query, whatever pieces they arrived
\* in, up to the limit of results, numbers them as a read does, and shows a
\* line it does not call cut whole and redacted; a file with a line that is no
\* text, or that a regular expression would not see whole, is skipped.
SearchSeesLines ==
  (req.op = "grep" /\ ValidQuery(req.query) /\ res \notin {"none", "NotPermitted"}) =>
    LET lines == Lines(before)
        of(k) == LineVerdict(lines[k])
        found == {k \in DOMAIN lines : of(k) = "match"}
        bad   == {k \in DOMAIN lines : /\ of(k) \in {"FileTooLarge", NotUtf8}
                                       /\ Cardinality({j \in found : j < k}) <= Limits.results}
        first == SubSeq(SetToSortSeq(found, <), 1, Min({Cardinality(found), Limits.results}))
        stop  == {k \in found : Cardinality({j \in found : j < k}) = Limits.results}
        seen  == {k \in bad : \A s \in stop : k < s}
    IN  IF Len(before) > Limits.read THEN res = "FileTooLarge"
        ELSE IF seen # {} THEN res = of(Min(seen))
        ELSE /\ res = "ok" /\ [i \in DOMAIN out |-> out[i].line] = first
             /\ \A i \in DOMAIN out : ~out[i].cut => {out[i].text} = RedactedText(StripEnding(lines[first[i]]))

\* After an edit the lines before and after the range read as they did, and the
\* lines between them are those of the replacement, unless a line that ends in
\* a lone carriage return is now followed by a line feed.
EditKeepsOtherLines ==
  (req.op = "edit" /\ res = "ok") =>
    LET old    == Lines(before)
        new    == Lines(file)
        head   == SubSeq(old, 1, req.from - 1)
        tail   == SubSeq(old, req.to + 1, Len(old))
        joined == /\ head # <<>> /\ Last(Last(head)) = "CR"
                  /\ Len(file) > Len(FlattenSeq(head)) /\ file[Len(FlattenSeq(head)) + 1] = "LF"
    IN  \/ joined
        \/ /\ Len(new) >= Len(head) + Len(tail)
           /\ SubSeq(new, 1, Len(head)) = head
           /\ SubSeq(new, Len(new) - Len(tail) + 1, Len(new)) = tail
           /\ Cardinality(Ends(req.text)) = Len(new) - Len(head) - Len(tail)

\* A patch is refused as too large only when its result would be, and one that
\* is applied names the file it was asked to change in both headers, by one
\* prefix less at most.
PatchJudgedRight ==
  /\ (req.op = "patch" /\ res = "ok") =>
       \/ <<req.original, req.modified>> = <<<<"original">>, <<"modified">>>>
       \/ \A header \in {req.original, req.modified} :
            req.path \in HeaderPath(header) \cup HeaderPath(Tail(header))
  /\ (req.op = "patch" /\ res = "FileTooLarge" /\ Len(before) <= Limits.read) =>
       \A text \in Applied(before, req.hunk) : Len(text) > Limits.write

Ready == loader.at = "ready"

\* No root of a context lies in another, or is another, once links are
\* resolved: a path belongs to one root at most.
RootsDisjoint ==
  Ready => \A i, j \in DOMAIN policy.roots :
             i # j => ~Nested(CanonicalRoots(policy)[i].path, CanonicalRoots(policy)[j].path)

\* A deny glob "d/**", written with or without "./", denies d and all that is
\* below it, however the path is written.
DenyCovers ==
  Ready => \A i \in DOMAIN policy.deny :
    LET glob == StripCurrent(policy.deny[i])
        root == Front(glob)
    IN  (Len(glob) > 1 /\ Last(glob) = "**" /\ Range(root) \cap {"*", "**", ".", ""} = {}) =>
          \A path \in Probes : IsPrefix(root, SelectSeq(path, LAMBDA s : s # ".")) => Denies(policy.deny, path)

\* The policy in force is the whole text of the opened file as it was when it
\* was read: no rule at its end is lost to the limit or to a writer.
WholePolicyRead == Ready => policy = Parse(loader.seen)

\* Lines are the same lines to everybody who reads or replaces them: a range, a
\* search and an edit never take one apart or miss one.  (read_line_range,
\* grep::read_line_capped, edit_range.)
LinesFaithful == RangeIsSlice /\ SearchSeesLines /\ EditKeepsOtherLines

\* What is read, found and written of a text is right, also when a limit decides
\* about it.  (edit_range, apply_unified_patch and the readers.)
TextFaithful == LinesFaithful /\ PatchJudgedRight

\* The policy in force is what its file says, and its roots and deny rules mean
\* what they say.  (load_policy, SandboxPolicy::validate, SecretRedactor.)
PolicySound == WholePolicyRead /\ RootsDisjoint /\ DenyCovers
=============================================================================
