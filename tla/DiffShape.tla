------------------------------ MODULE DiffShape -----------------------------
(***************************************************************************)
(* What becomes of the text of a diff before it is sent and counted        *)
(* (internal/gitlog/diffparse.go, stats.go, internal/cli/review.go).       *)
(*                                                                         *)
(* A text is a sequence of symbols: "D" stands for "diff --git ", "B" for  *)
(* " b/", "@" for "@@", "T" for the text of the truncation marker, "n" for *)
(* the end of a line, "q" for a double quote, "e" for a backslash, "tab"   *)
(* for a tabulator, "r1" and "r2" for the bytes of a rune; the others are  *)
(* themselves, a byte each.                                                *)
(***************************************************************************)
EXTENDS Integers, Sequences, FiniteSets, SequencesExt

-----------------------------------------------------------------------------
(* SplitDiffSections *)

LineStarts(text) == {i \in DOMAIN text : i = 1 \/ text[i - 1] = "n"}

(* Mutant: every occurrence of the header begins a section. *)
HeadersAnywhere(text) == {i \in DOMAIN text : text[i] = "D"}

Headers(text) == {i \in LineStarts(text) : text[i] = "D"}

Preamble(text) ==
  IF Headers(text) = {} THEN text
  ELSE SubSeq(text, 1, Min(Headers(text)) - 1)

Sections(text) ==
  LET starts == SetToSortSeq(Headers(text), <)
      last(k) == IF k = Len(starts) THEN Len(text) ELSE starts[k + 1] - 1
  IN  [k \in DOMAIN starts |-> SubSeq(text, starts[k], last(k))]

-----------------------------------------------------------------------------
(* DiffSectionPath *)

HeaderLine(section) ==
  LET ends == {i \in DOMAIN section : section[i] = "n"}
  IN  IF ends = {} THEN Tail(section)
      ELSE SubSeq(section, 2, Min(ends) - 1)

(* Mutant: a quote inside the path is taken for the opening one. *)
AnyQuote(line, j) == line[j] = "q"

(* An odd number of backslashes precedes a quote that belongs to the path. *)
OpeningQuote(line, j) ==
  /\ line[j] = "q"
  /\ \E k \in 0 .. j - 1 :
       /\ k % 2 = 0
       /\ \A i \in j - k .. j - 1 : line[i] = "e"
       /\ j - k = 1 \/ line[j - k - 1] # "e"

(* unquoteGitPath: the bytes that follow an escape are decoded; a          *)
(* backslash is an escape if an even number of them precedes it.           *)
Escape(quoted, i) ==
  /\ quoted[i] = "e"
  /\ \E k \in 0 .. i - 1 :
       /\ k % 2 = 0
       /\ \A j \in i - k .. i - 1 : quoted[j] = "e"
       /\ i - k = 1 \/ quoted[i - k - 1] # "e"
Decoded == [s \in {"q", "e", "t"} |-> IF s = "t" THEN "tab" ELSE s]
Decodes(quoted, i) ==
  Escape(quoted, i) /\ i < Len(quoted) /\ quoted[i + 1] \in DOMAIN Decoded
Unquoted(quoted) ==
  FlattenSeq([i \in DOMAIN quoted |->
                IF Decodes(quoted, i) THEN <<>>
                ELSE IF i > 1 /\ Decodes(quoted, i - 1) THEN <<Decoded[quoted[i]]>>
                ELSE <<quoted[i]>>])

(* Mutant: the first " b/" separates the two sides. *)
AfterFirstB(line) ==
  LET at == {i \in DOMAIN line : line[i] = "B"}
  IN  IF at = {} THEN <<>>
      ELSE SubSeq(line, Min(at) + 1, Len(line))

AfterLastB(line) ==
  LET at == {i \in DOMAIN line : line[i] = "B"}
  IN  IF at = {} THEN <<>> ELSE SubSeq(line, Max(at) + 1, Len(line))

DiffSectionPath(section) ==
  LET line == HeaderLine(section)
      opening == {j \in 1 .. Len(line) - 1 : OpeningQuote(line, j)}
  IN  IF line # <<>> /\ Last(line) = "q"
      THEN IF opening = {} THEN <<>>
           ELSE LET side == Unquoted(SubSeq(line, Max(opening) + 1, Len(line) - 1))
                IN  IF IsPrefix(<<"b", "/">>, side) THEN SubSeq(side, 3, Len(side)) ELSE <<>>
      ELSE AfterLastB(line)

-----------------------------------------------------------------------------
(* mergedExcludeGlobs, matchesAnyGlob, filterDiffByGlobs.  A glob is what  *)
(* stands before and after its stars.                                      *)

Glob(before, stars, after) == [before |-> before, stars |-> stars, after |-> after]

Base(path) ==
  LET slashes == {i \in DOMAIN path : path[i] = "/"}
  IN  IF slashes = {} THEN path ELSE SubSeq(path, Max(slashes) + 1, Len(path))

(* path.Match: a star does not match a slash. *)
Match(glob, path) ==
  IF glob.stars = 0 THEN path = glob.before
  ELSE /\ Len(path) >= Len(glob.before) + Len(glob.after)
       /\ IsPrefix(glob.before, path) /\ IsSuffix(glob.after, path)
       /\ \A i \in Len(glob.before) + 1 .. Len(path) - Len(glob.after) : path[i] # "/"

(* "vendor/**" *)
Below(glob, path) ==
  /\ glob.stars = 2 /\ glob.after = <<>> /\ glob.before # <<>> /\ Last(glob.before) = "/"
  /\ IsPrefix(glob.before, path)

MatchesAnyGlob(path, globs) ==
  \E g \in globs : Match(g, path) \/ Match(g, Base(path)) \/ Below(g, path)

MergedExcludeGlobs(diffGlobs, policyGlobs) == diffGlobs \cup policyGlobs

Excluded(section, globs) ==
  DiffSectionPath(section) # <<>> /\ MatchesAnyGlob(DiffSectionPath(section), globs)

FilterDiffByGlobs(text, globs) ==
  Preamble(text) \o FlattenSeq(SelectSeq(Sections(text), LAMBDA s : ~Excluded(s, globs)))

-----------------------------------------------------------------------------
(* truncateDiff *)

TruncationMarker == <<"n", "T", "n">>

(* Mutant: the cut is where the limit is. *)
CutAtLimit(text, limit) == limit

Cut(text, limit) == Max({k \in 0 .. limit : k = 0 \/ text[k + 1] # "r2"})

TruncateDiff(text, limit) ==
  IF limit <= 0 \/ Len(text) <= limit THEN text
  ELSE SubSeq(text, 1, Cut(text, limit)) \o TruncationMarker

-----------------------------------------------------------------------------
(* DiffLineStats, DiffFileCount *)

(* Mutant: every line after the first hunk belongs to it. *)
HunkNeverEnds(text, i) == \E j \in LineStarts(text) : j < i /\ text[j] = "@"

InHunk(text, i) ==
  \E j \in LineStarts(text) :
    /\ j < i /\ text[j] = "@"
    /\ \A k \in LineStarts(text) : j < k /\ k <= i => text[k] # "D"

LinesWith(text, sign) == {i \in LineStarts(text) : text[i] = sign /\ InHunk(text, i)}
DiffLineStats(text) ==
  [added |-> Cardinality(LinesWith(text, "+")), removed |-> Cardinality(LinesWith(text, "-"))]
DiffFileCount(text) == Cardinality(Headers(text))

IsBlank(text) == \A i \in DOMAIN text : text[i] \in {"n", " "}

-----------------------------------------------------------------------------
(* What git prints of a change: for each file a header with its path on    *)
(* both sides, in quotes if it has bytes that need them, header lines, and *)
(* hunks.  A line of a hunk has a sign before its content.                 *)

Quotes == [s \in {"q", "e", "tab"} |-> <<"e", IF s = "tab" THEN "t" ELSE s>>]
Quoted(path) ==
  FlattenSeq([i \in DOMAIN path |-> IF path[i] \in DOMAIN Quotes THEN Quotes[path[i]] ELSE <<path[i]>>])

(* core.quotepath=false leaves the bytes of a rune alone. *)
NeedsQuotes(path) == \E i \in DOMAIN path : path[i] \in DOMAIN Quotes

HeaderOf(from, path) ==
  <<"D">> \o
  (IF NeedsQuotes(from) THEN <<"q", "a", "/">> \o Quoted(from) \o <<"q">> ELSE <<"a", "/">> \o from) \o
  (IF NeedsQuotes(path) THEN <<" ", "q", "b", "/">> \o Quoted(path) \o <<"q">> ELSE <<"B">> \o path) \o
  <<"n">>

FileHeaders == <<"-", "-", "-", "x", "n", "+", "+", "+", "x", "n">>
HunkHeader == <<"@", "x", "@", "n">>
Line(sign, content) == [sign |-> sign, content |-> content]

(* A file without lines is renamed or changes its mode. *)
DiffOf(file) ==
  HeaderOf(file.from, file.path) \o
  (IF file.lines = <<>> THEN <<"x", "n">>
   ELSE FileHeaders \o HunkHeader \o
        FlattenSeq([i \in DOMAIN file.lines |->
                      <<file.lines[i].sign>> \o file.lines[i].content \o <<"n">>]))
GitDiff(files) == FlattenSeq([i \in DOMAIN files |-> DiffOf(files[i])])
=============================================================================
