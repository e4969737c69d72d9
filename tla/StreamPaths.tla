----------------------------- MODULE StreamPaths ----------------------------
(***************************************************************************)
(* The streamed and the buffered review of one answer: StreamGate against  *)
(* ParseRisk (internal/llm/risk.go), which takes the risk block out of a   *)
(* buffered answer and reads the risk level in it.                         *)
(*                                                                         *)
(* The bytes: "t" for a backtick, "r" and "k" for the tag risk, "R" for an *)
(* upper-case "r", "n" for a line feed, "_" for a space, "v" for a valid   *)
(* payload and letters for themselves.                                     *)
(***************************************************************************)
EXTENDS StreamGate

CONSTANTS
  Letters,     \* [a-zA-Z0-9_-], among the bytes
  Conforming   \* answers as the review prompt demands them

ASSUME ConformingAssumption == Conforming \subseteq Texts

Fence == <<"t", "t", "t">>
Newline == "n"
Space == "_"

HasAt(s, i, part) ==
  i + Len(part) - 1 <= Len(s) /\ SubSeq(s, i, i + Len(part) - 1) = part

(* Mutant: the fences are taken in pairs from the end of the text. *)
GreedyBody(s, b, e) ==
  HasAt(s, e, Fence) /\ \A f \in e + 1 .. Len(s) : ~HasAt(s, f, Fence)

(* (.*?) followed by the fence: the body ends where the next fence begins. *)
LazyBody(s, b, e) ==
  HasAt(s, e, Fence) /\ \A f \in b .. e - 1 : ~HasAt(s, f, Fence)

(* A match of fencedBlockRe at s[i]: tag s[i+3 .. t-1], spaces up to the   *)
(* line feed s[b-1], body s[b .. e-1].                                     *)
IsMatch(s, i, t, b, e) ==
  /\ HasAt(s, i, Fence)
  /\ \A k \in i + 3 .. t - 1 : s[k] \in Letters
  /\ \A k \in t .. b - 2 : s[k] = Space
  /\ s[b - 1] = Newline
  /\ LazyBody(s, b, e)

MatchesAt(s, i) ==
  {[start |-> i, tag |-> SubSeq(s, i + 3, t - 1), body |-> SubSeq(s, b, e - 1), next |-> e + 3] :
     <<t, b, e>> \in {m \in (i + 3 .. Len(s)) \X (i + 4 .. Len(s)) \X (i + 4 .. Len(s)) :
                        m[1] < m[2] /\ m[2] <= m[3] /\ IsMatch(s, i, m[1], m[2], m[3])}}

(* FindAllStringSubmatchIndex: leftmost matches that do not overlap. *)
Blocks(s) ==
  LET From[i \in 1 .. Len(s) + 1] ==
        IF i > Len(s) THEN {}
        ELSE IF MatchesAt(s, i) = {} THEN From[i + 1]
        ELSE LET m == CHOOSE m \in MatchesAt(s, i) : TRUE IN {m} \cup From[m.next]
  IN From[1]

(* strings.TrimRight and TrimSpace *)
IsBlank(b) == b \in {Newline, Space}
TrimRight(s) ==
  SubSeq(s, 1, Max({0} \cup {i \in 1 .. Len(s) : ~IsBlank(s[i])}))
TrimSpace(s) == SelectSeq(s, LAMBDA b : ~IsBlank(b))

(* The tag in any case, around a payload with a valid level. *)
IsRisk(block) ==
  block.tag \in {<<"r", "k">>, <<"R", "k">>} /\ TrimSpace(block.body) = <<"v">>

(* The last valid block is cut out; without one nothing is. *)
ParseRisk(s) ==
  LET valid == {block \in Blocks(s) : IsRisk(block)}
  IN IF valid = {} THEN [stripped |-> s, ok |-> FALSE]
     ELSE LET last == CHOOSE m \in valid : \A other \in valid : other.start <= m.start
          IN [stripped |-> Append(TrimRight(SubSeq(s, 1, last.start - 1) \o SubSeq(s, last.next, Len(s))), Newline),
              ok |-> TRUE]

-----------------------------------------------------------------------------
(* Answers as the prompt demands them look the same on both paths, up to   *)
(* trailing white space, and carry the model's risk level.                 *)
SameReview == TrimRight(term) = TrimRight(Clean(ParseRisk(text).stripped))
PathsAgree ==
  status = "ok" /\ got = text /\ text \in Conforming => SameReview /\ ParseRisk(text).ok

(* "the buffered path strips it via ParseRisk, and the two output paths    *)
(* must not diverge" (stream.go, riskBlockMarker).                         *)
PathsNeverDiverge == status = "ok" /\ got = text => SameReview
=============================================================================
