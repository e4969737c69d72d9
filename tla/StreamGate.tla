----------------------------- MODULE StreamGate -----------------------------
(***************************************************************************)
(* What a streamed review puts on the terminal (internal/llm/stream.go):   *)
(* the loop of Client.Stream over the deltas of the answer, riskBlockGate, *)
(* which cuts the output at the marker of the risk block, and              *)
(* sanitizingWriter behind it, which removes control characters.           *)
(*                                                                         *)
(* The provider splits the answer into deltas as it likes.  A delta comes  *)
(* out of json.Unmarshal, which turns invalid UTF-8 into replacement       *)
(* characters, so a split never falls inside a rune.                       *)
(***************************************************************************)
EXTENDS Integers, Sequences, SequencesExt

CONSTANTS
  Byte,
  Marker,    \* riskBlockMarker
  Leads,     \* first bytes of two-byte runes
  Drops,     \* the runes textsafe.DropRune removes, as byte sequences
  Texts      \* the answers a model may give

ASSUME MarkerAssumption == Marker \in Seq(Byte) /\ Marker # <<>>
ASSUME TextsAssumption == Texts \subseteq Seq(Byte)

(* The marker is ASCII; the second byte of a rune is there, and is not.    *)
ASSUME RunesAssumption ==
  /\ \A k \in DOMAIN Marker : Marker[k] \notin Leads
  /\ \A t \in Texts : \A i \in DOMAIN t :
       t[i] \in Leads => i < Len(t) /\ \A k \in DOMAIN Marker : t[i + 1] # Marker[k]

VARIABLES
  text,      \* the whole answer
  got,       \* buf: the deltas read so far
  held,      \* riskBlockGate.held
  suppress,  \* riskBlockGate.suppress
  passed,    \* what the gate has handed to the sanitizer
  pending,   \* sanitizingWriter.pending
  term,      \* what has been written to the terminal
  status     \* "reading", "ok" or "error": how Stream returned

vars == <<text, got, held, suppress, passed, pending, term, status>>
gate == <<got, held, suppress, passed>>

Init ==
  /\ text \in Texts
  /\ got = <<>> /\ held = <<>> /\ suppress = FALSE /\ passed = <<>>
  /\ pending = <<>> /\ term = <<>> /\ status = "reading"

-----------------------------------------------------------------------------
(* riskBlockGate *)

(* Marker occurs in s behind the first i bytes. *)
At(s, i) ==
  /\ i + Len(Marker) <= Len(s)
  /\ \A k \in 1 .. Len(Marker) : s[i + k] = Marker[k]
FirstAt(s, i) == At(s, i) /\ \A j \in 0 .. i - 1 : ~At(s, j)

(* The last n bytes of s are the first n of Marker. *)
EndsIn(s, n) ==
  /\ n <= Len(s)
  /\ \A k \in 1 .. n : s[Len(s) - n + k] = Marker[k]

(* Mutant: as many bytes as the marker has are held back, whatever they are. *)
HoldsMarkerLength(s, n) == n = IF Len(s) < Len(Marker) THEN Len(s) ELSE Len(Marker)

(* Mutant: a match of a single byte is overlooked. *)
IgnoresLoneTick(s, n) ==
  /\ n \in {0} \cup 2 .. Len(Marker) - 1
  /\ EndsIn(s, n)
  /\ \A m \in n + 1 .. Len(Marker) - 1 : m # 1 => ~EndsIn(s, m)

(* n is the result of the Go function. *)
longestMarkerPrefixSuffix(s, n) ==
  /\ n \in 0 .. Len(Marker) - 1
  /\ EndsIn(s, n)
  /\ \A m \in n + 1 .. Len(Marker) - 1 : ~EndsIn(s, m)

(* The three ways of riskBlockGate.write. *)
Suppressed(p) ==
  /\ suppress
  /\ UNCHANGED <<held, suppress, passed>>

Cut(p) ==
  LET buf == held \o p
  IN /\ ~suppress
     /\ \E i \in 0 .. Len(buf) :
          FirstAt(buf, i) /\ passed' = passed \o SubSeq(buf, 1, i)
     /\ held' = <<>> /\ suppress' = TRUE

Forward(p) ==
  LET buf == held \o p
  IN /\ ~suppress
     /\ \A i \in 0 .. Len(buf) : ~At(buf, i)
     /\ \E n \in 0 .. Len(buf) :
          /\ longestMarkerPrefixSuffix(buf, n)
          /\ passed' = passed \o SubSeq(buf, 1, Len(buf) - n)
          /\ held' = SubSeq(buf, Len(buf) - n + 1, Len(buf))
     /\ UNCHANGED suppress

write(p) ==
  /\ Suppressed(p) \/ Cut(p) \/ Forward(p)
  /\ got' = got \o p

flush == passed' = passed \o held /\ held' = <<>> /\ UNCHANGED <<got, suppress>>

-----------------------------------------------------------------------------
(* sanitizingWriter, one byte at a time: s.pending is a rune not complete. *)
(* No byte it is given is invalid.                                         *)
SanitizeByte(s, b) ==
  IF s.pending = <<>> /\ b \in Leads THEN [s EXCEPT !.pending = <<b>>]
  ELSE LET rune == Append(s.pending, b)
       IN [clean |-> IF rune \in Drops THEN s.clean ELSE s.clean \o rune, pending |-> <<>>]

(* What the bytes of p make of the rune that was pending before them.      *)
Sanitized(carry, p) ==
  LET after[i \in 0 .. Len(p)] ==
        IF i = 0 THEN [clean |-> <<>>, pending |-> carry] ELSE SanitizeByte(after[i - 1], p[i])
  IN  after[Len(p)]

(* Mutant: the removal of control characters is left to the renderer. *)
EmitsRaw ==
  /\ term' = term \o SubSeq(passed', Len(passed) + 1, Len(passed'))
  /\ UNCHANGED pending

(* What the gate passes on goes through the sanitizer to the terminal. *)
Emits ==
  LET s == Sanitized(pending, SubSeq(passed', Len(passed) + 1, Len(passed')))
  IN term' = term \o s.clean /\ pending' = s.pending

-----------------------------------------------------------------------------
(* The loop of Stream.  Lines that are not data, malformed chunks and      *)
(* empty deltas change nothing.                                            *)

ReadDelta ==
  /\ status = "reading"
  /\ \E n \in 1 .. Len(text) - Len(got) :
       /\ text[Len(got) + n] \notin Leads
       /\ write(SubSeq(text, Len(got) + 1, Len(got) + n))
  /\ Emits
  /\ UNCHANGED <<text, status>>

(* [DONE], EOF without it, or the limit on the body's size: both flushes,  *)
(* then the check that anything came at all.  (A rune is never pending.)   *)
Ends ==
  /\ status = "reading"
  /\ flush /\ Emits
  /\ status' = IF got = <<>> THEN "error" ELSE "ok"
  /\ UNCHANGED text

(* scanner.Err(): the connection breaks, the context is cancelled, a line  *)
(* is too long.  What is held is flushed all the same.                     *)
Breaks ==
  /\ status = "reading"
  /\ flush /\ Emits
  /\ status' = "error"
  /\ UNCHANGED text

(* An error event over a 200, or stdout is closed: Stream returns at once. *)
Aborts ==
  /\ status = "reading"
  /\ status' = "error"
  /\ UNCHANGED <<text, gate, pending, term>>

Terminating == status # "reading" /\ UNCHANGED vars

Next == ReadDelta \/ Ends \/ Breaks \/ Aborts \/ Terminating

Spec == Init /\ [][Next]_vars

-----------------------------------------------------------------------------
TypeOK ==
  /\ text \in Texts
  /\ got \in Seq(Byte) /\ held \in Seq(Byte) /\ passed \in Seq(Byte)
  /\ suppress \in BOOLEAN
  /\ Len(held) < Len(Marker) /\ Len(pending) <= 1
  /\ \A i \in 1 .. Len(term) : term[i] \in Byte
  /\ status \in {"reading", "ok", "error"}

(* The part of s the user is to see: what precedes the first marker.       *)
IsVisible(s, v) ==
  \/ (\A i \in 0 .. Len(s) : ~At(s, i)) /\ v = s
  \/ \E i \in 0 .. Len(s) : FirstAt(s, i) /\ v = SubSeq(s, 1, i)

(* However the answer was split, and wherever the splits fell in the       *)
(* marker, a stream that has ended has passed on exactly what precedes the *)
(* first marker: no byte of the block, and none of the review missing.     *)
CutAtMarker == status = "ok" => IsVisible(got, passed)

(* Live output is late by less than a marker, and only by bytes that may   *)
(* still become one.                                                       *)
Timely ==
  status = "reading" /\ ~suppress =>
    /\ got = passed \o held
    /\ Len(held) < Len(Marker) /\ EndsIn(got, Len(held))

(* The terminal shows the runes that were passed on, without the dropped   *)
(* ones, as if they had come in one piece: no split lets a control         *)
(* character through or damages another, and none waits for its second     *)
(* half (the gate cuts at ASCII bytes only).                               *)
Clean(s) == Sanitized(<<>>, s).clean
TerminalClean == term = Clean(passed) /\ pending = <<>>

(* So nothing else reaches the terminal, and no byte is held for good.     *)
TerminalSound == TypeOK /\ TerminalClean
=============================================================================
