-------------------------- MODULE StreamGateProofs --------------------------
(***************************************************************************)
(* The gate is exact for every marker, every answer and every split.       *)
(*                                                                         *)
(* CutAtMarker is not inductive: that no marker begins in what was passed  *)
(* on rests on the bytes held back being all that may still become one     *)
(* (Longest), and on no marker being complete before the gate closes.      *)
(*                                                                         *)
(* TerminalSound rests on two more facts: the sanitizer may be fed in      *)
(* pieces (SanitizedConcat, by induction on the second piece), and no      *)
(* piece ends inside a rune (Boundary): a delta does not, and the gate     *)
(* cuts only before a byte of the marker, which is ASCII.                  *)
(***************************************************************************)
EXTENDS StreamGate, SequenceTheorems, WellFoundedInduction, TLAPS

USE MarkerAssumption, TextsAssumption

Bytes == got \in Seq(Byte) /\ held \in Seq(Byte) /\ passed \in Seq(Byte) /\ text \in Seq(Byte)

(* No longer end of s than its last n bytes may become a marker. *)
Longest(s, n) == \A m \in n + 1 .. Len(Marker) - 1 : ~EndsIn(s, m)

Unmarked(s) == \A i \in 0 .. Len(s) : ~At(s, i)

Open ==
  /\ got = passed \o held
  /\ Unmarked(got)
  /\ Len(held) < Len(Marker) /\ EndsIn(got, Len(held)) /\ Longest(got, Len(held))

Closed ==
  /\ held = <<>>
  /\ \E i \in 0 .. Len(got) : FirstAt(got, i) /\ passed = SubSeq(got, 1, i)

IInv ==
  /\ Bytes
  /\ status = "reading" => IF suppress THEN Closed ELSE Open
  /\ CutAtMarker

-----------------------------------------------------------------------------
(* A marker in what is passed on, held and added begins where the held     *)
(* bytes do, or behind.                                                    *)
LEMMA NoMarkerBeforeHeld ==
  ASSUME NEW a \in Seq(Byte), NEW h \in Seq(Byte), NEW p \in Seq(Byte),
         Unmarked(a \o h), Longest(a \o h, Len(h)),
         NEW i \in Nat, At(a \o h \o p, i)
  PROVE  i >= Len(a)
<1> DEFINE g == a \o h
<1>1. g \in Seq(Byte) /\ Len(g) = Len(a) + Len(h) /\ Len(a) \in Nat /\ Len(h) \in Nat /\ Len(Marker) \in Nat
  OBVIOUS
<1>2. /\ g \o p \in Seq(Byte) /\ Len(g \o p) = Len(g) + Len(p) /\ Len(p) \in Nat
      /\ \A k \in 1 .. Len(g) : (g \o p)[k] = g[k]
  BY <1>1
<1>3. i + Len(Marker) <= Len(g) + Len(p) /\ \A k \in 1 .. Len(Marker) : (g \o p)[i + k] = Marker[k]
  BY <1>2 DEF At
<1> HIDE DEF g
<1> SUFFICES ASSUME i < Len(a) PROVE FALSE
  BY <1>1
<1>4. CASE i + Len(Marker) <= Len(g)
  <2>1. At(g, i)
    BY SMTT(30), <1>1, <1>2, <1>3, <1>4 DEF At
  <2> QED
    BY <1>1, <2>1 DEF Unmarked, g
<1>5. CASE i + Len(Marker) > Len(g)
  <2> DEFINE m == Len(g) - i
  <2>1. m \in Len(h) + 1 .. Len(Marker) - 1 /\ m <= Len(g) /\ Len(g) - m = i
    BY <1>1, <1>5
  <2>2. \A k \in 1 .. m : g[i + k] = Marker[k]
    <3> SUFFICES ASSUME NEW k \in 1 .. m PROVE g[i + k] = Marker[k]
      OBVIOUS
    <3>1. k \in 1 .. Len(Marker) /\ i + k \in 1 .. Len(g)
      BY <1>1, <2>1
    <3> QED
      BY <1>2, <1>3, <3>1
  <2>3. EndsIn(g, m)
    BY <2>1, <2>2 DEF EndsIn
  <2> QED
    BY <2>1, <2>3 DEF Longest, g
<1> QED
  BY <1>1, <1>4, <1>5

(* A prefix that reaches behind the first of two joined sequences.          *)
LEMMA PrefixOfConcat ==
  ASSUME NEW a \in Seq(Byte), NEW b \in Seq(Byte), NEW i \in 0 .. Len(b)
  PROVE  a \o SubSeq(b, 1, i) = SubSeq(a \o b, 1, Len(a) + i)
<1> DEFINE l == a \o SubSeq(b, 1, i)
           r == SubSeq(a \o b, 1, Len(a) + i)
<1>1. Len(a) \in Nat /\ Len(b) \in Nat /\ i \in Nat /\ a \o b \in Seq(Byte) /\ Len(a \o b) = Len(a) + Len(b)
  OBVIOUS
<1>2. SubSeq(b, 1, i) \in Seq(Byte) /\ Len(SubSeq(b, 1, i)) = i /\ \A k \in 1 .. i : SubSeq(b, 1, i)[k] = b[k]
  BY <1>1
<1>3. r \in Seq(Byte) /\ Len(r) = Len(a) + i /\ \A k \in 1 .. Len(a) + i : r[k] = (a \o b)[k]
  BY <1>1
<1>4. l \in Seq(Byte) /\ Len(l) = Len(a) + i
  BY <1>1, <1>2
<1>5. ASSUME NEW k \in 1 .. Len(a) + i PROVE l[k] = r[k]
  <2>1. CASE k <= Len(a)
    <3>1. l[k] = a[k] /\ (a \o b)[k] = a[k]
      BY <1>1, <1>2, <1>5, <2>1
    <3> QED
      BY <1>3, <1>5, <3>1
  <2>2. CASE k > Len(a)
    <3>1. l[k] = SubSeq(b, 1, i)[k - Len(a)] /\ (a \o b)[k] = b[k - Len(a)]
      BY SMTT(30), <1>1, <1>2, <1>5, <2>2
    <3>2. k - Len(a) \in 1 .. i
      BY <1>1, <1>5, <2>2
    <3> QED
      BY <1>2, <1>3, <1>5, <3>1, <3>2
  <2> QED
    BY <1>1, <1>5, <2>1, <2>2
<1> HIDE DEF l, r
<1>6. l = r
  BY <1>1, <1>3, <1>4, <1>5, SeqEqual
<1> QED
  BY <1>6 DEF l, r

(* A sequence is its first h elements and the others.                      *)
LEMMA SplitSequence ==
  ASSUME NEW b \in Seq(Byte), NEW h \in 0 .. Len(b)
  PROVE  /\ b = SubSeq(b, 1, h) \o SubSeq(b, h + 1, Len(b))
         /\ SubSeq(b, 1, h) \in Seq(Byte) /\ SubSeq(b, h + 1, Len(b)) \in Seq(Byte)
<1>1. h \in Nat /\ Len(b) \in Nat /\ h <= Len(b)
  OBVIOUS
<1>2. SubSeq(b, 1, h) \in Seq(Byte) /\ SubSeq(b, h + 1, Len(b)) \in Seq(Byte)
  BY <1>1
<1>3. 1 \in 1 .. Len(b) + 1 /\ h \in 1 - 1 .. Len(b) /\ Len(b) \in h .. Len(b)
  BY <1>1
<1>4. SubSeq(b, 1, h) \o SubSeq(b, h + 1, Len(b)) = SubSeq(b, 1, Len(b))
  BY <1>3, ConcatAdjacentSubSeq
<1>5. SubSeq(b, 1, Len(b)) = b
  BY SubSeqFull
<1> QED
  BY <1>2, <1>4, <1>5

LEMMA JoinAssociative ==
  ASSUME NEW a \in Seq(Byte), NEW b \in Seq(Byte), NEW c \in Seq(Byte)
  PROVE  (a \o b) \o c = a \o (b \o c)
BY ConcatAssociative

(* The same marker seen from the buffer the gate searches.                 *)
LEMMA MarkerInBuffer ==
  ASSUME NEW a \in Seq(Byte), NEW b \in Seq(Byte), NEW j \in Nat
  PROVE  At(a \o b, Len(a) + j) <=> At(b, j)
<1> DEFINE c == a \o b
           i == Len(a) + j
<1>1. Len(c) = Len(a) + Len(b) /\ Len(a) \in Nat /\ Len(b) \in Nat /\ Len(Marker) \in Nat
  OBVIOUS
<1>2. ASSUME j + Len(Marker) <= Len(b), NEW k \in 1 .. Len(Marker)
      PROVE  c[i + k] = b[j + k]
  <2>1. i + k \in Len(a) + 1 .. Len(a) + Len(b) /\ (i + k) - Len(a) = j + k
    BY <1>1, <1>2
  <2> QED
    BY <1>1, <2>1
<1>3. (i + Len(Marker) <= Len(c)) <=> (j + Len(Marker) <= Len(b))
  BY <1>1
<1> HIDE DEF c, i
<1>4. ASSUME j + Len(Marker) <= Len(b) PROVE At(c, i) <=> At(b, j)
  <2>1. (\A k \in 1 .. Len(Marker) : c[i + k] = Marker[k]) <=> (\A k \in 1 .. Len(Marker) : b[j + k] = Marker[k])
    BY <1>2, <1>4
  <2> QED
    BY <1>3, <1>4, <2>1 DEF At
<1>5. ASSUME ~(j + Len(Marker) <= Len(b)) PROVE At(c, i) <=> At(b, j)
  BY <1>3, <1>5 DEF At
<1>6. At(c, i) <=> At(b, j)
  BY <1>4, <1>5
<1> QED
  BY <1>6 DEF c, i

(* The end of joined sequences is the end of the second, as far as it goes. *)
LEMMA EndInBuffer ==
  ASSUME NEW a \in Seq(Byte), NEW b \in Seq(Byte), NEW m \in 0 .. Len(b)
  PROVE  EndsIn(a \o b, m) <=> EndsIn(b, m)
<1> DEFINE c == a \o b
<1>1. Len(c) = Len(a) + Len(b) /\ Len(a) \in Nat /\ Len(b) \in Nat /\ m \in Nat /\ m <= Len(b)
  OBVIOUS
<1>2. ASSUME NEW k \in 1 .. m PROVE c[Len(c) - m + k] = b[Len(b) - m + k]
  <2>1. Len(c) - m + k \in Len(a) + 1 .. Len(a) + Len(b) /\ (Len(c) - m + k) - Len(a) = Len(b) - m + k
    BY <1>1, <1>2
  <2> QED
    BY <1>1, <2>1
<1> HIDE DEF c
<1>3. m <= Len(c) /\ m <= Len(b)
  BY <1>1
<1>4. (\A k \in 1 .. m : c[Len(c) - m + k] = Marker[k]) <=> (\A k \in 1 .. m : b[Len(b) - m + k] = Marker[k])
  BY <1>2
<1>5. EndsIn(c, m) <=> EndsIn(b, m)
  BY <1>3, <1>4 DEF EndsIn
<1> QED
  BY <1>5 DEF c

(* An end that may become a marker did so before the last delta came.      *)
LEMMA EndBeforeDelta ==
  ASSUME NEW g \in Seq(Byte), NEW p \in Seq(Byte), NEW m \in Nat,
         m >= Len(p), EndsIn(g \o p, m)
  PROVE  EndsIn(g, m - Len(p))
<1> DEFINE c == g \o p
           n == m - Len(p)
<1>1. Len(c) = Len(g) + Len(p) /\ Len(g) \in Nat /\ Len(p) \in Nat /\ n \in Nat
  OBVIOUS
<1>2. m <= Len(c) /\ \A k \in 1 .. m : c[Len(c) - m + k] = Marker[k]
  BY DEF EndsIn
<1>3. n <= Len(g) /\ Len(c) - m = Len(g) - n
  BY <1>1, <1>2
<1>4. ASSUME NEW k \in 1 .. n PROVE g[Len(g) - n + k] = Marker[k]
  <2>1. k \in 1 .. m /\ Len(g) - n + k \in 1 .. Len(g)
    BY <1>1, <1>3
  <2>2. c[Len(g) - n + k] = g[Len(g) - n + k]
    BY <2>1
  <2> QED
    BY <1>2, <1>3, <2>1, <2>2
<1> QED
  BY <1>3, <1>4 DEF EndsIn

-----------------------------------------------------------------------------
(* The gate closes at the first marker of all that came so far.            *)
LEMMA CutClosed ==
  ASSUME Bytes, Open, ~suppress, NEW p \in Seq(Byte), Cut(p), got' = got \o p
  PROVE  Closed'
<1> DEFINE b == held \o p
<1>1. PICK i \in 0 .. Len(b) : FirstAt(b, i) /\ passed' = passed \o SubSeq(b, 1, i)
  BY DEF Cut
<1>2. /\ b \in Seq(Byte) /\ passed \in Seq(Byte) /\ held \in Seq(Byte)
      /\ got' = (passed \o held) \o p /\ got' = passed \o b
  BY SMTT(30) DEF Bytes, Open
<1>3. /\ Len(passed) \in Nat /\ Len(b) \in Nat /\ i \in Nat /\ got' \in Seq(Byte)
      /\ Len(got') = Len(passed) + Len(b)
  BY <1>2
<1> DEFINE n == Len(passed) + i
<1> HIDE DEF b
<1>4. n \in 0 .. Len(got') /\ n \in Nat /\ n >= Len(passed) /\ n - Len(passed) = i
  BY <1>3
<1>5. At(got', n)
  <2>1. At(passed \o b, n) <=> At(b, i)
    BY <1>2, <1>3, MarkerInBuffer
  <2>2. At(b, i)
    BY <1>1 DEF FirstAt
  <2> QED
    BY <1>2, <1>4, <2>1, <2>2
<1>6. ASSUME NEW j \in 0 .. n - 1, At(got', j) PROVE FALSE
  <2>0. j \in Nat
    BY <1>3
  <2>1. j >= Len(passed)
    <3>1. Unmarked(passed \o held) /\ Longest(passed \o held, Len(held))
      BY DEF Open
    <3>2. At(passed \o held \o p, j)
      BY <1>2, <1>6
    <3> QED
      BY <1>2, <2>0, <3>1, <3>2, NoMarkerBeforeHeld
  <2> DEFINE k == j - Len(passed)
  <2>2. k \in 0 .. i - 1 /\ k \in Nat /\ j = Len(passed) + k
    BY <1>3, <2>0, <2>1
  <2> HIDE DEF k
  <2>3. At(b, k)
    BY <1>2, <1>6, <2>2, MarkerInBuffer
  <2> QED
    BY <1>1, <2>2, <2>3 DEF FirstAt
<1>7. passed \o SubSeq(b, 1, i) = SubSeq(passed \o b, 1, n)
  BY <1>2, <1>3, PrefixOfConcat
<1> QED
  BY <1>1, <1>2, <1>4, <1>5, <1>6, <1>7 DEF Closed, FirstAt, Cut

(* While nothing matches, the gate passes on all but the longest end of    *)
(* what came that may still become a marker.                               *)
LEMMA ForwardOpen ==
  ASSUME Bytes, Open, ~suppress, NEW p \in Seq(Byte), Forward(p), got' = got \o p
  PROVE  Open'
<1> DEFINE b == held \o p
<1>1. PICK n \in 0 .. Len(b) : /\ longestMarkerPrefixSuffix(b, n)
                               /\ passed' = passed \o SubSeq(b, 1, Len(b) - n)
                               /\ held' = SubSeq(b, Len(b) - n + 1, Len(b))
  BY DEF Forward
<1>2. \A i \in 0 .. Len(b) : ~At(b, i)
  BY DEF Forward
<1>3. /\ b \in Seq(Byte) /\ passed \in Seq(Byte) /\ held \in Seq(Byte)
      /\ got' = (passed \o held) \o p /\ got' = passed \o b
  BY SMTT(30) DEF Bytes, Open
<1>4. /\ Len(passed) \in Nat /\ Len(b) \in Nat /\ n \in Nat /\ got' \in Seq(Byte)
      /\ Len(got') = Len(passed) + Len(b) /\ Len(Marker) \in Nat
      /\ Len(held) \in Nat /\ Len(p) \in Nat /\ Len(b) = Len(held) + Len(p)
  BY <1>3
<1>5. n < Len(Marker) /\ EndsIn(b, n) /\ Longest(b, n)
  BY <1>1, <1>4 DEF longestMarkerPrefixSuffix, Longest
<1> HIDE DEF b
<1>6. got' = passed' \o held' /\ Len(held') = n
  <2> DEFINE h == Len(b) - n
             x == SubSeq(b, 1, h)
             y == SubSeq(b, h + 1, Len(b))
  <2>1. h \in 0 .. Len(b) /\ Len(y) = n
    BY <1>3, <1>4
  <2>2. b = x \o y /\ x \in Seq(Byte) /\ y \in Seq(Byte)
    BY <1>3, <2>1, SplitSequence
  <2>3. passed' = passed \o x /\ held' = y
    BY <1>1
  <2> HIDE DEF x, y
  <2>4. passed \in Seq(Byte) /\ x \in Seq(Byte) /\ y \in Seq(Byte)
    BY <1>3, <2>2
  <2>5. \A u \in Seq(Byte) : (passed \o x) \o u = passed \o (x \o u)
    BY <2>4, JoinAssociative
  <2>6. (passed \o x) \o y = passed \o (x \o y)
    BY <2>4, <2>5
  <2> QED
    BY <1>3, <2>1, <2>2, <2>3, <2>6
<1>7. Unmarked(got')
  <2> SUFFICES ASSUME NEW i \in 0 .. Len(got'), At(got', i) PROVE FALSE
    BY DEF Unmarked
  <2>1. i \in Nat
    OBVIOUS
  <2>2. i >= Len(passed)
    <3>1. Unmarked(passed \o held) /\ Longest(passed \o held, Len(held))
      BY DEF Open
    <3>2. At(passed \o held \o p, i)
      BY <1>3
    <3> QED
      BY <1>3, <2>1, <3>1, <3>2, NoMarkerBeforeHeld
  <2> DEFINE k == i - Len(passed)
  <2>3. k \in Nat /\ k \in 0 .. Len(b) /\ i = Len(passed) + k
    BY <1>4, <2>1, <2>2
  <2> HIDE DEF k
  <2>4. At(b, k)
    BY <1>3, <2>3, MarkerInBuffer
  <2> QED
    BY <1>2, <2>3, <2>4
<1>8. \A m \in 0 .. Len(b) : EndsIn(got', m) <=> EndsIn(b, m)
  BY <1>3, EndInBuffer
<1>9. EndsIn(got', n)
  BY <1>5, <1>8
<1>10. Longest(got', n)
  <2> SUFFICES ASSUME NEW m \in n + 1 .. Len(Marker) - 1, EndsIn(got', m) PROVE FALSE
    BY DEF Longest
  <2>1. m \in Nat
    BY <1>4
  <2>2. CASE m <= Len(b)
    BY <1>4, <1>5, <1>8, <2>1, <2>2 DEF Longest
  <2>3. CASE m > Len(b)
    <3> DEFINE k == m - Len(p)
    <3>1. k \in Len(held) + 1 .. Len(Marker) - 1
      BY <1>4, <2>1, <2>3
    <3> DEFINE g == passed \o held
    <3>2. g \in Seq(Byte) /\ EndsIn(g \o p, m) /\ m >= Len(p)
      BY <1>3, <1>4, <2>3
    <3> HIDE DEF g
    <3>3. EndsIn(g, k)
      BY <2>1, <3>2, EndBeforeDelta
    <3> QED
      BY <3>1, <3>3 DEF Open, Longest, g
  <2> QED
    BY <1>4, <2>1, <2>2, <2>3
<1> QED
  BY <1>5, <1>6, <1>7, <1>9, <1>10 DEF Open

(* What follows a closed gate does not move the first marker.              *)
LEMMA SuppressedClosed ==
  ASSUME Bytes, Closed, NEW p \in Seq(Byte), Suppressed(p), got' = got \o p
  PROVE  Closed'
<1>1. PICK i \in 0 .. Len(got) : FirstAt(got, i) /\ passed = SubSeq(got, 1, i)
  BY DEF Closed
<1>2. /\ got \in Seq(Byte) /\ got' \in Seq(Byte) /\ Len(got) \in Nat /\ Len(p) \in Nat
      /\ Len(got') = Len(got) + Len(p) /\ Len(Marker) \in Nat /\ i \in Nat
      /\ \A k \in 1 .. Len(got) : got'[k] = got[k]
  BY DEF Bytes
<1>3. i + Len(Marker) <= Len(got) /\ \A k \in 1 .. Len(Marker) : got[i + k] = Marker[k]
  BY <1>1 DEF FirstAt, At
<1>4. ASSUME NEW j \in 0 .. i
      PROVE  At(got', j) <=> At(got, j)
  <2>1. j + Len(Marker) <= Len(got) /\ j + Len(Marker) <= Len(got')
    BY <1>2, <1>3
  <2>2. ASSUME NEW k \in 1 .. Len(Marker) PROVE got'[j + k] = got[j + k]
    BY <1>2, <2>1
  <2> QED
    BY <2>1, <2>2 DEF At
<1>5. At(got', i)
  BY <1>1, <1>2, <1>4 DEF FirstAt
<1>6. \A j \in 0 .. i - 1 : ~At(got', j)
  BY <1>1, <1>2, <1>4 DEF FirstAt
<1>7. passed' = SubSeq(got', 1, i)
  <2>1. SubSeq(got', 1, i) \in Seq(Byte) /\ Len(SubSeq(got', 1, i)) = i
        /\ \A k \in 1 .. i : SubSeq(got', 1, i)[k] = got'[k]
    BY <1>2
  <2>2. SubSeq(got, 1, i) \in Seq(Byte) /\ Len(SubSeq(got, 1, i)) = i
        /\ \A k \in 1 .. i : SubSeq(got, 1, i)[k] = got[k]
    BY <1>1, <1>2
  <2>3. \A k \in 1 .. i : SubSeq(got', 1, i)[k] = SubSeq(got, 1, i)[k]
    BY <1>1, <1>2, <2>1, <2>2
  <2>4. SubSeq(got', 1, i) = SubSeq(got, 1, i)
    BY <2>1, <2>2, <2>3, SeqEqual
  <2> QED
    BY <1>1, <2>4 DEF Suppressed
<1>8. held' = <<>> /\ i \in 0 .. Len(got')
  BY <1>1, <1>2 DEF Closed, Suppressed
<1> QED
  BY <1>5, <1>6, <1>7, <1>8 DEF Closed, FirstAt

(* The sequences stay sequences of bytes.                                  *)
LEMMA BytesKept ==
  ASSUME Bytes, NEW p \in Seq(Byte), write(p), UNCHANGED text
  PROVE  Bytes'
<1>1. got' \in Seq(Byte) /\ text' \in Seq(Byte)
  BY DEF Bytes, write
<1>2. CASE Suppressed(p)
  BY <1>1, <1>2 DEF Bytes, Suppressed
<1>3. CASE Cut(p)
  <2>1. PICK i \in 0 .. Len(held \o p) : passed' = passed \o SubSeq(held \o p, 1, i)
    BY <1>3 DEF Cut
  <2>2. held \o p \in Seq(Byte)
    BY DEF Bytes
  <2>3. SubSeq(held \o p, 1, i) \in Seq(Byte)
    BY <2>2, SplitSequence
  <2>4. passed' \in Seq(Byte) /\ held' \in Seq(Byte)
    BY <1>3, <2>1, <2>3 DEF Bytes, Cut
  <2> QED
    BY <1>1, <2>4 DEF Bytes
<1>4. CASE Forward(p)
  <2> DEFINE b == held \o p
  <2>1. PICK n \in 0 .. Len(b) : /\ passed' = passed \o SubSeq(b, 1, Len(b) - n)
                                 /\ held' = SubSeq(b, Len(b) - n + 1, Len(b))
    BY <1>4 DEF Forward
  <2>2. b \in Seq(Byte)
    BY DEF Bytes
  <2> HIDE DEF b
  <2>3. Len(b) - n \in 0 .. Len(b)
    BY <2>2
  <2>4. SubSeq(b, 1, Len(b) - n) \in Seq(Byte) /\ SubSeq(b, Len(b) - n + 1, Len(b)) \in Seq(Byte)
    BY <2>2, <2>3, SplitSequence
  <2> QED
    BY <1>1, <2>1, <2>4 DEF Bytes
<1> QED
  BY <1>2, <1>3, <1>4 DEF write

-----------------------------------------------------------------------------
LEMMA InitInv == Init => IInv
<1> SUFFICES ASSUME Init PROVE IInv
  OBVIOUS
<1>1. Bytes
  BY DEF Init, Bytes
<1>2. Open
  <2>1. got = <<>> /\ held = <<>> /\ passed = <<>> /\ Len(Marker) \in Nat \ {0}
    BY DEF Init
  <2>2. passed \o held = got
    BY <2>1
  <2>3. Unmarked(got)
    BY <2>1 DEF Unmarked, At
  <2>4. EndsIn(got, Len(held)) /\ Longest(got, Len(held))
    BY <2>1 DEF EndsIn, Longest
  <2> QED
    BY <2>1, <2>2, <2>3, <2>4 DEF Open
<1> QED
  BY <1>1, <1>2 DEF IInv, Init, CutAtMarker

LEMMA ReadDeltaInv ==
  ASSUME IInv, ReadDelta
  PROVE  IInv'
<1>1. PICK n \in 1 .. Len(text) - Len(got) : write(SubSeq(text, Len(got) + 1, Len(got) + n))
  BY DEF ReadDelta
<1> DEFINE p == SubSeq(text, Len(got) + 1, Len(got) + n)
<1>2. p \in Seq(Byte)
  <2>1. text \in Seq(Byte) /\ Len(text) \in Nat /\ Len(got) \in Nat
    BY DEF IInv, Bytes
  <2> QED
    BY <2>1
<1>3. write(p) /\ got' = got \o p /\ Bytes /\ status = "reading" /\ status' = "reading" /\ UNCHANGED text
  BY <1>1 DEF write, ReadDelta, IInv
<1> HIDE DEF p
<1>4. Bytes'
  BY <1>2, <1>3, BytesKept
<1>5. CutAtMarker'
  BY <1>3 DEF CutAtMarker
<1>6. CASE Suppressed(p)
  <2>1. suppress /\ suppress' /\ Closed
    BY <1>3, <1>6 DEF Suppressed, IInv
  <2>2. Closed'
    BY <1>2, <1>3, <1>6, <2>1, SuppressedClosed
  <2> QED
    BY <1>4, <1>5, <2>1, <2>2 DEF IInv
<1>7. CASE Cut(p)
  <2>1. ~suppress /\ suppress' /\ Open
    BY <1>3, <1>7 DEF Cut, IInv
  <2>2. Closed'
    BY <1>2, <1>3, <1>7, <2>1, CutClosed
  <2> QED
    BY <1>4, <1>5, <2>1, <2>2 DEF IInv
<1>8. CASE Forward(p)
  <2>1. ~suppress /\ ~suppress' /\ Open
    BY <1>3, <1>8 DEF Forward, IInv
  <2>2. Open'
    BY <1>2, <1>3, <1>8, <2>1, ForwardOpen
  <2> QED
    BY <1>4, <1>5, <2>1, <2>2 DEF IInv
<1> QED
  BY <1>3, <1>6, <1>7, <1>8 DEF write

(* The last flush passes on what the gate held: all of an unmarked answer. *)
LEMMA EndsInv ==
  ASSUME IInv, Ends
  PROVE  IInv'
<1>1. status = "reading" /\ status' # "reading" /\ flush /\ UNCHANGED text /\ got' = got /\ Bytes
  BY DEF Ends, flush, IInv
<1>2. passed' = passed \o held /\ held' = <<>>
  BY <1>1 DEF flush
<1>3. Bytes'
  BY <1>1, <1>2 DEF Bytes
<1>4. IsVisible(got, passed')
  <2>1. CASE suppress
    <3>1. Closed
      BY <1>1, <2>1 DEF IInv
    <3>2. passed' = passed
      BY <1>1, <1>2, <3>1 DEF Closed, Bytes
    <3> QED
      BY <3>1, <3>2 DEF Closed, IsVisible
  <2>2. CASE ~suppress
    <3>1. Open
      BY <1>1, <2>2 DEF IInv
    <3> QED
      BY <1>2, <3>1 DEF Open, IsVisible, Unmarked
  <2> QED
    BY <2>1, <2>2
<1>5. CutAtMarker'
  BY <1>1, <1>4 DEF CutAtMarker
<1> QED
  BY <1>1, <1>3, <1>5 DEF IInv

LEMMA BreaksInv ==
  ASSUME IInv, Breaks
  PROVE  IInv'
<1>1. status' = "error" /\ UNCHANGED text /\ got' = got /\ passed' = passed \o held /\ held' = <<>>
  BY DEF Breaks, flush
<1>2. Bytes'
  BY <1>1 DEF IInv, Bytes
<1> QED
  BY <1>1, <1>2 DEF IInv, CutAtMarker

LEMMA NextInv == IInv /\ [Next]_vars => IInv'
<1> SUFFICES ASSUME IInv, [Next]_vars PROVE IInv'
  OBVIOUS
<1>1. CASE ReadDelta
  BY <1>1, ReadDeltaInv
<1>2. CASE Ends
  BY <1>2, EndsInv
<1>3. CASE Breaks
  BY <1>3, BreaksInv
<1>4. CASE Aborts
  BY <1>4 DEF Aborts, gate, IInv, Bytes, CutAtMarker
<1>5. CASE Terminating \/ UNCHANGED vars
  <2>1. UNCHANGED vars
    BY <1>5 DEF Terminating
  <2>2. Bytes' /\ (Open' <=> Open) /\ (Closed' <=> Closed) /\ CutAtMarker'
    BY <2>1 DEF vars, IInv, Bytes, Open, Closed, CutAtMarker, Unmarked, Longest
  <2> QED
    BY <2>1, <2>2 DEF vars, IInv
<1> QED
  BY <1>1, <1>2, <1>3, <1>4, <1>5 DEF Next

-----------------------------------------------------------------------------
(* For every marker, answer and split: a stream that ended well has passed *)
(* on what precedes the first marker, no byte more and none less.          *)
THEOREM CutAtMarkerHolds == Spec => []CutAtMarker
<1>1. IInv => CutAtMarker
  BY DEF IInv
<1> QED
  BY InitInv, NextInv, <1>1, PTL DEF Spec

(* While the gate is open, all that came has been passed on but an end     *)
(* shorter than the marker that may become one.                            *)
THEOREM TimelyHolds == Spec => []Timely
<1>1. IInv => Timely
  BY DEF IInv, Timely, Open
<1> QED
  BY InitInv, NextInv, <1>1, PTL DEF Spec

-----------------------------------------------------------------------------
(* What is true of 0, and of n + 1 if it is of n, is true of every natural *)
(* number: of those it is not true of, one would be the least.             *)
LEMMA SetInduction ==
  ASSUME NEW S, 0 \in S, \A n \in Nat : n \in S => n + 1 \in S
  PROVE  \A n \in Nat : n \in S
<1> DEFINE R == OpToRel(<, Nat)
<1>1. IsWellFoundedOn(R, Nat)
  BY NatLessThanWellFounded
<1>2. ASSUME NEW x \in Nat, NEW y \in Nat, y < x PROVE <<y, x>> \in R
  BY <1>2 DEF OpToRel
<1> HIDE DEF R
<1> SUFFICES ASSUME Nat \ S # {} PROVE FALSE
  OBVIOUS
<1>3. PICK x \in Nat \ S : \A y \in Nat \ S : ~(<<y, x>> \in R)
  <2>1. Nat \ S \subseteq Nat
    OBVIOUS
  <2> QED
    BY <1>1, <2>1, WFMin
<1>4. x # 0 /\ x - 1 \in Nat /\ x - 1 + 1 = x /\ x - 1 < x
  OBVIOUS
<1> QED
  BY <1>2, <1>3, <1>4

(* A recursion from m to n, each step of which depends on its place and on *)
(* the value before it, has a solution.                                    *)
Rules(S, m, n) == [m + 1 .. n -> [S -> S]]
Obeys(f, S, m, n, a, G) ==
  f \in [m .. n -> S] /\ f = [i \in m .. n |-> IF i = m THEN a ELSE G[i][f[i - 1]]]

LEMMA Recursion ==
  ASSUME NEW S, NEW m \in Nat, NEW n \in Nat, m <= n, NEW a \in S, NEW G \in Rules(S, m, n)
  PROVE  \E f : Obeys(f, S, m, n, a, G)
<1> DEFINE Upto(f, k) == /\ f \in [m .. m + k -> S] /\ f[m] = a
                         /\ \A i \in m + 1 .. m + k : f[i] = G[i][f[i - 1]]
           Solvable(k) == m + k <= n => \E f : Upto(f, k)
           Solved == {k \in Nat : Solvable(k)}
<1>1. Solvable(0)
  <2>1. Upto([i \in m .. m |-> a], 0)
    OBVIOUS
  <2> HIDE DEF Upto
  <2> QED
    BY <2>1
<1>2. ASSUME NEW k \in Nat, Solvable(k) PROVE Solvable(k + 1)
  <2> SUFFICES ASSUME m + (k + 1) <= n PROVE \E f : Upto(f, k + 1)
    OBVIOUS
  <2>1. PICK f : Upto(f, k)
    <3>1. m + k <= n
      OBVIOUS
    <3> HIDE DEF Upto
    <3> QED
      BY <1>2, <3>1
  <2> DEFINE c == m + k + 1
             g == [i \in m .. c |-> IF i = c THEN G[c][f[c - 1]] ELSE f[i]]
  <2>2. /\ c \in m + 1 .. n /\ c - 1 = m + k /\ c - 1 \in m .. m + k /\ m + (k + 1) = c /\ c # m
        /\ c \in Nat /\ m \in m .. m + k /\ m \in m .. c
        /\ \A i \in m .. c : i = c \/ i \in m .. m + k
        /\ \A i \in m + 1 .. c : i \in m .. c /\ i - 1 \in m .. m + k /\ i - 1 \in m .. c /\ i - 1 # c
        /\ \A i \in m + 1 .. c : i = c \/ i \in m + 1 .. m + k
    OBVIOUS
  <2>3. f \in [m .. m + k -> S] /\ f[m] = a /\ \A i \in m + 1 .. m + k : f[i] = G[i][f[i - 1]]
    BY <2>1
  <2> HIDE DEF c
  <2>4. G[c][f[c - 1]] \in S
    BY <2>2, <2>3 DEF Rules
  <2>5. g \in [m .. c -> S] /\ g[m] = a
    BY <2>2, <2>3, <2>4
  <2>6. ASSUME NEW i \in m + 1 .. c PROVE g[i] = G[i][g[i - 1]]
    BY <2>2, <2>3
  <2> QED
    BY <2>2, <2>5, <2>6
<1>3. \A k \in Nat : Solvable(k)
  <2> HIDE DEF Solvable
  <2>1. 0 \in Solved /\ \A k \in Nat : k \in Solved => k + 1 \in Solved
    BY <1>1, <1>2
  <2>2. \A k \in Nat : k \in Solved
    <3> HIDE DEF Solved
    <3> QED
      BY <2>1, SetInduction
  <2> QED
    BY <2>2
<1>4. n - m \in Nat /\ m + (n - m) = n /\ n <= n
  OBVIOUS
<1>5. PICK f : Upto(f, n - m)
  <2>1. Solvable(n - m)
    <3> HIDE DEF Solvable
    <3> QED
      BY <1>3, <1>4
  <2> HIDE DEF Upto
  <2> QED
    BY <2>1, <1>4
<1>6. f \in [m .. n -> S] /\ f[m] = a /\ \A i \in m + 1 .. n : f[i] = G[i][f[i - 1]]
  BY <1>4, <1>5
<1>7. \A i \in m .. n : f[i] = IF i = m THEN a ELSE G[i][f[i - 1]]
  <2>1. \A i \in m .. n : i = m \/ i \in m + 1 .. n
    OBVIOUS
  <2> QED
    BY <2>1, <1>6
<1>8. f = [i \in m .. n |-> IF i = m THEN a ELSE G[i][f[i - 1]]]
  BY <1>6, <1>7
<1> QED
  BY <1>6, <1>8 DEF Obeys

-----------------------------------------------------------------------------
(* The sanitizer *)

SanState == [clean : Seq(Byte), pending : Seq(Byte)]
Fresh(carry) == [clean |-> <<>>, pending |-> carry]

(* f[i] is the sanitizer after the first i bytes of p. *)
Passes(f, carry, p) ==
  /\ f \in [0 .. Len(p) -> SanState] /\ f[0] = Fresh(carry)
  /\ \A i \in 1 .. Len(p) : f[i] = SanitizeByte(f[i - 1], p[i])

LEMMA ByteTyped ==
  ASSUME NEW s \in SanState, NEW b \in Byte
  PROVE  /\ SanitizeByte(s, b) \in SanState
         /\ SanitizeByte(s, b).pending = <<>> \/ (b \in Leads /\ Len(SanitizeByte(s, b).pending) = 1)
<1>1. s.clean \in Seq(Byte) /\ s.pending \in Seq(Byte) /\ s = [clean |-> s.clean, pending |-> s.pending]
  BY DEF SanState
<1>2. <<b>> \in Seq(Byte) /\ Len(<<b>>) = 1 /\ <<>> \in Seq(Byte)
  OBVIOUS
<1> DEFINE rune == Append(s.pending, b)
<1>3. rune \in Seq(Byte) /\ s.clean \o rune \in Seq(Byte)
  <2>1. rune \in Seq(Byte)
    BY <1>1
  <2> HIDE DEF rune
  <2> QED
    BY <1>1, <2>1
<1>4. CASE s.pending = <<>> /\ b \in Leads
  <2>1. SanitizeByte(s, b) = [clean |-> s.clean, pending |-> <<b>>]
    BY <1>1, <1>4 DEF SanitizeByte
  <2> QED
    BY <1>1, <1>2, <1>4, <2>1 DEF SanState
<1>5. CASE ~(s.pending = <<>> /\ b \in Leads)
  <2>1. SanitizeByte(s, b) = [clean |-> IF rune \in Drops THEN s.clean ELSE s.clean \o rune, pending |-> <<>>]
    BY <1>5 DEF SanitizeByte
  <2> HIDE DEF rune
  <2>2. (IF rune \in Drops THEN s.clean ELSE s.clean \o rune) \in Seq(Byte)
    BY <1>1, <1>3
  <2> QED
    BY <1>2, <2>1, <2>2 DEF SanState
<1> QED
  BY <1>4, <1>5

LEMMA SanitizedPasses ==
  ASSUME NEW carry \in Seq(Byte), NEW p \in Seq(Byte)
  PROVE  \E f : Passes(f, carry, p) /\ Sanitized(carry, p) = f[Len(p)]
<1> DEFINE n == Len(p)
           zero == 0
           T == SanState
           first == Fresh(carry)
           Fix(f) == f = [i \in 0 .. n |-> IF i = 0 THEN [clean |-> <<>>, pending |-> carry]
                                           ELSE SanitizeByte(f[i - 1], p[i])]
           G == [i \in zero + 1 .. n |-> [s \in T |-> SanitizeByte(s, p[i])]]
<1>1. n \in Nat /\ zero \in Nat /\ zero <= n /\ \A i \in 1 .. n : p[i] \in Byte
  OBVIOUS
<1>2. \A i \in 1 .. n : \A s \in T : SanitizeByte(s, p[i]) \in T
  BY <1>1, ByteTyped
<1>3. first \in T
  BY DEF Fresh, SanState
<1>4. PICK f : Obeys(f, T, zero, n, first, G)
  <2>1. G \in Rules(T, zero, n)
    <3>1. \A i \in zero + 1 .. n : i \in 1 .. n
      OBVIOUS
    <3> HIDE DEF n, T
    <3> QED
      BY <1>2, <3>1 DEF Rules
  <2> HIDE DEF G, n, T, zero, first
  <2> QED
    BY <1>1, <1>3, <2>1, Recursion
<1>5. Fix(f)
  <2>1. \A i \in 0 .. n : i # 0 => i \in zero + 1 .. n /\ i - 1 \in 0 .. n
    OBVIOUS
  <2>2. f \in [0 .. n -> T] /\ f = [i \in 0 .. n |-> IF i = 0 THEN first ELSE G[i][f[i - 1]]]
    BY <1>4 DEF Obeys
  <2> HIDE DEF n, T
  <2>3. \A i \in 0 .. n : f[i] = IF i = 0 THEN first ELSE SanitizeByte(f[i - 1], p[i])
    <3> SUFFICES ASSUME NEW i \in 0 .. n PROVE f[i] = IF i = 0 THEN first ELSE SanitizeByte(f[i - 1], p[i])
      OBVIOUS
    <3>1. CASE i = 0
      BY <2>2, <3>1
    <3>2. CASE i # 0
      <4>1. f[i] = G[i][f[i - 1]] /\ f[i - 1] \in T /\ i \in zero + 1 .. n
        BY <2>1, <2>2, <3>2
      <4> QED
        BY <3>2, <4>1
    <3> QED
      BY <3>1, <3>2
  <2> QED
    BY <2>2, <2>3 DEF Fresh
<1> DEFINE c == CHOOSE e : Fix(e)
<1>6. Fix(c)
  <2> HIDE DEF Fix
  <2> QED
    BY <1>5
<1>7. Sanitized(carry, p) = c[n]
  BY DEF Sanitized
<1> HIDE DEF c
<1>8. c[0] = first /\ \A i \in 1 .. n : c[i] = SanitizeByte(c[i - 1], p[i])
  <2>1. 0 \in 0 .. n /\ \A i \in 1 .. n : i \in 0 .. n /\ i # 0
    BY <1>1
  <2> HIDE DEF n
  <2> QED
    BY <2>1, <1>6 DEF Fresh
<1>9. c = [i \in 0 .. n |-> c[i]]
  BY <1>6
<1> HIDE DEF Fix, T, first
<1> DEFINE Typed(k) == k <= n => c[k] \in T
           Right == {k \in Nat : Typed(k)}
<1>10. 0 \in Right /\ \A k \in Nat : k \in Right => k + 1 \in Right
  <2>1. ASSUME NEW k \in Nat, Typed(k), k + 1 <= n PROVE c[k + 1] \in T
    <3> DEFINE l == k + 1
    <3>1. l \in 1 .. n /\ l - 1 = k /\ k <= n
      BY <2>1, <1>1
    <3> HIDE DEF l, n
    <3>2. c[l] = SanitizeByte(c[k], p[l]) /\ c[k] \in T
      BY <1>8, <2>1, <3>1
    <3> QED
      BY <1>2, <3>1, <3>2 DEF l
  <2> QED
    BY <1>3, <1>8, <2>1
<1>11. \A i \in 0 .. n : c[i] \in T
  <2>1. \A k \in Nat : k \in Right
    <3> HIDE DEF Right
    <3> QED
      BY <1>10, SetInduction
  <2>2. \A i \in 0 .. n : i \in Nat /\ i <= n
    BY <1>1
  <2> HIDE DEF n
  <2> QED
    BY <2>1, <2>2
<1>12. Passes(c, carry, p)
  BY <1>8, <1>9, <1>11 DEF Passes, T, first
<1> QED
  BY <1>7, <1>12

(* A rune is pending only behind a byte that begins one.                   *)
LEMMA PendingLast ==
  ASSUME NEW p \in Seq(Byte)
  PROVE  /\ Sanitized(<<>>, p) \in SanState
         /\ Len(Sanitized(<<>>, p).pending) <= 1
         /\ p = <<>> => Sanitized(<<>>, p) = Fresh(<<>>)
         /\ p # <<>> /\ p[Len(p)] \notin Leads => Sanitized(<<>>, p).pending = <<>>
<1>1. <<>> \in Seq(Byte)
  OBVIOUS
<1>2. PICK f : Passes(f, <<>>, p) /\ Sanitized(<<>>, p) = f[Len(p)]
  BY <1>1, SanitizedPasses
<1> DEFINE n == Len(p)
<1>3. n \in Nat /\ (p = <<>> <=> n = 0) /\ n \in 0 .. n /\ \A i \in 1 .. n : p[i] \in Byte
  OBVIOUS
<1>4. f \in [0 .. n -> SanState] /\ f[0] = Fresh(<<>>) /\ \A i \in 1 .. n : f[i] = SanitizeByte(f[i - 1], p[i])
  BY <1>2 DEF Passes
<1> HIDE DEF n
<1>5. f[n] \in SanState
  BY <1>3, <1>4
<1>6. CASE n = 0
  BY <1>2, <1>3, <1>4, <1>5, <1>6 DEF n, Fresh
<1>7. CASE n # 0
  <2>1. n \in 1 .. n /\ n - 1 \in 0 .. n
    BY <1>3, <1>7
  <2>2. f[n] = SanitizeByte(f[n - 1], p[n]) /\ f[n - 1] \in SanState /\ p[n] \in Byte
    BY <1>3, <1>4, <2>1
  <2>3. f[n].pending = <<>> \/ (p[n] \in Leads /\ Len(f[n].pending) = 1)
    BY <2>2, ByteTyped
  <2>4. Len(f[n].pending) <= 1
    <3>1. CASE f[n].pending = <<>>
      BY <3>1
    <3>2. CASE Len(f[n].pending) = 1
      BY <3>2
    <3> QED
      BY <2>3, <3>1, <3>2
  <2> QED
    BY <1>2, <1>3, <1>5, <1>7, <2>3, <2>4 DEF n
<1> QED
  BY <1>6, <1>7

(* What is already clean stays in front of what becomes so.                *)
LEMMA ByteBehind ==
  ASSUME NEW c \in Seq(Byte), NEW s \in SanState, NEW b \in Byte
  PROVE  SanitizeByte([clean |-> c \o s.clean, pending |-> s.pending], b) =
           [clean |-> c \o SanitizeByte(s, b).clean, pending |-> SanitizeByte(s, b).pending]
<1> DEFINE rune == Append(s.pending, b)
           z == [clean |-> c \o s.clean, pending |-> s.pending]
<1>1. s.clean \in Seq(Byte) /\ s.pending \in Seq(Byte) /\ s = [clean |-> s.clean, pending |-> s.pending]
  BY DEF SanState
<1>2. (c \o s.clean) \o rune = c \o (s.clean \o rune)
  <2>1. rune \in Seq(Byte)
    BY <1>1
  <2> HIDE DEF rune
  <2> QED
    BY <1>1, <2>1, JoinAssociative
<1>3. CASE s.pending = <<>> /\ b \in Leads
  <2>1. SanitizeByte(s, b) = [clean |-> s.clean, pending |-> <<b>>]
    BY <1>1, <1>3 DEF SanitizeByte
  <2>2. SanitizeByte(z, b) = [clean |-> c \o s.clean, pending |-> <<b>>]
    BY <1>3 DEF SanitizeByte
  <2> QED
    BY <2>1, <2>2
<1>4. CASE ~(s.pending = <<>> /\ b \in Leads)
  <2>1. SanitizeByte(s, b) = [clean |-> IF rune \in Drops THEN s.clean ELSE s.clean \o rune, pending |-> <<>>]
    BY <1>4 DEF SanitizeByte
  <2>2. SanitizeByte(z, b) =
          [clean |-> IF rune \in Drops THEN c \o s.clean ELSE (c \o s.clean) \o rune, pending |-> <<>>]
    BY <1>4 DEF SanitizeByte
  <2> HIDE DEF rune
  <2>3. CASE rune \in Drops
    BY <2>1, <2>2, <2>3
  <2>4. CASE rune \notin Drops
    BY <1>2, <2>1, <2>2, <2>4
  <2> QED
    BY <2>3, <2>4
<1> QED
  BY <1>3, <1>4

(* The sanitizer is the same on the first bytes, whatever follows them.    *)
LEMMA SameOnPrefix ==
  ASSUME NEW p \in Seq(Byte), NEW q \in Seq(Byte),
         NEW e, Passes(e, <<>>, p \o q), NEW f, Passes(f, <<>>, p)
  PROVE  e[Len(p)] = f[Len(p)]
<1> DEFINE n == Len(p)
           r == p \o q
           N == Len(r)
           Agree == {k \in Nat : k <= n => e[k] = f[k]}
<1>1. n \in Nat /\ N \in Nat /\ n <= N /\ \A i \in 1 .. n : i \in 1 .. N /\ r[i] = p[i]
  OBVIOUS
<1>2. e[0] = f[0] /\ (\A i \in 1 .. N : e[i] = SanitizeByte(e[i - 1], r[i]))
      /\ \A i \in 1 .. n : f[i] = SanitizeByte(f[i - 1], p[i])
  BY DEF Passes
<1> HIDE DEF n, r, N
<1>3. ASSUME NEW k \in Nat, k \in Agree PROVE k + 1 \in Agree
  <2> SUFFICES ASSUME k + 1 <= n PROVE e[k + 1] = f[k + 1]
    OBVIOUS
  <2> DEFINE l == k + 1
  <2>1. l \in 1 .. n /\ l - 1 = k /\ k <= n
    BY <1>1
  <2>2. e[k] = f[k]
    BY <1>3, <2>1
  <2> HIDE DEF l
  <2>3. e[l] = SanitizeByte(e[k], p[l]) /\ f[l] = SanitizeByte(f[k], p[l])
    BY <1>1, <1>2, <2>1
  <2> QED
    BY <2>2, <2>3 DEF l
<1>4. 0 \in Agree
  BY <1>2
<1>5. \A k \in Nat : k \in Agree
  <2> HIDE DEF Agree
  <2> QED
    BY <1>3, <1>4, SetInduction
<1>6. n <= n
  BY <1>1
<1> QED
  BY <1>1, <1>5, <1>6 DEF n

(* Behind them it goes on with the rune they left pending.                 *)
Behind(s, t) == [clean |-> s.clean \o t.clean, pending |-> t.pending]

LEMMA SameOnRest ==
  ASSUME NEW p \in Seq(Byte), NEW q \in Seq(Byte),
         NEW e, Passes(e, <<>>, p \o q),
         NEW carry, carry = e[Len(p)].pending, NEW h, Passes(h, carry, q)
  PROVE  e[Len(p \o q)] = Behind(e[Len(p)], h[Len(q)])
<1> DEFINE n == Len(p)
           m == Len(q)
           r == p \o q
           N == Len(r)
           s == e[n]
           Agree == {k \in Nat : k <= m => e[n + k] = Behind(s, h[k])}
<1>1. /\ n \in Nat /\ m \in Nat /\ N = n + m /\ n \in 0 .. N
      /\ \A k \in 1 .. m : q[k] \in Byte /\ n + k \in 1 .. N /\ r[n + k] = q[k]
  OBVIOUS
<1>2. /\ e \in [0 .. N -> SanState] /\ h \in [0 .. m -> SanState] /\ h[0] = Fresh(s.pending)
      /\ \A i \in 1 .. N : e[i] = SanitizeByte(e[i - 1], r[i])
      /\ \A i \in 1 .. m : h[i] = SanitizeByte(h[i - 1], q[i])
  BY DEF Passes
<1> HIDE DEF n, m, r, N
<1>3. s \in SanState /\ s.clean \in Seq(Byte) /\ s = [clean |-> s.clean, pending |-> s.pending]
  <2>1. s \in SanState
    BY <1>1, <1>2
  <2> HIDE DEF s
  <2> QED
    BY <2>1 DEF SanState
<1> HIDE DEF s
<1>4. 0 \in Agree
  <2>1. s.clean \o <<>> = s.clean
    BY <1>3, ConcatEmptySeq
  <2>2. h[0].clean = <<>> /\ h[0].pending = s.pending
    BY <1>2 DEF Fresh
  <2>3. Behind(s, h[0]) = s
    BY <1>3, <2>1, <2>2 DEF Behind
  <2>4. n + 0 = n
    BY <1>1
  <2> QED
    BY <2>3, <2>4 DEF s
<1>5. ASSUME NEW k \in Nat, k \in Agree PROVE k + 1 \in Agree
  <2> SUFFICES ASSUME k + 1 <= m PROVE e[n + (k + 1)] = Behind(s, h[k + 1])
    OBVIOUS
  <2> DEFINE l == k + 1
             j == n + l
  <2>1. l \in 1 .. m /\ l - 1 = k /\ k <= m /\ k \in 0 .. m /\ j - 1 = n + k
    BY <1>1
  <2>2. e[n + k] = Behind(s, h[k])
    BY <1>5, <2>1
  <2> HIDE DEF l
  <2>3. j \in 1 .. N /\ r[j] = q[l] /\ q[l] \in Byte
    BY <1>1, <2>1
  <2> HIDE DEF j
  <2>4. e[j] = SanitizeByte(e[j - 1], r[j])
    BY <1>2, <2>3
  <2>5. e[j] = SanitizeByte(Behind(s, h[k]), q[l])
    BY <2>1, <2>2, <2>3, <2>4
  <2>6. h[l] = SanitizeByte(h[k], q[l]) /\ h[k] \in SanState
    BY <1>2, <2>1
  <2>7. SanitizeByte(Behind(s, h[k]), q[l]) = Behind(s, SanitizeByte(h[k], q[l]))
    BY <1>3, <2>3, <2>6, ByteBehind DEF Behind
  <2> QED
    BY <2>5, <2>6, <2>7 DEF j, l
<1>6. \A k \in Nat : k \in Agree
  <2> HIDE DEF Agree
  <2> QED
    BY <1>4, <1>5, SetInduction
<1>7. e[n + m] = Behind(s, h[m])
  <2>1. m <= m
    BY <1>1
  <2> QED
    BY <1>1, <1>6, <2>1
<1> QED
  BY <1>1, <1>7 DEF n, m, r, N, s

LEMMA SanitizedConcat ==
  ASSUME NEW p \in Seq(Byte), NEW q \in Seq(Byte)
  PROVE  LET s == Sanitized(<<>>, p)
         IN  Sanitized(<<>>, p \o q) = Behind(s, Sanitized(s.pending, q))
<1> DEFINE r == p \o q
           s == Sanitized(<<>>, p)
<1>1. r \in Seq(Byte) /\ <<>> \in Seq(Byte)
  OBVIOUS
<1>2. s.pending \in Seq(Byte)
  <2>1. s \in SanState
    BY PendingLast
  <2> HIDE DEF s
  <2> QED
    BY <2>1 DEF SanState
<1>3. PICK f : Passes(f, <<>>, p) /\ s = f[Len(p)]
  BY <1>1, SanitizedPasses
<1>4. PICK e : Passes(e, <<>>, r) /\ Sanitized(<<>>, r) = e[Len(r)]
  <2> HIDE DEF r
  <2> QED
    BY <1>1, SanitizedPasses
<1> HIDE DEF s
<1>5. PICK h : Passes(h, s.pending, q) /\ Sanitized(s.pending, q) = h[Len(q)]
  BY <1>2, SanitizedPasses
<1>6. e[Len(p)] = s
  <2>1. Passes(e, <<>>, p \o q) /\ Passes(f, <<>>, p)
    BY <1>3, <1>4
  <2>2. e[Len(p)] = f[Len(p)]
    BY <2>1, SameOnPrefix
  <2> QED
    BY <1>3, <2>2
<1>7. PICK carry : carry = e[Len(p)].pending /\ Passes(h, carry, q)
  BY <1>5, <1>6
<1>8. e[Len(r)] = Behind(e[Len(p)], h[Len(q)])
  <2>1. Passes(e, <<>>, p \o q)
    BY <1>4
  <2> QED
    BY <1>7, <2>1, SameOnRest
<1>9. Sanitized(<<>>, r) = Behind(s, Sanitized(s.pending, q))
  BY <1>4, <1>5, <1>6, <1>8
<1> QED
  BY <1>9 DEF s

-----------------------------------------------------------------------------
(* What the terminal shows, on the invariant of the gate: every split, and *)
(* with it every cut, falls behind a whole rune.                           *)

Source ==
  /\ Len(got) <= Len(text) /\ \A k \in 1 .. Len(got) : got[k] = text[k]
  /\ got = <<>> \/ got[Len(got)] \notin Leads

Boundary == passed = <<>> \/ passed[Len(passed)] \notin Leads

Shown == term = Sanitized(<<>>, passed).clean /\ pending = Sanitized(<<>>, passed).pending

ShowsInv ==
  /\ text \in Texts /\ suppress \in BOOLEAN /\ status \in {"reading", "ok", "error"}
  /\ Len(held) < Len(Marker)
  /\ Source /\ Boundary /\ Shown

(* No rune is cut by what ends before a byte of the marker.                *)
LEMMA CutBehindRune ==
  ASSUME Bytes, text \in Texts, Source,
         NEW i \in Nat, i < Len(got), NEW k \in 1 .. Len(Marker), got[i + 1] = Marker[k], i # 0
  PROVE  got[i] \notin Leads
<1> DEFINE j == i + 1
<1>1. i \in 1 .. Len(got) /\ j \in 1 .. Len(got) /\ i \in 1 .. Len(text) /\ got[j] = Marker[k]
  BY DEF Source, Bytes
<1>2. got[i] = text[i] /\ got[j] = text[j]
  BY <1>1 DEF Source
<1>3. DOMAIN text = 1 .. Len(text) /\ DOMAIN Marker = 1 .. Len(Marker)
  BY DEF Bytes
<1>4. text[i] \in Leads => \A l \in DOMAIN Marker : text[j] # Marker[l]
  <2>1. i \in DOMAIN text
    BY <1>1, <1>3
  <2> QED
    BY <2>1, RunesAssumption
<1> HIDE DEF j
<1> QED
  BY <1>1, <1>2, <1>3, <1>4

LEMMA BoundaryOpen ==
  ASSUME Bytes, text \in Texts, Source, Open
  PROVE  Boundary
<1> DEFINE n == Len(passed)
           m == Len(held)
<1>1. /\ n \in Nat /\ m \in Nat /\ Len(got) = n + m /\ (n = 0 <=> passed = <<>>)
      /\ \A k \in 1 .. n : got[k] = passed[k]
  BY DEF Open, Bytes
<1>2. m < Len(Marker) /\ EndsIn(got, m)
  BY DEF Open
<1> HIDE DEF n, m
<1> SUFFICES ASSUME n # 0 PROVE got[n] \notin Leads
  BY <1>1 DEF Boundary, n
<1>3. CASE m = 0
  BY <1>1, <1>3 DEF Source
<1>4. CASE m # 0
  <2>1. 1 \in 1 .. m /\ 1 \in 1 .. Len(Marker) /\ Len(got) - m + 1 = n + 1 /\ n < Len(got)
    BY <1>1, <1>2, <1>4
  <2>2. got[n + 1] = Marker[1]
    BY <1>2, <2>1 DEF EndsIn
  <2> QED
    BY <1>1, <2>1, <2>2, CutBehindRune
<1> QED
  BY <1>3, <1>4

LEMMA BoundaryClosed ==
  ASSUME Bytes, text \in Texts, Source, Closed
  PROVE  Boundary
<1>1. PICK i \in 0 .. Len(got) : FirstAt(got, i) /\ passed = SubSeq(got, 1, i)
  BY DEF Closed
<1>2. i + Len(Marker) <= Len(got) /\ \A k \in 1 .. Len(Marker) : got[i + k] = Marker[k]
  BY <1>1 DEF FirstAt, At
<1>3. 1 \in 1 .. Len(Marker) /\ i < Len(got) /\ i \in Nat /\ Len(got) \in Nat
  BY <1>2 DEF Bytes
<1>4. got[i + 1] = Marker[1]
  BY <1>2, <1>3
<1>5. Len(passed) = i /\ (i # 0 => passed[i] = got[i]) /\ (i = 0 => passed = <<>>)
  BY <1>1, <1>3 DEF Bytes
<1>6. i # 0 => got[i] \notin Leads
  BY <1>3, <1>4, CutBehindRune
<1> QED
  BY <1>5, <1>6 DEF Boundary

LEMMA BoundarySound == Bytes /\ text \in Texts /\ Source /\ (Open \/ Closed) => Boundary
BY BoundaryOpen, BoundaryClosed

(* What is passed on next appears as if it had come with all before it.    *)
LEMMA EmitsShown ==
  ASSUME Bytes, Shown, NEW x \in Seq(Byte), passed' = passed \o x, Emits
  PROVE  Shown'
<1> DEFINE s == Sanitized(<<>>, passed)
           t == Sanitized(s.pending, x)
           n == Len(passed)
<1>1. SubSeq(passed', n + 1, Len(passed')) = x
  <2>1. /\ passed \in Seq(Byte) /\ n \in Nat /\ Len(x) \in Nat /\ passed' \in Seq(Byte) /\ Len(passed') = n + Len(x)
        /\ \A k \in 1 .. Len(x) : passed'[n + k] = x[k]
    BY DEF Bytes
  <2> DEFINE y == SubSeq(passed', n + 1, Len(passed'))
  <2> HIDE DEF n
  <2>2. y \in Seq(Byte) /\ Len(y) = Len(x) /\ \A k \in 1 .. Len(x) : y[k] = passed'[n + k]
    BY SMTT(30), <2>1
  <2> HIDE DEF y
  <2>3. y = x
    BY <2>1, <2>2, SeqEqual
  <2> QED
    BY <2>3 DEF y
<1>2. Sanitized(<<>>, passed') = Behind(s, t)
  BY SanitizedConcat DEF Bytes
<1>3. term' = s.clean \o t.clean /\ pending' = t.pending
  <2>1. term = s.clean /\ pending = s.pending
    BY DEF Shown
  <2> HIDE DEF s
  <2> QED
    BY <1>1, <2>1 DEF Emits
<1> HIDE DEF s, t
<1> DEFINE u == Sanitized(<<>>, passed')
<1>4. u = [clean |-> s.clean \o t.clean, pending |-> t.pending]
  BY <1>2 DEF Behind
<1> HIDE DEF u
<1>5. term' = u.clean /\ pending' = u.pending
  BY <1>3, <1>4
<1> QED
  BY <1>5 DEF Shown, u

(* A step of the gate adds to what was passed on.                          *)
LEMMA WriteAdds ==
  ASSUME Bytes, NEW p \in Seq(Byte), write(p)
  PROVE  \E x \in Seq(Byte) : passed' = passed \o x
<1> DEFINE b == held \o p
<1>1. b \in Seq(Byte) /\ \A i \in 0 .. Len(b) : SubSeq(b, 1, i) \in Seq(Byte)
  <2>1. b \in Seq(Byte)
    BY DEF Bytes
  <2> HIDE DEF b
  <2> QED
    BY <2>1, SplitSequence
<1>2. CASE Suppressed(p)
  <2>1. passed' = passed /\ passed \o <<>> = passed /\ <<>> \in Seq(Byte)
    BY <1>2, ConcatEmptySeq DEF Suppressed, Bytes
  <2> QED
    BY <2>1
<1>3. CASE Cut(p)
  <2>1. PICK i \in 0 .. Len(b) : passed' = passed \o SubSeq(b, 1, i)
    BY <1>3 DEF Cut
  <2> HIDE DEF b
  <2> QED
    BY <1>1, <2>1
<1>4. CASE Forward(p)
  <2>1. PICK n \in 0 .. Len(b) : passed' = passed \o SubSeq(b, 1, Len(b) - n)
    BY <1>4 DEF Forward
  <2> HIDE DEF b
  <2>2. Len(b) - n \in 0 .. Len(b)
    BY <1>1
  <2> QED
    BY <1>1, <2>1, <2>2
<1> QED
  BY <1>2, <1>3, <1>4 DEF write

(* A delta ends behind a whole rune.                                       *)
LEMMA DeltaSource ==
  ASSUME Bytes, Source, NEW n \in 1 .. Len(text) - Len(got), text[Len(got) + n] \notin Leads,
         got' = got \o SubSeq(text, Len(got) + 1, Len(got) + n), UNCHANGED text
  PROVE  Source'
<1> DEFINE m == Len(got)
           p == SubSeq(text, m + 1, m + n)
<1>1. m \in Nat /\ n \in Nat /\ n # 0 /\ m + n <= Len(text) /\ Len(text) \in Nat /\ got \in Seq(Byte)
  BY DEF Bytes
<1>2. p \in Seq(Byte) /\ Len(p) = n /\ \A k \in 1 .. n : p[k] = text[m + k]
  <2> HIDE DEF m
  <2> QED
    BY <1>1 DEF Bytes
<1> HIDE DEF p
<1>3. /\ Len(got') = m + n
      /\ \A k \in 1 .. m : got'[k] = got[k]
      /\ \A k \in 1 .. n : got'[m + k] = p[k]
  BY <1>1, <1>2 DEF p
<1>4. \A k \in 1 .. m : got[k] = text[k]
  BY DEF Source
<1> HIDE DEF m
<1>5. ASSUME NEW k \in 1 .. m + n PROVE got'[k] = text[k]
  <2>1. CASE k <= m
    BY <1>1, <1>3, <1>4, <2>1
  <2>2. CASE k > m
    <3>1. k - m \in 1 .. n /\ m + (k - m) = k
      BY <1>1, <2>2
    <3> DEFINE j == k - m
    <3>2. j \in 1 .. n /\ m + j = k
      BY <3>1
    <3> HIDE DEF j
    <3> QED
      BY <1>2, <1>3, <3>2
  <2>3. k <= m \/ k > m
    BY <1>1
  <2> QED
    BY <2>1, <2>2, <2>3
<1>6. m + n \in 1 .. m + n
  BY <1>1
<1>7. got'[m + n] \notin Leads
  BY <1>5, <1>6 DEF m
<1> QED
  BY <1>1, <1>3, <1>5, <1>7 DEF Source

LEMMA InitShows == Init => ShowsInv
<1> SUFFICES ASSUME Init PROVE ShowsInv
  OBVIOUS
<1>1. got = <<>> /\ held = <<>> /\ passed = <<>> /\ term = <<>> /\ pending = <<>>
      /\ text \in Texts /\ suppress = FALSE /\ status = "reading"
  BY DEF Init
<1>2. <<>> \in Seq(Byte) /\ Len(<<>>) = 0 /\ Len(Marker) \in Nat \ {0}
  OBVIOUS
<1>3. Sanitized(<<>>, <<>>) = Fresh(<<>>)
  BY <1>2, PendingLast
<1>4. Shown
  BY <1>1, <1>3 DEF Shown, Fresh
<1>5. Source /\ Boundary
  <2>1. text \in Seq(Byte)
    BY <1>1
  <2> QED
    BY <1>1, <1>2, <2>1 DEF Source, Boundary
<1>6. Len(held) < Len(Marker)
  BY <1>1, <1>2
<1> QED
  BY <1>1, <1>4, <1>5, <1>6 DEF ShowsInv

LEMMA ReadDeltaShows ==
  ASSUME IInv, ShowsInv, ReadDelta, IInv'
  PROVE  ShowsInv'
<1>1. PICK n \in 1 .. Len(text) - Len(got) :
        text[Len(got) + n] \notin Leads /\ write(SubSeq(text, Len(got) + 1, Len(got) + n))
  BY DEF ReadDelta
<1> DEFINE p == SubSeq(text, Len(got) + 1, Len(got) + n)
<1>2. p \in Seq(Byte)
  <2>1. text \in Seq(Byte) /\ Len(text) \in Nat /\ Len(got) \in Nat
    BY DEF IInv, Bytes
  <2> QED
    BY <2>1
<1>3. Bytes /\ Bytes' /\ status = "reading" /\ status' = "reading" /\ text' = text /\ Emits
  BY DEF IInv, ReadDelta
<1>4. Source'
  <2>1. Source /\ got' = got \o p
    BY <1>1 DEF ShowsInv, write
  <2> QED
    BY <1>1, <1>3, <2>1, DeltaSource
<1> HIDE DEF p
<1>5. suppress' \in BOOLEAN
  BY <1>1 DEF write, Suppressed, Cut, Forward, ShowsInv
<1>6. Open' \/ Closed'
  BY <1>3 DEF IInv
<1>7. Len(held') < Len(Marker)
  <2>1. CASE Open'
    BY <2>1 DEF Open
  <2>2. CASE Closed'
    <3>1. held' = <<>> /\ Len(<<>>) = 0 /\ Len(Marker) \in Nat \ {0}
      BY <2>2 DEF Closed
    <3> QED
      BY <3>1
  <2> QED
    BY <1>6, <2>1, <2>2
<1>8. text' \in Texts
  BY <1>3 DEF ShowsInv
<1>9. Boundary'
  <2>1. (Bytes /\ text \in Texts /\ Source /\ (Open \/ Closed) => Boundary)'
    BY BoundarySound, PTL
  <2> QED
    BY <1>3, <1>4, <1>6, <1>8, <2>1
<1>10. Shown'
  <2>1. PICK x \in Seq(Byte) : passed' = passed \o x
    BY <1>1, <1>2, <1>3, WriteAdds DEF p
  <2> QED
    BY <1>3, <2>1, EmitsShown DEF ShowsInv
<1> QED
  BY <1>3, <1>4, <1>5, <1>7, <1>8, <1>9, <1>10 DEF ShowsInv

(* The last flush passes on whole runes too.                               *)
LEMMA FlushShows ==
  ASSUME IInv, ShowsInv, status = "reading", flush, Emits, UNCHANGED text,
         status' \in {"reading", "ok", "error"}
  PROVE  ShowsInv'
<1>1. passed' = passed \o held /\ held' = <<>> /\ got' = got /\ suppress' = suppress /\ text' = text
  BY DEF flush
<1>2. Bytes /\ held \in Seq(Byte)
  BY DEF IInv, Bytes
<1>3. Source' /\ text' \in Texts /\ suppress' \in BOOLEAN
  BY <1>1 DEF ShowsInv, Source
<1>4. Len(held') < Len(Marker)
  <2>1. Len(<<>>) = 0 /\ Len(Marker) \in Nat \ {0}
    OBVIOUS
  <2> QED
    BY <1>1, <2>1
<1>5. Boundary'
  <2>1. CASE suppress
    <3>1. held = <<>>
      BY <2>1 DEF IInv, Closed
    <3>2. passed' = passed
      BY <1>1, <1>2, <3>1, ConcatEmptySeq DEF Bytes
    <3> QED
      BY <3>2 DEF ShowsInv, Boundary
  <2>2. CASE ~suppress
    <3>1. passed' = got
      BY <1>1, <2>2 DEF IInv, Open
    <3> QED
      BY <3>1 DEF ShowsInv, Source, Boundary
  <2> QED
    BY <2>1, <2>2
<1>6. Shown'
  BY <1>1, <1>2, EmitsShown DEF ShowsInv
<1> QED
  BY <1>3, <1>4, <1>5, <1>6 DEF ShowsInv

LEMMA NextShows == IInv /\ ShowsInv /\ [Next]_vars => ShowsInv'
<1> SUFFICES ASSUME IInv, ShowsInv, [Next]_vars PROVE ShowsInv'
  OBVIOUS
<1>1. CASE ReadDelta
  <2>1. IInv'
    BY NextInv
  <2> QED
    BY <1>1, <2>1, ReadDeltaShows
<1>2. CASE Ends
  BY <1>2, FlushShows DEF Ends
<1>3. CASE Breaks
  BY <1>3, FlushShows DEF Breaks
<1>4. CASE Aborts
  BY <1>4 DEF Aborts, gate, ShowsInv, Source, Boundary, Shown
<1>5. CASE Terminating \/ UNCHANGED vars
  BY <1>5 DEF Terminating, vars, ShowsInv, Source, Boundary, Shown
<1> QED
  BY <1>1, <1>2, <1>3, <1>4, <1>5 DEF Next

LEMMA ShowsSound == IInv /\ ShowsInv => TerminalSound
<1> SUFFICES ASSUME IInv, ShowsInv PROVE TerminalSound
  OBVIOUS
<1>1. Bytes /\ Boundary /\ Shown /\ passed \in Seq(Byte)
  BY DEF IInv, ShowsInv, Bytes
<1>2. Sanitized(<<>>, passed) \in SanState /\ Len(pending) <= 1
  BY <1>1, PendingLast DEF Shown
<1>3. pending = <<>>
  <2>1. CASE passed = <<>>
    <3>1. Sanitized(<<>>, passed) = Fresh(<<>>)
      BY <1>1, <2>1, PendingLast
    <3> QED
      BY <1>1, <3>1 DEF Shown, Fresh
  <2>2. CASE passed # <<>>
    BY <1>1, <2>2, PendingLast DEF Shown, Boundary
  <2> QED
    BY <2>1, <2>2
<1>4. \A i \in 1 .. Len(term) : term[i] \in Byte
  <2>1. term \in Seq(Byte)
    BY <1>1, <1>2 DEF Shown, SanState
  <2> QED
    BY <2>1
<1>5. TypeOK
  BY <1>1, <1>2, <1>4 DEF TypeOK, ShowsInv, Bytes
<1>6. TerminalClean
  BY <1>1, <1>3 DEF TerminalClean, Shown, Clean
<1> QED
  BY <1>5, <1>6 DEF TerminalSound

(* For every answer of whole runes, every ASCII marker, every set of       *)
(* dropped runes and every split: the terminal shows what the gate passed  *)
(* on, cleaned as if it had come in one piece, and no rune waits.          *)
THEOREM TerminalSoundHolds == Spec => []TerminalSound
<1> QED
  BY InitInv, NextInv, InitShows, NextShows, ShowsSound, PTL DEF Spec
=============================================================================
