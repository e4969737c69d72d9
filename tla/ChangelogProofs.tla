--------------------------- MODULE ChangelogProofs ---------------------------
(***************************************************************************)
(* `gitl changelog` and its configuration, for any layers, command lines,  *)
(* histories and answers, any number of runs, and whoever commits, tags or *)
(* meddles with the cache in between.                                      *)
(*                                                                         *)
(* The first part is about lists: what a flattened list and the picked     *)
(* elements of one are, by an induction over its length.  The second is    *)
(* about the configuration: the value of each setting after the merge, the *)
(* validation and the completion.  The third is about the artifact: its    *)
(* lines by the commits or the items they stand for, and how the renderers *)
(* show them.  The last is the invariant of the runs: from where a run is  *)
(* follows what it may have asked, found and shown, that its configuration *)
(* is the loaded one, its commits a stretch of the history, and its        *)
(* artifact that of its commits and its answer.                            *)
(***************************************************************************)
EXTENDS ChangelogRun, FiniteSetTheorems, WellFoundedInduction, TLAPS

-----------------------------------------------------------------------------
(* Lists *)

LEMMA RangeOfFew == Range(<<>>) = {} /\ \A x : Range(<<x>>) = {x}
  BY DEF Range

(* What is true of 0, and of n + 1 if it is of n, is true of every natural *)
(* number: of those it is not true of, one would be the least.             *)
LEMMA SetInduction ==
  ASSUME NEW S, 0 \in S, \A n \in Nat : n \in S => n + 1 \in S
  PROVE  \A n \in Nat : n \in S
<1> DEFINE R == OpToRel(<, Nat)
<1>1. IsWellFoundedOn(R, Nat)
  BY NatLessThanWellFounded
<1>2. ASSUME NEW x \in Nat, NEW y \in Nat, y < x PROVE <<y, x>> \in R
  BY <1>2 DEF OpToRel
<1> HIDE DEF R
<1> SUFFICES ASSUME Nat \ S # {} PROVE FALSE
  OBVIOUS
<1>3. PICK x \in Nat \ S : \A y \in Nat \ S : ~(<<y, x>> \in R)
  <2>1. Nat \ S \subseteq Nat
    OBVIOUS
  <2> QED
    BY <1>1, <2>1, WFMin
<1>4. x # 0 /\ x - 1 \in Nat /\ x - 1 + 1 = x /\ x - 1 < x
  OBVIOUS
<1> QED
  BY <1>2, <1>3, <1>4

LEMMA SeqUp ==
  ASSUME NEW S, NEW Q, <<>> \in Q, \A s \in Seq(S) : \A e \in S : s \in Q => Append(s, e) \in Q
  PROVE  Seq(S) \subseteq Q
<1> DEFINE N == {n \in Nat : \A s \in Seq(S) : Len(s) = n => s \in Q}
<1>1. 0 \in N
  <2>1. \A s \in Seq(S) : Len(s) = 0 => s = <<>>
    OBVIOUS
  <2> QED
    BY <2>1
<1>2. ASSUME NEW n \in Nat, n \in N PROVE n + 1 \in N
  <2> SUFFICES ASSUME NEW s \in Seq(S), Len(s) = n + 1 PROVE s \in Q
    OBVIOUS
  <2> DEFINE t == SubSeq(s, 1, n)
             e == s[n + 1]
  <2>1. t \in Seq(S) /\ Len(t) = n /\ e \in S
    OBVIOUS
  <2>2. s = Append(t, e)
    <3>1. Append(t, e) \in Seq(S) /\ Len(Append(t, e)) = n + 1
      BY <2>1
    <3>2. \A i \in 1 .. n + 1 : s[i] = Append(t, e)[i]
      BY <2>1
    <3> QED
      BY <3>1, <3>2
  <2>3. t \in Q
    BY <1>2, <2>1
  <2> QED
    BY <2>1, <2>2, <2>3
<1>3. \A m \in Nat : m \in N
  <2> HIDE DEF N
  <2> QED
    BY <1>1, <1>2, SetInduction
<1> QED
  BY <1>3

(* FlattenSeq, by the concatenations it makes *)
Flattens(f, ss) ==
  /\ DOMAIN f = 1 .. Len(ss)
  /\ \A i \in 1 .. Len(ss) : f[i] = IF i = 1 THEN ss[i] ELSE f[i - 1] \o ss[i]

LEMMA FlattenExists ==
  ASSUME NEW S
  PROVE  \A ss \in Seq(Seq(S)) : \E f : Flattens(f, ss)
<1> DEFINE T == Seq(S)
           Q == {ss \in Seq(T) : \E f : Flattens(f, ss)}
<1>1. <<>> \in Q
  <2>1. Flattens(<<>>, <<>>)
    BY DEF Flattens
  <2> QED
    BY <2>1
<1>2. ASSUME NEW ss \in Seq(T), NEW t \in T, ss \in Q PROVE Append(ss, t) \in Q
  <2> DEFINE tt == Append(ss, t)
  <2>1. PICK f : Flattens(f, ss)
    BY <1>2
  <2> DEFINE n == Len(ss)
             g == [i \in 1 .. n + 1 |-> IF i <= n THEN f[i] ELSE IF i = 1 THEN t ELSE f[n] \o t]
  <2>2. n \in Nat /\ Len(tt) = n + 1 /\ tt \in Seq(T) /\ tt[n + 1] = t /\ \A i \in 1 .. n : tt[i] = ss[i]
    <3> HIDE DEF T
    <3> QED
      OBVIOUS
  <2> HIDE DEF T, tt
  <2>3. \A i \in 1 .. n : f[i] = IF i = 1 THEN ss[i] ELSE f[i - 1] \o ss[i]
    BY <2>1 DEF Flattens
  <2> HIDE DEF n
  <2>4. Flattens(g, tt)
    <3>1. ASSUME NEW i \in 1 .. n + 1 PROVE g[i] = IF i = 1 THEN tt[i] ELSE g[i - 1] \o tt[i]
      <4>1. CASE i <= n
        <5>1. g[i] = f[i] /\ tt[i] = ss[i] /\ i \in 1 .. n
          BY <2>2, <3>1, <4>1
        <5>2. i # 1 => g[i - 1] = f[i - 1]
          BY <2>2, <3>1, <4>1
        <5> QED
          BY <2>3, <5>1, <5>2
      <4>2. CASE i = n + 1
        <5>1. g[i] = IF i = 1 THEN t ELSE f[n] \o t
          BY <2>2, <4>2
        <5>2. i # 1 => i - 1 = n /\ g[n] = f[n]
          BY <2>2, <4>2
        <5> QED
          BY <2>2, <4>2, <5>1, <5>2
      <4> QED
        BY <2>2, <4>1, <4>2
    <3> QED
      BY <2>2, <3>1 DEF Flattens
  <2> HIDE DEF g
  <2> QED
    BY <2>2, <2>4 DEF tt
<1>3. Seq(T) \subseteq Q
  <2> HIDE DEF T, Q
  <2> QED
    BY <1>1, <1>2, SeqUp
<1> QED
  BY <1>3

LEMMA FlattenIs ==
  ASSUME NEW S, NEW ss \in Seq(Seq(S)), Len(ss) # 0
  PROVE  \E f : Flattens(f, ss) /\ FlattenSeq(ss) = f[Len(ss)]
<1> DEFINE n == Len(ss)
           F == CHOOSE h : h = [i \in 1 .. n |-> IF i = 1 THEN ss[i] ELSE h[i - 1] \o ss[i]]
<1>1. FlattenSeq(ss) = F[n]
  BY DEF FlattenSeq
<1>2. PICK f : Flattens(f, ss)
  BY FlattenExists
<1> DEFINE g == [i \in 1 .. n |-> f[i]]
<1>3. n \in Nat
  OBVIOUS
<1>4. g = [i \in 1 .. n |-> IF i = 1 THEN ss[i] ELSE g[i - 1] \o ss[i]]
  <2>1. ASSUME NEW i \in 1 .. n PROVE f[i] = IF i = 1 THEN ss[i] ELSE g[i - 1] \o ss[i]
    <3>1. i # 1 => i - 1 \in 1 .. n
      BY <1>3
    <3> QED
      BY <1>2, <3>1 DEF Flattens
  <2> QED
    BY <2>1
<1> HIDE DEF g
<1>5. F = [i \in 1 .. n |-> IF i = 1 THEN ss[i] ELSE F[i - 1] \o ss[i]]
  BY <1>4
<1> HIDE DEF F
<1>6. Flattens(F, ss)
  BY <1>5 DEF Flattens
<1> QED
  BY <1>1, <1>6

Agree(f, g, n) == \A i \in 1 .. n : f[i] = g[i]

LEMMA FlattenUnique ==
  ASSUME NEW n \in Nat, NEW ss, NEW tt, NEW f, NEW g, Len(ss) \in Nat, Len(tt) \in Nat,
         Flattens(f, ss), Flattens(g, tt), n <= Len(ss), n <= Len(tt), Agree(ss, tt, n)
  PROVE  Agree(f, g, n)
<1> USE DEF Agree
<1> DEFINE Q == {m \in Nat : m \in 1 .. n => f[m] = g[m]}
<1>1. 0 \in Q
  OBVIOUS
<1>2. ASSUME NEW m \in Nat, m \in Q PROVE m + 1 \in Q
  <2> SUFFICES ASSUME m + 1 \in 1 .. n PROVE f[m + 1] = g[m + 1]
    OBVIOUS
  <2>1. m + 1 \in 1 .. Len(ss) /\ m + 1 \in 1 .. Len(tt) /\ ss[m + 1] = tt[m + 1]
    OBVIOUS
  <2>2. m + 1 # 1 => f[m] = g[m]
    BY <1>2
  <2> DEFINE k == m + 1
  <2>3. k - 1 = m
    OBVIOUS
  <2> HIDE DEF k
  <2>4. f[k] = IF k = 1 THEN ss[k] ELSE f[k - 1] \o ss[k]
    BY <2>1 DEF Flattens, k
  <2>5. g[k] = IF k = 1 THEN tt[k] ELSE g[k - 1] \o tt[k]
    BY <2>1 DEF Flattens, k
  <2> QED
    BY <2>1, <2>2, <2>3, <2>4, <2>5 DEF k
<1>3. \A m \in Nat : m \in Q
  <2> HIDE DEF Q
  <2> QED
    BY <1>1, <1>2, SetInduction
<1> QED
  BY <1>3

(* FlattenSeq(<<>>) and FlattenSeq(Append(ss, t)) *)
LEMMA FlattenAppend ==
  ASSUME NEW S
  PROVE  /\ FlattenSeq(<<>>) = <<>>
         /\ \A ss \in Seq(Seq(S)) : /\ FlattenSeq(ss) \in Seq(S)
                                    /\ \A t \in Seq(S) : FlattenSeq(Append(ss, t)) = FlattenSeq(ss) \o t
<1> DEFINE T == Seq(S)
<1>1. FlattenSeq(<<>>) = <<>>
  BY DEF FlattenSeq
<1>2. ASSUME NEW ss \in Seq(T), NEW t \in T, FlattenSeq(ss) \in T
      PROVE  FlattenSeq(Append(ss, t)) = FlattenSeq(ss) \o t
  <2> DEFINE tt == Append(ss, t)
             n == Len(ss)
  <2>1. n \in Nat /\ Len(tt) = n + 1 /\ tt \in Seq(T) /\ tt[n + 1] = t /\ \A i \in 1 .. n : tt[i] = ss[i]
    <3> HIDE DEF T
    <3> QED
      OBVIOUS
  <2> HIDE DEF tt
  <2>2. PICK g : Flattens(g, tt) /\ FlattenSeq(tt) = g[n + 1]
    <3>1. Len(tt) # 0 /\ tt \in Seq(Seq(S))
      BY <2>1
    <3> QED
      BY <2>1, <3>1, FlattenIs
  <2>3. g[n + 1] = IF n + 1 = 1 THEN t ELSE g[n] \o t
    <3> DEFINE k == n + 1
    <3>1. k \in 1 .. Len(tt) /\ k - 1 = n
      BY <2>1
    <3>2. tt[k] = t
      BY <2>1
    <3> HIDE DEF k
    <3>3. g[k] = IF k = 1 THEN tt[k] ELSE g[k - 1] \o tt[k]
      BY <2>2, <3>1 DEF Flattens
    <3> QED
      BY <3>1, <3>2, <3>3 DEF k
  <2>4. CASE n = 0
    <3>1. ss = <<>>
      BY <2>4
    <3>2. <<>> \o t = t
      OBVIOUS
    <3> QED
      BY <1>1, <2>2, <2>3, <2>4, <3>1, <3>2 DEF tt
  <2>5. CASE n # 0
    <3>1. PICK f : Flattens(f, ss) /\ FlattenSeq(ss) = f[n]
      BY <2>5, FlattenIs
    <3>2. \A i \in 1 .. n : f[i] = g[i]
      <4>1. n <= Len(ss) /\ n <= Len(tt) /\ Len(ss) \in Nat /\ Len(tt) \in Nat /\ Agree(ss, tt, n)
        BY <2>1 DEF Agree
      <4> HIDE DEF n
      <4>2. Agree(f, g, n)
        BY <2>1, <2>2, <3>1, <4>1, FlattenUnique
      <4> QED
        BY <4>2 DEF Agree
    <3>3. n \in 1 .. n /\ n + 1 # 1
      BY <2>1, <2>5
    <3> QED
      BY <2>2, <2>3, <3>1, <3>2, <3>3 DEF tt
  <2> QED
    BY <2>4, <2>5
<1> DEFINE Q == {ss \in Seq(T) : FlattenSeq(ss) \in T}
<1>3. <<>> \in Q
  <2>1. <<>> \in Seq(T) /\ <<>> \in T
    OBVIOUS
  <2>2. FlattenSeq(<<>>) \in T
    BY <1>1, <2>1, Zenon
  <2> QED
    BY <2>1, <2>2
<1>4. ASSUME NEW ss \in Seq(T), NEW t \in T, ss \in Q PROVE Append(ss, t) \in Q
  <2>1. FlattenSeq(ss) \o t \in T /\ Append(ss, t) \in Seq(T)
    BY <1>4
  <2> QED
    BY <1>2, <1>4, <2>1
<1>5. Seq(T) \subseteq Q
  <2> HIDE DEF T, Q
  <2> QED
    BY <1>3, <1>4, SeqUp
<1> QED
  BY <1>1, <1>2, <1>5

-----------------------------------------------------------------------------
LEMMA RangeOfAppend ==
  ASSUME NEW S, NEW s \in Seq(S), NEW x \in S
  PROVE  /\ Range(<<>>) = {} /\ Range(<<x>>) = {x}
         /\ Range(Append(s, x)) = Range(s) \cup {x}
<1>1. Range(<<>>) = {} /\ Range(<<x>>) = {x}
  BY DEF Range
<1>2. Range(Append(s, x)) = Range(s) \cup {x}
  <2>1. /\ DOMAIN Append(s, x) = 1 .. Len(s) + 1 /\ DOMAIN s = 1 .. Len(s) /\ Len(s) \in Nat
        /\ \A i \in 1 .. Len(s) : Append(s, x)[i] = s[i]
        /\ Append(s, x)[Len(s) + 1] = x
    OBVIOUS
  <2> QED
    BY <2>1 DEF Range
<1> QED
  BY <1>1, <1>2

LEMMA RangeOfConcat ==
  ASSUME NEW S, NEW s \in Seq(S), NEW t \in Seq(S)
  PROVE  Range(s \o t) = Range(s) \cup Range(t)
<1>3. Range(s \o t) = Range(s) \cup Range(t)
  <2> DEFINE u == s \o t
             m == Len(s)
             n == Len(t)
  <2>1. /\ DOMAIN u = 1 .. m + n /\ DOMAIN s = 1 .. m /\ DOMAIN t = 1 .. n /\ m \in Nat /\ n \in Nat
        /\ \A i \in 1 .. m : u[i] = s[i]
        /\ \A i \in 1 .. n : u[i + m] = t[i]
    OBVIOUS
  <2> HIDE DEF u, m, n
  <2>3. Range(u) \subseteq Range(s) \cup Range(t)
    <3>1. ASSUME NEW k \in 1 .. m + n PROVE u[k] \in Range(s) \cup Range(t)
      <4>1. CASE k <= m
        <5>1. k \in 1 .. m /\ u[k] = s[k]
          BY <2>1, <4>1
        <5> QED
          BY <2>1, <5>1 DEF Range
      <4>2. CASE ~(k <= m)
        <5> DEFINE j == k - m
        <5>1. j \in 1 .. n /\ j + m = k
          BY <2>1, <4>2
        <5> HIDE DEF j
        <5>2. u[k] = t[j]
          BY <2>1, <5>1
        <5> QED
          BY <2>1, <5>1, <5>2 DEF Range
      <4> QED
        BY <4>1, <4>2
    <3> QED
      BY <2>1, <3>1 DEF Range
  <2>4. Range(s) \subseteq Range(u)
    <3>1. \A i \in 1 .. m : i \in 1 .. m + n
      BY <2>1
    <3> QED
      BY <2>1, <3>1 DEF Range
  <2>5. Range(t) \subseteq Range(u)
    <3>1. \A i \in 1 .. n : i + m \in 1 .. m + n
      BY <2>1
    <3> QED
      BY <2>1, <3>1 DEF Range
  <2> QED
    BY <2>3, <2>4, <2>5 DEF u
<1> QED
  BY <1>3

Union(ss) == UNION {Range(ss[i]) : i \in DOMAIN ss}

LEMMA UnionOfAppend ==
  ASSUME NEW T, NEW ss \in Seq(T), NEW t \in T
  PROVE  Union(<<>>) = {} /\ Union(Append(ss, t)) = Union(ss) \cup Range(t)
<1>1. Union(<<>>) = {}
  BY DEF Union
<1> DEFINE tt == Append(ss, t)
<1>2. /\ DOMAIN tt = 1 .. Len(ss) + 1 /\ DOMAIN ss = 1 .. Len(ss) /\ Len(ss) \in Nat
      /\ \A i \in 1 .. Len(ss) : tt[i] = ss[i]
      /\ tt[Len(ss) + 1] = t
  OBVIOUS
<1> HIDE DEF tt
<1>3. DOMAIN tt = DOMAIN ss \cup {Len(ss) + 1}
  BY <1>2
<1>4. Union(tt) = Union(ss) \cup Range(t)
  BY <1>2, <1>3 DEF Union
<1> QED
  BY <1>1, <1>4 DEF tt

LEMMA FlattenRange ==
  ASSUME NEW S
  PROVE  \A ss \in Seq(Seq(S)) : FlattenSeq(ss) \in Seq(S) /\ Range(FlattenSeq(ss)) = Union(ss)
<1> DEFINE T == Seq(S)
           Q == {ss \in Seq(T) : Range(FlattenSeq(ss)) = Union(ss)}
<1>1. <<>> \in Q
  <2>1. Range(<<>>) = {} /\ <<>> \in Seq(T)
    BY DEF Range
  <2>2. Union(<<>>) = {}
    BY DEF Union
  <2> QED
    BY <2>1, <2>2, FlattenAppend
<1>2. ASSUME NEW ss \in Seq(T), NEW t \in T, ss \in Q PROVE Append(ss, t) \in Q
  <2>1. FlattenSeq(Append(ss, t)) = FlattenSeq(ss) \o t /\ FlattenSeq(ss) \in Seq(S)
    BY FlattenAppend
  <2>2. Range(FlattenSeq(ss) \o t) = Range(FlattenSeq(ss)) \cup Range(t)
    <3>1. FlattenSeq(ss) \in Seq(S) /\ t \in Seq(S)
      BY <2>1
    <3> HIDE DEF T
    <3> QED
      BY <3>1, RangeOfConcat
  <2>3. Append(ss, t) \in Seq(T)
    OBVIOUS
  <2>4. Union(Append(ss, t)) = Union(ss) \cup Range(t)
    <3> HIDE DEF T
    <3> QED
      BY UnionOfAppend
  <2> QED
    BY <1>2, <2>1, <2>2, <2>3, <2>4
<1>3. Seq(T) \subseteq Q
  <2> HIDE DEF T, Q
  <2> QED
    BY <1>1, <1>2, SeqUp
<1> QED
  BY <1>3, FlattenAppend

Distinct(s) == \A i, j \in DOMAIN s : s[i] = s[j] => i = j
Apart(ss) ==
  /\ \A i \in DOMAIN ss : Distinct(ss[i])
  /\ \A i, j \in DOMAIN ss : i # j => Range(ss[i]) \cap Range(ss[j]) = {}

LEMMA DistinctConcat ==
  ASSUME NEW S, NEW s \in Seq(S), NEW t \in Seq(S), Distinct(s), Distinct(t), Range(s) \cap Range(t) = {}
  PROVE  Distinct(s \o t)
<1> DEFINE u == s \o t
           m == Len(s)
           n == Len(t)
<1>1. /\ DOMAIN u = 1 .. m + n /\ DOMAIN s = 1 .. m /\ DOMAIN t = 1 .. n /\ m \in Nat /\ n \in Nat
      /\ \A i \in 1 .. m + n : u[i] = IF i <= m THEN s[i] ELSE t[i - m]
  OBVIOUS
<1> HIDE DEF u, m, n
<1>2. ASSUME NEW i \in 1 .. m + n
      PROVE  \/ i \in 1 .. m /\ u[i] = s[i] /\ u[i] \in Range(s)
             \/ i - m \in 1 .. n /\ u[i] = t[i - m] /\ u[i] \in Range(t)
  <2>1. CASE i <= m
    <3>1. i \in 1 .. m /\ u[i] = s[i]
      BY <1>1, <2>1
    <3> QED
      BY <1>1, <3>1 DEF Range
  <2>2. CASE ~(i <= m)
    <3>1. i - m \in 1 .. n /\ u[i] = t[i - m]
      BY <1>1, <2>2
    <3> QED
      BY <1>1, <3>1 DEF Range
  <2> QED
    BY <2>1, <2>2
<1>3. ASSUME NEW i \in 1 .. m + n, NEW j \in 1 .. m + n, u[i] = u[j] PROVE i = j
  <2>1. CASE i \in 1 .. m /\ u[i] = s[i] /\ u[i] \in Range(s)
    <3>1. j \in 1 .. m /\ u[j] = s[j]
      BY <1>2, <1>3, <2>1
    <3> QED
      BY <1>1, <1>3, <2>1, <3>1 DEF Distinct
  <2>2. CASE i - m \in 1 .. n /\ u[i] = t[i - m] /\ u[i] \in Range(t)
    <3>1. j - m \in 1 .. n /\ u[j] = t[j - m]
      BY <1>2, <1>3, <2>2
    <3>2. i - m = j - m
      BY <1>1, <1>3, <2>2, <3>1 DEF Distinct
    <3> QED
      BY <1>1, <3>2
  <2> QED
    BY <1>2, <2>1, <2>2
<1> QED
  BY <1>1, <1>3 DEF Distinct, u

LEMMA FlattenDistinct ==
  ASSUME NEW S
  PROVE  \A ss \in Seq(Seq(S)) : Apart(ss) => Distinct(FlattenSeq(ss))
<1> DEFINE T == Seq(S)
           Q == {ss \in Seq(T) : Apart(ss) => Distinct(FlattenSeq(ss))}
<1>1. <<>> \in Q
  <2>1. Distinct(<<>>) /\ <<>> \in Seq(T)
    BY DEF Distinct
  <2> QED
    BY <2>1, FlattenAppend
<1>2. ASSUME NEW ss \in Seq(T), NEW t \in T, ss \in Q PROVE Append(ss, t) \in Q
  <2> SUFFICES ASSUME Apart(Append(ss, t)) PROVE Distinct(FlattenSeq(Append(ss, t)))
    OBVIOUS
  <2> DEFINE tt == Append(ss, t)
             n == Len(ss)
  <2>1. /\ DOMAIN tt = 1 .. n + 1 /\ DOMAIN ss = 1 .. n /\ n \in Nat
        /\ \A i \in 1 .. n : tt[i] = ss[i]
        /\ tt[n + 1] = t
    <3> HIDE DEF T
    <3> QED
      OBVIOUS
  <2>2. Apart(tt)
    OBVIOUS
  <2>3. FlattenSeq(tt) = FlattenSeq(ss) \o t /\ FlattenSeq(ss) \in Seq(S)
    BY FlattenAppend
  <2> HIDE DEF tt, n, T
  <2>4. \A i \in 1 .. n : i \in 1 .. n + 1 /\ n + 1 \in 1 .. n + 1 /\ i # n + 1
    BY <2>1
  <2>5. n + 1 \in 1 .. n + 1
    BY <2>1
  <2>6. Apart(ss) /\ Distinct(t)
    BY <2>1, <2>2, <2>4, <2>5 DEF Apart
  <2>7. Range(FlattenSeq(ss)) \cap Range(t) = {}
    <3>1. Range(FlattenSeq(ss)) = Union(ss)
      BY FlattenRange DEF T
    <3>2. \A i \in 1 .. n : Range(ss[i]) \cap Range(t) = {}
      BY <2>1, <2>2, <2>4 DEF Apart
    <3> QED
      BY <2>1, <3>1, <3>2 DEF Union
  <2>8. Distinct(FlattenSeq(ss))
    BY <1>2, <2>6
  <2>9. t \in Seq(S)
    BY DEF T
  <2>10. Distinct(FlattenSeq(ss) \o t)
    BY <2>3, <2>6, <2>7, <2>8, <2>9, DistinctConcat
  <2> QED
    BY <2>3, <2>10 DEF tt
<1>3. Seq(T) \subseteq Q
  <2> HIDE DEF T, Q
  <2> QED
    BY <1>1, <1>2, SeqUp
<1> QED
  BY <1>3

-----------------------------------------------------------------------------
(* Picked, by what it is flattened from *)
Pieces(s, positions) == [i \in DOMAIN s |-> IF i \in positions THEN <<s[i]>> ELSE <<>>]

LEMMA PiecesAre ==
  ASSUME NEW S, NEW s \in Seq(S), NEW I
  PROVE  /\ Picked(s, I) = FlattenSeq(Pieces(s, I)) /\ Pieces(s, I) \in Seq(Seq(S))
         /\ DOMAIN Pieces(s, I) = DOMAIN s
         /\ \A i \in DOMAIN s : Range(Pieces(s, I)[i]) = IF i \in I THEN {s[i]} ELSE {}
<1>1. Picked(s, I) = FlattenSeq(Pieces(s, I))
  BY DEF Picked, Pieces
<1>2. \A i \in DOMAIN s : s[i] \in S /\ <<s[i]>> \in Seq(S) /\ <<>> \in Seq(S)
  OBVIOUS
<1> DEFINE T == Seq(S)
<1>3. \A i \in DOMAIN s : (IF i \in I THEN <<s[i]>> ELSE <<>>) \in T
  BY <1>2
<1> HIDE DEF T
<1>4. Pieces(s, I) \in Seq(T)
  <2>1. DOMAIN s = 1 .. Len(s) /\ Len(s) \in Nat
    OBVIOUS
  <2>2. Pieces(s, I) \in [1 .. Len(s) -> T]
    BY <1>3, <2>1 DEF Pieces
  <2> QED
    BY <2>1, <2>2
<1>5. \A i \in DOMAIN s : Range(Pieces(s, I)[i]) = IF i \in I THEN {s[i]} ELSE {}
  <2>1. Range(<<>>) = {} /\ \A x : Range(<<x>>) = {x}
    BY DEF Range
  <2> QED
    BY <2>1 DEF Pieces
<1>6. DOMAIN Pieces(s, I) = DOMAIN s
  BY DEF Pieces
<1> QED
  BY <1>1, <1>4, <1>5, <1>6 DEF T

LEMMA PickedRange ==
  ASSUME NEW S, NEW s \in Seq(S), NEW I
  PROVE  Picked(s, I) \in Seq(S) /\ Range(Picked(s, I)) = {s[i] : i \in DOMAIN s \cap I}
<1> DEFINE ss == Pieces(s, I)
<1>0. /\ Picked(s, I) = FlattenSeq(ss) /\ ss \in Seq(Seq(S)) /\ DOMAIN ss = DOMAIN s
      /\ \A i \in DOMAIN s : Range(ss[i]) = IF i \in I THEN {s[i]} ELSE {}
  BY PiecesAre
<1> HIDE DEF ss
<1>1. Picked(s, I) \in Seq(S) /\ Range(Picked(s, I)) = Union(ss)
  BY <1>0, FlattenRange
<1>2. Union(ss) = {s[i] : i \in DOMAIN s \cap I}
  <2>1. ASSUME NEW x \in Union(ss) PROVE x \in {s[i] : i \in DOMAIN s \cap I}
    <3>1. PICK i \in DOMAIN s : x \in Range(ss[i])
      BY <1>0, <2>1 DEF Union
    <3> QED
      BY <1>0, <3>1
  <2>2. ASSUME NEW i \in DOMAIN s \cap I PROVE s[i] \in Union(ss)
    BY <1>0 DEF Union
  <2> QED
    BY <2>1, <2>2
<1> QED
  BY <1>1, <1>2

LEMMA PickedDistinct ==
  ASSUME NEW S, NEW s \in Seq(S), NEW I, \A i, j \in DOMAIN s \cap I : s[i] = s[j] => i = j
  PROVE  Distinct(Picked(s, I))
<1>1. \A i \in DOMAIN s : Distinct(Pieces(s, I)[i])
  <2>1. Distinct(<<>>) /\ \A x : Distinct(<<x>>)
    BY DEF Distinct
  <2> QED
    BY <2>1 DEF Pieces
<1>2. Apart(Pieces(s, I))
  <2> DEFINE ss == Pieces(s, I)
  <2>1. DOMAIN ss = DOMAIN s /\ \A i \in DOMAIN s : Range(ss[i]) = IF i \in I THEN {s[i]} ELSE {}
    BY PiecesAre
  <2>2. \A i \in DOMAIN s : Distinct(ss[i])
    BY <1>1
  <2> HIDE DEF ss
  <2>3. ASSUME NEW i \in DOMAIN s, NEW j \in DOMAIN s, i # j PROVE Range(ss[i]) \cap Range(ss[j]) = {}
    <3>1. CASE i \in I /\ j \in I
      <4>1. s[i] # s[j]
        BY <2>3, <3>1
      <4> QED
        BY <2>1, <3>1, <4>1
    <3>2. CASE i \notin I \/ j \notin I
      BY <2>1, <3>2
    <3> QED
      BY <3>1, <3>2
  <2> QED
    BY <2>1, <2>2, <2>3 DEF Apart, ss
<1> QED
  <2>1. Picked(s, I) = FlattenSeq(Pieces(s, I)) /\ Pieces(s, I) \in Seq(Seq(S))
    BY PiecesAre
  <2> QED
    BY <1>2, <2>1, FlattenDistinct

LEMMA EmptyRange ==
  ASSUME NEW S, NEW s \in Seq(S)
  PROVE  Range(s) = {} <=> s = <<>>
<1>1. ASSUME Range(s) = {} PROVE s = <<>>
  <2>1. DOMAIN s = {}
    BY <1>1 DEF Range
  <2>2. Len(s) \in Nat /\ DOMAIN s = 1 .. Len(s)
    OBVIOUS
  <2>3. Len(s) = 0
    BY <2>1, <2>2
  <2> QED
    BY <2>3
<1>2. Range(<<>>) = {}
  BY DEF Range
<1> QED
  BY <1>1, <1>2

(* The elements of a list that are in a set *)
Kept(s, K) == Picked(s, {i \in DOMAIN s : s[i] \in K})

LEMMA KeptNone ==
  ASSUME NEW S, NEW s \in Seq(S), NEW K, Range(s) \cap K = {}
  PROVE  Kept(s, K) = <<>>
<1> DEFINE I == {i \in DOMAIN s : s[i] \in K}
<1>1. I = {}
  BY DEF Range
<1> HIDE DEF I
<1>2. Picked(s, I) \in Seq(S) /\ Range(Picked(s, I)) = {}
  BY <1>1, PickedRange
<1> QED
  BY <1>2, EmptyRange DEF Kept, I

LEMMA KeptAppend ==
  ASSUME NEW S, NEW s \in Seq(S), NEW x \in S, NEW K
  PROVE  Kept(Append(s, x), K) = IF x \in K THEN Append(Kept(s, K), x) ELSE Kept(s, K)
<1> DEFINE P(t) == Pieces(t, {i \in DOMAIN t : t[i] \in K})
           e == IF x \in K THEN <<x>> ELSE <<>>
           u == Append(s, x)
<1>1. /\ DOMAIN u = 1 .. Len(s) + 1 /\ DOMAIN s = 1 .. Len(s) /\ Len(s) \in Nat
      /\ \A i \in 1 .. Len(s) : u[i] = s[i]
      /\ u[Len(s) + 1] = x /\ u \in Seq(S)
  OBVIOUS
<1>2. Kept(u, K) = FlattenSeq(P(u)) /\ Kept(s, K) = FlattenSeq(P(s)) /\ P(s) \in Seq(Seq(S)) /\ DOMAIN P(s) = DOMAIN s
  <2>1. \A t \in Seq(S) : \A I : Picked(t, I) = FlattenSeq(Pieces(t, I)) /\ Pieces(t, I) \in Seq(Seq(S)) /\ DOMAIN Pieces(t, I) = DOMAIN t
    BY PiecesAre
  <2> QED
    BY <1>1, <2>1 DEF Kept
<1>3. e \in Seq(S)
  OBVIOUS
<1>4. P(u) = Append(P(s), e)
  <2> DEFINE n == Len(s)
             T == Seq(S)
             p == P(s)
             q == P(u)
  <2>1. n \in Nat /\ DOMAIN q = 1 .. n + 1 /\ DOMAIN p = 1 .. n
    BY <1>1, <1>2 DEF Pieces
  <2>2. \A i \in 1 .. n : q[i] = p[i]
    BY <1>1 DEF Pieces
  <2>3. q[n + 1] = e
    BY <1>1 DEF Pieces
  <2>4. p \in Seq(T) /\ Len(p) = n
    <3>1. p \in Seq(T)
      BY <1>2
    <3> HIDE DEF T, p
    <3> QED
      BY <2>1, <3>1
  <2>5. q \in Seq(T)
    <3>1. \A I : Pieces(u, I) \in Seq(Seq(S))
      BY <1>1, PiecesAre
    <3> QED
      BY <3>1
  <2>6. e \in T
    BY <1>3
  <2> HIDE DEF n, T, p, q, e
  <2>7. Append(p, e) \in Seq(T) /\ Len(Append(p, e)) = n + 1 /\ Append(p, e)[n + 1] = e
        /\ \A i \in 1 .. n : Append(p, e)[i] = p[i]
    BY <2>4, <2>6
  <2>8. Len(q) = n + 1
    BY <2>1, <2>5
  <2>9. \A i \in 1 .. n + 1 : q[i] = Append(p, e)[i]
    <3> SUFFICES ASSUME NEW i \in 1 .. n + 1 PROVE q[i] = Append(p, e)[i]
      OBVIOUS
    <3>1. CASE i <= n
      <4>1. i \in 1 .. n
        BY <2>1, <3>1
      <4> QED
        BY <2>2, <2>7, <4>1
    <3>2. CASE i = n + 1
      BY <2>3, <2>7, <3>2
    <3> QED
      BY <2>1, <3>1, <3>2
  <2>10. q = Append(p, e)
    BY <2>5, <2>7, <2>8, <2>9
  <2> QED
    BY <2>10 DEF p, q
<1>5. FlattenSeq(P(u)) = FlattenSeq(P(s)) \o e /\ FlattenSeq(P(s)) \in Seq(S)
  <2> DEFINE p == P(s)
  <2> HIDE DEF p, e
  <2>1. FlattenSeq(Append(p, e)) = FlattenSeq(p) \o e /\ FlattenSeq(p) \in Seq(S)
    BY <1>2, <1>3, FlattenAppend DEF p
  <2> QED
    BY <1>4, <2>1 DEF p
<1> DEFINE k == Kept(s, K)
<1>6. Kept(u, K) = k \o e /\ k \in Seq(S)
  BY <1>2, <1>5
<1> HIDE DEF k, u
<1>7. k \o <<>> = k /\ k \o <<x>> = Append(k, x)
  BY <1>6
<1> QED
  BY <1>6, <1>7 DEF k, u

LEMMA KeptAll ==
  ASSUME NEW K
  PROVE  \A s \in Seq(K) : Kept(s, K) = s
<1> DEFINE Q == {s \in Seq(K) : Kept(s, K) = s}
<1>1. <<>> \in Q
  <2>1. <<>> \in Seq(K) /\ Range(<<>>) \cap K = {}
    BY DEF Range
  <2>2. Kept(<<>>, K) = <<>>
    BY <2>1, KeptNone
  <2> QED
    BY <2>1, <2>2
<1>2. ASSUME NEW s \in Seq(K), NEW x \in K, s \in Q PROVE Append(s, x) \in Q
  <2>1. Append(s, x) \in Seq(K)
    OBVIOUS
  <2> QED
    BY <1>2, <2>1, KeptAppend
<1>3. Seq(K) \subseteq Q
  <2> HIDE DEF Q
  <2> QED
    BY <1>1, <1>2, SeqUp
<1> QED
  BY <1>3

LEMMA KeptConcat ==
  ASSUME NEW S, NEW K, NEW s \in Seq(S)
  PROVE  \A t \in Seq(S) : Kept(s \o t, K) = Kept(s, K) \o Kept(t, K)
<1> DEFINE Q == {t \in Seq(S) : Kept(s \o t, K) = Kept(s, K) \o Kept(t, K)}
<1>0. ASSUME NEW t \in Seq(S) PROVE Kept(t, K) \in Seq(S)
  BY PickedRange DEF Kept
<1>1. <<>> \in Q
  <2>1. <<>> \in Seq(S) /\ Range(<<>>) \cap K = {}
    BY DEF Range
  <2>2. Kept(<<>>, K) = <<>>
    BY <2>1, KeptNone
  <2> DEFINE k == Kept(s, K)
  <2>3. k \in Seq(S)
    BY <1>0
  <2> HIDE DEF k
  <2>4. k \o <<>> = k /\ s \o <<>> = s
    BY <2>3
  <2> QED
    BY <2>1, <2>2, <2>4 DEF k
<1>2. ASSUME NEW t \in Seq(S), NEW x \in S, t \in Q PROVE Append(t, x) \in Q
  <2> DEFINE k == Kept(s, K)
             m == Kept(t, K)
             st == s \o t
  <2>1. s \o Append(t, x) = Append(st, x) /\ st \in Seq(S) /\ Append(t, x) \in Seq(S)
    OBVIOUS
  <2>2. k \in Seq(S) /\ m \in Seq(S) /\ Kept(st, K) = k \o m
    BY <1>0, <1>2
  <2> HIDE DEF k, m, st
  <2>3. k \o Append(m, x) = Append(k \o m, x)
    BY <2>2
  <2>4. Kept(Append(st, x), K) = IF x \in K THEN Append(k \o m, x) ELSE k \o m
    BY <2>1, <2>2, KeptAppend
  <2>5. Kept(Append(t, x), K) = IF x \in K THEN Append(m, x) ELSE m
    BY KeptAppend DEF m
  <2>6. Kept(Append(st, x), K) = k \o Kept(Append(t, x), K)
    BY <2>3, <2>4, <2>5
  <2> QED
    BY <2>1, <2>6 DEF k
<1>3. Seq(S) \subseteq Q
  <2> HIDE DEF Q
  <2> QED
    BY <1>1, <1>2, SeqUp
<1> QED
  BY <1>3

(* Of a flattening, what is in K if one part is in it and no other is *)
Alone(ss, k, K) ==
  /\ k \in DOMAIN ss /\ Range(ss[k]) \subseteq K
  /\ \A i \in DOMAIN ss \ {k} : Range(ss[i]) \cap K = {}

LEMMA KeptNoPart ==
  ASSUME NEW S, NEW ss \in Seq(Seq(S)), NEW K, Union(ss) \cap K = {}
  PROVE  Kept(FlattenSeq(ss), K) = <<>>
  BY FlattenRange, KeptNone

LEMMA KeptPart ==
  ASSUME NEW S, NEW K, NEW k
  PROVE  \A ss \in Seq(Seq(S)) : Alone(ss, k, K) => Kept(FlattenSeq(ss), K) = ss[k]
<1> DEFINE T == Seq(S)
           Q == {ss \in Seq(T) : Alone(ss, k, K) => Kept(FlattenSeq(ss), K) = ss[k]}
<1>1. <<>> \in Q
  <2>1. ~Alone(<<>>, k, K)
    BY DEF Alone
  <2> QED
    BY <2>1
<1>2. ASSUME NEW ss \in Seq(T), NEW t \in T, ss \in Q PROVE Append(ss, t) \in Q
  <2> DEFINE tt == Append(ss, t)
             n == Len(ss)
  <2> SUFFICES ASSUME Alone(tt, k, K) PROVE Kept(FlattenSeq(tt), K) = tt[k]
    <3>1. tt \in Seq(T)
      OBVIOUS
    <3> QED
      BY <3>1
  <2>1. /\ DOMAIN tt = 1 .. n + 1 /\ DOMAIN ss = 1 .. n /\ n \in Nat
        /\ \A i \in 1 .. n : tt[i] = ss[i]
        /\ tt[n + 1] = t
    <3> HIDE DEF T
    <3> QED
      OBVIOUS
  <2>2. FlattenSeq(tt) = FlattenSeq(ss) \o t /\ FlattenSeq(ss) \in Seq(S) /\ t \in Seq(S) /\ ss \in Seq(Seq(S))
    BY FlattenAppend
  <2>3. Alone(tt, k, K)
    OBVIOUS
  <2>9. Kept(FlattenSeq(ss) \o t, K) = Kept(FlattenSeq(ss), K) \o Kept(t, K)
    BY <2>2, KeptConcat
  <2> HIDE DEF tt, n, T
  <2>4. CASE k = n + 1
    <3>1. Range(t) \subseteq K /\ \A i \in 1 .. n : Range(ss[i]) \cap K = {}
      BY <2>1, <2>3, <2>4 DEF Alone
    <3>2. Union(ss) \cap K = {}
      BY <2>1, <3>1 DEF Union
    <3>3. Kept(FlattenSeq(ss), K) = <<>>
      BY <2>2, <3>2, KeptNoPart
    <3>4. Kept(t, K) = t
      <4>1. t \in Seq(K)
        <5>1. \A i \in DOMAIN t : t[i] \in K
          BY <3>1 DEF Range
        <5>2. t \in [1 .. Len(t) -> K] /\ Len(t) \in Nat
          BY <2>2, <5>1
        <5> QED
          BY <5>2
      <4> QED
        BY <4>1, KeptAll
    <3>5. <<>> \o t = t
      BY <2>2
    <3> QED
      BY <2>1, <2>2, <2>4, <2>9, <3>3, <3>4, <3>5
  <2>5. CASE k # n + 1
    <3>1. k \in 1 .. n
      BY <2>1, <2>3, <2>5 DEF Alone
    <3>2. Alone(ss, k, K) /\ Range(t) \cap K = {}
      <4>1. n + 1 \in 1 .. n + 1 /\ \A i \in 1 .. n : i \in 1 .. n + 1
        BY <2>1
      <4> QED
        BY <2>1, <2>3, <2>5, <3>1, <4>1 DEF Alone
    <3>3. Kept(FlattenSeq(ss), K) = ss[k]
      BY <1>2, <3>2
    <3>4. Kept(t, K) = <<>>
      BY <2>2, <3>2, KeptNone
    <3>5. ss[k] \in Seq(S)
      BY <2>1, <2>2, <3>1
    <3>6. ss[k] \o <<>> = ss[k]
      BY <3>5
    <3> QED
      BY <2>1, <2>2, <2>9, <3>1, <3>3, <3>4, <3>6
  <2> QED
    BY <2>4, <2>5
<1>3. Seq(T) \subseteq Q
  <2> HIDE DEF T, Q
  <2> QED
    BY <1>1, <1>2, SeqUp
<1> QED
  BY <1>3

-----------------------------------------------------------------------------
(* The configuration *)

EnvOK(e) ==
  /\ e.cwd # "" /\ {"personal", e.cwd, e.root} \ {""} \subseteq DOMAIN e.files
  /\ \A f \in DOMAIN e.files : Layer(e.files[f].sets)
  /\ Layer(e.vars)
FlagsOK(f) == Layer(f) /\ DOMAIN f \subseteq FlagKeys
LineOK(l) == FlagsOK(l.flags) /\ l.range \subseteq Nat

(* The value of a setting by its layers, the strongest first. *)
SetIn(e, name) == e.files[name].sets
ValueOf(e, f, k) ==
  IF k \in DOMAIN f THEN f[k]
  ELSE IF k \in DOMAIN e.vars /\ k \in DOMAIN Defaults THEN e.vars[k]
  ELSE IF k \in DOMAIN SetIn(e, e.cwd) THEN SetIn(e, e.cwd)[k]
  ELSE IF e.root # "" /\ k \in DOMAIN SetIn(e, e.root) THEN SetIn(e, e.root)[k]
  ELSE IF k \in DOMAIN SetIn(e, "personal") THEN SetIn(e, "personal")[k]
  ELSE Unset[k]

-----------------------------------------------------------------------------
(* The merge *)

LEMMA OverValue ==
  ASSUME NEW a, NEW b
  PROVE  /\ DOMAIN Over(a, b) = DOMAIN a \cup DOMAIN b
         /\ \A k \in DOMAIN a \cup DOMAIN b : Over(a, b)[k] = IF k \in DOMAIN b THEN b[k] ELSE a[k]
  BY DEF Over

LEMMA OverWithin ==
  ASSUME NEW a, NEW b, NEW D, DOMAIN a = D, DOMAIN b \subseteq D
  PROVE  /\ DOMAIN Over(a, b) = D
         /\ \A k \in D : Over(a, b)[k] = IF k \in DOMAIN b THEN b[k] ELSE a[k]
<1>1. DOMAIN a \cup DOMAIN b = D
  OBVIOUS
<1> QED
  BY <1>1, OverValue

LEMMA UnsetKeys ==
  /\ DOMAIN Unset = DOMAIN Defaults \cup {"repos"} /\ "repos" \notin DOMAIN Defaults
  /\ {"provider", "api_key", "base_url", "azure", "max_cost_usd", "format", "cache", "ttl_hours"}
       \subseteq DOMAIN Defaults
  /\ Unset.repos = <<>> /\ \A k \in DOMAIN Defaults : Unset[k] = Defaults[k]
  /\ Unset.max_cost_usd \in Int /\ Unset.azure = "" /\ Unset.base_url = ""
<1>1. DOMAIN Unset = DOMAIN Defaults \cup {"repos"} /\ "repos" \notin DOMAIN Defaults
  <2>1. DOMAIN [repos |-> <<>>] = {"repos"}
    OBVIOUS
  <2>2. DOMAIN Unset = DOMAIN Defaults \cup {"repos"}
    BY <2>1, OverValue DEF Unset
  <2>3. "repos" \notin DOMAIN Defaults
    BY DEF Defaults
  <2> QED
    BY <2>2, <2>3
<1>2. {"provider", "api_key", "base_url", "azure", "max_cost_usd", "format", "cache", "ttl_hours"}
       \subseteq DOMAIN Defaults
  BY DEF Defaults
<1>3. Unset.repos = <<>> /\ \A k \in DOMAIN Defaults : Unset[k] = Defaults[k]
  <2>1. "repos" \in DOMAIN [repos |-> <<>>] /\ DOMAIN [repos |-> <<>>] = {"repos"} /\ [repos |-> <<>>]["repos"] = <<>>
    OBVIOUS
  <2>2. \A k \in DOMAIN Defaults \cup {"repos"} :
          Unset[k] = IF k \in {"repos"} THEN [repos |-> <<>>][k] ELSE Defaults[k]
    BY <2>1, OverValue DEF Unset
  <2> QED
    BY <1>1, <2>1, <2>2
<1>4. Defaults["max_cost_usd"] = 50 /\ Defaults["azure"] = "" /\ Defaults["base_url"] = ""
  BY DEF Defaults
<1> HIDE DEF Defaults
<1>5. Unset["max_cost_usd"] = 50 /\ Unset["azure"] = "" /\ Unset["base_url"] = ""
  BY <1>2, <1>3, <1>4
<1> QED
  <2>1. Unset.azure = "" /\ Unset.base_url = ""
    BY <1>5
  <2>2. Unset.max_cost_usd \in Int
    <3>1. 50 \in Int
      OBVIOUS
    <3> QED
      BY <1>5, <3>1, Zenon
  <2> QED
    BY <1>1, <1>2, <1>3, <2>1, <2>2, Zenon

LEMMA DirsOfRepo ==
  ASSUME NEW e
  PROVE  /\ e.root \in {"", e.cwd} => /\ Len(RepoDirs(e)) = 1 /\ DOMAIN RepoDirs(e) = {1}
                                      /\ RepoDirs(e)[1] = e.cwd
         /\ e.root \notin {"", e.cwd} => /\ Len(RepoDirs(e)) = 2 /\ DOMAIN RepoDirs(e) = {1, 2}
                                         /\ RepoDirs(e)[1] = e.root /\ RepoDirs(e)[2] = e.cwd
<1>1. ASSUME e.root \in {"", e.cwd}
      PROVE  Len(RepoDirs(e)) = 1 /\ DOMAIN RepoDirs(e) = {1} /\ RepoDirs(e)[1] = e.cwd
  <2>1. RepoDirs(e) = <<e.cwd>>
    BY <1>1 DEF RepoDirs
  <2> QED
    BY <2>1
<1>2. ASSUME e.root \notin {"", e.cwd}
      PROVE  /\ Len(RepoDirs(e)) = 2 /\ DOMAIN RepoDirs(e) = {1, 2}
             /\ RepoDirs(e)[1] = e.root /\ RepoDirs(e)[2] = e.cwd
  <2>1. RepoDirs(e) = <<e.root, e.cwd>>
    BY <1>2 DEF RepoDirs
  <2> QED
    BY <2>1
<1> QED
  BY <1>1, <1>2

LEMMA OverUnset ==
  ASSUME NEW a, NEW b, DOMAIN a = DOMAIN Unset, DOMAIN b \subseteq DOMAIN Unset
  PROVE  /\ DOMAIN Over(a, b) = DOMAIN Unset
         /\ \A k \in DOMAIN Unset : Over(a, b)[k] = IF k \in DOMAIN b THEN b[k] ELSE a[k]
<1> DEFINE D == DOMAIN Unset
<1>1. DOMAIN a = D /\ DOMAIN b \subseteq D
  OBVIOUS
<1> HIDE DEF D
<1>2. /\ DOMAIN Over(a, b) = D
      /\ \A k \in D : Over(a, b)[k] = IF k \in DOMAIN b THEN b[k] ELSE a[k]
  BY <1>1, OverWithin
<1> QED
  BY <1>2 DEF D

(* Load merges each setting from the strongest layer that has it. *)
LEMMA MergedValue ==
  ASSUME NEW e, NEW f, EnvOK(e), FlagsOK(f)
  PROVE  /\ DOMAIN Merged(e, f) = DOMAIN Unset
         /\ \A k \in DOMAIN Unset : Merged(e, f)[k] = ValueOf(e, f, k)
<1> DEFINE P == SetIn(e, "personal")
           C == SetIn(e, e.cwd)
           R == SetIn(e, e.root)
           V == Restrict(e.vars, DOMAIN e.vars \cap DOMAIN Defaults)
           F == Restrict(f, DOMAIN f \cap FlagKeys)
           M == MergedFiles(e)
<1>1. /\ DOMAIN P \subseteq DOMAIN Unset /\ DOMAIN C \subseteq DOMAIN Unset
      /\ e.root # "" => DOMAIN R \subseteq DOMAIN Unset
  BY DEF EnvOK, Layer, SetIn
<1>2. /\ DOMAIN V = DOMAIN e.vars \cap DOMAIN Defaults /\ \A k \in DOMAIN V : V[k] = e.vars[k]
      /\ DOMAIN F = DOMAIN f /\ \A k \in DOMAIN f : F[k] = f[k]
      /\ DOMAIN f \subseteq DOMAIN Unset /\ DOMAIN V \subseteq DOMAIN Unset
  BY DEF Restrict, EnvOK, FlagsOK, Layer
<1>3. /\ DOMAIN M = DOMAIN Unset
      /\ \A k \in DOMAIN Unset :
           M[k] = IF k \in DOMAIN C THEN C[k]
                  ELSE IF e.root # "" /\ k \in DOMAIN R THEN R[k]
                  ELSE IF k \in DOMAIN P THEN P[k] ELSE Unset[k]
  <2>1. CASE e.root \in {"", e.cwd}
    <3>1. M = Over(Over(Unset, P), C)
      BY <2>1, DirsOfRepo DEF MergedFiles, SetIn
    <3>2. R = C \/ e.root = ""
      BY <2>1
    <3> DEFINE A == Over(Unset, P)
    <3>3. DOMAIN A = DOMAIN Unset /\ \A k \in DOMAIN Unset : A[k] = IF k \in DOMAIN P THEN P[k] ELSE Unset[k]
      <4> HIDE DEF P
      <4> QED
        BY <1>1, OverUnset
    <3> HIDE DEF M, P, C, R, A
    <3>4. /\ DOMAIN M = DOMAIN Unset
          /\ \A k \in DOMAIN Unset : M[k] = IF k \in DOMAIN C THEN C[k] ELSE A[k]
      <4>1. M = Over(A, C)
        BY <3>1 DEF A
      <4>2. DOMAIN A = DOMAIN Unset /\ DOMAIN C \subseteq DOMAIN Unset
        BY <1>1, <3>3
      <4> QED
        BY <4>1, <4>2, OverUnset
    <3> QED
      BY <3>2, <3>3, <3>4
  <2>2. CASE e.root \notin {"", e.cwd}
    <3>1. M = Over(Over(Over(Unset, P), R), C)
      BY <2>2, DirsOfRepo DEF MergedFiles, SetIn
    <3>2. e.root # ""
      BY <2>2
    <3> DEFINE A == Over(Unset, P)
               B == Over(A, R)
    <3>3. DOMAIN A = DOMAIN Unset /\ \A k \in DOMAIN Unset : A[k] = IF k \in DOMAIN P THEN P[k] ELSE Unset[k]
      <4> HIDE DEF P
      <4> QED
        BY <1>1, OverUnset
    <3> HIDE DEF A
    <3>4. /\ DOMAIN B = DOMAIN Unset
          /\ \A k \in DOMAIN Unset : B[k] = IF k \in DOMAIN R THEN R[k] ELSE A[k]
      <4> HIDE DEF R
      <4>1. DOMAIN R \subseteq DOMAIN Unset /\ DOMAIN A = DOMAIN Unset
        BY <1>1, <3>2, <3>3
      <4> QED
        BY <4>1, OverUnset
    <3>5. M = Over(B, C)
      BY <3>1 DEF A
    <3> HIDE DEF M, P, C, R, B
    <3>6. /\ DOMAIN M = DOMAIN Unset
          /\ \A k \in DOMAIN Unset : M[k] = IF k \in DOMAIN C THEN C[k] ELSE B[k]
      <4>1. DOMAIN B = DOMAIN Unset /\ DOMAIN C \subseteq DOMAIN Unset
        BY <1>1, <3>4
      <4> QED
        BY <3>5, <4>1, OverUnset
    <3> QED
      BY <3>2, <3>3, <3>4, <3>6
  <2> QED
    BY <2>1, <2>2
<1>4. Merged(e, f) = Over(Over(M, V), F)
  BY DEF Merged
<1> HIDE DEF M, P, C, R, V, F
<1> DEFINE N == Over(M, V)
<1>6. /\ DOMAIN N = DOMAIN Unset
      /\ \A k \in DOMAIN Unset : N[k] = IF k \in DOMAIN V THEN V[k] ELSE M[k]
  BY <1>2, <1>3, OverUnset
<1>7. Merged(e, f) = Over(N, F)
  BY <1>4
<1> HIDE DEF N
<1>5. /\ DOMAIN Merged(e, f) = DOMAIN Unset
      /\ \A k \in DOMAIN Unset : Merged(e, f)[k] =
           IF k \in DOMAIN F THEN F[k] ELSE IF k \in DOMAIN V THEN V[k] ELSE M[k]
  BY <1>2, <1>6, <1>7, OverUnset
<1> QED
  BY <1>2, <1>3, <1>5 DEF ValueOf, P, C, R

-----------------------------------------------------------------------------
(* The completion *)

LEMMA MaxIs ==
  ASSUME NEW S, S \subseteq Int, NEW m \in S, \A x \in S : x <= m
  PROVE  Max(S) = m
<1>1. \A y \in S : m >= y
  OBVIOUS
<1>2. Max(S) \in S /\ \A y \in S : Max(S) >= y
  BY <1>1, Zenon DEF Max
<1>3. Max(S) \in Int /\ Max(S) >= m /\ m >= Max(S) /\ m \in Int
  BY <1>1, <1>2
<1> QED
  BY <1>3

(* The largest of some numbers up to b: above it the fewest are left. *)
LEMMA MaxExists ==
  ASSUME NEW b \in Nat, NEW S \in SUBSET (0 .. b), S # {}
  PROVE  Max(S) \in S
<1> DEFINE Q == {x + 1 .. b : x \in S}
           R == StrictSubsetOrdering(0 .. b)
<1>1. IsWellFoundedOn(R, SUBSET (0 .. b))
  <2>1. IsFiniteSet(0 .. b)
    BY FS_Interval
  <2> QED
    BY <2>1, FS_StrictSubsetOrderingWellFounded, FS_FiniteSubsetsOfFinite
<1>2. Q \subseteq SUBSET (0 .. b) /\ Q # {}
  <2>1. \A x \in S : x + 1 .. b \in SUBSET (0 .. b)
    OBVIOUS
  <2>2. PICK x \in S : TRUE
    OBVIOUS
  <2>3. x + 1 .. b \in Q
    OBVIOUS
  <2> QED
    BY <2>1, <2>3
<1>3. \E x \in Q : \A y \in Q : ~ (<<y, x>> \in R)
  <2> HIDE DEF Q, R
  <2> QED
    BY <1>1, <1>2, WFMin
<1>4. PICK x \in S : \A y \in S : ~ (<<y + 1 .. b, x + 1 .. b>> \in R)
  BY <1>3
<1>5. \A y \in S : y <= x
  <2> SUFFICES ASSUME NEW y \in S, y > x PROVE FALSE
    OBVIOUS
  <2>1. /\ y + 1 .. b \subseteq x + 1 .. b /\ y \in x + 1 .. b /\ y \notin y + 1 .. b
        /\ y + 1 .. b \in SUBSET (0 .. b) /\ x + 1 .. b \in SUBSET (0 .. b)
    OBVIOUS
  <2>2. <<y + 1 .. b, x + 1 .. b>> \in R
    BY <2>1 DEF StrictSubsetOrdering
  <2> QED
    BY <1>4, <2>2
<1>6. S \subseteq Int
  OBVIOUS
<1>7. Max(S) = x
  BY <1>5, <1>6, MaxIs
<1> QED
  BY <1>7

(* The directory of the winning list of repositories. *)
LEMMA BaseDir ==
  ASSUME NEW e
  PROVE  LET Lists(d) == "repos" \in DOMAIN SetIn(e, d)
         IN  \/ DigestBaseDir(e) = e.cwd /\ (Lists(e.cwd) \/ e.root = "" \/ ~Lists(e.root))
             \/ DigestBaseDir(e) = e.root /\ ~Lists(e.cwd) /\ Lists(e.root) /\ e.root # ""
<1> DEFINE Lists(d) == "repos" \in DOMAIN SetIn(e, d)
           D == Declaring(e)
<1>1. D = {i \in DOMAIN RepoDirs(e) : Lists(RepoDirs(e)[i])}
  BY DEF Declaring, SetIn
<1>2. DigestBaseDir(e) = IF D = {} THEN e.cwd ELSE RepoDirs(e)[Max(D)]
  BY DEF DigestBaseDir
<1> HIDE DEF Lists, D
<1>3. CASE e.root \in {"", e.cwd}
  <2>1. D \in {{}, {1}}
    BY <1>1, <1>3, DirsOfRepo
  <2>2. D = {1} => Max(D) = 1
    BY MaxIs
  <2>3. DigestBaseDir(e) = e.cwd
    BY <1>2, <1>3, <2>1, <2>2, DirsOfRepo
  <2> QED
    BY <1>3, <2>3 DEF Lists
<1>4. CASE e.root \notin {"", e.cwd} /\ Lists(e.cwd)
  <2>1. D \subseteq {1, 2} /\ 2 \in D
    BY <1>1, <1>4, DirsOfRepo
  <2>2. Max(D) = 2
    <3>1. D \subseteq Int /\ \A x \in D : x <= 2
      BY <2>1
    <3> QED
      BY <2>1, <3>1, MaxIs
  <2>3. DigestBaseDir(e) = e.cwd
    BY <1>2, <1>4, <2>1, <2>2, DirsOfRepo
  <2> QED
    BY <1>4, <2>3 DEF Lists
<1>5. CASE e.root \notin {"", e.cwd} /\ ~Lists(e.cwd) /\ Lists(e.root)
  <2>1. D = {1}
    BY <1>1, <1>5, DirsOfRepo
  <2>2. Max(D) = 1
    BY <2>1, MaxIs
  <2>3. DigestBaseDir(e) = e.root
    BY <1>2, <1>5, <2>1, <2>2, DirsOfRepo
  <2> QED
    BY <1>5, <2>3 DEF Lists
<1>6. CASE e.root \notin {"", e.cwd} /\ ~Lists(e.cwd) /\ ~Lists(e.root)
  <2>1. D = {}
    BY <1>1, <1>6, DirsOfRepo
  <2>2. DigestBaseDir(e) = e.cwd
    BY <1>2, <2>1
  <2> QED
    BY <1>6, <2>2 DEF Lists
<1> QED
  BY <1>3, <1>4, <1>5, <1>6

LEMMA NormalizedValue ==
  ASSUME NEW c, {"provider", "format"} \subseteq DOMAIN c
  PROVE  /\ DOMAIN Normalized(c) = DOMAIN c
         /\ Normalized(c).provider = IF c.provider = "" THEN "openai" ELSE LowerCase(c.provider)
         /\ Normalized(c).format = LowerCase(c.format)
         /\ \A k \in DOMAIN c \ {"provider", "format"} : Normalized(c)[k] = c[k]
  BY DEF Normalized

LEMMA WithBaseURLValue ==
  ASSUME NEW c, "base_url" \in DOMAIN c
  PROVE  /\ DOMAIN WithBaseURL(c) = DOMAIN c
         /\ WithBaseURL(c).base_url =
              IF c.base_url # "" \/ c.provider \in {"anthropic", "gemini", "azure_openai"} THEN c.base_url
              ELSE IF c.provider = "ollama" THEN Home.ollama ELSE Home.openai
         /\ \A k \in DOMAIN c \ {"base_url"} : WithBaseURL(c)[k] = c[k]
<1>1. CASE c.base_url # "" \/ c.provider \in {"anthropic", "gemini", "azure_openai"}
  BY <1>1 DEF WithBaseURL
<1>2. CASE ~(c.base_url # "" \/ c.provider \in {"anthropic", "gemini", "azure_openai"})
  <2>1. WithBaseURL(c) =
          [c EXCEPT !.base_url = IF c.provider = "ollama" THEN Home.ollama ELSE Home.openai]
    BY <1>2 DEF WithBaseURL
  <2> QED
    BY <1>2, <2>1
<1> QED
  BY <1>1, <1>2

(* What each setting of a loaded configuration is. *)
Values(c, e, f) ==
  LET V(k) == ValueOf(e, f, k) IN
  /\ DOMAIN c = DOMAIN Unset
  /\ c.provider = IF V("provider") = "" THEN "openai" ELSE LowerCase(V("provider"))
  /\ c.format = LowerCase(V("format"))
  /\ c.base_url =
       IF V("base_url") # "" \/ c.provider \in {"anthropic", "gemini", "azure_openai"}
       THEN V("base_url")
       ELSE IF c.provider = "ollama" THEN Home.ollama ELSE Home.openai
  /\ c.repos = ResolvedRepos(V("repos"), DigestBaseDir(e))
  /\ \A k \in DOMAIN Defaults \ {"provider", "format", "base_url"} : c[k] = V(k)
  /\ Loads(e, f) => c.provider \in Providers /\ c.format \in {"md", "text", "json", ""}

LEMMA LoadedValue ==
  ASSUME NEW e, NEW f, EnvOK(e), FlagsOK(f)
  PROVE  Values(Loaded(e, f), e, f)
<1> DEFINE c == Loaded(e, f)
<1> DEFINE V(k) == ValueOf(e, f, k)
           M == Merged(e, f)
           N == Normalized(M)
           W == WithBaseURL(N)
<1>1. {"provider", "format", "base_url", "repos"} \subseteq DOMAIN Unset /\ "repos" \notin DOMAIN Defaults
      /\ DOMAIN Defaults \subseteq DOMAIN Unset
  BY UnsetKeys
<1>2. DOMAIN M = DOMAIN Unset /\ \A k \in DOMAIN Unset : M[k] = V(k)
  BY MergedValue
<1> HIDE DEF V, M
<1>3. /\ DOMAIN N = DOMAIN Unset
      /\ N.provider = IF V("provider") = "" THEN "openai" ELSE LowerCase(V("provider"))
      /\ N.format = LowerCase(V("format"))
      /\ \A k \in DOMAIN Unset \ {"provider", "format"} : N[k] = V(k)
  <2>1. {"provider", "format"} \subseteq DOMAIN M
    BY <1>1, <1>2
  <2>2. M.provider = V("provider") /\ M.format = V("format")
    BY <1>1, <1>2
  <2> QED
    BY <1>2, <2>1, <2>2, NormalizedValue
<1>4. Loads(e, f) => N.provider \in Providers /\ N.format \in {"md", "text", "json", ""}
  BY DEF Loads, Valid, M
<1> HIDE DEF N
<1>5. /\ DOMAIN W = DOMAIN Unset
      /\ W.base_url =
           IF V("base_url") # "" \/ N.provider \in {"anthropic", "gemini", "azure_openai"}
           THEN V("base_url")
           ELSE IF N.provider = "ollama" THEN Home.ollama ELSE Home.openai
      /\ \A k \in DOMAIN Unset \ {"base_url"} : W[k] = N[k]
  <2>1. "base_url" \in DOMAIN N
    BY <1>1, <1>3
  <2>2. N.base_url = V("base_url")
    BY <1>1, <1>3
  <2> QED
    BY <1>3, <2>1, <2>2, WithBaseURLValue
<1>6. c = [W EXCEPT !.repos = ResolvedRepos(W.repos, DigestBaseDir(e))]
  BY DEF Loaded, N, M
<1> HIDE DEF W, c
<1>7. W.repos = V("repos")
  BY <1>1, <1>3, <1>5
<1>8. /\ DOMAIN c = DOMAIN Unset /\ c.repos = ResolvedRepos(V("repos"), DigestBaseDir(e))
      /\ \A k \in DOMAIN Unset \ {"repos"} : c[k] = W[k]
  BY <1>1, <1>5, <1>6, <1>7
<1>9. c.provider = N.provider /\ c.format = N.format /\ c.base_url = W.base_url
  BY <1>1, <1>5, <1>8
<1>10. \A k \in DOMAIN Defaults \ {"provider", "format", "base_url"} : c[k] = V(k)
  BY <1>1, <1>3, <1>5, <1>8
<1>11. /\ c.provider = IF V("provider") = "" THEN "openai" ELSE LowerCase(V("provider"))
       /\ c.format = LowerCase(V("format"))
       /\ Loads(e, f) => c.provider \in Providers /\ c.format \in {"md", "text", "json", ""}
  BY <1>3, <1>4, <1>9
<1>12. c.base_url =
         IF V("base_url") # "" \/ c.provider \in {"anthropic", "gemini", "azure_openai"}
         THEN V("base_url")
         ELSE IF c.provider = "ollama" THEN Home.ollama ELSE Home.openai
  BY <1>5, <1>9
<1> QED
  BY <1>8, <1>10, <1>11, <1>12 DEF V, Values, c

LEMMA SixOf ==
  ASSUME NEW a1, NEW a2, NEW a3, NEW a4, NEW a5, NEW a6
  PROVE  LET s == <<a1, a2, a3, a4, a5, a6>>
         IN  DOMAIN s = 1 .. 6 /\ s[1] = a1 /\ s[2] = a2 /\ s[3] = a3 /\ s[4] = a4 /\ s[5] = a5 /\ s[6] = a6
  OBVIOUS

(* The strongest layer, of six from the weakest, that has a setting. *)
LEMMA StrongestOfSix ==
  ASSUME NEW k, NEW layers, DOMAIN layers = 1 .. 6, k \in DOMAIN layers[1]
  PROVE  layers[Max({i \in DOMAIN layers : k \in DOMAIN layers[i]})] =
           IF k \in DOMAIN layers[6] THEN layers[6] ELSE IF k \in DOMAIN layers[5] THEN layers[5]
           ELSE IF k \in DOMAIN layers[4] THEN layers[4] ELSE IF k \in DOMAIN layers[3] THEN layers[3]
           ELSE IF k \in DOMAIN layers[2] THEN layers[2] ELSE layers[1]
<1> DEFINE S == {i \in DOMAIN layers : k \in DOMAIN layers[i]}
<1>1. S \subseteq 1 .. 6 /\ \A i \in 1 .. 6 : i \in S <=> k \in DOMAIN layers[i]
  OBVIOUS
<1> HIDE DEF S
<1>2. ASSUME NEW m \in 1 .. 6, m \in S, \A i \in 1 .. 6 : i > m => i \notin S
      PROVE  Max(S) = m
  <2>1. S \subseteq Int /\ \A x \in S : x <= m
    BY <1>1, <1>2
  <2> QED
    BY <1>2, <2>1, MaxIs
<1>3. ASSUME 6 \in S PROVE Max(S) = 6
  <2>1. \A i \in 1 .. 6 : i > 6 => i \notin S
    BY <1>3
  <2> QED
    BY <1>2, <1>3, <2>1
<1>4. ASSUME 6 \notin S, 5 \in S PROVE Max(S) = 5
  <2>1. \A i \in 1 .. 6 : i > 5 => i \notin S
    BY <1>4
  <2> QED
    BY <1>2, <1>4, <2>1
<1>5. ASSUME 6 \notin S, 5 \notin S, 4 \in S PROVE Max(S) = 4
  <2>1. \A i \in 1 .. 6 : i > 4 => i \notin S
    BY <1>5
  <2> QED
    BY <1>2, <1>5, <2>1
<1>6. ASSUME 6 \notin S, 5 \notin S, 4 \notin S, 3 \in S PROVE Max(S) = 3
  <2>1. \A i \in 1 .. 6 : i > 3 => i \notin S
    BY <1>6
  <2> QED
    BY <1>2, <1>6, <2>1
<1>7. ASSUME 6 \notin S, 5 \notin S, 4 \notin S, 3 \notin S, 2 \in S PROVE Max(S) = 2
  <2>1. \A i \in 1 .. 6 : i > 2 => i \notin S
    BY <1>7
  <2> QED
    BY <1>2, <1>7, <2>1
<1>8. ASSUME 6 \notin S, 5 \notin S, 4 \notin S, 3 \notin S, 2 \notin S, 1 \in S PROVE Max(S) = 1
  <2>1. \A i \in 1 .. 6 : i > 1 => i \notin S
    BY <1>8
  <2> QED
    BY <1>2, <1>8, <2>1
<1>9. layers[Max(S)] =
        IF 6 \in S THEN layers[6] ELSE IF 5 \in S THEN layers[5] ELSE IF 4 \in S THEN layers[4]
        ELSE IF 3 \in S THEN layers[3] ELSE IF 2 \in S THEN layers[2] ELSE layers[1]
  <2>1. 1 \in S
    BY <1>1
  <2> QED
    BY <1>3, <1>4, <1>5, <1>6, <1>7, <1>8, <2>1
<1> QED
  BY <1>1, <1>9 DEF S

LEMMA StrongestIs ==
  ASSUME NEW e, NEW f, NEW k \in DOMAIN Defaults, NEW L, NEW R,
         e.root = "" => DOMAIN R = {}, e.root # "" => R = SetIn(e, e.root),
         L = IF k \in DOMAIN f THEN f ELSE IF k \in DOMAIN e.vars THEN e.vars
             ELSE IF k \in DOMAIN SetIn(e, e.cwd) THEN SetIn(e, e.cwd)
             ELSE IF k \in DOMAIN R THEN R
             ELSE IF k \in DOMAIN SetIn(e, "personal") THEN SetIn(e, "personal") ELSE Defaults
  PROVE  L[k] = ValueOf(e, f, k)
<1>1. k \in DOMAIN R <=> e.root # "" /\ k \in DOMAIN SetIn(e, e.root)
  OBVIOUS
<1>2. Defaults[k] = Unset[k]
  BY UnsetKeys
<1> QED
  BY <1>1, <1>2 DEF ValueOf

Wins(c, e, f) ==
  LET layers == <<Defaults, SetIn(e, "personal"), IF e.root = "" THEN <<>> ELSE SetIn(e, e.root),
                  SetIn(e, e.cwd), e.vars, f>>
      Strongest(k) == layers[Max({i \in DOMAIN layers : k \in DOMAIN layers[i]})][k]
  IN  \A k \in DOMAIN Defaults :
        CASE k = "provider" -> c[k] = IF Strongest(k) = "" THEN "openai" ELSE LowerCase(Strongest(k))
          [] k = "format" -> c[k] = LowerCase(Strongest(k))
          [] k = "base_url" -> Strongest(k) # "" => c[k] = Strongest(k)
          [] OTHER -> c[k] = Strongest(k)

LEMMA StrongestLoaded ==
  ASSUME NEW e, NEW f, EnvOK(e), FlagsOK(f), NEW c, c = Loaded(e, f)
  PROVE  Wins(c, e, f)
<1> DEFINE layers == <<Defaults, SetIn(e, "personal"), IF e.root = "" THEN <<>> ELSE SetIn(e, e.root),
                       SetIn(e, e.cwd), e.vars, f>>
           Strongest(k) == layers[Max({i \in DOMAIN layers : k \in DOMAIN layers[i]})][k]
<1> SUFFICES ASSUME NEW k \in DOMAIN Defaults
             PROVE CASE k = "provider" -> c[k] = IF Strongest(k) = "" THEN "openai" ELSE LowerCase(Strongest(k))
                     [] k = "format" -> c[k] = LowerCase(Strongest(k))
                     [] k = "base_url" -> Strongest(k) # "" => c[k] = Strongest(k)
                     [] OTHER -> c[k] = Strongest(k)
  BY DEF Wins
<1>1. Strongest(k) = ValueOf(e, f, k)
  <2> DEFINE R == IF e.root = "" THEN <<>> ELSE SetIn(e, e.root)
  <2>1. layers = <<Defaults, SetIn(e, "personal"), R, SetIn(e, e.cwd), e.vars, f>>
    OBVIOUS
  <2>2. e.root # "" => R = SetIn(e, e.root)
    OBVIOUS
  <2>3. e.root = "" => DOMAIN R = {}
    <3>1. ASSUME e.root = "" PROVE R = <<>>
      BY <3>1
    <3>2. DOMAIN <<>> = {}
      OBVIOUS
    <3> HIDE DEF R
    <3> QED
      BY <3>1, <3>2
  <2> HIDE DEF R, layers
  <2>4. /\ DOMAIN layers = 1 .. 6 /\ layers[1] = Defaults /\ layers[2] = SetIn(e, "personal")
        /\ layers[3] = R /\ layers[4] = SetIn(e, e.cwd) /\ layers[5] = e.vars /\ layers[6] = f
    BY <2>1, SixOf
  <2> DEFINE L == layers[Max({i \in DOMAIN layers : k \in DOMAIN layers[i]})]
  <2>5. L = IF k \in DOMAIN f THEN f ELSE IF k \in DOMAIN e.vars THEN e.vars
            ELSE IF k \in DOMAIN SetIn(e, e.cwd) THEN SetIn(e, e.cwd)
            ELSE IF k \in DOMAIN R THEN R
            ELSE IF k \in DOMAIN SetIn(e, "personal") THEN SetIn(e, "personal") ELSE Defaults
    BY <2>4, StrongestOfSix
  <2> HIDE DEF L
  <2>6. L[k] = ValueOf(e, f, k)
    BY <2>2, <2>3, <2>5, StrongestIs
  <2> QED
    BY <2>6 DEF L
<1> HIDE DEF Strongest
<1>2. /\ c.provider = IF ValueOf(e, f, "provider") = "" THEN "openai" ELSE LowerCase(ValueOf(e, f, "provider"))
      /\ c.format = LowerCase(ValueOf(e, f, "format"))
      /\ ValueOf(e, f, "base_url") # "" => c.base_url = ValueOf(e, f, "base_url")
      /\ k \notin {"provider", "format", "base_url"} => c[k] = ValueOf(e, f, k)
  <2>1. Values(c, e, f)
    BY LoadedValue
  <2> QED
    BY <2>1 DEF Values
<1>3. CASE k = "provider"
  BY <1>1, <1>2, <1>3
<1>4. CASE k = "format"
  BY <1>1, <1>2, <1>4
<1>5. CASE k = "base_url"
  BY <1>1, <1>2, <1>5
<1>6. CASE k \notin {"provider", "format", "base_url"}
  BY <1>1, <1>2, <1>6
<1> QED
  BY <1>3, <1>4, <1>5, <1>6

(* Each repository is an absolute path or beside the file whose list won. *)
LEMMA ReposLoaded ==
  ASSUME NEW e, NEW f, EnvOK(e), FlagsOK(f), NEW i \in DOMAIN Loaded(e, f).repos
  PROVE  /\ Loaded(e, f).repos[i].at # ""
         /\ Loaded(e, f).repos[i].at \in {"/", DigestBaseDir(e)}
<1> DEFINE r == ValueOf(e, f, "repos")
           c == Loaded(e, f)
<1>1. c.repos = ResolvedRepos(r, DigestBaseDir(e))
  BY LoadedValue DEF Values
<1>2. \A j \in DOMAIN r : r[j] \in [at : {"", "/"}, name : STRING]
  <2>1. "repos" \notin DOMAIN f /\ "repos" \notin DOMAIN Defaults
    BY UnsetKeys DEF FlagsOK, FlagKeys
  <2>2. \A d \in DOMAIN e.files : "repos" \in DOMAIN SetIn(e, d) =>
          SetIn(e, d).repos \in Seq([at : {"", "/"}, name : STRING])
    BY DEF EnvOK, Layer, SetIn
  <2>3. Unset["repos"] = <<>>
    BY UnsetKeys
  <2>4. r = <<>> \/ \E d \in DOMAIN e.files : "repos" \in DOMAIN SetIn(e, d) /\ r = SetIn(e, d)["repos"]
    <3>1. /\ e.cwd \in DOMAIN e.files /\ "personal" \in DOMAIN e.files
          /\ e.root # "" => e.root \in DOMAIN e.files
      BY DEF EnvOK
    <3> QED
      BY <2>1, <2>3, <3>1 DEF ValueOf
  <2> HIDE DEF r
  <2> DEFINE T == [at : {"", "/"}, name : STRING]
  <2>5. r = <<>> \/ r \in Seq(T)
    BY <2>2, <2>4
  <2>6. DOMAIN <<>> = {}
    OBVIOUS
  <2> HIDE DEF T
  <2>7. \A j \in DOMAIN r : r[j] \in T
    BY <2>5, <2>6
  <2> QED
    BY <2>7 DEF T
<1>3. DigestBaseDir(e) # ""
  BY BaseDir DEF EnvOK
<1> DEFINE d == DigestBaseDir(e)
<1> HIDE DEF r, c, d
<1>4. c.repos = ResolvedRepos(r, d)
  BY <1>1 DEF d
<1>5. DOMAIN c.repos = DOMAIN r
      /\ \A j \in DOMAIN r : c.repos[j] = IF r[j].at = "" THEN [r[j] EXCEPT !.at = d] ELSE r[j]
  BY <1>4 DEF ResolvedRepos
<1>6. i \in DOMAIN r
  BY <1>5 DEF c
<1>7. r[i].at \in {"", "/"} /\ [r[i] EXCEPT !.at = d].at = d
  BY <1>2, <1>6
<1>8. c.repos[i].at \in {"/", d} /\ d # ""
  BY <1>3, <1>5, <1>6, <1>7 DEF d
<1> QED
  BY <1>8 DEF c, d

(* What a layer has set, or what nobody has. *)
LayersOf(e, f) == {e.files[d].sets : d \in DOMAIN e.files} \cup {e.vars, f}

LEMMA ValueFrom ==
  ASSUME NEW e, NEW f, EnvOK(e), NEW k
  PROVE  \/ ValueOf(e, f, k) = Unset[k]
         \/ \E layer \in LayersOf(e, f) :
              k \in DOMAIN layer /\ ValueOf(e, f, k) = layer[k]
<1>1. /\ e.cwd \in DOMAIN e.files /\ "personal" \in DOMAIN e.files
      /\ e.root # "" => e.root \in DOMAIN e.files
  BY DEF EnvOK
<1> DEFINE G == LayersOf(e, f)
<1>2. /\ SetIn(e, e.cwd) \in G /\ SetIn(e, "personal") \in G
      /\ e.root # "" => SetIn(e, e.root) \in G
      /\ e.vars \in G /\ f \in G
  BY <1>1 DEF SetIn, LayersOf
<1> HIDE DEF G
<1>3. ValueOf(e, f, k) = Unset[k] \/ \E layer \in G : k \in DOMAIN layer /\ ValueOf(e, f, k) = layer[k]
  BY <1>2 DEF ValueOf
<1> QED
  BY <1>3 DEF G

Homeward(c, e, f) ==
  \/ c.provider \in DOMAIN Home /\ Endpoint(c) = Home[c.provider]
  \/ \E layer \in LayersOf(e, f) :
       \/ "base_url" \in DOMAIN layer /\ Endpoint(c) = layer.base_url
       \/ "azure" \in DOMAIN layer /\ Endpoint(c) = layer.azure

(* A client that can be built sends its key home, or where a layer says. *)
LEMMA KeyLoaded ==
  ASSUME NEW e, NEW f, EnvOK(e), FlagsOK(f), Loads(e, f), NEW c, c = Loaded(e, f),
         Constructs(c), Auth(c) # ""
  PROVE  c.provider # "ollama" /\ Homeward(c, e, f)
<1> DEFINE G == LayersOf(e, f)
           u == ValueOf(e, f, "base_url")
<1>1. c.provider # "ollama"
  BY DEF Auth
<1>2. /\ c.provider \in Providers /\ c.azure = ValueOf(e, f, "azure")
      /\ c.base_url = IF u # "" \/ c.provider \in {"anthropic", "gemini", "azure_openai"} THEN u
                      ELSE IF c.provider = "ollama" THEN Home.ollama ELSE Home.openai
  <2>1. Values(c, e, f)
    BY LoadedValue
  <2>2. "azure" \in DOMAIN Defaults \ {"provider", "format", "base_url"}
    BY UnsetKeys
  <2> QED
    BY <2>1, <2>2 DEF Values
<1>3. u = "" \/ \E layer \in G : "base_url" \in DOMAIN layer /\ u = layer["base_url"]
  <2>1. Unset["base_url"] = ""
    BY UnsetKeys
  <2>2. u = Unset["base_url"] \/ \E layer \in G : "base_url" \in DOMAIN layer /\ u = layer["base_url"]
    BY ValueFrom
  <2> QED
    BY <2>1, <2>2
<1>4. c.azure = "" \/ \E layer \in G : "azure" \in DOMAIN layer /\ c.azure = layer["azure"]
  <2>1. Unset["azure"] = ""
    BY UnsetKeys
  <2>2. c.azure = Unset["azure"] \/ \E layer \in G : "azure" \in DOMAIN layer /\ c.azure = layer["azure"]
    BY ZenonT(40), <1>2, ValueFrom
  <2> QED
    BY <2>1, <2>2
<1> HIDE DEF G, u
<1> DEFINE Goal == \/ c.provider \in DOMAIN Home /\ Endpoint(c) = Home[c.provider]
                  \/ \E layer \in G :
                       \/ "base_url" \in DOMAIN layer /\ Endpoint(c) = layer.base_url
                       \/ "azure" \in DOMAIN layer /\ Endpoint(c) = layer.azure
<1>5. ASSUME c.provider = "azure_openai" PROVE Goal
  <2>1. Endpoint(c) = c.azure /\ c.azure # ""
    BY <1>5 DEF Endpoint, Constructs
  <2> QED
    BY <1>4, <2>1
<1>6. ASSUME c.provider \in {"anthropic", "gemini"} PROVE Goal
  <2>1. c.base_url = u
    BY <1>2, <1>6
  <2>2. ASSUME u = "" PROVE Goal
    <3>1. Endpoint(c) = Home[c.provider]
      BY <1>6, <2>1, <2>2 DEF Endpoint
    <3>2. c.provider \in DOMAIN Home
      BY <1>6 DEF Home
    <3> QED
      BY <3>1, <3>2
  <2>3. ASSUME u # "" PROVE Goal
    <3>1. Endpoint(c) = u
      BY <1>6, <2>1, <2>3 DEF Endpoint
    <3> QED
      BY <1>3, <2>3, <3>1
  <2> QED
    BY <2>2, <2>3
<1>7. ASSUME c.provider = "openai" PROVE Goal
  <2>1. Endpoint(c) = c.base_url
    BY <1>7 DEF Endpoint
  <2>2. ASSUME u = "" PROVE Goal
    <3>1. c.base_url = Home.openai
      BY <1>2, <1>7, <2>2
    <3>2. c.provider \in DOMAIN Home
      BY <1>7 DEF Home
    <3> QED
      BY <1>7, <2>1, <3>1, <3>2
  <2>3. ASSUME u # "" PROVE Goal
    <3>1. c.base_url = u
      BY <1>2, <2>3
    <3> QED
      BY <1>3, <2>1, <2>3, <3>1
  <2> QED
    BY <2>2, <2>3
<1> QED
  BY <1>1, <1>2, <1>5, <1>6, <1>7 DEF Providers, G, Homeward

-----------------------------------------------------------------------------
(* The artifact *)

LEMMA ListOf ==
  ASSUME NEW s, NEW n \in Nat, DOMAIN s = 1 .. n, s = [i \in 1 .. n |-> s[i]]
  PROVE  IsList(s) /\ Len(s) = n
<1> DEFINE R == Range(s)
<1>1. \A i \in 1 .. n : s[i] \in R
  BY DEF Range
<1> HIDE DEF R
<1>2. s \in [1 .. n -> R]
  BY <1>1
<1>3. s \in Seq(R) /\ Len(s) = n
  BY <1>2
<1> QED
  BY <1>3 DEF R, IsList

LEMMA ListIs ==
  ASSUME NEW s, IsList(s)
  PROVE  Len(s) \in Nat /\ DOMAIN s = 1 .. Len(s) /\ (s = <<>> <=> Len(s) = 0)
<1> DEFINE R == Range(s)
<1>1. s \in Seq(R)
  BY DEF IsList
<1> HIDE DEF R
<1> QED
  BY <1>1

LEMMA ListWithin ==
  ASSUME NEW s, NEW S, IsList(s), Range(s) \subseteq S
  PROVE  s \in Seq(S)
<1> DEFINE R == Range(s)
<1>1. s \in Seq(R) /\ R \subseteq S
  BY DEF IsList
<1> HIDE DEF R
<1> QED
  BY <1>1

LEMMA SeqIsList ==
  ASSUME NEW S, NEW s \in Seq(S)
  PROVE  IsList(s) /\ Range(s) \subseteq S
<1>1. s = [i \in 1 .. Len(s) |-> s[i]] /\ Len(s) \in Nat /\ DOMAIN s = 1 .. Len(s)
  OBVIOUS
<1>2. IsList(s)
  BY <1>1, ListOf
<1>3. \A i \in DOMAIN s : s[i] \in S
  OBVIOUS
<1> QED
  BY <1>2, <1>3 DEF Range

LEMMA Order ==
  /\ DOMAIN CategoryOrder = 1 .. 7 /\ Len(CategoryOrder) = 7
  /\ \A i, j \in 1 .. 7 : CategoryOrder[i] = CategoryOrder[j] => i = j
  /\ Categories = {CategoryOrder[r] : r \in 1 .. 7}
  /\ "Other" \in Categories /\ "BREAKING CHANGES" \notin Categories
<1>1. DOMAIN CategoryOrder = 1 .. 7 /\ Len(CategoryOrder) = 7
  BY DEF CategoryOrder
<1>2. \A i, j \in 1 .. 7 : CategoryOrder[i] = CategoryOrder[j] => i = j
  BY DEF CategoryOrder
<1>3. Categories = {CategoryOrder[r] : r \in 1 .. 7}
  BY <1>1 DEF Categories, Range
<1>4. CategoryOrder[7] = "Other" /\ \A r \in 1 .. 7 : CategoryOrder[r] # "BREAKING CHANGES"
  <2>1. \A r \in 1 .. 7 : r = 1 \/ r = 2 \/ r = 3 \/ r = 4 \/ r = 5 \/ r = 6 \/ r = 7
    OBVIOUS
  <2>2. /\ CategoryOrder[1] = "Added" /\ CategoryOrder[2] = "Changed" /\ CategoryOrder[3] = "Deprecated"
        /\ CategoryOrder[4] = "Removed" /\ CategoryOrder[5] = "Fixed" /\ CategoryOrder[6] = "Security"
        /\ CategoryOrder[7] = "Other"
    BY DEF CategoryOrder
  <2>3. \A x \in {"Added", "Changed", "Deprecated", "Removed", "Fixed", "Security", "Other"} : x # "BREAKING CHANGES"
    OBVIOUS
  <2>4. ASSUME NEW r \in 1 .. 7
        PROVE  CategoryOrder[r] \in {"Added", "Changed", "Deprecated", "Removed", "Fixed", "Security", "Other"}
    BY <2>1, <2>2, Zenon
  <2> QED
    BY <2>2, <2>3, <2>4, Zenon
<1>5. "Other" \in Categories
  <2>1. 7 \in 1 .. 7
    OBVIOUS
  <2>2. CategoryOrder[7] \in Categories
    BY <1>3, <2>1
  <2> QED
    BY <1>4, <2>2, Zenon
<1> QED
  BY <1>1, <1>2, <1>3, <1>4, <1>5

IsArt(a) ==
  /\ IsList(a.breaking)
  /\ DOMAIN a.categories = Categories /\ \A name \in Categories : IsList(a.categories[name])

LEMMA SectionIs ==
  ASSUME NEW name, NEW es, IsList(es)
  PROVE  /\ IsList(Section(name, es)) /\ DOMAIN Section(name, es) = DOMAIN es
         /\ Section(name, es) = <<>> <=> es = <<>>
         /\ \A l \in Range(Section(name, es)) : l.section = name
         /\ \A i \in DOMAIN es : /\ Section(name, es)[i].hashes = es[i].hashes
                                 /\ Section(name, es)[i].subject = es[i].subject
<1> DEFINE s == Section(name, es)
           n == Len(es)
<1>1. n \in Nat /\ DOMAIN es = 1 .. n /\ (es = <<>> <=> n = 0)
  BY ListIs
<1>2. s = [i \in 1 .. n |-> Line(name, es[i])]
  BY <1>1 DEF Section
<1>3. /\ \A i \in 1 .. n : s[i].section = name
      /\ \A i \in 1 .. n : s[i].hashes = es[i].hashes /\ s[i].subject = es[i].subject
  BY <1>2 DEF Line
<1> HIDE DEF s, n
<1>4. DOMAIN s = 1 .. n /\ s = [i \in 1 .. n |-> s[i]]
  BY <1>2
<1>5. IsList(s) /\ Len(s) = n
  BY <1>1, <1>4, ListOf
<1>6. s = <<>> <=> n = 0
  BY <1>5, ListIs
<1>7. \A l \in Range(s) : l.section = name
  BY <1>3, <1>4 DEF Range
<1> QED
  BY <1>1, <1>3, <1>4, <1>5, <1>6, <1>7 DEF s

(* The lines of a body that belong to one section are that section. *)
InBody(a, name) == Picked(Body(a), {i \in DOMAIN Body(a) : Body(a)[i].section = name})

LEMMA BodySections ==
  ASSUME NEW a, IsArt(a)
  PROVE  /\ InBody(a, "BREAKING CHANGES") = Section("BREAKING CHANGES", a.breaking)
         /\ \A name \in Categories :
              /\ InBody(a, name) = Section(name, a.categories[name])
              /\ a.categories[name] = <<>> <=> \A l \in Range(Body(a)) : l.section # name
<1> DEFINE B == Section("BREAKING CHANGES", a.breaking)
           C(name) == Section(name, a.categories[name])
           parts == [r \in DOMAIN CategoryOrder |-> C(CategoryOrder[r])]
           L == Range(B) \cup Union(parts)
           K(name) == {l \in L : l.section = name}
           body == Body(a)
<1>1. /\ DOMAIN parts = 1 .. 7 /\ \A r \in 1 .. 7 : parts[r] = C(CategoryOrder[r]) /\ CategoryOrder[r] \in Categories
  BY Order
<1>2. IsList(B) /\ (B = <<>> <=> a.breaking = <<>>) /\ \A l \in Range(B) : l.section = "BREAKING CHANGES"
  BY SectionIs DEF IsArt
<1>3. \A name \in Categories : /\ IsList(C(name)) /\ (C(name) = <<>> <=> a.categories[name] = <<>>)
                               /\ \A l \in Range(C(name)) : l.section = name
  BY SectionIs DEF IsArt
<1>4. B \in Seq(L)
  BY <1>2, ListWithin
<1>5. parts \in Seq(Seq(L)) /\ FlattenSeq(parts) \in Seq(L) /\ Range(FlattenSeq(parts)) = Union(parts)
  <2>1. \A r \in 1 .. 7 : Range(parts[r]) \subseteq L
    BY <1>1 DEF Union
  <2>2. \A r \in 1 .. 7 : parts[r] \in Seq(L)
    BY <1>1, <1>3, <2>1, ListWithin
  <2> DEFINE T == Seq(L)
  <2>3. \A r \in 1 .. 7 : parts[r] \in T
    BY <2>2
  <2>4. parts = [r \in 1 .. 7 |-> parts[r]]
    BY Order
  <2> HIDE DEF T, parts, L
  <2>5. parts \in [1 .. 7 -> T]
    BY <2>3, <2>4
  <2>6. parts \in Seq(T)
    <3> DEFINE n == 7
    <3>1. n \in Nat /\ parts \in [1 .. n -> T]
      BY <2>5
    <3> HIDE DEF n
    <3> QED
      BY <3>1
  <2> QED
    BY <2>6, FlattenRange DEF T
<1>6. CASE ~HasAnyEntries(a)
  <2>1. a.breaking = <<>> /\ \A name \in Categories : a.categories[name] = <<>>
    BY <1>6 DEF HasAnyEntries
  <2>2. body = <<>>
    BY <1>6 DEF Body
  <2>3. Range(body) = {} /\ \A I : Picked(body, I) = <<>>
    <3>1. Range(<<>>) = {}
      BY DEF Range
    <3>2. <<>> \in Seq({})
      OBVIOUS
    <3>3. ASSUME NEW I PROVE Picked(<<>>, I) = <<>>
      <4>1. Picked(<<>>, I) \in Seq({}) /\ Range(Picked(<<>>, I)) = {<<>>[i] : i \in DOMAIN <<>> \cap I}
        BY <3>2, PickedRange
      <4>2. {<<>>[i] : i \in DOMAIN <<>> \cap I} = {}
        OBVIOUS
      <4> QED
        BY <4>1, <4>2, EmptyRange
    <3> QED
      BY <2>2, <3>1, <3>3
  <2> QED
    BY <1>2, <1>3, <2>1, <2>3 DEF InBody
<1>7. CASE HasAnyEntries(a)
  <2> DEFINE F == FlattenSeq(parts)
  <2>1. body = B \o F
    BY <1>7 DEF Body
  <2>2. body \in Seq(L) /\ Range(body) = L
    <3> HIDE DEF body, B, F, parts, L
    <3>1. F \in Seq(L)
      BY <1>5 DEF F
    <3>2. Range(body) = Range(B) \cup Range(F) /\ body \in Seq(L)
      BY <1>4, <2>1, <3>1, RangeOfConcat
    <3> QED
      BY <1>5, <3>2 DEF F, L
  <2>3. ASSUME NEW name PROVE InBody(a, name) = Kept(B, K(name)) \o Kept(F, K(name))
    <3>1. \A i \in DOMAIN body : body[i].section = name <=> body[i] \in K(name)
      BY <2>2 DEF Range
    <3>2. InBody(a, name) = Kept(body, K(name))
      <4>1. {i \in DOMAIN body : body[i].section = name} = {i \in DOMAIN body : body[i] \in K(name)}
        BY <3>1
      <4> QED
        BY <4>1 DEF InBody, Kept
    <3> HIDE DEF body, F, B, L, K
    <3>3. F \in Seq(L)
      BY <1>5 DEF F
    <3> QED
      BY <1>4, <2>1, <3>2, <3>3, KeptConcat
  <2>4. \A l \in Union(parts) : l.section \in Categories
    <3>1. ASSUME NEW l \in Union(parts) PROVE l.section \in Categories
      <4>1. PICK r \in 1 .. 7 : l \in Range(parts[r])
        BY <1>1, <3>1 DEF Union
      <4>2. l \in Range(C(CategoryOrder[r]))
        BY <1>1, <4>1
      <4> QED
        BY <1>1, <1>3, <4>2
    <3> QED
      BY <3>1
  <2>5. InBody(a, "BREAKING CHANGES") = B
    <3> DEFINE k == K("BREAKING CHANGES")
    <3>1. Range(B) \subseteq k /\ Union(parts) \cap k = {}
      BY <1>2, <2>4, Order
    <3>2. InBody(a, "BREAKING CHANGES") = Kept(B, k) \o Kept(F, k)
      BY <2>3
    <3> HIDE DEF k, B, parts
    <3>3. Kept(B, k) = B
      BY <1>2, <3>1, ListWithin, KeptAll
    <3>4. Kept(F, k) = <<>>
      BY <1>5, <3>1, KeptNoPart
    <3>5. B \o <<>> = B
      BY <1>4
    <3> QED
      BY <3>2, <3>3, <3>4, <3>5
  <2>6. ASSUME NEW name \in Categories
        PROVE  /\ InBody(a, name) = C(name)
               /\ a.categories[name] = <<>> <=> \A l \in Range(body) : l.section # name
    <3>1. PICK r \in 1 .. 7 : name = CategoryOrder[r]
      BY Order
    <3> DEFINE k == K(name)
    <3>2. parts[r] = C(name)
      BY <1>1, <3>1
    <3>3. Alone(parts, r, k)
      <4>1. Range(parts[r]) \subseteq k
        <5>1. Range(parts[r]) \subseteq L
          BY <1>1 DEF Union
        <5>2. \A l \in Range(parts[r]) : l.section = name
          BY <1>3, <3>2
        <5> QED
          BY <5>1, <5>2
      <4>2. ASSUME NEW i \in 1 .. 7, i # r PROVE Range(parts[i]) \cap k = {}
        <5>1. CategoryOrder[i] # name
          BY <3>1, <4>2, Order
        <5>2. \A l \in Range(parts[i]) : l.section = CategoryOrder[i]
          BY <1>1, <1>3
        <5> QED
          BY <5>1, <5>2
      <4> HIDE DEF parts, k
      <4> QED
        BY <1>1, <4>1, <4>2 DEF Alone
    <3>4. Range(B) \cap k = {}
      BY <1>2, Order
    <3>5. InBody(a, name) = Kept(B, k) \o Kept(F, k)
      BY <2>3
    <3>6. C(name) = <<>> <=> \A l \in L : l.section # name
      <4>1. ASSUME C(name) = <<>>, NEW l \in L PROVE l.section # name
        <5>1. CASE l \in Range(B)
          BY <1>2, <5>1, Order
        <5>2. CASE l \in Union(parts)
          <6>1. PICK i \in 1 .. 7 : l \in Range(parts[i])
            BY <1>1, <5>2 DEF Union
          <6>2. CASE i = r
            BY <3>2, <4>1, <6>1, <6>2, RangeOfFew
          <6>3. CASE i # r
            BY <1>1, <1>3, <3>1, <6>1, <6>3, Order
          <6> QED
            BY <6>2, <6>3
        <5> QED
          BY <5>1, <5>2
      <4>2. ASSUME C(name) # <<>> PROVE \E l \in L : l.section = name
        <5>1. Range(parts[r]) \subseteq L
          BY <1>1 DEF Union
        <5>2. IsList(C(name))
          BY <1>3
        <5>3. Range(C(name)) # {}
          <6> DEFINE c == C(name)
                     R == Range(c)
          <6>1. c \in Seq(R) /\ c # <<>>
            BY <4>2, <5>2 DEF IsList
          <6> HIDE DEF c, R
          <6>2. Range(c) # {}
            BY <6>1, EmptyRange
          <6> QED
            BY <6>2 DEF c
        <5> QED
          BY <1>3, <3>2, <5>1, <5>3
      <4> QED
        BY <4>1, <4>2
    <3> HIDE DEF k, B, parts, C, L, body, F
    <3>7. Kept(F, k) = parts[r]
      BY <1>5, <3>3, KeptPart DEF F
    <3>8. Kept(B, k) = <<>>
      BY <1>4, <3>4, KeptNone
    <3>9. <<>> \o parts[r] = parts[r]
      <4>1. parts[r] \in Seq(L)
        <5> DEFINE T == Seq(L)
        <5>1. parts \in Seq(T) /\ r \in DOMAIN parts
          BY <1>1, <1>5
        <5> HIDE DEF T
        <5>2. parts[r] \in T
          BY <5>1
        <5> QED
          BY <5>2 DEF T
      <4> QED
        BY <4>1
    <3>10. C(name) = <<>> <=> a.categories[name] = <<>>
      BY <1>3
    <3> QED
      BY <2>2, <3>2, <3>5, <3>6, <3>7, <3>8, <3>9, <3>10
  <2> QED
    BY <2>5, <2>6
<1> QED
  BY <1>6, <1>7

LEMMA SetToSeqIs ==
  ASSUME NEW S, IsFiniteSet(S)
  PROVE  IsList(SetToSeq(S)) /\ Range(SetToSeq(S)) = S
<1> DEFINE n == Cardinality(S)
           f == SetToSeq(S)
<1>1. n \in Nat /\ ExistsBijection(1 .. n, S)
  BY FS_CardinalityType
<1>2. PICK g : g \in Bijection(1 .. n, S)
  BY <1>1 DEF ExistsBijection
<1>3. g \in [1 .. n -> S] /\ IsInjective(g)
  BY <1>2 DEF Bijection, Injection
<1>4. f \in [1 .. n -> S] /\ IsInjective(f)
  BY <1>3 DEF SetToSeq
<1>5. f \in Injection(1 .. n, S)
  BY <1>4 DEF Injection
<1>6. IsFiniteSet(1 .. n) /\ Cardinality(1 .. n) = n
  BY <1>1, FS_Interval
<1>7. f \in Surjection(1 .. n, S)
  BY <1>5, <1>6, FS_Injection
<1>8. Range(f) = S
  BY <1>4, <1>7 DEF Surjection, Range
<1>9. IsList(f)
  <2> HIDE DEF f, n
  <2>1. f \in Seq(S)
    BY <1>1, <1>4
  <2> QED
    BY <2>1, SeqIsList
<1> QED
  BY <1>8, <1>9

-----------------------------------------------------------------------------
(* toEntry: the hashes of an item that are in the range, its counting ones *)
Mine(item, known) == {Short(h) : h \in Range(item.hashes)} \cap known
Counts(item, known) == item.subject # "blank" /\ Mine(item, known) # {}
Stands(e, item, known) ==
  e.subject = item.subject /\ e.hashes # <<>> /\ Range(e.hashes) = Mine(item, known)

LEMMA ToEntryIs ==
  ASSUME NEW item, NEW known, IsList(item.hashes)
  PROVE  /\ ~Counts(item, known) => ToEntry(item, known) = <<>>
         /\ Counts(item, known) => \E e : ToEntry(item, known) = <<e>> /\ Stands(e, item, known)
<1> DEFINE shorts == [i \in DOMAIN item.hashes |-> Short(item.hashes[i])]
           I == {i \in DOMAIN shorts : shorts[i] \in known}
           hashes == Picked(shorts, I)
<1>1. IsList(shorts)
  <2> DEFINE n == Len(item.hashes)
  <2>1. n \in Nat /\ DOMAIN item.hashes = 1 .. n
    BY ListIs
  <2>2. DOMAIN shorts = 1 .. n /\ shorts = [i \in 1 .. n |-> shorts[i]]
    BY <2>1
  <2> HIDE DEF shorts, n
  <2> QED
    BY <2>1, <2>2, ListOf
<1>2. Range(shorts) = {Short(h) : h \in Range(item.hashes)}
  BY DEF Range
<1>3. hashes \in Seq(Range(shorts)) /\ Range(hashes) = Mine(item, known)
  <2> DEFINE S == Range(shorts)
  <2>1. shorts \in Seq(S)
    BY <1>1 DEF IsList
  <2>2. {shorts[i] : i \in DOMAIN shorts \cap I} = S \cap known
    BY DEF Range
  <2> HIDE DEF shorts, S, I
  <2>3. hashes \in Seq(S) /\ Range(hashes) = {shorts[i] : i \in DOMAIN shorts \cap I}
    BY <2>1, PickedRange
  <2> QED
    BY <1>2, <2>2, <2>3 DEF Mine, S
<1>4. hashes = <<>> <=> Mine(item, known) = {}
  BY <1>3, EmptyRange
<1>5. ToEntry(item, known) = IF item.subject = "blank" \/ hashes = <<>> THEN <<>>
                             ELSE <<[hashes |-> hashes, subject |-> item.subject]>>
  BY DEF ToEntry
<1> HIDE DEF hashes
<1>6. Counts(item, known) => Stands([hashes |-> hashes, subject |-> item.subject], item, known)
  BY <1>3, <1>4 DEF Counts, Stands
<1> QED
  BY <1>4, <1>5, <1>6 DEF Counts

(* The entries of some items are those of the items that count. *)
From(es, items, known) ==
  /\ IsList(es)
  /\ \A e \in Range(es) : \E item \in Range(items) : Counts(item, known) /\ Stands(e, item, known)
  /\ \A item \in Range(items) : Counts(item, known) => \E e \in Range(es) : Stands(e, item, known)

LEMMA ToEntriesFrom ==
  ASSUME NEW items, NEW known, Items(items)
  PROVE  From(ToEntries(items, known), items, known)
<1> DEFINE parts == [i \in DOMAIN items |-> ToEntry(items[i], known)]
           n == Len(items)
           E == Union(parts)
<1>1. n \in Nat /\ DOMAIN items = 1 .. n /\ DOMAIN parts = 1 .. n
  BY ListIs DEF Items
<1>2. ASSUME NEW i \in 1 .. n
      PROVE  /\ items[i] \in Range(items) /\ parts[i] = ToEntry(items[i], known)
             /\ ~Counts(items[i], known) => parts[i] = <<>>
             /\ Counts(items[i], known) => \E e : parts[i] = <<e>> /\ Stands(e, items[i], known)
  <2>1. items[i] \in Range(items) /\ parts[i] = ToEntry(items[i], known)
    BY <1>1 DEF Range
  <2>2. IsList(items[i].hashes)
    BY <2>1 DEF Items
  <2> QED
    BY <2>1, <2>2, ToEntryIs
<1>3. ToEntries(items, known) = FlattenSeq(parts)
  BY DEF ToEntries
<1>4. parts = [i \in 1 .. n |-> parts[i]]
  BY <1>1
<1> HIDE DEF parts, n
<1>5. ASSUME NEW i \in 1 .. n PROVE parts[i] \in Seq(E)
  <2>1. Range(parts[i]) \subseteq E
    BY <1>1 DEF Union
  <2>2. IsList(parts[i])
    <3>1. IsList(<<>>) /\ \A e : IsList(<<e>>)
      <4>1. <<>> \in Seq({}) /\ \A e : <<e>> \in Seq({e})
        OBVIOUS
      <4> QED
        BY <4>1, RangeOfFew DEF IsList
    <3> QED
      BY <1>2, <3>1
  <2> QED
    BY <2>1, <2>2, ListWithin
<1>6. FlattenSeq(parts) \in Seq(E) /\ Range(FlattenSeq(parts)) = E
  <2> DEFINE T == Seq(E)
  <2>1. \A i \in 1 .. n : parts[i] \in T
    BY <1>5
  <2> HIDE DEF T, E
  <2>2. parts \in [1 .. n -> T]
    BY <1>4, <2>1
  <2>3. parts \in Seq(T)
    BY <1>1, <2>2
  <2> QED
    BY <2>3, FlattenRange DEF T, E
<1> DEFINE es == FlattenSeq(parts)
<1>7. IsList(es)
  BY <1>6, SeqIsList
<1>8. ASSUME NEW e \in Range(es)
      PROVE  \E item \in Range(items) : Counts(item, known) /\ Stands(e, item, known)
  <2>1. PICK i \in 1 .. n : e \in Range(parts[i])
    BY <1>1, <1>6, <1>8 DEF Union
  <2>2. Counts(items[i], known)
    BY <1>2, <2>1, RangeOfFew
  <2>3. Stands(e, items[i], known)
    <3>1. PICK f : parts[i] = <<f>> /\ Stands(f, items[i], known)
      BY <1>2, <2>2
    <3>2. e = f
      BY <2>1, <3>1, RangeOfFew
    <3> QED
      BY <3>1, <3>2
  <2> QED
    BY <1>2, <2>2, <2>3
<1>9. ASSUME NEW item \in Range(items), Counts(item, known)
      PROVE  \E e \in Range(es) : Stands(e, item, known)
  <2>1. PICK i \in 1 .. n : items[i] = item
    BY <1>1 DEF Range
  <2>2. PICK e : parts[i] = <<e>> /\ Stands(e, item, known)
    BY <1>2, <1>9, <2>1
  <2>3. e \in Range(parts[i])
    BY <2>2, RangeOfFew
  <2>4. e \in E
    BY <1>1, <2>3 DEF Union
  <2> QED
    BY <1>6, <2>2, <2>4
<1> QED
  BY <1>3, <1>7, <1>8, <1>9 DEF From

-----------------------------------------------------------------------------
Decoded(p) ==
  /\ Items(p.breaking) /\ IsFiniteSet(DOMAIN p.categories)
  /\ \A name \in DOMAIN p.categories : Items(p.categories[name])

Shelf(name) == IF name \in Categories THEN name ELSE "Other"

LEMMA ConcatItems ==
  ASSUME NEW s, NEW t, Items(s), Items(t)
  PROVE  Items(s \o t) /\ Range(s \o t) = Range(s) \cup Range(t)
<1> DEFINE R == Range(s) \cup Range(t)
<1>1. s \in Seq(R) /\ t \in Seq(R)
  <2>1. IsList(s) /\ IsList(t) /\ Range(s) \subseteq R /\ Range(t) \subseteq R
    BY DEF Items
  <2> QED
    BY <2>1, ListWithin
<1> HIDE DEF R
<1>2. s \o t \in Seq(R) /\ Range(s \o t) = Range(s) \cup Range(t)
  BY <1>1, RangeOfConcat
<1>3. IsList(s \o t)
  BY <1>2, SeqIsList
<1> QED
  BY <1>2, <1>3 DEF Items

LEMMA ItemsOfIs ==
  ASSUME NEW p, Decoded(p), NEW name \in Categories
  PROVE  /\ Items(ItemsOf(p, name))
         /\ \A n \in DOMAIN p.categories : Shelf(n) = name => Range(p.categories[n]) \subseteq Range(ItemsOf(p, name))
<1> DEFINE U == DOMAIN p.categories \ Categories
           unknown == SetToSeq(U)
           named == IF name \in DOMAIN p.categories THEN p.categories[name] ELSE <<>>
           parts == [i \in DOMAIN unknown |-> p.categories[unknown[i]]]
           rest == IF name = "Other" THEN FlattenSeq(parts) ELSE <<>>
<1>1. ItemsOf(p, name) = named \o rest
  BY DEF ItemsOf
<1>2. IsList(unknown) /\ Range(unknown) = U
  <2>1. IsFiniteSet(U)
    BY FS_Subset DEF Decoded
  <2> QED
    BY <2>1, SetToSeqIs
<1>3. Items(<<>>)
  <2>1. <<>> \in Seq({})
    OBVIOUS
  <2> QED
    BY <2>1, RangeOfFew DEF Items, IsList
<1>4. Items(named)
  BY <1>3 DEF Decoded
<1> DEFINE E == Union(parts)
           n == Len(unknown)
<1>5. n \in Nat /\ DOMAIN unknown = 1 .. n /\ DOMAIN parts = 1 .. n
  BY <1>2, ListIs
<1>6. ASSUME NEW i \in 1 .. n PROVE Items(parts[i]) /\ parts[i] \in Seq(E)
  <2>1. unknown[i] \in U
    BY <1>2, <1>5 DEF Range
  <2>2. Items(parts[i])
    BY <1>5, <2>1 DEF Decoded
  <2>3. Range(parts[i]) \subseteq E
    BY <1>5 DEF Union
  <2> QED
    BY <2>2, <2>3, ListWithin DEF Items
<1>7. FlattenSeq(parts) \in Seq(E) /\ Range(FlattenSeq(parts)) = E
  <2> DEFINE T == Seq(E)
  <2>1. \A i \in 1 .. n : parts[i] \in T
    BY <1>6
  <2>2. parts = [i \in 1 .. n |-> parts[i]]
    BY <1>5
  <2> HIDE DEF T, E, parts, n
  <2>3. parts \in [1 .. n -> T]
    BY <2>1, <2>2
  <2>4. parts \in Seq(T)
    BY <1>5, <2>3
  <2> QED
    BY <2>4, FlattenRange DEF T, E
<1>8. Items(FlattenSeq(parts))
  <2>1. IsList(FlattenSeq(parts))
    BY <1>7, SeqIsList
  <2>2. ASSUME NEW item \in E PROVE IsList(item.hashes)
    <3>1. PICK i \in 1 .. n : item \in Range(parts[i])
      BY <1>5, <2>2 DEF Union
    <3> QED
      BY <1>6, <3>1 DEF Items
  <2> QED
    BY <1>7, <2>1, <2>2 DEF Items
<1>9. Items(rest)
  BY <1>3, <1>8
<1>10. Items(named \o rest) /\ Range(named \o rest) = Range(named) \cup Range(rest)
  <2> HIDE DEF named, rest
  <2> QED
    BY <1>4, <1>9, ConcatItems
<1>11. ASSUME NEW m \in DOMAIN p.categories, Shelf(m) = name
       PROVE  Range(p.categories[m]) \subseteq Range(named) \cup Range(rest)
  <2>1. CASE m \in Categories
    <3>1. m = name
      BY <1>11, <2>1 DEF Shelf
    <3> QED
      BY <3>1
  <2>2. CASE m \notin Categories
    <3>1. name = "Other" /\ m \in U
      BY <1>11, <2>2 DEF Shelf
    <3>2. PICK i \in 1 .. n : unknown[i] = m
      BY <1>2, <1>5, <3>1 DEF Range
    <3>3. parts[i] = p.categories[m]
      BY <1>5, <3>2
    <3>4. Range(parts[i]) \subseteq E
      BY <1>5 DEF Union
    <3>5. rest = FlattenSeq(parts)
      BY <3>1
    <3> HIDE DEF parts, rest, named, E
    <3> QED
      BY <1>7, <3>3, <3>4, <3>5
  <2> QED
    BY <2>1, <2>2
<1> QED
  BY <1>1, <1>10, <1>11

MissingOK(a, required) ==
  Range(a.missing) = {name \in Range(required) : name \notin Categories \/ a.categories[name] = <<>>}

LEMMA MissingIs ==
  ASSUME NEW a, NEW S, NEW required \in Seq(S)
  PROVE  /\ MissingOK(WithMissing(a, required), required)
         /\ WithMissing(a, required).categories = a.categories
         /\ WithMissing(a, required).breaking = a.breaking
<1> DEFINE I == {i \in DOMAIN required : required[i] \notin Categories \/ a.categories[required[i]] = <<>>}
           w == WithMissing(a, required)
<1>1. w.categories = a.categories /\ w.breaking = a.breaking /\ w.missing = Picked(required, I)
  BY DEF WithMissing
<1>2. {required[i] : i \in DOMAIN required \cap I}
        = {name \in Range(required) : name \notin Categories \/ a.categories[name] = <<>>}
  BY DEF Range
<1>3. Range(Picked(required, I)) = {required[i] : i \in DOMAIN required \cap I}
  <2> HIDE DEF I
  <2> QED
    BY PickedRange
<1> QED
  BY <1>1, <1>2, <1>3 DEF MissingOK

(* The marks of the lines agree with the list of breaking changes. *)
Marks(a) ==
  \A name \in Categories : \A e \in Range(a.categories[name]) :
    e.breaking <=> \E b \in Range(a.breaking) : Shares(e, b)

Sound(e, known) == e.subject # "blank" /\ e.hashes # <<>> /\ Range(e.hashes) \subseteq known

LEMMA EntryOf ==
  ASSUME NEW h, NEW s, NEW b
  PROVE  Entry(h, s, b).hashes = h /\ Entry(h, s, b).subject = s /\ Entry(h, s, b).breaking = b
  BY DEF Entry

Lasting(a, p, known) ==
  \A n \in DOMAIN p.categories : \A item \in Range(p.categories[n]) : Counts(item, known) =>
    \E e \in Range(a.categories[Shelf(n)]) : e.subject = item.subject /\ Range(e.hashes) = Mine(item, known)

LEMMA AIArtifactIs ==
  ASSUME NEW cs, NEW p, NEW S, NEW required \in Seq(S), Decoded(p)
  PROVE  LET a == AIArtifact(cs, p, required)
             known == Known(cs)
         IN  /\ IsArt(a) /\ Marks(a) /\ MissingOK(a, required) /\ Lasting(a, p, known)
             /\ \A e \in Range(a.breaking) : Sound(e, known)
             /\ \A name \in Categories : \A e \in Range(a.categories[name]) : Sound(e, known)
<1> DEFINE a == AIArtifact(cs, p, required)
           known == Known(cs)
           es == AIEntries(cs, p)
           broken == ToEntries(p.breaking, known)
           Of(name) == ToEntries(ItemsOf(p, name), known)
<1>1. MissingOK(a, required) /\ a.categories = es.categories /\ a.breaking = es.breaking
  BY MissingIs DEF AIArtifact
<1>2. From(broken, p.breaking, known)
  BY ToEntriesFrom DEF Decoded
<1>3. \A name \in Categories : From(Of(name), ItemsOf(p, name), known)
  BY ToEntriesFrom, ItemsOfIs
<1>4. /\ DOMAIN a.categories = Categories
      /\ \A name \in Categories :
           a.categories[name] = [i \in DOMAIN Of(name) |->
             Entry(Of(name)[i].hashes, Of(name)[i].subject, MarkedBreaking(Of(name)[i], broken))]
      /\ a.breaking = [i \in DOMAIN broken |-> Entry(broken[i].hashes, broken[i].subject, TRUE)]
  BY <1>1 DEF AIEntries
<1> HIDE DEF a, known, es, broken, Of
<1>5. /\ IsList(a.breaking) /\ DOMAIN a.breaking = DOMAIN broken
      /\ \A i \in DOMAIN broken : a.breaking[i].hashes = broken[i].hashes /\ a.breaking[i].subject = broken[i].subject
  <2>1. Len(broken) \in Nat /\ DOMAIN broken = 1 .. Len(broken)
    BY <1>2, ListIs DEF From
  <2>2. IsList(a.breaking)
    <3> DEFINE n == Len(broken)
               s == a.breaking
    <3>1. n \in Nat /\ DOMAIN s = 1 .. n /\ s = [i \in 1 .. n |-> s[i]]
      BY <1>4, <2>1
    <3> HIDE DEF n, s
    <3>2. IsList(s)
      BY <3>1, ListOf
    <3> QED
      BY <3>2 DEF s
  <2>3. DOMAIN a.breaking = DOMAIN broken
    BY <1>4
  <2>4. ASSUME NEW i \in DOMAIN broken
        PROVE  a.breaking[i].hashes = broken[i].hashes /\ a.breaking[i].subject = broken[i].subject
    <3>1. a.breaking[i] = Entry(broken[i].hashes, broken[i].subject, TRUE)
      BY <1>4
    <3> QED
      BY <3>1 DEF Entry
  <2> QED
    BY <2>2, <2>3, <2>4
<1>6. ASSUME NEW name \in Categories
      PROVE  LET c == a.categories[name] IN
             /\ IsList(c) /\ DOMAIN c = DOMAIN Of(name)
             /\ \A i \in DOMAIN c : /\ c[i].hashes = Of(name)[i].hashes /\ c[i].subject = Of(name)[i].subject
                                    /\ c[i].breaking = MarkedBreaking(Of(name)[i], broken)
  <2> DEFINE f == Of(name)
             c == a.categories[name]
             n == Len(f)
  <2>1. IsList(f)
    BY <1>3 DEF From
  <2>2. c = [i \in DOMAIN f |-> Entry(f[i].hashes, f[i].subject, MarkedBreaking(f[i], broken))]
    BY <1>4
  <2> HIDE DEF f, c, n
  <2>3. n \in Nat /\ DOMAIN f = 1 .. n
    BY <2>1, ListIs DEF n
  <2>4. DOMAIN c = 1 .. n /\ c = [i \in 1 .. n |-> c[i]]
    BY <2>2, <2>3
  <2>5. IsList(c)
    BY <2>3, <2>4, ListOf
  <2>6. \A i \in DOMAIN f : c[i].hashes = f[i].hashes /\ c[i].subject = f[i].subject
                            /\ c[i].breaking = MarkedBreaking(f[i], broken)
    BY <2>2, EntryOf
  <2> QED
    BY <2>3, <2>4, <2>5, <2>6 DEF f, c
<1>7. IsArt(a)
  BY <1>4, <1>5, <1>6 DEF IsArt
<1>8. Marks(a)
  <2> SUFFICES ASSUME NEW name \in Categories, NEW e \in Range(a.categories[name])
               PROVE  e.breaking <=> \E b \in Range(a.breaking) : Shares(e, b)
    BY DEF Marks
  <2>1. PICK i \in DOMAIN a.categories[name] : e = a.categories[name][i]
    BY DEF Range
  <2> DEFINE f == Of(name)[i]
  <2>2. e.hashes = f.hashes /\ e.breaking = MarkedBreaking(f, broken)
    BY <1>6, <2>1
  <2>3. MarkedBreaking(f, broken) <=> \E j \in DOMAIN broken : Shares(e, a.breaking[j])
    BY <1>5, <2>2 DEF MarkedBreaking, Shares
  <2>4. (\E j \in DOMAIN broken : Shares(e, a.breaking[j])) <=> \E b \in Range(a.breaking) : Shares(e, b)
    BY <1>5 DEF Range
  <2> QED
    BY <2>2, <2>3, <2>4
<1>9. ASSUME NEW f, NEW items, From(f, items, known), NEW i \in DOMAIN f, NEW e,
             e.hashes = f[i].hashes, e.subject = f[i].subject
      PROVE  Sound(e, known)
  <2>1. f[i] \in Range(f)
    BY DEF Range
  <2>2. PICK item \in Range(items) : Counts(item, known) /\ Stands(f[i], item, known)
    BY <1>9, <2>1 DEF From
  <2> QED
    BY <1>9, <2>2 DEF Sound, Counts, Stands, Mine
<1>10. \A e \in Range(a.breaking) : Sound(e, known)
  <2> SUFFICES ASSUME NEW i \in DOMAIN broken PROVE Sound(a.breaking[i], known)
    BY <1>5 DEF Range
  <2> QED
    BY <1>2, <1>5, <1>9
<1>11. \A name \in Categories : \A e \in Range(a.categories[name]) : Sound(e, known)
  <2> SUFFICES ASSUME NEW name \in Categories, NEW i \in DOMAIN a.categories[name]
               PROVE  Sound(a.categories[name][i], known)
    BY DEF Range
  <2>1. i \in DOMAIN Of(name) /\ a.categories[name][i].hashes = Of(name)[i].hashes
        /\ a.categories[name][i].subject = Of(name)[i].subject
    BY <1>6
  <2> QED
    BY <1>3, <1>9, <2>1
<1>12. Lasting(a, p, known)
  <2> SUFFICES ASSUME NEW n \in DOMAIN p.categories, NEW item \in Range(p.categories[n]), Counts(item, known)
               PROVE  \E e \in Range(a.categories[Shelf(n)]) :
                        e.subject = item.subject /\ Range(e.hashes) = Mine(item, known)
    BY DEF Lasting
  <2> DEFINE name == Shelf(n)
  <2>1. name \in Categories
    BY Order DEF Shelf
  <2>2. item \in Range(ItemsOf(p, name))
    BY <2>1, ItemsOfIs
  <2>3. PICK f \in Range(Of(name)) : Stands(f, item, known)
    BY <1>3, <2>1, <2>2 DEF From
  <2>4. PICK i \in DOMAIN Of(name) : Of(name)[i] = f
    BY DEF Range
  <2> DEFINE e == a.categories[name][i]
  <2>5. e \in Range(a.categories[name]) /\ e.hashes = f.hashes /\ e.subject = f.subject
    BY <1>6, <2>1, <2>4 DEF Range
  <2> QED
    BY <2>3, <2>5 DEF Stands
<1> QED
  BY <1>1, <1>7, <1>8, <1>10, <1>11, <1>12 DEF a, known

LEMMA MinIs ==
  ASSUME NEW S, S \subseteq Int, NEW m \in S, \A x \in S : m <= x
  PROVE  Min(S) = m
<1>2. Min(S) \in S /\ \A y \in S : Min(S) <= y
  BY Zenon DEF Min
<1>3. Min(S) \in Int /\ Min(S) <= m /\ m <= Min(S) /\ m \in Int
  BY <1>2
<1> QED
  BY <1>3

LEMMA MinExists ==
  ASSUME NEW S \in SUBSET Nat, S # {}
  PROVE  Min(S) \in S /\ \A x \in S : Min(S) <= x
<1> DEFINE R == OpToRel(<, Nat)
<1>1. IsWellFoundedOn(R, Nat)
  BY NatLessThanWellFounded
<1>2. ASSUME NEW x \in Nat, NEW y \in Nat, y < x PROVE <<y, x>> \in R
  BY <1>2 DEF OpToRel
<1> HIDE DEF R
<1>3. PICK x \in S : \A y \in S : ~(<<y, x>> \in R)
  BY <1>1, WFMin
<1>4. ASSUME NEW y \in S PROVE x <= y
  <2>1. x \in Nat /\ y \in Nat /\ ~(y < x)
    BY <1>2, <1>3
  <2> QED
    BY <2>1
<1>5. Min(S) = x
  <2>1. S \subseteq Int /\ \A y \in S : x <= y
    BY <1>4
  <2> QED
    BY <2>1, MinIs
<1> QED
  BY <1>4, <1>5

(* The category that JSON gives a breaking change *)
LEMMA JsonNames ==
  ASSUME NEW a, IsArt(a), Marks(a), NEW b \in Range(a.breaking)
  PROVE  LET sharing == {r \in DOMAIN CategoryOrder : \E e \in Range(a.categories[CategoryOrder[r]]) : Shares(e, b)}
         IN  JsonCategory(a, b) = IF sharing = {} THEN "" ELSE CategoryOrder[Min(sharing)]
<1> DEFINE sharing == {r \in DOMAIN CategoryOrder : \E e \in Range(a.categories[CategoryOrder[r]]) : Shares(e, b)}
           R(h) == {r \in DOMAIN CategoryOrder :
                      \E i \in DOMAIN a.categories[CategoryOrder[r]] :
                        LET e == a.categories[CategoryOrder[r]][i]
                        IN  e.breaking /\ h \in Range(e.hashes)}
           ranks == {RankOf(a, b.hashes[i]) : i \in DOMAIN b.hashes} \cup {8}
<1>1. DOMAIN CategoryOrder = 1 .. 7 /\ Len(CategoryOrder) = 7
  BY Order
<1>2. \A h : RankOf(a, h) = Min(R(h) \cup {8})
  BY <1>1 DEF RankOf
<1>3. JsonCategory(a, b) = IF Min(ranks) > 7 THEN "" ELSE CategoryOrder[Min(ranks)]
  BY <1>1 DEF JsonCategory
<1>4. ASSUME NEW i \in DOMAIN b.hashes PROVE R(b.hashes[i]) \subseteq sharing
  <2> SUFFICES ASSUME NEW r \in R(b.hashes[i]) PROVE r \in sharing
    OBVIOUS
  <2>1. PICK k \in DOMAIN a.categories[CategoryOrder[r]] :
          b.hashes[i] \in Range(a.categories[CategoryOrder[r]][k].hashes)
    OBVIOUS
  <2> DEFINE e == a.categories[CategoryOrder[r]][k]
  <2>2. e \in Range(a.categories[CategoryOrder[r]])
    BY DEF Range
  <2>3. b.hashes[i] \in Range(b.hashes)
    BY DEF Range
  <2>4. PICK j \in DOMAIN e.hashes : e.hashes[j] = b.hashes[i]
    BY <2>1 DEF Range
  <2>5. Shares(e, b)
    BY <2>3, <2>4 DEF Shares
  <2> QED
    BY <2>2, <2>5
<1>5. ASSUME NEW r \in sharing PROVE \E i \in DOMAIN b.hashes : r \in R(b.hashes[i])
  <2>1. PICK e \in Range(a.categories[CategoryOrder[r]]) : Shares(e, b)
    OBVIOUS
  <2>2. PICK j \in DOMAIN e.hashes : e.hashes[j] \in Range(b.hashes)
    BY <2>1 DEF Shares
  <2>3. PICK i \in DOMAIN b.hashes : b.hashes[i] = e.hashes[j]
    BY <2>2 DEF Range
  <2>4. CategoryOrder[r] \in Categories
    BY <1>1, Order
  <2>5. e.breaking
    BY <2>1, <2>4 DEF Marks
  <2>6. PICK k \in DOMAIN a.categories[CategoryOrder[r]] : e = a.categories[CategoryOrder[r]][k]
    BY DEF Range
  <2>7. b.hashes[i] \in Range(e.hashes)
    BY <2>3 DEF Range
  <2>8. r \in R(b.hashes[i])
    BY <2>5, <2>6, <2>7
  <2> QED
    BY <2>8
<1> HIDE DEF R
<1>6. sharing \subseteq 1 .. 7
  BY <1>1
<1> DEFINE ranksIn == {RankOf(a, b.hashes[i]) : i \in DOMAIN b.hashes}
<1> HIDE DEF sharing
<1>7. ASSUME NEW i \in DOMAIN b.hashes
      PROVE  LET h == b.hashes[i] IN
             /\ RankOf(a, h) \in R(h) \cup {8} /\ \A r \in R(h) : RankOf(a, h) <= r
             /\ RankOf(a, h) \in sharing \cup {8}
  <2> DEFINE T == R(b.hashes[i]) \cup {8}
  <2>1. T \in SUBSET Nat /\ T # {}
    <3>1. R(b.hashes[i]) \subseteq 1 .. 7
      BY <1>4, <1>6
    <3> QED
      BY <3>1
  <2>2. Min(T) \in T /\ \A x \in T : Min(T) <= x
    <3> HIDE DEF T
    <3> QED
      BY <2>1, MinExists
  <2> QED
    BY <1>2, <1>4, <2>2
<1>8. CASE sharing = {}
  <2>1. ranks = {8}
    BY <1>7, <1>8
  <2>2. Min({8}) = 8
    <3> DEFINE T == {8}
    <3>1. T \subseteq Int /\ 8 \in T /\ \A x \in T : 8 <= x
      OBVIOUS
    <3> HIDE DEF T
    <3>2. Min(T) = 8
      BY <3>1, MinIs
    <3> QED
      BY <3>2 DEF T
  <2>3. Min(ranks) > 7
    <3>1. Min(ranks) = 8
      BY <2>1, <2>2
    <3> QED
      BY <3>1
  <2>4. JsonCategory(a, b) = ""
    BY <1>3, <2>3
  <2> QED
    BY <1>8, <2>4 DEF sharing
<1>9. CASE sharing # {}
  <2> DEFINE m == Min(sharing)
  <2>1. m \in sharing /\ \A r \in sharing : m <= r
    <3>1. sharing \in SUBSET Nat
      BY <1>6
    <3> QED
      BY <1>9, <3>1, MinExists
  <2> HIDE DEF m
  <2>2. PICK i \in DOMAIN b.hashes : m \in R(b.hashes[i])
    BY <1>5, <2>1
  <2>3. m \in 1 .. 7
    BY <1>6, <2>1
  <2>4. \A x \in ranks : x \in sharing \cup {8}
    BY <1>7
  <2>5. ranks \subseteq Int /\ \A x \in ranks : m <= x
    <3>1. ASSUME NEW x \in sharing \cup {8} PROVE x \in Int /\ m <= x
      BY <1>6, <2>1, <2>3
    <3> QED
      BY <2>4, <3>1
  <2>6. RankOf(a, b.hashes[i]) = m
    <3>1. RankOf(a, b.hashes[i]) <= m /\ RankOf(a, b.hashes[i]) \in ranks
      BY <1>7, <2>2
    <3> DEFINE k == RankOf(a, b.hashes[i])
    <3>2. k \in Int /\ m <= k /\ k <= m /\ m \in Int
      BY <2>3, <2>5, <3>1
    <3> HIDE DEF k
    <3>3. k = m
      BY <3>2
    <3> QED
      BY <3>3 DEF k
  <2>7. m \in ranks
    BY <2>6
  <2>8. Min(ranks) = m
    <3> HIDE DEF ranks
    <3> QED
      BY <2>5, <2>7, MinIs
  <2>9. ~(m > 7)
    BY <2>3
  <2> QED
    BY <1>3, <1>9, <2>8, <2>9 DEF m, sharing
<1> QED
  BY <1>8, <1>9 DEF sharing

Shorts(c) == <<Short(c.hash)>>
(* The short hashes tell the commits of a list apart. *)
Told(cs) == \A i, j \in DOMAIN cs : Short(cs[i].hash) = Short(cs[j].hash) => i = j

LEMMA ListedIs ==
  ASSUME NEW S, NEW cs \in Seq(S)
  PROVE  /\ Listed(cs) \in Seq(S) /\ Distinct(Listed(cs)) /\ Range(Listed(cs)) \subseteq Range(cs)
         /\ Told(cs) => Range(Listed(cs)) = {c \in Range(cs) : c.type # "Merge"}
<1> DEFINE First(i) == \A j \in 1 .. i - 1 : cs[j].hash # cs[i].hash
           I == {i \in DOMAIN cs : cs[i].type # "Merge" /\ First(i)}
<1>1. Listed(cs) = Picked(cs, I)
  BY DEF Listed
<1>2. DOMAIN cs = 1 .. Len(cs) /\ Len(cs) \in Nat
  OBVIOUS
<1>3. ASSUME NEW i \in I, NEW j \in I, cs[i] = cs[j] PROVE i = j
  <2>1. i \in 1 .. Len(cs) /\ j \in 1 .. Len(cs) /\ First(i) /\ First(j)
    BY <1>2
  <2>2. ~(i < j)
    <3>1. i < j => i \in 1 .. j - 1
      BY <1>2, <2>1
    <3> QED
      BY <1>3, <2>1, <3>1
  <2>3. ~(j < i)
    <3>1. j < i => j \in 1 .. i - 1
      BY <1>2, <2>1
    <3> QED
      BY <1>3, <2>1, <3>1
  <2> QED
    BY <1>2, <2>1, <2>2, <2>3
<1>4. I \subseteq DOMAIN cs
  OBVIOUS
<1>5. Told(cs) => \A i \in DOMAIN cs : First(i)
  <2> SUFFICES ASSUME Told(cs), NEW i \in 1 .. Len(cs), NEW j \in 1 .. i - 1 PROVE cs[j].hash # cs[i].hash
    BY <1>2
  <2>1. j \in 1 .. Len(cs) /\ j # i
    BY <1>2
  <2> QED
    BY <1>2, <2>1 DEF Told
<1>6. Picked(cs, I) \in Seq(S) /\ Range(Picked(cs, I)) = {cs[i] : i \in DOMAIN cs \cap I}
  <2> HIDE DEF I
  <2> QED
    BY PickedRange
<1>7. Distinct(Picked(cs, I))
  <2>1. \A i, j \in DOMAIN cs \cap I : cs[i] = cs[j] => i = j
    BY <1>3
  <2> HIDE DEF I
  <2> QED
    BY <2>1, PickedDistinct
<1>8. {cs[i] : i \in DOMAIN cs \cap I} \subseteq Range(cs)
  BY DEF Range
<1>9. Told(cs) => {cs[i] : i \in DOMAIN cs \cap I} = {c \in Range(cs) : c.type # "Merge"}
  BY <1>5 DEF Range
<1> QED
  BY <1>1, <1>6, <1>7, <1>8, <1>9

LEMMA CategoryKnown == \A c : CategoryOf(c) \in Categories
<1>1. ASSUME NEW t \in DOMAIN TypeToCategory
      PROVE  TypeToCategory[t] \in {"Added", "Fixed", "Changed", "Deprecated", "Removed", "Security"}
  BY DEF TypeToCategory
<1>2. \A x \in {"Added", "Fixed", "Changed", "Deprecated", "Removed", "Security"} : x \in Categories
  <2>1. /\ CategoryOrder[1] = "Added" /\ CategoryOrder[2] = "Changed" /\ CategoryOrder[3] = "Deprecated"
        /\ CategoryOrder[4] = "Removed" /\ CategoryOrder[5] = "Fixed" /\ CategoryOrder[6] = "Security"
    BY DEF CategoryOrder
  <2>2. \A r \in 1 .. 7 : CategoryOrder[r] \in Categories
    BY Order
  <2>3. 1 \in 1 .. 7 /\ 2 \in 1 .. 7 /\ 3 \in 1 .. 7 /\ 4 \in 1 .. 7 /\ 5 \in 1 .. 7 /\ 6 \in 1 .. 7
    OBVIOUS
  <2>4. /\ CategoryOrder[1] \in Categories /\ CategoryOrder[2] \in Categories /\ CategoryOrder[3] \in Categories
        /\ CategoryOrder[4] \in Categories /\ CategoryOrder[5] \in Categories /\ CategoryOrder[6] \in Categories
    BY <2>2, <2>3
  <2>5. /\ "Added" \in Categories /\ "Changed" \in Categories /\ "Deprecated" \in Categories
        /\ "Removed" \in Categories /\ "Fixed" \in Categories /\ "Security" \in Categories
    BY <2>1, <2>4, Zenon
  <2> QED
    BY <2>5
<1> QED
  BY <1>1, <1>2, Order DEF CategoryOf

LEMMA EntriesOfList ==
  ASSUME NEW s, NEW cs, IsList(cs), DOMAIN s = DOMAIN cs, s = [i \in DOMAIN cs |-> s[i]]
  PROVE  IsList(s)
<1> DEFINE n == Len(cs)
<1>1. n \in Nat /\ DOMAIN cs = 1 .. n
  BY ListIs
<1> HIDE DEF n
<1> QED
  BY <1>1, ListOf

(* The lines of the deterministic changelog, by the commits it lists *)
LEMMA DeterministicIs ==
  ASSUME NEW S, NEW cs \in Seq(S), NEW T, NEW required \in Seq(T)
  PROVE  LET a == Deterministic(cs, required)
             listed == Range(Listed(cs))
         IN  /\ IsArt(a) /\ MissingOK(a, required)
             /\ \A name \in Categories : \A n \in DOMAIN a.categories[name] :
                  \E c \in listed : /\ CategoryOf(c) = name /\ a.categories[name][n].hashes = Shorts(c)
                                    /\ a.categories[name][n].breaking = BreakingCommit(c)
             /\ \A c \in listed : \E n \in DOMAIN a.categories[CategoryOf(c)] :
                  a.categories[CategoryOf(c)][n].hashes = Shorts(c)
             /\ Told(cs) => \A name \in Categories : \A n, m \in DOMAIN a.categories[name] :
                  a.categories[name][n].hashes = a.categories[name][m].hashes => n = m
             /\ \A b \in Range(a.breaking) : \E c \in listed : BreakingCommit(c) /\ b.hashes = Shorts(c)
             /\ \A c \in listed : BreakingCommit(c) => \E b \in Range(a.breaking) : b.hashes = Shorts(c)
<1> DEFINE a == Deterministic(cs, required)
           l == Listed(cs)
           J(name) == {i \in DOMAIN l : CategoryOf(l[i]) = name}
           In(name) == Picked(l, J(name))
           B == {i \in DOMAIN l : BreakingCommit(l[i])}
           broken == Picked(l, B)
           Marked(s) == [i \in DOMAIN s |-> Entry(<<Short(s[i].hash)>>, SubjectOf(s[i]), BreakingCommit(s[i]))]
           marked == [i \in DOMAIN broken |-> Entry(<<Short(broken[i].hash)>>, BreakingText(broken[i]), TRUE)]
           art0 == [categories |-> [name \in Categories |-> Marked(In(name))], breaking |-> marked]
<1>1. a = WithMissing(art0, required)
  BY DEF Deterministic
<1>2. l \in Seq(S) /\ Distinct(l) /\ Range(l) \subseteq Range(cs)
  BY ListedIs
<1>3. /\ MissingOK(a, required) /\ DOMAIN a.categories = Categories
      /\ a.categories = [name \in Categories |-> Marked(In(name))] /\ a.breaking = marked
  <2>1. art0.categories = [name \in Categories |-> Marked(In(name))] /\ art0.breaking = marked
    OBVIOUS
  <2> HIDE DEF art0, a, marked, Marked
  <2>2. MissingOK(a, required) /\ a.categories = art0.categories /\ a.breaking = art0.breaking
    BY <1>1, MissingIs
  <2> QED
    BY <2>1, <2>2
<1> HIDE DEF a, l, J, B
<1>4. ASSUME NEW name
      PROVE  /\ In(name) \in Seq(S) /\ Distinct(In(name)) /\ Range(In(name)) = {c \in Range(l) : CategoryOf(c) = name}
  <2>1. In(name) \in Seq(S) /\ Range(In(name)) = {l[i] : i \in DOMAIN l \cap J(name)}
    BY <1>2, PickedRange
  <2>2. Distinct(In(name))
    BY <1>2, PickedDistinct DEF Distinct
  <2>3. {l[i] : i \in DOMAIN l \cap J(name)} = {c \in Range(l) : CategoryOf(c) = name}
    BY DEF Range, J
  <2> QED
    BY <2>1, <2>2, <2>3
<1>5. broken \in Seq(S) /\ Range(broken) = {c \in Range(l) : BreakingCommit(c)}
  <2>1. broken \in Seq(S) /\ Range(broken) = {l[i] : i \in DOMAIN l \cap B}
    BY <1>2, PickedRange
  <2>2. {l[i] : i \in DOMAIN l \cap B} = {c \in Range(l) : BreakingCommit(c)}
    BY DEF Range, B
  <2> QED
    BY <2>1, <2>2
<1> HIDE DEF In, broken
<1>6. ASSUME NEW name \in Categories
      PROVE  /\ IsList(a.categories[name]) /\ DOMAIN a.categories[name] = DOMAIN In(name)
             /\ \A n \in DOMAIN In(name) : /\ a.categories[name][n].hashes = Shorts(In(name)[n])
                                           /\ a.categories[name][n].breaking = BreakingCommit(In(name)[n])
  <2> DEFINE s == a.categories[name]
             f == In(name)
  <2>1. s = Marked(f)
    BY <1>3
  <2>2. IsList(f)
    BY <1>4, SeqIsList
  <2>3. \A n \in DOMAIN f : s[n].hashes = Shorts(f[n]) /\ s[n].breaking = BreakingCommit(f[n])
    BY <2>1 DEF Entry, Shorts
  <2>4. DOMAIN s = DOMAIN f /\ s = [i \in DOMAIN f |-> s[i]]
    BY <2>1
  <2> HIDE DEF s, f
  <2>5. IsList(s)
    BY <2>2, <2>4, EntriesOfList
  <2> QED
    BY <2>3, <2>4, <2>5 DEF s, f
<1>7. /\ IsList(a.breaking) /\ DOMAIN a.breaking = DOMAIN broken
      /\ \A n \in DOMAIN broken : a.breaking[n].hashes = Shorts(broken[n])
  <2> DEFINE s == a.breaking
  <2>1. s = marked
    BY <1>3
  <2>2. IsList(broken)
    BY <1>5, SeqIsList
  <2>3. \A n \in DOMAIN broken : s[n].hashes = Shorts(broken[n])
    BY <2>1 DEF Entry, Shorts
  <2>4. DOMAIN s = DOMAIN broken /\ s = [i \in DOMAIN broken |-> s[i]]
    BY <2>1
  <2> HIDE DEF s
  <2>5. IsList(s)
    BY <2>2, <2>4, EntriesOfList
  <2> QED
    BY <2>3, <2>4, <2>5 DEF s
<1>8. IsArt(a)
  BY <1>3, <1>6, <1>7 DEF IsArt
<1>9. ASSUME NEW name \in Categories, NEW n \in DOMAIN a.categories[name]
      PROVE  \E c \in Range(l) : /\ CategoryOf(c) = name /\ a.categories[name][n].hashes = Shorts(c)
                                 /\ a.categories[name][n].breaking = BreakingCommit(c)
  <2>1. n \in DOMAIN In(name) /\ In(name)[n] \in Range(In(name))
    BY <1>6 DEF Range
  <2> QED
    BY <1>4, <1>6, <2>1
<1>10. ASSUME NEW c \in Range(l)
       PROVE  \E n \in DOMAIN a.categories[CategoryOf(c)] : a.categories[CategoryOf(c)][n].hashes = Shorts(c)
  <2> DEFINE name == CategoryOf(c)
  <2>1. name \in Categories /\ c \in Range(In(name))
    BY <1>4, CategoryKnown
  <2>2. PICK n \in DOMAIN In(name) : In(name)[n] = c
    BY <2>1 DEF Range
  <2> QED
    BY <1>6, <2>1, <2>2
<1>11. ASSUME Told(cs), NEW name \in Categories, NEW n \in DOMAIN a.categories[name],
              NEW m \in DOMAIN a.categories[name], a.categories[name][n].hashes = a.categories[name][m].hashes
       PROVE  n = m
  <2> DEFINE f == In(name)
  <2>1. n \in DOMAIN f /\ m \in DOMAIN f /\ Shorts(f[n]) = Shorts(f[m])
    <3>1. n \in DOMAIN f /\ m \in DOMAIN f
      BY <1>6
    <3>2. a.categories[name][n].hashes = Shorts(f[n]) /\ a.categories[name][m].hashes = Shorts(f[m])
      BY <1>6, <3>1
    <3>3. a.categories[name][n].hashes = a.categories[name][m].hashes
      BY <1>11
    <3> QED
      BY <3>1, <3>2, <3>3, Zenon
  <2>2. f[n] \in Range(cs) /\ f[m] \in Range(cs)
    <3>1. f[n] \in Range(f) /\ f[m] \in Range(f)
      BY <2>1 DEF Range
    <3>2. Range(f) \subseteq Range(l)
      BY <1>4
    <3> HIDE DEF f
    <3> QED
      BY <1>2, <3>1, <3>2
  <2>3. Short(f[n].hash) = Short(f[m].hash)
    BY <2>1 DEF Shorts
  <2>4. f[n] = f[m]
    <3>1. PICK i \in DOMAIN cs, j \in DOMAIN cs : cs[i] = f[n] /\ cs[j] = f[m]
      BY <2>2 DEF Range
    <3> QED
      BY <1>11, <2>3, <3>1 DEF Told
  <2> QED
    BY <1>4, <2>1, <2>4 DEF Distinct
<1>12. ASSUME NEW b \in Range(a.breaking)
       PROVE  \E c \in Range(l) : BreakingCommit(c) /\ b.hashes = Shorts(c)
  <2>1. PICK n \in DOMAIN broken : b = a.breaking[n]
    BY <1>7 DEF Range
  <2>2. broken[n] \in Range(broken)
    BY DEF Range
  <2> QED
    BY <1>5, <1>7, <2>1, <2>2
<1>13. ASSUME NEW c \in Range(l), BreakingCommit(c)
       PROVE  \E b \in Range(a.breaking) : b.hashes = Shorts(c)
  <2>1. PICK n \in DOMAIN broken : broken[n] = c
    BY <1>5, <1>13 DEF Range
  <2>2. a.breaking[n] \in Range(a.breaking)
    BY <1>7 DEF Range
  <2> QED
    BY <1>7, <2>1, <2>2
<1> QED
  BY <1>3, <1>8, <1>9, <1>10, <1>11, <1>12, <1>13 DEF a, l

-----------------------------------------------------------------------------
(* The runs *)

AllCommits == Incoming \cup UNION {Range(s.commits) : s \in Scenarios}

WorldInv ==
  /\ EnvOK(env) /\ \A l \in lines : LineOK(l)
  /\ history \in Seq(AllCommits) /\ tags \subseteq 1 .. Len(history)
  /\ moves \in 0 .. MaxMoves /\ runs \in 0 .. MaxRuns

(* An entry of the cache is kept under the prompt it answered. *)
StoreInv == \A k \in DOMAIN store : store[k] \in [content : Answers \cup {Junk}, prompt : {k[4]}]

Started == {"load", "range", "log", "changelog", "lookup", "estimate", "guard", "call"}
AsksModel == {"lookup", "estimate", "guard", "call", "store"}
Labels == Started \cup {"idle", "store", "render"}

DataInv ==
  /\ pc \in Labels /\ inv \in lines \cup {NoLine} /\ (pc # "idle" => inv \in lines)
  /\ DOMAIN cfg = DOMAIN Unset /\ from \in Nat /\ Range(commits) \subseteq Range(history)
  /\ content \in Answers \cup {<<>>, Junk} /\ hit \in BOOLEAN
  /\ DOMAIN art.categories = Categories
  /\ out \in {"nothing", "estimate", "changelog", "part"} /\ exit \in {"none", "0", "1"}
  /\ Configured => cfg = Loaded(env, inv.flags) /\ Loads(env, inv.flags)

(* Nothing is asked, found or shown before its place. *)
PlaceInv ==
  /\ pc \in Started => content = <<>> /\ ~hit /\ asked = <<>>
  /\ pc # "idle" => out = "nothing" /\ exit = "none"
  /\ pc = "store" => ~hit /\ content \in Answers
  /\ pc = "idle" /\ content # <<>> => out \in {"changelog", "part"}
  /\ exit = "0" => out \in {"changelog", "estimate"}
  /\ exit = "1" => out \in {"nothing", "part"}
  /\ pc = "render" /\ hit => Key \in DOMAIN store

(* What the checks on the way have established. *)
May(c, i, cs) == i.ai /\ ~i.dryRun /\ cs # <<>> /\ ~OfflineMode(c) /\ Constructs(c) /\ ~ExceedsBudget(c, Estimate)
GuardInv ==
  /\ pc \in AsksModel => inv.ai /\ commits # <<>> /\ ~OfflineMode(cfg)
  /\ pc \in {"guard", "call", "store"} => ~inv.dryRun
  /\ pc \in {"call", "store"} => May(cfg, inv, commits)
  /\ asked # <<>> =>
       /\ asked = <<[url |-> Endpoint(cfg), auth |-> Auth(cfg)]>> /\ ~hit /\ May(cfg, inv, commits)
       /\ inv \in lines /\ cfg = Loaded(env, inv.flags) /\ Loads(env, inv.flags)

ChangelogInv == WorldInv /\ StoreInv /\ DataInv /\ PlaceInv /\ GuardInv

-----------------------------------------------------------------------------
LEMMA ScenarioOK ==
  ASSUME NEW s \in Scenarios
  PROVE  /\ EnvOK(s.env) /\ \A l \in s.lines : LineOK(l)
         /\ s.commits \in Seq(AllCommits) /\ s.tags \subseteq 1 .. Len(s.commits)
<1>1. EnvOK(s.env) /\ \A l \in s.lines : LineOK(l)
  BY ScenariosAssumption DEF EnvOK, LineOK, FlagsOK
<1>2. s.commits \in Seq(Range(s.commits)) /\ s.tags \subseteq 1 .. Len(s.commits)
  BY ScenariosAssumption
<1> DEFINE S == Range(s.commits)
<1>3. S \subseteq AllCommits
  BY DEF AllCommits
<1> HIDE DEF S
<1>4. s.commits \in Seq(AllCommits)
  BY <1>2, <1>3 DEF S
<1> QED
  BY <1>1, <1>2, <1>4

LEMMA ArtifactKeys ==
  ASSUME NEW cs, NEW p, NEW r
  PROVE  /\ DOMAIN Deterministic(cs, r).categories = Categories
         /\ DOMAIN AIArtifact(cs, p, r).categories = Categories
<1>1. DOMAIN Deterministic(cs, r).categories = Categories
  BY DEF Deterministic, WithMissing
<1>2. DOMAIN AIArtifact(cs, p, r).categories = Categories
  BY DEF AIArtifact, WithMissing, AIEntries
<1> QED
  BY <1>1, <1>2

LEMMA LogRange ==
  ASSUME NEW S, NEW h \in Seq(S), NEW n \in Nat, n <= Len(h)
  PROVE  Range(Reverse(SubSeq(h, n + 1, Len(h)))) \subseteq Range(h)
<1> DEFINE t == SubSeq(h, n + 1, Len(h))
<1>1. Len(t) = Len(h) - n /\ \A i \in 1 .. Len(t) : t[i] = h[n + i] /\ n + i \in 1 .. Len(h)
  <2> DEFINE m == Len(h)
  <2>1. m \in Nat /\ n + 1 \in 1 .. m + 1
    OBVIOUS
  <2>2. Len(SubSeq(h, n + 1, m)) = m - n
    BY <2>1
  <2>3. \A i \in 1 .. m - n : SubSeq(h, n + 1, m)[i] = h[n + i] /\ n + i \in 1 .. m
    BY <2>1
  <2> QED
    BY <2>2, <2>3
<1>2. DOMAIN h = 1 .. Len(h) /\ Len(h) \in Nat
  OBVIOUS
<1> HIDE DEF t
<1>3. DOMAIN Reverse(t) = 1 .. Len(t)
      /\ \A i \in 1 .. Len(t) : Reverse(t)[i] = t[Len(t) - i + 1] /\ Len(t) - i + 1 \in 1 .. Len(t)
  BY <1>1, <1>2 DEF Reverse
<1>4. \A i \in DOMAIN Reverse(t) : \E j \in DOMAIN h : Reverse(t)[i] = h[j]
  <2> SUFFICES ASSUME NEW i \in 1 .. Len(t) PROVE \E j \in DOMAIN h : Reverse(t)[i] = h[j]
    BY <1>3
  <2> DEFINE m == Len(t) - i + 1
  <2>1. m \in 1 .. Len(t) /\ Reverse(t)[i] = t[m]
    BY <1>3
  <2> HIDE DEF m
  <2>2. t[m] = h[n + m] /\ n + m \in DOMAIN h
    BY <1>1, <1>2, <2>1
  <2> QED
    BY <2>1, <2>2
<1> QED
  BY <1>4 DEF t, Range

LEMMA InitInv == Init => ChangelogInv
<1> SUFFICES ASSUME Init PROVE ChangelogInv
  OBVIOUS
<1>1. PICK s \in Scenarios : lines = s.lines /\ env = s.env /\ history = s.commits /\ tags = s.tags
  BY DEF Init
<1>2. WorldInv
  <2>1. EnvOK(env) /\ \A l \in lines : LineOK(l)
    BY <1>1, ScenarioOK
  <2>2. history \in Seq(AllCommits) /\ tags \subseteq 1 .. Len(history)
    BY <1>1, ScenarioOK
  <2>3. moves \in 0 .. MaxMoves /\ runs \in 0 .. MaxRuns
    BY BoundsAssumption DEF Init
  <2> QED
    BY <2>1, <2>2, <2>3 DEF WorldInv
<1>3. StoreInv
  BY DEF Init, StoreInv
<1>4. DataInv
  <2>1. DOMAIN art.categories = Categories
    BY ArtifactKeys DEF Init, NoArtifact
  <2>2. Range(commits) \subseteq Range(history)
    BY DEF Init, Range
  <2>3. ~Configured
    BY DEF Init, Configured
  <2> QED
    BY <2>1, <2>2, <2>3 DEF Init, DataInv, Labels
<1>5. PlaceInv
  BY DEF Init, PlaceInv, Started
<1>6. GuardInv
  BY DEF Init, GuardInv, AsksModel
<1> QED
  BY <1>2, <1>3, <1>4, <1>5, <1>6 DEF ChangelogInv

LEMMA RunStepFrame == RunStep => UNCHANGED <<lines, env, repo, runs>> /\ (UNCHANGED store \/ Store)
<1> SUFFICES ASSUME RunStep PROVE UNCHANGED <<lines, env, repo, runs>> /\ (UNCHANGED store \/ Store)
  OBVIOUS
<1>1. CASE LoadConfig
  BY <1>1 DEF LoadConfig, repo
<1>2. CASE ConfigRejected
  BY <1>2 DEF ConfigRejected, repo
<1>3. CASE ResolveRange
  BY <1>3 DEF ResolveRange, repo
<1>4. CASE Log
  BY <1>4 DEF Log, repo
<1>5. CASE LogFails
  BY <1>5 DEF LogFails, repo
<1>6. CASE RunsDeterministic
  BY <1>6 DEF RunsDeterministic, repo
<1>7. CASE BuildPrompt
  BY <1>7 DEF BuildPrompt, repo
<1>8. CASE BuildPromptFails
  BY <1>8 DEF BuildPromptFails, repo
<1>9. CASE LookupHit
  BY <1>9 DEF LookupHit, repo
<1>10. CASE LookupMiss
  BY <1>10 DEF LookupMiss, repo
<1>11. CASE PrintDryRun
  BY <1>11 DEF PrintDryRun, repo
<1>12. CASE GuardPasses
  BY <1>12 DEF GuardPasses, repo
<1>13. CASE GuardFails
  BY <1>13 DEF GuardFails, repo
<1>14. CASE CallFails
  BY <1>14 DEF CallFails, repo
<1>15. CASE CallAnswers
  BY <1>15 DEF CallAnswers, repo
<1>16. CASE CallAnswersBadly
  BY <1>16 DEF CallAnswersBadly, repo
<1>17. CASE Store
  BY <1>17 DEF Store, repo
<1>18. CASE Render
  BY <1>18 DEF Render, repo
<1> QED
  BY <1>1, <1>2, <1>3, <1>4, <1>5, <1>6, <1>7, <1>8, <1>9, <1>10, <1>11, <1>12, <1>13, <1>14, <1>15, <1>16, <1>17, <1>18 DEF RunStep

LEMMA WorldStep == WorldInv /\ [Next]_vars => WorldInv'
<1> SUFFICES ASSUME WorldInv, [Next]_vars PROVE WorldInv'
  OBVIOUS
<1>1. ASSUME UNCHANGED <<lines, env, repo, runs>> PROVE WorldInv'
  BY <1>1 DEF WorldInv, repo
<1>2. CASE Invoke
  BY <1>2, BoundsAssumption DEF Invoke, WorldInv, repo
<1>3. CASE CommitArrives
  <2>1. PICK c \in Incoming : history' = Append(history, c)
    BY <1>3 DEF CommitArrives
  <2>2. c \in AllCommits
    BY DEF AllCommits
  <2>3. history' \in Seq(AllCommits) /\ Len(history') = Len(history) + 1 /\ tags' \subseteq 1 .. Len(history')
    BY <1>3, <2>1, <2>2 DEF WorldInv, CommitArrives
  <2>4. UNCHANGED <<lines, env, runs>> /\ moves' \in 0 .. MaxMoves
    BY <1>3, BoundsAssumption DEF WorldInv, CommitArrives
  <2> QED
    BY <2>3, <2>4 DEF WorldInv
<1>4. CASE TagArrives
  <2>1. UNCHANGED <<lines, env, runs, history>> /\ moves' \in 0 .. MaxMoves
    BY <1>4, BoundsAssumption DEF WorldInv, TagArrives
  <2>2. tags' = tags \cup {Len(history)} /\ history # <<>>
    BY <1>4 DEF TagArrives
  <2>3. Len(history) \in 1 .. Len(history)
    BY <2>2 DEF WorldInv
  <2> QED
    BY <2>1, <2>2, <2>3 DEF WorldInv
<1>5. CASE RunStep
  BY <1>1, <1>5, RunStepFrame
<1>6. CASE Forgets \/ Spoils \/ UNCHANGED vars
  BY <1>1, <1>6 DEF Forgets, Spoils, vars
<1> QED
  BY <1>2, <1>3, <1>4, <1>5, <1>6 DEF Next

LEMMA StoreStep == StoreInv /\ PlaceInv /\ [Next]_vars => StoreInv'
<1> SUFFICES ASSUME StoreInv, PlaceInv, [Next]_vars PROVE StoreInv'
  OBVIOUS
<1>1. ASSUME UNCHANGED store PROVE StoreInv'
  BY <1>1 DEF StoreInv
<1>2. CASE Forgets
  BY <1>2 DEF Forgets, StoreInv, Restrict
<1>3. CASE Spoils
  <2>1. PICK k \in DOMAIN store : store' = [store EXCEPT ![k].content = Junk]
    BY <1>3 DEF Spoils
  <2>2. DOMAIN store' = DOMAIN store
    BY <2>1
  <2>3. ASSUME NEW j \in DOMAIN store
        PROVE  store'[j] \in [content : Answers \cup {Junk}, prompt : {j[4]}]
    <3>1. CASE j # k
      BY <2>1, <2>3, <3>1 DEF StoreInv
    <3>2. CASE j = k
      <4>1. store'[k] = [store[k] EXCEPT !.content = Junk]
        BY <2>1
      <4> QED
        BY <3>2, <4>1 DEF StoreInv
    <3> QED
      BY <3>1, <3>2
  <2> QED
    BY <2>2, <2>3 DEF StoreInv
<1>4. CASE Store
  <2>1. content \in Answers
    BY <1>4 DEF Store, Goes, PlaceInv
  <2>2. Key[4] = Prompt
    BY DEF Key
  <2>3. \/ UNCHANGED store
        \/ /\ DOMAIN store' = DOMAIN store \cup {Key}
           /\ \A k \in DOMAIN store' :
                store'[k] = IF k = Key THEN [content |-> content, prompt |-> Prompt] ELSE store[k]
    BY <1>4 DEF Store
  <2> QED
    BY <1>1, <2>1, <2>2, <2>3 DEF StoreInv
<1>5. CASE RunStep
  BY <1>1, <1>4, <1>5, RunStepFrame
<1>6. CASE Invoke \/ CommitArrives \/ TagArrives \/ UNCHANGED vars
  BY <1>1, <1>6 DEF Invoke, CommitArrives, TagArrives, vars
<1> QED
  BY <1>2, <1>3, <1>5, <1>6 DEF Next

LEMMA DataStep == ChangelogInv /\ [Next]_vars => DataInv'
<1> SUFFICES ASSUME ChangelogInv, [Next]_vars PROVE DataInv'
  OBVIOUS
<1> USE DEF ChangelogInv, DataInv, Configured, Goes, Ends, Fails, Labels, Started, repo, run, result
<1>1. CASE Invoke
  <2>1. DOMAIN art'.categories = Categories
    BY <1>1, ArtifactKeys DEF Invoke, NoArtifact
  <2>2. Range(commits') \subseteq Range(history')
    BY <1>1 DEF Invoke, Range
  <2> QED
    BY <1>1, <2>1, <2>2 DEF Invoke
<1>2. CASE LoadConfig
  <2>1. DOMAIN cfg' = DOMAIN Unset
    BY ZenonT(40), <1>2, LoadedValue DEF LoadConfig, WorldInv, LineOK, Values
  <2> QED
    BY <1>2, <2>1 DEF LoadConfig
<1>3. CASE ConfigRejected
  BY <1>3 DEF ConfigRejected
<1>4. CASE ResolveRange
  <2>1. from' \in Nat
    <3>1. Max(tags \cup {0}) \in Nat
      <4>1. tags \cup {0} \in SUBSET (0 .. Len(history)) /\ Len(history) \in Nat
        BY DEF WorldInv
      <4> DEFINE S == tags \cup {0}
                 b == Len(history)
      <4>2. S # {}
        OBVIOUS
      <4>3. S \in SUBSET (0 .. b) /\ b \in Nat
        BY <4>1
      <4> HIDE DEF S, b
      <4>4. Max(S) \in S
        BY <4>2, <4>3, MaxExists
      <4> QED
        BY <4>3, <4>4 DEF S
    <3>2. inv.range \subseteq Nat
      BY <1>4 DEF ResolveRange, WorldInv, LineOK
    <3> QED
      BY <1>4, <3>1, <3>2 DEF ResolveRange
  <2> QED
    BY <1>4, <2>1 DEF ResolveRange
<1>5. CASE Log
  <2>1. Range(commits') \subseteq Range(history)
    BY <1>5, LogRange DEF Log, WorldInv
  <2> QED
    BY <1>5, <2>1 DEF Log
<1>6. CASE LogFails
  BY <1>6 DEF LogFails
<1>7. CASE RunsDeterministic
  BY <1>7, ArtifactKeys DEF RunsDeterministic
<1>8. CASE BuildPrompt
  BY <1>8 DEF BuildPrompt
<1>9. CASE BuildPromptFails
  BY <1>9 DEF BuildPromptFails
<1>10. CASE LookupHit
  BY <1>10, ArtifactKeys DEF LookupHit, StoreInv
<1>11. CASE LookupMiss
  BY <1>11 DEF LookupMiss
<1>12. CASE PrintDryRun
  BY <1>12 DEF PrintDryRun
<1>13. CASE GuardPasses
  BY <1>13 DEF GuardPasses
<1>14. CASE GuardFails
  BY <1>14 DEF GuardFails
<1>15. CASE CallFails
  BY <1>15 DEF CallFails
<1>16. CASE CallAnswers
  BY <1>16, ArtifactKeys DEF CallAnswers
<1>17. CASE CallAnswersBadly
  BY <1>17, ArtifactKeys DEF CallAnswersBadly
<1>18. CASE Store
  BY <1>18 DEF Store
<1>19. CASE Render
  BY <1>19 DEF Render
<1>20. CASE CommitArrives
  <2>1. Range(history) \subseteq Range(history')
    BY <1>20 DEF CommitArrives, WorldInv, Range
  <2> QED
    BY <1>20, <2>1 DEF CommitArrives
<1>21. CASE TagArrives
  BY <1>21 DEF TagArrives
<1>22. CASE Forgets
  BY <1>22 DEF Forgets
<1>23. CASE Spoils
  BY <1>23 DEF Spoils
<1>24. CASE UNCHANGED vars
  BY <1>24 DEF vars
<1> QED
  BY <1>1, <1>2, <1>3, <1>4, <1>5, <1>6, <1>7, <1>8, <1>9, <1>10, <1>11, <1>12, <1>13, <1>14, <1>15, <1>16, <1>17, <1>18, <1>19, <1>20, <1>21, <1>22, <1>23, <1>24 DEF Next, RunStep


LEMMA PlaceStep == ChangelogInv /\ [Next]_vars => PlaceInv'
<1> SUFFICES ASSUME ChangelogInv, [Next]_vars PROVE PlaceInv'
  OBVIOUS
<1> USE DEF ChangelogInv, PlaceInv, Goes, Ends, Fails, Started, repo, run, result, Key, Prompt
<1>1. CASE Invoke
  BY <1>1 DEF Invoke
<1>2. CASE LoadConfig
  BY <1>2 DEF LoadConfig
<1>3. CASE ConfigRejected
  BY <1>3 DEF ConfigRejected
<1>4. CASE ResolveRange
  BY <1>4 DEF ResolveRange
<1>5. CASE Log
  BY <1>5 DEF Log
<1>6. CASE LogFails
  BY <1>6 DEF LogFails
<1>7. CASE RunsDeterministic
  BY <1>7 DEF RunsDeterministic
<1>8. CASE BuildPrompt
  BY <1>8 DEF BuildPrompt
<1>9. CASE BuildPromptFails
  BY <1>9 DEF BuildPromptFails
<1>10. CASE LookupHit
  BY <1>10 DEF LookupHit
<1>11. CASE LookupMiss
  BY <1>11 DEF LookupMiss
<1>12. CASE PrintDryRun
  BY <1>12 DEF PrintDryRun
<1>13. CASE GuardPasses
  BY <1>13 DEF GuardPasses
<1>14. CASE GuardFails
  BY <1>14 DEF GuardFails
<1>15. CASE CallFails
  BY <1>15 DEF CallFails
<1>16. CASE CallAnswers
  BY <1>16 DEF CallAnswers
<1>17. CASE CallAnswersBadly
  BY <1>17 DEF CallAnswersBadly
<1>18. CASE Store
  BY <1>18 DEF Store
<1>19. CASE Render
  <2>1. cfg.format \in {"md", "text", "json", ""}
    <3>1. EnvOK(env) /\ FlagsOK(inv.flags) /\ Loads(env, inv.flags) /\ cfg = Loaded(env, inv.flags)
      BY <1>19 DEF Render, DataInv, Configured, WorldInv, LineOK
    <3> QED
      BY <3>1, LoadedValue DEF Values
  <2> QED
    BY <1>19, <2>1 DEF Render
<1>20. CASE CommitArrives
  BY <1>20 DEF CommitArrives
<1>21. CASE TagArrives
  BY <1>21 DEF TagArrives
<1>22. CASE Forgets
  BY <1>22 DEF Forgets
<1>23. CASE Spoils
  BY <1>23 DEF Spoils
<1>24. CASE UNCHANGED vars
  BY <1>24 DEF vars
<1> QED
  BY <1>1, <1>2, <1>3, <1>4, <1>5, <1>6, <1>7, <1>8, <1>9, <1>10, <1>11, <1>12, <1>13, <1>14, <1>15, <1>16, <1>17, <1>18, <1>19, <1>20, <1>21, <1>22, <1>23, <1>24 DEF Next, RunStep


LEMMA GuardStep == ChangelogInv /\ [Next]_vars => GuardInv'
<1> SUFFICES ASSUME ChangelogInv, [Next]_vars PROVE GuardInv'
  OBVIOUS
<1> USE DEF ChangelogInv, GuardInv, PlaceInv, Goes, Ends, Fails, Started, AsksModel, May, AI, repo, run, result
<1>1. CASE Invoke
  BY <1>1 DEF Invoke
<1>2. CASE LoadConfig
  BY <1>2 DEF LoadConfig
<1>3. CASE ConfigRejected
  BY <1>3 DEF ConfigRejected
<1>4. CASE ResolveRange
  BY <1>4 DEF ResolveRange
<1>5. CASE Log
  BY <1>5 DEF Log
<1>6. CASE LogFails
  BY <1>6 DEF LogFails
<1>7. CASE RunsDeterministic
  BY <1>7 DEF RunsDeterministic
<1>8. CASE BuildPrompt
  BY <1>8 DEF BuildPrompt
<1>9. CASE BuildPromptFails
  BY <1>9 DEF BuildPromptFails
<1>10. CASE LookupHit
  BY <1>10 DEF LookupHit
<1>11. CASE LookupMiss
  BY <1>11 DEF LookupMiss
<1>12. CASE PrintDryRun
  BY <1>12 DEF PrintDryRun
<1>13. CASE GuardPasses
  BY <1>13 DEF GuardPasses
<1>14. CASE GuardFails
  BY <1>14 DEF GuardFails
<1>15. CASE CallFails
  <2>1. asked' = <<[url |-> Endpoint(cfg), auth |-> Auth(cfg)]>>
    BY <1>15 DEF CallFails, Asks
  <2>2. inv \in lines /\ cfg = Loaded(env, inv.flags) /\ Loads(env, inv.flags)
    BY <1>15 DEF CallFails, DataInv, Configured
  <2> QED
    BY <1>15, <2>1, <2>2 DEF CallFails
<1>16. CASE CallAnswers
  <2>1. asked' = <<[url |-> Endpoint(cfg), auth |-> Auth(cfg)]>>
    BY <1>16 DEF CallAnswers, Asks
  <2>2. inv \in lines /\ cfg = Loaded(env, inv.flags) /\ Loads(env, inv.flags)
    BY <1>16 DEF CallAnswers, DataInv, Configured
  <2> QED
    BY <1>16, <2>1, <2>2 DEF CallAnswers
<1>17. CASE CallAnswersBadly
  <2>1. asked' = <<[url |-> Endpoint(cfg), auth |-> Auth(cfg)]>>
    BY <1>17 DEF CallAnswersBadly, Asks
  <2>2. inv \in lines /\ cfg = Loaded(env, inv.flags) /\ Loads(env, inv.flags)
    BY <1>17 DEF CallAnswersBadly, DataInv, Configured
  <2> QED
    BY <1>17, <2>1, <2>2 DEF CallAnswersBadly
<1>18. CASE Store
  BY <1>18 DEF Store
<1>19. CASE Render
  BY <1>19 DEF Render
<1>20. CASE CommitArrives
  BY <1>20 DEF CommitArrives
<1>21. CASE TagArrives
  BY <1>21 DEF TagArrives
<1>22. CASE Forgets
  BY <1>22 DEF Forgets
<1>23. CASE Spoils
  BY <1>23 DEF Spoils
<1>24. CASE UNCHANGED vars
  BY <1>24 DEF vars
<1> QED
  BY <1>1, <1>2, <1>3, <1>4, <1>5, <1>6, <1>7, <1>8, <1>9, <1>10, <1>11, <1>12, <1>13, <1>14, <1>15, <1>16, <1>17, <1>18, <1>19, <1>20, <1>21, <1>22, <1>23, <1>24 DEF Next, RunStep

THEOREM ChangelogInvariant == Spec => []ChangelogInv
<1>1. ChangelogInv /\ [Next]_vars => ChangelogInv'
  BY WorldStep, StoreStep, DataStep, PlaceStep, GuardStep DEF ChangelogInv
<1> QED
  BY InitInv, <1>1, PTL DEF Spec

-----------------------------------------------------------------------------
(* Money is spent once: SpendsAndShows, whoever commits, tags or meddles   *)
(* with the cache, whatever the settings are and whatever is answered.     *)
THEOREM SpendsAndShowsHolds == Spec => []SpendsAndShows
<1>1. ChangelogInv => SpendsAndShows
  <2> SUFFICES ASSUME ChangelogInv PROVE SpendsAndShows
    OBVIOUS
  <2>1. HitAnswersThis
    <3>1. Key[4] = Prompt
      BY DEF Key
    <3> QED
      BY <3>1 DEF ChangelogInv, HitAnswersThis, PlaceInv, StoreInv
  <2>2. SpendsOnce
    <3>1. CASE asked = <<>>
      BY <3>1 DEF SpendsOnce
    <3>2. CASE asked # <<>>
      <4>1. /\ asked = <<[url |-> Endpoint(cfg), auth |-> Auth(cfg)]>> /\ ~hit /\ May(cfg, inv, commits)
            /\ inv \in lines /\ cfg = Loaded(env, inv.flags)
        BY <3>2 DEF ChangelogInv, GuardInv
      <4>2. Len(asked) <= 1
        BY <4>1
      <4>3. cfg["max_cost_usd"] \in Int
        <5>1. EnvOK(env) /\ FlagsOK(inv.flags)
          BY <4>1 DEF ChangelogInv, WorldInv, LineOK
        <5>2. cfg["max_cost_usd"] = ValueOf(env, inv.flags, "max_cost_usd")
          <6>1. Values(cfg, env, inv.flags)
            BY <4>1, <5>1, LoadedValue
          <6>2. "max_cost_usd" \in DOMAIN Defaults \ {"provider", "format", "base_url"}
            BY UnsetKeys
          <6> QED
            BY <6>1, <6>2 DEF Values
        <5>3. ASSUME NEW layer \in LayersOf(env, inv.flags), "max_cost_usd" \in DOMAIN layer
              PROVE  layer["max_cost_usd"] \in Int
          BY <5>1, <5>3 DEF LayersOf, EnvOK, FlagsOK, Layer
        <5>4. Unset["max_cost_usd"] \in Int
          BY UnsetKeys
        <5> QED
          BY <5>1, <5>2, <5>3, <5>4, ValueFrom
      <4>4. cfg.provider = "ollama" \/
              (cfg.api_key # "" /\ (cfg.max_cost_usd <= 0 \/ Estimate <= cfg.max_cost_usd))
        <5>1. cfg.provider = "ollama" \/ cfg.api_key # ""
          BY <4>1 DEF May, OfflineMode
        <5>2. cfg.provider = "ollama" \/ cfg.max_cost_usd <= 0 \/ Estimate <= cfg.max_cost_usd
          <6> DEFINE P == cfg.provider = "ollama"
                     m == cfg["max_cost_usd"]
          <6>1. P \/ ~(m > 0 /\ Estimate > m)
            BY <4>1 DEF May, ExceedsBudget
          <6>2. m \in Int /\ Estimate \in Int
            BY <4>3, BoundsAssumption
          <6> HIDE DEF P, m
          <6>3. P \/ m <= 0 \/ Estimate <= m
            BY <6>1, <6>2
          <6> QED
            BY <6>3 DEF P, m
        <5> QED
          BY <5>1, <5>2, Zenon
      <4> QED
        BY <4>1, <4>2, <4>4 DEF SpendsOnce, May
    <3> QED
      BY <3>1, <3>2
  <2>3. PaidIsShown
    BY DEF ChangelogInv, PaidIsShown, PlaceInv
  <2> QED
    BY <2>1, <2>2, <2>3 DEF SpendsAndShows
<1> QED
  BY <1>1, ChangelogInvariant, PTL

(* Load, the clients and the digest's list of repositories agree on which  *)
(* layer a setting comes from: SettingsSound, for any five layers.         *)
THEOREM SettingsSoundHolds == Spec => []SettingsSound
<1>1. ChangelogInv => SettingsSound
  <2> SUFFICES ASSUME ChangelogInv PROVE SettingsSound
    OBVIOUS
  <2>1. ASSUME Configured
        PROVE  EnvOK(env) /\ FlagsOK(inv.flags) /\ cfg = Loaded(env, inv.flags) /\ Loads(env, inv.flags)
    BY <2>1 DEF ChangelogInv, DataInv, WorldInv, LineOK, Configured
  <2>2. TypeOK
    <3>1. Configured => cfg.provider \in Providers
      <4>1. Configured => Values(cfg, env, inv.flags)
        BY <2>1, LoadedValue
      <4> QED
        BY <2>1, <4>1 DEF Values
    <3>2. Configured => \A i \in DOMAIN cfg.repos : cfg.repos[i].at # ""
      <4> SUFFICES ASSUME Configured, NEW i \in DOMAIN cfg.repos PROVE cfg.repos[i].at # ""
        OBVIOUS
      <4>1. /\ EnvOK(env) /\ FlagsOK(inv.flags) /\ cfg = Loaded(env, inv.flags)
            /\ i \in DOMAIN Loaded(env, inv.flags).repos
        BY <2>1
      <4>2. Loaded(env, inv.flags).repos[i].at # ""
        BY <4>1, ReposLoaded
      <4> QED
        BY <4>1, <4>2
    <3>3. \A k \in DOMAIN store : store[k].content \in Answers \cup {Junk}
      BY DEF ChangelogInv, StoreInv
    <3> QED
      BY <3>1, <3>2, <3>3 DEF ChangelogInv, TypeOK, WorldInv, DataInv, Labels, Started
  <2>3. StrongestWins
    <3> SUFFICES ASSUME Configured PROVE StrongestWins
      BY DEF StrongestWins
    <3>1. Wins(cfg, env, inv.flags)
      BY <2>1, StrongestLoaded
    <3> QED
      BY <3>1 DEF Wins, StrongestWins, SetIn
  <2>4. KeyGoesHome
    <3>1. CASE asked = <<>>
      BY <3>1, RangeOfFew DEF KeyGoesHome
    <3>2. CASE asked # <<>>
      <4> DEFINE q == [url |-> Endpoint(cfg), auth |-> Auth(cfg)]
      <4>1. /\ asked = <<q>> /\ Constructs(cfg)
            /\ inv \in lines /\ cfg = Loaded(env, inv.flags) /\ Loads(env, inv.flags)
        BY <3>2 DEF ChangelogInv, GuardInv, May
      <4>2. q.url = Endpoint(cfg) /\ q.auth = Auth(cfg)
        OBVIOUS
      <4>3. EnvOK(env) /\ FlagsOK(inv.flags)
        BY <4>1 DEF ChangelogInv, WorldInv, LineOK
      <4>4. Auth(cfg) # "" => cfg.provider # "ollama" /\ Homeward(cfg, env, inv.flags)
        <5> SUFFICES ASSUME Auth(cfg) # "" PROVE cfg.provider # "ollama" /\ Homeward(cfg, env, inv.flags)
          OBVIOUS
        <5> QED
          BY <4>1, <4>3, KeyLoaded
      <4> HIDE DEF q
      <4>5. Range(asked) = {q}
        BY <4>1, RangeOfFew
      <4> QED
        BY <4>2, <4>4, <4>5 DEF KeyGoesHome, Homeward, LayersOf
    <3> QED
      BY <3>1, <3>2
  <2>5. ReposBeside
    <3> SUFFICES ASSUME Configured, NEW i \in DOMAIN cfg.repos
                 PROVE  LET dir == cfg.repos[i].at
                            Lists(d) == "repos" \in DOMAIN env.files[d].sets
                        IN  \/ dir = "/"
                            \/ dir = env.cwd /\ (Lists(env.cwd) \/ env.root = "" \/ ~Lists(env.root))
                            \/ dir = env.root /\ ~Lists(env.cwd) /\ Lists(env.root)
      BY DEF ReposBeside
    <3>1. cfg.repos[i].at \in {"/", DigestBaseDir(env)}
      BY <2>1, ReposLoaded
    <3> QED
      BY <3>1, BaseDir DEF SetIn
  <2> QED
    BY <2>2, <2>3, <2>4, <2>5 DEF SettingsSound
<1> QED
  BY <1>1, ChangelogInvariant, PTL

-----------------------------------------------------------------------------
(* The lines of a run: its commits and its artifact *)

(* What git log printed is a stretch of the history, whoever has committed *)
(* since: a history only grows.                                            *)
RangeInv ==
  /\ pc \in {"load", "range", "log"} => commits = <<>>
  /\ IsList(commits)
  /\ commits # <<>> =>
       /\ from + Len(commits) <= Len(history)
       /\ \A k \in 1 .. Len(commits) : commits[k] = history[from + Len(commits) + 1 - k]

(* What is rendered is the artifact of these commits and of this answer. *)
ArtInv ==
  /\ cfg.required \in Seq(STRING)
  /\ Rendering \/ pc = "store" =>
       art = IF Parses(content) THEN AIArtifact(commits, Payload(content), cfg.required)
             ELSE Deterministic(commits, cfg.required)

(* git log: the part of a history after a tag, the last commit first. *)
LEMMA LogLists ==
  ASSUME NEW S, NEW h \in Seq(S), NEW n \in Nat, n <= Len(h)
  PROVE  LET r == Reverse(SubSeq(h, n + 1, Len(h))) IN
         /\ IsList(r) /\ Len(r) = Len(h) - n
         /\ \A k \in 1 .. Len(r) : r[k] = h[n + Len(r) + 1 - k]
<1> DEFINE t == SubSeq(h, n + 1, Len(h))
           r == Reverse(t)
           m == Len(h) - n
<1>1. Len(t) = m /\ m \in Nat /\ Len(h) \in Nat /\ \A i \in 1 .. m : t[i] = h[n + i]
  <2> DEFINE l == Len(h)
  <2>1. l \in Nat /\ n + 1 \in 1 .. l + 1
    OBVIOUS
  <2>2. Len(SubSeq(h, n + 1, l)) = l - n
    BY <2>1
  <2>3. \A i \in 1 .. l - n : SubSeq(h, n + 1, l)[i] = h[n + i]
    BY <2>1
  <2> QED
    BY <2>1, <2>2, <2>3
<1> HIDE DEF t, m
<1>2. r = [i \in 1 .. m |-> t[m - i + 1]]
  BY <1>1 DEF Reverse
<1> HIDE DEF r
<1>3. DOMAIN r = 1 .. m /\ r = [i \in 1 .. m |-> r[i]]
  BY <1>2
<1>4. IsList(r) /\ Len(r) = m
  BY <1>1, <1>3, ListOf
<1>5. ASSUME NEW k \in 1 .. m PROVE r[k] = h[n + m + 1 - k]
  <2> DEFINE i == m - k + 1
  <2>1. i \in 1 .. m /\ n + i = n + m + 1 - k
    BY <1>1
  <2>2. r[k] = t[i]
    BY <1>2
  <2> HIDE DEF i
  <2>3. t[i] = h[n + i]
    BY <1>1, <2>1
  <2> QED
    BY <2>1, <2>2, <2>3
<1> QED
  BY <1>4, <1>5 DEF r, t, m

(* changelog.required after the merge is a list of names. *)
LEMMA RequiredLoaded ==
  ASSUME NEW e, NEW f, EnvOK(e), FlagsOK(f)
  PROVE  Loaded(e, f).required \in Seq(STRING)
<1> DEFINE c == Loaded(e, f)
<1>1. Values(c, e, f)
  BY LoadedValue
<1>2. "required" \in DOMAIN Defaults \ {"provider", "format", "base_url"} /\ Defaults["required"] = <<>>
  BY DEF Defaults
<1>3. c["required"] = ValueOf(e, f, "required")
  BY <1>1, <1>2 DEF Values
<1>4. ASSUME NEW layer \in LayersOf(e, f), "required" \in DOMAIN layer
      PROVE  layer["required"] \in Seq(STRING)
  BY <1>4 DEF LayersOf, EnvOK, FlagsOK, Layer
<1>5. Unset["required"] \in Seq(STRING)
  <2>1. Unset["required"] = <<>>
    BY <1>2, UnsetKeys
  <2>2. <<>> \in Seq(STRING)
    OBVIOUS
  <2> QED
    BY <2>1, <2>2, Zenon
<1> QED
  BY <1>3, <1>4, <1>5, ValueFrom

(* ... and so it is before anything is loaded. *)
LEMMA UnsetRequired == Unset.required \in Seq(STRING)
<1>1. "required" \in DOMAIN Defaults /\ Defaults["required"] = <<>>
  BY DEF Defaults
<1>2. Unset["required"] = <<>>
  BY <1>1, UnsetKeys
<1>3. <<>> \in Seq(STRING)
  OBVIOUS
<1> QED
  BY <1>2, <1>3, Zenon

(* No answer is a list without items, which does not parse. *)
LEMMA EmptyList == IsList(<<>>) /\ ~Parses(<<>>)
<1>1. <<>> \in Seq({})
  OBVIOUS
<1> QED
  BY <1>1, RangeOfFew DEF IsList, Parses

(* Both hold of a world in which no run has started. *)
LEMMA InitLines == Init => RangeInv /\ ArtInv
<1> SUFFICES ASSUME Init PROVE RangeInv /\ ArtInv
  OBVIOUS
<1>1. RangeInv
  BY EmptyList DEF Init, RangeInv
<1>2. ArtInv
  BY UnsetRequired DEF Init, ArtInv, Rendering
<1> QED
  BY <1>1, <1>2

(* A step of a run or of the world keeps the commits a stretch of the history. *)
LEMMA RangeStep == ChangelogInv /\ RangeInv /\ [Next]_vars => RangeInv'
<1> SUFFICES ASSUME ChangelogInv, RangeInv, [Next]_vars PROVE RangeInv'
  OBVIOUS
<1>1. ASSUME UNCHANGED <<history, from, commits>>, pc' \notin {"load", "range", "log"} \/ commits = <<>>
      PROVE  RangeInv'
  BY <1>1 DEF RangeInv
<1> USE DEF Goes, Ends, Fails, repo, run
<1>2. CASE Invoke
  BY <1>2, EmptyList DEF Invoke, RangeInv
<1>3. CASE LoadConfig \/ ConfigRejected
  BY <1>1, <1>3 DEF LoadConfig, ConfigRejected, RangeInv
<1>4. CASE ResolveRange
  BY <1>4 DEF ResolveRange, RangeInv
<1>5. CASE Log
  <2>1. /\ from \in Nat /\ from <= Len(history) /\ history \in Seq(AllCommits) /\ pc' = "changelog"
        /\ commits' = Reverse(SubSeq(history, from + 1, Len(history))) /\ UNCHANGED <<history, from>>
    BY <1>5 DEF Log, ChangelogInv, WorldInv, DataInv
  <2> DEFINE n == Len(commits')
  <2>2. IsList(commits') /\ n = Len(history) - from
        /\ \A k \in 1 .. n : commits'[k] = history[from + n + 1 - k]
    BY <2>1, LogLists
  <2>3. from + n <= Len(history)
    BY <2>1, <2>2
  <2> QED
    BY <2>1, <2>2, <2>3 DEF RangeInv
<1>6. CASE LogFails \/ RunsDeterministic \/ BuildPrompt \/ BuildPromptFails \/ LookupHit \/ LookupMiss
  BY <1>1, <1>6 DEF LogFails, RunsDeterministic, BuildPrompt, BuildPromptFails, LookupHit, LookupMiss
<1>7. CASE PrintDryRun \/ GuardPasses \/ GuardFails \/ CallFails \/ CallAnswers \/ CallAnswersBadly
  BY <1>1, <1>7 DEF PrintDryRun, GuardPasses, GuardFails, CallFails, CallAnswers, CallAnswersBadly
<1>8. CASE Store \/ Render
  BY <1>1, <1>8 DEF Store, Render
<1>9. CASE CommitArrives
  <2>1. PICK c \in Incoming : history' = Append(history, c)
    BY <1>9 DEF CommitArrives
  <2>2. UNCHANGED <<from, commits, pc>> /\ history \in Seq(AllCommits) /\ from \in Nat
    BY <1>9 DEF CommitArrives, ChangelogInv, WorldInv, DataInv
  <2>3. Len(history') = Len(history) + 1 /\ Len(history) \in Nat /\ \A i \in 1 .. Len(history) : history'[i] = history[i]
    BY <2>1, <2>2
  <2>4. CASE commits = <<>>
    BY <2>2, <2>4, EmptyList DEF RangeInv
  <2>5. CASE commits # <<>>
    <3> DEFINE n == Len(commits)
    <3>1. n \in Nat /\ from + n <= Len(history) /\ \A k \in 1 .. n : commits[k] = history[from + n + 1 - k]
      BY <2>5, ListIs DEF RangeInv
    <3>2. from + n <= Len(history')
      BY <2>2, <2>3, <3>1
    <3>3. ASSUME NEW k \in 1 .. n PROVE commits[k] = history'[from + n + 1 - k]
      <4> DEFINE i == from + n + 1 - k
      <4>1. i \in 1 .. Len(history) /\ commits[k] = history[i]
        BY <2>2, <2>3, <3>1
      <4> HIDE DEF i
      <4>2. history'[i] = history[i]
        BY <2>3, <4>1
      <4> QED
        BY <4>1, <4>2 DEF i
    <3> QED
      BY <2>2, <2>5, <3>2, <3>3 DEF RangeInv
  <2> QED
    BY <2>4, <2>5
<1>10. CASE TagArrives \/ Forgets \/ Spoils \/ UNCHANGED vars
  BY <1>10 DEF TagArrives, Forgets, Spoils, vars, RangeInv
<1> QED
  BY <1>2, <1>3, <1>4, <1>5, <1>6, <1>7, <1>8, <1>9, <1>10 DEF Next, RunStep

(* A step keeps what is rendered the artifact of the commits and the answer. *)
LEMMA ArtStep == ChangelogInv /\ ArtInv /\ [Next]_vars => ArtInv'
<1> SUFFICES ASSUME ChangelogInv, ArtInv, [Next]_vars PROVE ArtInv'
  OBVIOUS
<1> DEFINE Art(cs, answer, r) ==
             IF Parses(answer) THEN AIArtifact(cs, Payload(answer), r) ELSE Deterministic(cs, r)
<1> USE DEF Goes, Ends, Fails, run, result
<1>1. ASSUME UNCHANGED cfg, pc' \notin {"render", "store"}, out' # "changelog" PROVE ArtInv'
  BY <1>1 DEF ArtInv, Rendering
<1>2. ASSUME UNCHANGED cfg, art' = Art(commits', content', cfg.required) PROVE ArtInv'
  BY <1>2 DEF ArtInv
<1>3. ASSUME UNCHANGED <<cfg, commits, content, art>>, (Rendering \/ pc = "store")' => Rendering \/ pc = "store"
      PROVE  ArtInv'
  BY <1>3 DEF ArtInv
<1>4. CASE Invoke
  BY <1>4, UnsetRequired DEF Invoke, ArtInv, Rendering
<1>5. CASE LoadConfig
  <2>1. cfg'.required \in Seq(STRING)
    <3>1. EnvOK(env) /\ FlagsOK(inv.flags) /\ cfg' = Loaded(env, inv.flags)
      BY <1>5 DEF LoadConfig, ChangelogInv, DataInv, WorldInv, LineOK
    <3> QED
      BY <3>1, RequiredLoaded
  <2>2. pc' = "range" /\ out' = "nothing"
    BY <1>5 DEF LoadConfig, ChangelogInv, PlaceInv
  <2> QED
    BY <2>1, <2>2 DEF ArtInv, Rendering
<1>6. CASE ConfigRejected \/ ResolveRange \/ Log \/ LogFails \/ BuildPrompt \/ BuildPromptFails
  BY <1>1, <1>6 DEF ConfigRejected, ResolveRange, Log, LogFails, BuildPrompt, BuildPromptFails, ChangelogInv, PlaceInv
<1>7. CASE RunsDeterministic
  <2>1. ~Parses(content)
    BY <1>7, EmptyList DEF RunsDeterministic, ChangelogInv, PlaceInv, Started
  <2> QED
    BY <1>2, <1>7, <2>1 DEF RunsDeterministic
<1>8. CASE LookupHit
  <2>1. art' = Art(commits', content', cfg.required) /\ UNCHANGED cfg
    BY <1>8 DEF LookupHit
  <2> QED
    BY <1>2, <2>1
<1>9. CASE LookupMiss \/ PrintDryRun \/ GuardPasses \/ GuardFails \/ CallFails
  BY <1>1, <1>9 DEF LookupMiss, PrintDryRun, GuardPasses, GuardFails, CallFails, ChangelogInv, PlaceInv
<1>10. CASE CallAnswers
  <2>1. art' = Art(commits', content', cfg.required) /\ UNCHANGED cfg
    BY <1>10 DEF CallAnswers
  <2> QED
    BY <1>2, <2>1
<1>11. CASE CallAnswersBadly
  <2>1. art' = Art(commits', content', cfg.required) /\ UNCHANGED cfg
    BY <1>11 DEF CallAnswersBadly
  <2> QED
    BY <1>2, <2>1
<1>12. CASE Store
  BY <1>3, <1>12 DEF Store, Rendering
<1>13. CASE Render
  BY <1>3, <1>13 DEF Render, Rendering
<1>14. CASE CommitArrives \/ TagArrives \/ Forgets \/ Spoils \/ UNCHANGED vars
  BY <1>3, <1>14 DEF CommitArrives, TagArrives, Forgets, Spoils, vars, Rendering
<1> QED
  BY <1>4, <1>5, <1>6, <1>7, <1>8, <1>9, <1>10, <1>11, <1>12, <1>13, <1>14 DEF Next, RunStep

(* The inductive invariant of a changelog's lines. *)
LinesInv == ChangelogInv /\ RangeInv /\ ArtInv

(* At every step of every run the commits in hand are a stretch of the     *)
(* history and the artifact is the one computed from them and the answer. *)
THEOREM LinesInvariant == Spec => []LinesInv
<1>1. LinesInv /\ [Next]_vars => LinesInv'
  <2>1. ChangelogInv /\ [Next]_vars => ChangelogInv'
    BY WorldStep, StoreStep, DataStep, PlaceStep, GuardStep DEF ChangelogInv
  <2> QED
    BY <2>1, RangeStep, ArtStep DEF LinesInv
<1>2. Init => LinesInv
  BY InitInv, InitLines DEF LinesInv
<1> QED
  BY <1>1, <1>2, PTL DEF Spec

-----------------------------------------------------------------------------
(* What a changelog says *)

(* Seven digits of a hash are its start: hashes are never shorter. *)
LEMMA ShortIs ==
  ASSUME NEW c \in AllCommits
  PROVE  Short(c.hash) = SubSeq(c.hash, 1, ShortLen)
<1> DEFINE h == c.hash
           R == Range(h)
<1>1. Hashed(c) /\ ShortLen \in Nat
  BY HashesAssumption DEF AllCommits
<1>2. h \in Seq(R) /\ Len(h) >= ShortLen
  BY <1>1 DEF Hashed, IsList
<1> HIDE DEF h, R
<1>3. Len(h) = ShortLen => SubSeq(h, 1, ShortLen) = h
  BY <1>2
<1>4. Short(h) = SubSeq(h, 1, ShortLen)
  BY <1>1, <1>2, <1>3 DEF Short
<1> QED
  BY <1>4 DEF h

(* The commits in hand are those of the range, each at its place. *)
LEMMA CommitsAre ==
  ASSUME LinesInv
  PROVE  /\ history \in Seq(AllCommits) /\ commits \in Seq(AllCommits)
         /\ Range(commits) = {history[i] : i \in from + 1 .. from + Len(commits)}
         /\ from + 1 .. from + Len(commits) \subseteq 1 .. Len(history)
         /\ ShortsUnique => Told(commits)
<1> DEFINE n == Len(commits)
           N == Len(history)
<1>1. /\ history \in Seq(AllCommits) /\ N \in Nat /\ DOMAIN history = 1 .. N /\ from \in Nat
      /\ Range(commits) \subseteq Range(history) /\ IsList(commits)
  BY DEF LinesInv, ChangelogInv, WorldInv, DataInv, RangeInv
<1>2. n \in Nat /\ DOMAIN commits = 1 .. n /\ (commits = <<>> <=> n = 0)
  BY <1>1, ListIs
<1>3. commits \in Seq(AllCommits)
  <2>1. Range(history) \subseteq AllCommits
    BY <1>1, SeqIsList
  <2> QED
    BY <1>1, <2>1, ListWithin
<1>4. n # 0 => from + n <= N /\ \A k \in 1 .. n : commits[k] = history[from + n + 1 - k]
  BY <1>2 DEF LinesInv, RangeInv
<1> HIDE DEF n, N
<1>5. from + 1 .. from + n \subseteq 1 .. N
  BY <1>1, <1>2, <1>4
<1>6. ASSUME NEW i \in from + 1 .. from + n PROVE history[i] \in Range(commits)
  <2> DEFINE k == from + n + 1 - i
  <2>1. k \in 1 .. n /\ from + n + 1 - k = i /\ n # 0
    BY <1>1, <1>2
  <2> HIDE DEF k
  <2>2. commits[k] = history[i]
    BY <1>4, <2>1
  <2> QED
    BY <1>2, <2>1, <2>2 DEF Range
<1>7. ASSUME NEW k \in 1 .. n PROVE \E i \in from + 1 .. from + n : commits[k] = history[i] /\ i = from + n + 1 - k
  <2>1. from + n + 1 - k \in from + 1 .. from + n /\ n # 0
    BY <1>1, <1>2
  <2> QED
    BY <1>4, <2>1
<1>8. Range(commits) = {history[i] : i \in from + 1 .. from + n}
  BY <1>2, <1>6, <1>7 DEF Range
<1>9. ShortsUnique => Told(commits)
  <2> SUFFICES ASSUME ShortsUnique, NEW k \in 1 .. n, NEW l \in 1 .. n, Short(commits[k].hash) = Short(commits[l].hash)
               PROVE  k = l
    BY <1>2 DEF Told
  <2>1. PICK i \in from + 1 .. from + n : commits[k] = history[i] /\ i = from + n + 1 - k
    BY <1>7
  <2>2. PICK j \in from + 1 .. from + n : commits[l] = history[j] /\ j = from + n + 1 - l
    BY <1>7
  <2>3. i \in DOMAIN history /\ j \in DOMAIN history
    BY <1>1, <1>5
  <2>4. i = j
    BY <2>1, <2>2, <2>3 DEF ShortsUnique
  <2> QED
    BY <1>1, <1>2, <2>1, <2>2, <2>4
<1> QED
  BY <1>1, <1>3, <1>5, <1>8, <1>9 DEF n, N

(* What the model or the cache answered decodes to lists of items. *)
LEMMA ContentDecodes ==
  ASSUME LinesInv, Parses(content)
  PROVE  Decoded(Payload(content))
<1>1. content \in Answers
  <2>1. content \in Answers \cup {<<>>, Junk}
    BY DEF LinesInv, ChangelogInv, DataInv
  <2> QED
    BY <2>1, EmptyList, AnswersAssumption
<1> DEFINE I == {i \in DOMAIN content : Accepted(content[i])}
           n == Len(content)
<1>2. I # {}
  BY DEF Parses
<1>3. n \in Nat /\ DOMAIN content = 1 .. n
  BY <1>1, AnswersAssumption, ListIs
<1>4. I \in SUBSET (0 .. n)
  BY <1>3
<1>5. Max(I) \in I
  <2> HIDE DEF I, n
  <2> QED
    BY <1>2, <1>3, <1>4, MaxExists
<1> DEFINE block == content[Max(I)]
<1>6. Accepted(block) /\ block \in Range(content)
  BY <1>5 DEF Range
<1>7. Payload(content) = block.payload
  BY DEF Payload
<1> HIDE DEF block
<1>8. Decoded(block.payload)
  BY <1>1, <1>6, AnswersAssumption DEF Decoded
<1> QED
  BY <1>7, <1>8

(* The hashes an answer may name are those of the commits. *)
LEMMA KnownIs == \A cs : Known(cs) = {Short(c.hash) : c \in Range(cs)}
  BY DEF Known, Range

(* What is rendered, from the model's answer and without it *)
LEMMA RenderedFromModel ==
  ASSUME LinesInv, FromModel
  PROVE  LET p == Payload(content)
             known == Known(commits)
         IN  /\ IsArt(art) /\ Marks(art) /\ MissingOK(art, cfg.required) /\ Lasting(art, p, known)
             /\ \A e \in Range(art.breaking) : Sound(e, known)
             /\ \A name \in Categories : \A e \in Range(art.categories[name]) : Sound(e, known)
<1>1. art = AIArtifact(commits, Payload(content), cfg.required) /\ cfg.required \in Seq(STRING)
  BY DEF LinesInv, ArtInv, FromModel
<1>2. Decoded(Payload(content))
  BY ContentDecodes DEF FromModel
<1> QED
  BY <1>1, <1>2, AIArtifactIs

(* The counterpart of a commit in a list of lines *)
LEMMA RenderedByCommits ==
  ASSUME LinesInv, Rendering, ~FromModel
  PROVE  LET listed == Range(Listed(commits)) IN
         /\ IsArt(art) /\ MissingOK(art, cfg.required)
         /\ listed \subseteq Range(commits)
         /\ \A name \in Categories : \A n \in DOMAIN art.categories[name] :
              \E c \in listed : /\ CategoryOf(c) = name /\ art.categories[name][n].hashes = Shorts(c)
                                /\ art.categories[name][n].breaking = BreakingCommit(c)
         /\ \A c \in listed : \E n \in DOMAIN art.categories[CategoryOf(c)] :
              art.categories[CategoryOf(c)][n].hashes = Shorts(c)
         /\ Told(commits) =>
              /\ listed = {c \in Range(commits) : c.type # "Merge"}
              /\ \A name \in Categories : \A n, m \in DOMAIN art.categories[name] :
                   art.categories[name][n].hashes = art.categories[name][m].hashes => n = m
         /\ \A b \in Range(art.breaking) : \E c \in listed : BreakingCommit(c) /\ b.hashes = Shorts(c)
         /\ \A c \in listed : BreakingCommit(c) => \E b \in Range(art.breaking) : b.hashes = Shorts(c)
<1>1. art = Deterministic(commits, cfg.required) /\ cfg.required \in Seq(STRING)
  BY DEF LinesInv, ArtInv, FromModel
<1>2. commits \in Seq(AllCommits)
  BY CommitsAre
<1>3. /\ Range(Listed(commits)) \subseteq Range(commits)
      /\ Told(commits) => Range(Listed(commits)) = {c \in Range(commits) : c.type # "Merge"}
  BY <1>2, ListedIs
<1> QED
  BY <1>1, <1>2, <1>3, DeterministicIs

(* No commit of the range is on two lines, nor on none. *)
LEMMA OnceEach == LinesInv => EachCommitOnce
<1> SUFFICES ASSUME LinesInv, Rendering, ~FromModel, ShortsUnique, NEW i \in DOMAIN history
             PROVE  LET c == history[i]
                        expected == IF i \in from + 1 .. from + Len(commits) /\ c.type # "Merge" THEN 1 ELSE 0
                        Of(name) == {n \in DOMAIN art.categories[name] : art.categories[name][n].hashes = <<Short(c.hash)>>}
                    IN  expected = Cardinality(UNION {{name} \X Of(name) : name \in Categories})
  BY DEF EachCommitOnce
<1> DEFINE c == history[i]
           within == from + 1 .. from + Len(commits)
           Of(name) == {n \in DOMAIN art.categories[name] : art.categories[name][n].hashes = <<Short(c.hash)>>}
           U == UNION {{name} \X Of(name) : name \in Categories}
           listed == Range(Listed(commits))
<1>1. /\ Range(commits) = {history[j] : j \in within} /\ within \subseteq DOMAIN history /\ Told(commits)
  BY CommitsAre
<1>2. \A j \in DOMAIN history : Short(history[j].hash) = Short(c.hash) => j = i
  BY DEF ShortsUnique
<1>3. listed = {d \in Range(commits) : d.type # "Merge"}
  BY <1>1, RenderedByCommits
<1> HIDE DEF within
<1>4. ASSUME NEW name \in Categories, NEW n \in Of(name)
      PROVE  i \in within /\ c \in listed /\ name = CategoryOf(c)
  <2>1. PICK d \in listed : CategoryOf(d) = name /\ art.categories[name][n].hashes = Shorts(d)
    BY RenderedByCommits
  <2>2. Short(d.hash) = Short(c.hash)
    <3>1. <<Short(d.hash)>> = <<Short(c.hash)>>
      BY <2>1 DEF Shorts
    <3> DEFINE x == Short(d.hash)
               y == Short(c.hash)
    <3> HIDE DEF x, y
    <3>2. x = y
      BY <3>1 DEF x, y
    <3> QED
      BY <3>2 DEF x, y
  <2>3. PICK j \in within : d = history[j]
    BY <1>1, <1>3
  <2>4. j = i
    BY <1>1, <1>2, <2>2, <2>3
  <2> QED
    BY <2>1, <2>3, <2>4
<1>5. CASE i \in within /\ c.type # "Merge"
  <2>1. c \in listed
    BY <1>1, <1>3, <1>5
  <2> DEFINE name == CategoryOf(c)
  <2>2. name \in Categories
    BY CategoryKnown
  <2>3. PICK n \in DOMAIN art.categories[name] : art.categories[name][n].hashes = Shorts(c)
    BY <2>1, RenderedByCommits
  <2>4. n \in Of(name)
    BY <2>3 DEF Shorts
  <2>5. \A m \in Of(name) : m = n
    <3>1. \A m \in DOMAIN art.categories[name] :
            art.categories[name][m].hashes = art.categories[name][n].hashes => m = n
      <4> HIDE DEF name
      <4>1. \A k, m \in DOMAIN art.categories[name] :
              art.categories[name][k].hashes = art.categories[name][m].hashes => k = m
        BY <1>1, <2>2, RenderedByCommits
      <4> QED
        BY <2>3, <4>1
    <3>2. \A m \in Of(name) : /\ m \in DOMAIN art.categories[name]
                             /\ art.categories[name][m].hashes = art.categories[name][n].hashes
      BY <2>4
    <3> QED
      BY <3>1, <3>2
  <2>6. U = {<<name, n>>}
    <3>1. Of(name) = {n}
      BY <2>4, <2>5
    <3>2. \A other \in Categories : other # name => Of(other) = {}
      BY <1>4
    <3> HIDE DEF Of, name
    <3> QED
      BY <2>2, <3>1, <3>2
  <2>7. Cardinality(U) = 1
    BY <2>6, FS_Singleton
  <2> QED
    BY <1>5, <2>7 DEF within
<1>6. CASE ~(i \in within /\ c.type # "Merge")
  <2>1. c \notin listed \/ i \notin within
    BY <1>3, <1>6
  <2>2. \A name \in Categories : Of(name) = {}
    BY <1>4, <2>1
  <2>3. U = {}
    <3> HIDE DEF Of
    <3> QED
      BY <2>2
  <2>4. Cardinality(U) = 0
    BY <2>3, FS_EmptySet
  <2> QED
    BY <1>6, <2>4 DEF within
<1> QED
  BY <1>5, <1>6

(* The lines of a changelog are the commits of its range: LinesAreCommits, *)
(* for any history, answers and number of runs, and whoever commits and    *)
(* tags between git describe, git log and the printing.                    *)
THEOREM LinesAreCommitsHolds == Spec => []LinesAreCommits
<1>1. LinesInv => NoInvention
  <2> SUFFICES ASSUME LinesInv, FromModel, NEW e \in CategoryEntries \cup Range(art.breaking)
               PROVE  /\ e.subject # "blank" /\ e.hashes # <<>>
                      /\ \A h \in Range(e.hashes) :
                           \E i \in from + 1 .. from + Len(commits) : h = SubSeq(history[i].hash, 1, ShortLen)
    BY DEF NoInvention
  <2>1. Sound(e, Known(commits))
    BY RenderedFromModel DEF CategoryEntries
  <2>2. ASSUME NEW h \in Known(commits)
        PROVE  \E i \in from + 1 .. from + Len(commits) : h = SubSeq(history[i].hash, 1, ShortLen)
    <3>1. PICK c \in Range(commits) : h = Short(c.hash)
      BY KnownIs
    <3>2. PICK i \in from + 1 .. from + Len(commits) : c = history[i]
      BY CommitsAre
    <3>3. history[i] \in AllCommits
      <4>1. i \in 1 .. Len(history) /\ history \in Seq(AllCommits)
        BY CommitsAre
      <4> QED
        BY <4>1
    <3> QED
      BY <3>1, <3>2, <3>3, ShortIs
  <2> QED
    BY <2>1, <2>2 DEF Sound
<1>2. LinesInv => ItemsKept
  <2> SUFFICES ASSUME LinesInv, FromModel, NEW name \in DOMAIN Payload(content).categories,
                      NEW item \in Range(Payload(content).categories[name])
               PROVE  LET mine == {Short(h) : h \in Range(item.hashes)} \cap {Short(c.hash) : c \in Range(commits)}
                      IN  item.subject # "blank" /\ mine # {} =>
                            \E e \in Range(art.categories[IF name \in Categories THEN name ELSE "Other"]) :
                              e.subject = item.subject /\ Range(e.hashes) = mine
    BY DEF ItemsKept
  <2>1. Lasting(art, Payload(content), Known(commits))
    BY RenderedFromModel
  <2> QED
    BY <2>1, KnownIs DEF Lasting, Counts, Mine, Shelf
<1>3. LinesInv => LinesAreCommits
  BY <1>1, <1>2, OnceEach DEF LinesAreCommits
<1> QED
  BY <1>3, LinesInvariant, PTL

(* Two numbers that count the same positions are one number. *)
LEMMA SameUpTo ==
  ASSUME NEW k \in Nat, NEW n \in Nat, 1 .. k = 1 .. n
  PROVE  k = n
<1>1. \A i \in Int : 1 <= i /\ i <= k <=> 1 <= i /\ i <= n
  OBVIOUS
<1>2. k >= 1 => k <= n
  BY <1>1
<1>3. n >= 1 => n <= k
  BY <1>1
<1> QED
  BY <1>2, <1>3

(* Its marks, lists and formats agree with its lines: MarksAgree, whatever *)
(* was answered and required.                                              *)
THEOREM MarksAgreeHolds == Spec => []MarksAgree
<1>1. ASSUME LinesInv, Rendering PROVE IsArt(art) /\ MissingOK(art, cfg.required)
  BY <1>1, RenderedFromModel, RenderedByCommits
<1>2. ASSUME LinesInv, Rendering, FromModel \/ ShortsUnique PROVE Marks(art)
  <2>1. CASE FromModel
    BY <1>2, <2>1, RenderedFromModel
  <2>2. CASE ~FromModel
    <3> SUFFICES ASSUME NEW name \in Categories, NEW e \in Range(art.categories[name])
                 PROVE  e.breaking <=> \E b \in Range(art.breaking) : Shares(e, b)
      BY DEF Marks
    <3> DEFINE listed == Range(Listed(commits))
    <3>1. PICK n \in DOMAIN art.categories[name] : e = art.categories[name][n]
      BY DEF Range
    <3>2. PICK c \in listed : e.hashes = Shorts(c) /\ e.breaking = BreakingCommit(c)
      BY <1>2, <2>2, <3>1, RenderedByCommits
    <3>3. ASSUME NEW b, NEW d \in listed, b.hashes = Shorts(d)
          PROVE  Shares(e, b) <=> d = c
      <4>1. Shares(e, b) <=> Short(c.hash) = Short(d.hash)
        <5> DEFINE x == Short(c.hash)
                   y == Short(d.hash)
        <5>1. e.hashes = <<x>> /\ b.hashes = <<y>>
          BY <3>2, <3>3 DEF Shorts
        <5>2. Range(b.hashes) = {y}
          BY <5>1, RangeOfFew
        <5>3. DOMAIN e.hashes = {1} /\ e.hashes[1] = x
          BY <5>1
        <5> HIDE DEF x, y
        <5>4. Shares(e, b) <=> x = y
          BY <5>2, <5>3 DEF Shares
        <5> QED
          BY <5>4 DEF x, y
      <4>2. c \in Range(commits) /\ d \in Range(commits) /\ Told(commits)
        BY <1>2, <2>2, RenderedByCommits, CommitsAre
      <4>3. PICK i \in DOMAIN commits, j \in DOMAIN commits : commits[i] = c /\ commits[j] = d
        BY <4>2 DEF Range
      <4> QED
        BY <4>1, <4>2, <4>3 DEF Told
    <3>4. ASSUME e.breaking PROVE \E b \in Range(art.breaking) : Shares(e, b)
      <4>1. PICK b \in Range(art.breaking) : b.hashes = Shorts(c)
        BY <1>2, <2>2, <3>2, <3>4, RenderedByCommits
      <4> QED
        BY <3>3, <4>1
    <3>5. ASSUME NEW b \in Range(art.breaking), Shares(e, b) PROVE e.breaking
      <4>1. PICK d \in listed : BreakingCommit(d) /\ b.hashes = Shorts(d)
        BY <1>2, <2>2, RenderedByCommits
      <4> QED
        BY <3>2, <3>3, <3>5, <4>1
    <3> QED
      BY <3>4, <3>5
  <2> QED
    BY <2>1, <2>2
<1>3. LinesInv => BreakingAgrees
  <2> SUFFICES ASSUME LinesInv, Rendering, FromModel \/ ShortsUnique PROVE BreakingAgrees
    BY DEF BreakingAgrees
  <2>1. IsArt(art) /\ Marks(art)
    BY <1>1, <1>2
  <2>2. \A e \in CategoryEntries : e.breaking <=> \E b \in Range(art.breaking) : Shares(e, b)
    BY <2>1 DEF CategoryEntries, Marks
  <2>3. ASSUME NEW i \in DOMAIN art.breaking
        PROVE  LET named == Json(art).breaking_changes[i].category
                   sharing == {r \in DOMAIN CategoryOrder :
                                 \E e \in Range(art.categories[CategoryOrder[r]]) : Shares(e, art.breaking[i])}
               IN  IF sharing = {} THEN named = "" ELSE named = CategoryOrder[Min(sharing)]
    <3> DEFINE b == art.breaking[i]
    <3>1. b \in Range(art.breaking)
      BY DEF Range
    <3>2. Json(art).breaking_changes[i].category = JsonCategory(art, b)
      BY DEF Json
    <3> HIDE DEF b
    <3>3. LET sharing == {r \in DOMAIN CategoryOrder : \E e \in Range(art.categories[CategoryOrder[r]]) : Shares(e, b)}
          IN  JsonCategory(art, b) = IF sharing = {} THEN "" ELSE CategoryOrder[Min(sharing)]
      BY <2>1, <3>1, JsonNames
    <3> QED
      BY <3>2, <3>3 DEF b
  <2> QED
    BY <2>2, <2>3 DEF BreakingAgrees
<1>4. LinesInv => FormatsAgree
  <2> SUFFICES ASSUME LinesInv, Rendering PROVE FormatsAgree
    BY DEF FormatsAgree
  <2> DEFINE json == Json(art).breaking_changes
             B == Section("BREAKING CHANGES", art.breaking)
  <2>1. IsArt(art)
    BY <1>1
  <2>2. InBody(art, "BREAKING CHANGES") = B /\ \A name \in Categories : InBody(art, name) = Section(name, art.categories[name])
    BY <2>1, BodySections
  <2>3. IsList(B) /\ DOMAIN B = DOMAIN art.breaking
        /\ \A i \in DOMAIN art.breaking : B[i].hashes = art.breaking[i].hashes /\ B[i].subject = art.breaking[i].subject
    <3> DEFINE es == art.breaking
               title == "BREAKING CHANGES"
    <3>1. IsList(es)
      BY <2>1 DEF IsArt
    <3>2. B = Section(title, es)
      OBVIOUS
    <3> HIDE DEF es, title, B
    <3>3. IsList(Section(title, es)) /\ DOMAIN Section(title, es) = DOMAIN es
      BY <3>1, SectionIs
    <3>4. \A i \in DOMAIN es : Section(title, es)[i].hashes = es[i].hashes /\ Section(title, es)[i].subject = es[i].subject
      BY <3>1, SectionIs
    <3> QED
      BY <3>2, <3>3, <3>4 DEF es
  <2>4. DOMAIN json = DOMAIN art.breaking /\ json = [i \in DOMAIN art.breaking |-> json[i]]
        /\ \A i \in DOMAIN art.breaking : json[i].hashes = art.breaking[i].hashes /\ json[i].subject = art.breaking[i].subject
    BY DEF Json
  <2>5. Json(art).categories = art.categories
    BY DEF Json
  <2> HIDE DEF json, B
  <2>6. Len(B) = Len(json)
    <3> DEFINE n == Len(art.breaking)
    <3>1. n \in Nat /\ DOMAIN art.breaking = 1 .. n
      BY <2>1, ListIs DEF IsArt
    <3> HIDE DEF n
    <3>2. Len(json) = n
      BY <2>4, <3>1, ListOf
    <3>3. Len(B) \in Nat /\ DOMAIN B = 1 .. Len(B)
      BY <2>3, ListIs
    <3>4. 1 .. Len(B) = 1 .. n
      BY <2>3, <3>1, <3>3
    <3>5. Len(B) = n
      BY <3>1, <3>3, <3>4, SameUpTo
    <3> QED
      BY <3>2, <3>5
  <2> QED
    BY <2>2, <2>3, <2>4, <2>5, <2>6 DEF FormatsAgree, InBody, json
<1>5. LinesInv => MissingIsMissing
  <2> SUFFICES ASSUME LinesInv, Rendering PROVE MissingIsMissing
    BY DEF MissingIsMissing
  <2>1. IsArt(art) /\ MissingOK(art, cfg.required)
    BY <1>1
  <2>2. \A name \in Categories : art.categories[name] = <<>> <=> \A l \in Range(Body(art)) : l.section # name
    BY <2>1, BodySections
  <2> QED
    BY <2>1, <2>2 DEF MissingIsMissing, MissingOK
<1>6. LinesInv => MarksAgree
  BY <1>3, <1>4, <1>5 DEF MarksAgree
<1> QED
  BY <1>6, LinesInvariant, PTL
=============================================================================
