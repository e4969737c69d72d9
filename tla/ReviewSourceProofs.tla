-------------------------- MODULE ReviewSourceProofs ------------------------
(***************************************************************************)
(* Where a review comes from, for any history without merges, any clone,   *)
(* shallow or not, any remotes, and any pushes meanwhile: the review of a  *)
(* pull request is about one moment of it, that of a range about its       *)
(* commits, and a refusal has its cause.                                   *)
(***************************************************************************)
EXTENDS ReviewSource, FiniteSetTheorems, SequenceTheorems, WellFoundedInduction, TLAPS

Early == {"start", "index", "gh"}
Probing == {"remote", "head", "base", "fetch", "again"}
Late == {"collect", "prepare"}

(* Where each kind of request can be, and what it knows there. *)
Phase ==
  /\ pc # "done" => error = "none"
  /\ request.kind # "pr" \/ pc \in Early => view = Unseen
  /\ pc \in Early \cup Probing => logged = Waiting /\ diffed = Waiting
  /\ pc \in Probing \cup {"gh"} => request.kind = "pr"
  /\ pc = "index" => request.kind = "staged"
  /\ pc = "collect" => request.kind \in {"range", "pr"}
  /\ pc = "prepare" => request.kind \in {"staged", "range", "pr"}

(* What GitHub said of the pull request still holds if nobody pushed. *)
Seen ==
  request.kind = "pr" /\ pc \in Probing \cup Late =>
    view \in Pair(Commits) /\ (moves = 0 => server = view)

Chosen ==
  pc \in Probing \ {"remote"} /\ ~Cancelled =>
    remote \in Matching \/ (Matching = {} /\ remote = "origin")

(* Objects that were found stay; a fetch of a repository that nobody       *)
(* pushes to brings what was missing.                                      *)
AtHand(end) == view[end] \in local
Probed ==
  /\ \A end \in {"base", "head"} : have[end] => request.kind = "pr" /\ pc \notin Early /\ AtHand(end)
  /\ pc = "again" /\ ~Cancelled /\ moves = 0 /\ Reachable =>
       \A end \in {"base", "head"} : have[end] \/ AtHand(end)
  /\ request.kind = "pr" /\ pc \in Late => have.base /\ have.head
  /\ names \in Pair(local)

(* What git printed, if it printed something. *)
OfPR ==
  /\ logged.status = "ok" => logged = Got(Log(view.base, view.head, 2))
  /\ diffed.status = "ok" => diffed = Got(Diff(view.base, view.head, 3)) /\ Diffable(view.base, view.head, 3)
OfRange ==
  moves = 0 =>
    /\ logged.status = "ok" => logged = Got(Log(names.base, names.head, request.dots))
    /\ diffed.status = "ok" => diffed = Got(Diff(names.base, names.head, request.dots))
Printed ==
  /\ request.kind = "pr" /\ pc \in Late => OfPR
  /\ request.kind = "range" /\ pc \in Late => OfRange
  /\ pc = "prepare" /\ request.kind # "staged" => logged.status = "ok" /\ diffed.status = "ok"
  /\ pc = "collect" /\ blame = {} /\ Failed \in {logged, diffed} => cut # {} \/ Unrelated

SourceInv == TypeOK /\ Phase /\ Seen /\ Chosen /\ Probed /\ Printed
-----------------------------------------------------------------------------
(* Histories *)

LEMMA VisibleSubset ==
  ASSUME NEW c \in Commits
  PROVE  Visible(c) \subseteq Anc[c] /\ Anc[c] \subseteq Commits /\ c \in Visible(c)
BY HistoryAssumption DEF Visible

(* Two commits with a common ancestor in sight: what a shallow clone       *)
(* hides of their histories, it hides of both.                             *)
LEMMA VisibleDifference ==
  ASSUME NEW a \in Commits, NEW b \in Commits, Visible(a) \cap Visible(b) # {}
  PROVE  Visible(b) \ Visible(a) = Anc[b] \ Anc[a]
<1>1. PICK m : m \in Visible(a) /\ m \in Visible(b)
  OBVIOUS
<1>2. /\ m \in Anc[a] /\ m \in Anc[b] /\ m \in Commits
      /\ \A s \in cut \cap Anc[a] : m \in Anc[s] => m = s
      /\ \A s \in cut \cap Anc[b] : m \in Anc[s] => m = s
  BY <1>1, HistoryAssumption DEF Visible
<1>3. \A s \in cut : s \in Anc[b] => s \in Anc[m]
  BY <1>2, HistoryAssumption
<1>4. \A s \in cut : s \in Anc[a] => s \in Anc[m]
  BY <1>2, HistoryAssumption
<1>5. Anc[m] \subseteq Anc[a] /\ Anc[m] \subseteq Anc[b]
  BY <1>2, HistoryAssumption
<1>6. ASSUME NEW x, x \in Anc[b], x \notin Anc[a] PROVE x \in Visible(b) /\ x \notin Visible(a)
  <2>1. ASSUME NEW s \in cut \cap Anc[b], x \in Anc[s] PROVE FALSE
    <3>1. s \in Anc[m]
      BY <1>3, <2>1
    <3>2. s \in Anc[a]
      BY <3>1, <1>5
    <3>3. Anc[s] \subseteq Anc[a]
      BY <3>2, HistoryAssumption
    <3> QED
      BY <3>3, <2>1, <1>6
  <2> QED
    BY <1>6, <2>1 DEF Visible
<1>7. ASSUME NEW x, x \in Visible(b), x \notin Visible(a) PROVE x \in Anc[b] /\ x \notin Anc[a]
  <2>1. x \in Anc[b]
    BY <1>7 DEF Visible
  <2>2. ASSUME x \in Anc[a] PROVE FALSE
    <3>1. PICK s \in cut \cap Anc[a] : x \in Anc[s] \ {s}
      BY <1>7, <2>2 DEF Visible
    <3>2. s \in Anc[m]
      BY <3>1, <1>4
    <3>3. s \in cut \cap Anc[b]
      BY <3>1, <3>2, <1>5
    <3> QED
      BY <3>1, <3>3, <1>7 DEF Visible
  <2> QED
    BY <2>1, <2>2
<1> QED
  BY <1>6, <1>7

LEMMA PrintedTypes ==
  ASSUME NEW a \in Commits, NEW b \in Commits, NEW dots
  PROVE  /\ Log(a, b, dots) \subseteq Commits
         /\ Diff(a, b, dots) \in [added : SUBSET Commits, reverted : SUBSET Commits]
<1>1. /\ Visible(a) \subseteq Commits /\ Visible(b) \subseteq Commits
      /\ Anc[a] \subseteq Commits /\ Anc[b] \subseteq Commits
  BY VisibleSubset
<1>2. Log(a, b, dots) \subseteq Commits
  BY <1>1 DEF Log
<1>3. Diff(a, b, dots) \in [added : SUBSET Commits, reverted : SUBSET Commits]
  BY <1>1 DEF Diff
<1> QED
  BY <1>2, <1>3

-----------------------------------------------------------------------------
(* Texts *)

(* What is true of 0, and of n + 1 if it is of n, is true of every natural *)
(* number: of those it is not true of, one would be the least.             *)
LEMMA SetInduction ==
  ASSUME NEW S, 0 \in S, \A n \in Nat : n \in S => n + 1 \in S
  PROVE  \A n \in Nat : n \in S
<1> DEFINE R == OpToRel(<, Nat)
<1>1. IsWellFoundedOn(R, Nat)
  BY NatLessThanWellFounded
<1>2. ASSUME NEW x \in Nat, NEW y \in Nat, y < x PROVE <<y, x>> \in R
  BY <1>2 DEF OpToRel
<1> HIDE DEF R
<1> SUFFICES ASSUME Nat \ S # {} PROVE FALSE
  OBVIOUS
<1>3. PICK x \in Nat \ S : \A y \in Nat \ S : ~(<<y, x>> \in R)
  <2>1. Nat \ S \subseteq Nat
    OBVIOUS
  <2> QED
    BY <1>1, <2>1, WFMin
<1>4. x # 0 /\ x - 1 \in Nat /\ x - 1 + 1 = x /\ x - 1 < x
  OBVIOUS
<1> QED
  BY <1>2, <1>3, <1>4

LEMMA Couple ==
  ASSUME NEW S, NEW a \in S, NEW b \in S
  PROVE  <<a>> \in Seq(S) /\ Len(<<a>>) = 1 /\ <<a>>[1] = a /\ <<a, b>> \in Seq(S)
OBVIOUS

LEMMA Mapped ==
  ASSUME NEW S, NEW T, NEW s \in Seq(S), NEW f, f = [i \in DOMAIN s |-> f[i]],
         \A i \in DOMAIN s : f[i] \in T
  PROVE  f \in Seq(T) /\ Len(f) = Len(s)
<1>1. DOMAIN s = 1 .. Len(s) /\ Len(s) \in Nat
  OBVIOUS
<1>2. f \in [1 .. Len(s) -> T]
  BY <1>1
<1> QED
  BY <1>1, <1>2

(* The recursion by which FlattenSeq is defined has a solution, and what it *)
(* returns is its last value.                                               *)
LEMMA Widened ==
  ASSUME NEW S, NEW T, \A x \in S : x \in T
  PROVE  \A s \in Seq(S) : s \in Seq(T)
OBVIOUS

LEMMA FlattenSteps ==
  ASSUME NEW S, NEW seqs \in Seq(Seq(S)), Len(seqs) > 0
  PROVE  \E f \in [1 .. Len(seqs) -> Seq(S)] :
           /\ f[1] = seqs[1]
           /\ \A i \in 2 .. Len(seqs) : f[i] = f[i - 1] \o seqs[i]
           /\ FlattenSeq(seqs) = f[Len(seqs)]
<1> DEFINE n == Len(seqs)
           Fix(f) == f = [i \in 1 .. n |-> IF i = 1 THEN seqs[i] ELSE f[i - 1] \o seqs[i]]
           Upto(f, m) == /\ f \in [1 .. m -> Seq(S)] /\ f[1] = seqs[1]
                         /\ \A i \in 2 .. m : f[i] = f[i - 1] \o seqs[i]
           Solvable(m) == m + 1 <= n => \E f : Upto(f, m + 1)
           Solved == {m \in Nat : Solvable(m)}
<1>1. n \in Nat \ {0} /\ \A i \in 1 .. n : seqs[i] \in Seq(S)
  OBVIOUS
<1>2. Solvable(0)
  <2>1. Upto([i \in 1 .. 1 |-> seqs[1]], 1)
    BY <1>1
  <2> HIDE DEF Upto
  <2> QED
    BY <2>1
<1>3. ASSUME NEW m \in Nat, Solvable(m) PROVE Solvable(m + 1)
  <2> SUFFICES ASSUME m + 2 <= n PROVE \E f : Upto(f, m + 2)
    <3>1. m + 1 + 1 = m + 2
      OBVIOUS
    <3> HIDE DEF Upto
    <3> QED
      BY <3>1
  <2>1. PICK f : Upto(f, m + 1)
    <3>1. m + 1 <= n
      BY <1>1
    <3> HIDE DEF Upto
    <3> QED
      BY <1>3, <3>1
  <2> DEFINE g == [i \in 1 .. m + 2 |-> IF i = m + 2 THEN f[m + 1] \o seqs[m + 2] ELSE f[i]]
  <2>2. f[m + 1] \o seqs[m + 2] \in Seq(S)
    BY <1>1, <2>1
  <2>3. g \in [1 .. m + 2 -> Seq(S)] /\ g[1] = seqs[1]
    BY <2>1, <2>2
  <2>4. ASSUME NEW i \in 2 .. m + 2 PROVE g[i] = g[i - 1] \o seqs[i]
    <3>1. CASE i = m + 2
      <4>1. i - 1 = m + 1 /\ i \in 1 .. m + 2 /\ i - 1 \in 1 .. m + 2 /\ i - 1 # m + 2
        BY <3>1
      <4> QED
        BY <3>1, <4>1
    <3>2. CASE i # m + 2
      <4>1. i \in 2 .. m + 1 /\ i \in 1 .. m + 2 /\ i - 1 \in 1 .. m + 2 /\ i - 1 # m + 2
        BY <3>2
      <4>2. f[i] = f[i - 1] \o seqs[i]
        BY <2>1, <4>1
      <4> QED
        BY <3>2, <4>1, <4>2
    <3> QED
      BY <3>1, <3>2
  <2>5. Upto(g, m + 2)
    BY <2>3, <2>4
  <2> HIDE DEF Upto, g
  <2> QED
    BY <2>5
<1>4. \A m \in Nat : Solvable(m)
  <2> HIDE DEF Solvable
  <2>1. 0 \in Solved /\ \A m \in Nat : m \in Solved => m + 1 \in Solved
    BY <1>2, <1>3
  <2>2. \A m \in Nat : m \in Solved
    <3> HIDE DEF Solved
    <3> QED
      BY <2>1, SetInduction
  <2> QED
    BY <2>2
<1>5. PICK f : Upto(f, n)
  <2>1. n - 1 \in Nat /\ n - 1 + 1 = n /\ n <= n
    BY <1>1
  <2>2. Solvable(n - 1)
    <3> HIDE DEF Solvable, n
    <3> QED
      BY <1>4, <2>1
  <2> HIDE DEF Upto, n
  <2> QED
    BY <2>1, <2>2
<1>6. Fix(f)
  <2>1. \A i \in 1 .. n : f[i] = IF i = 1 THEN seqs[i] ELSE f[i - 1] \o seqs[i]
    <3>1. \A i \in 1 .. n : i = 1 \/ i \in 2 .. n
      BY <1>1
    <3> QED
      BY <3>1, <1>5
  <2>2. f = [i \in 1 .. n |-> f[i]]
    BY <1>5
  <2> QED
    BY <2>1, <2>2
<1>7. \A g : Fix(g) => g = f
  <2> SUFFICES ASSUME NEW g, Fix(g) PROVE g = f
    OBVIOUS
  <2> DEFINE Equal(m) == m + 1 <= n => g[m + 1] = f[m + 1]
             Same == {m \in Nat : Equal(m)}
  <2>0. \A i \in 1 .. n : g[i] = IF i = 1 THEN seqs[i] ELSE g[i - 1] \o seqs[i]
    OBVIOUS
  <2>1. Equal(0)
    BY <2>0, <1>5, <1>1
  <2>2. ASSUME NEW m \in Nat, Equal(m) PROVE Equal(m + 1)
    <3> SUFFICES ASSUME m + 2 <= n PROVE g[m + 1 + 1] = f[m + 1 + 1]
      OBVIOUS
    <3> DEFINE k == m + 2
    <3>1. k \in 2 .. n /\ k \in 1 .. n /\ k # 1 /\ k - 1 = m + 1 /\ m + 1 <= n /\ m + 1 + 1 = k
      BY <1>1
    <3> HIDE DEF k, n
    <3>2. g[k] = g[m + 1] \o seqs[k]
      BY <2>0, <3>1
    <3>3. f[k] = f[m + 1] \o seqs[k]
      BY <1>5, <3>1
    <3> QED
      BY <2>2, <3>1, <3>2, <3>3
  <2>3. \A m \in Nat : Equal(m)
    <3> HIDE DEF Equal
    <3>1. 0 \in Same /\ \A m \in Nat : m \in Same => m + 1 \in Same
      BY <2>1, <2>2
    <3>2. \A m \in Nat : m \in Same
      <4> HIDE DEF Same
      <4> QED
        BY <3>1, SetInduction
    <3> QED
      BY <3>2
  <2>4. \A i \in 1 .. n : i - 1 \in Nat /\ i - 1 + 1 = i /\ i <= n
    BY <1>1
  <2>5. \A i \in 1 .. n : g[i] = f[i]
    BY <2>3, <2>4
  <2>6. g = [i \in 1 .. n |-> g[i]] /\ f = [i \in 1 .. n |-> f[i]]
    BY <1>6
  <2> QED
    BY <2>5, <2>6
<1>8. FlattenSeq(seqs) = (CHOOSE g : Fix(g))[n]
  BY <1>1 DEF FlattenSeq
<1>9. (CHOOSE g : Fix(g)) = f
  <2> HIDE DEF Fix
  <2> QED
    BY <1>6, <1>7
<1> QED
  BY <1>5, <1>8, <1>9

(* If the first sequence is not empty, its head is the head of them all.    *)
LEMMA FlattenHead ==
  ASSUME NEW S, NEW seqs \in Seq(Seq(S)), Len(seqs) > 0, Len(seqs[1]) > 0
  PROVE  Len(FlattenSeq(seqs)) > 0 /\ FlattenSeq(seqs)[1] = seqs[1][1]
<1>1. PICK f \in [1 .. Len(seqs) -> Seq(S)] :
        /\ f[1] = seqs[1]
        /\ \A i \in 2 .. Len(seqs) : f[i] = f[i - 1] \o seqs[i]
        /\ FlattenSeq(seqs) = f[Len(seqs)]
  BY FlattenSteps
<1> DEFINE n == Len(seqs)
           Headed(m) == m + 1 <= n => Len(f[m + 1]) > 0 /\ f[m + 1][1] = seqs[1][1]
           Right == {m \in Nat : Headed(m)}
<1>2. n \in Nat /\ n > 0 /\ \A i \in 1 .. n : seqs[i] \in Seq(S) /\ f[i] \in Seq(S)
  BY SMTT(30)
<1>3. Headed(0)
  BY <1>1
<1>4. ASSUME NEW m \in Nat, Headed(m) PROVE Headed(m + 1)
  <2> SUFFICES ASSUME m + 2 <= n PROVE Len(f[m + 1 + 1]) > 0 /\ f[m + 1 + 1][1] = seqs[1][1]
    OBVIOUS
  <2> DEFINE k == m + 2
  <2>1. /\ k \in 2 .. n /\ k \in 1 .. n /\ k - 1 = m + 1 /\ m + 1 + 1 = k
        /\ m + 1 \in 1 .. n /\ m + 1 <= n
    BY <1>2
  <2> HIDE DEF k, n
  <2>2. f[k] = f[m + 1] \o seqs[k]
    BY <1>1, <2>1 DEF n
  <2>3. f[m + 1] \in Seq(S) /\ seqs[k] \in Seq(S)
    BY <1>2, <2>1
  <2>4. Len(f[m + 1]) > 0 /\ f[m + 1][1] = seqs[1][1]
    BY <1>4, <2>1
  <2>5. \A s, t \in Seq(S) : Len(s) > 0 => Len(s \o t) > 0 /\ (s \o t)[1] = s[1]
    OBVIOUS
  <2>6. Len(f[k]) > 0 /\ f[k][1] = seqs[1][1]
    BY <2>2, <2>3, <2>4, <2>5
  <2> QED
    BY <2>1, <2>6
<1>5. \A m \in Nat : Headed(m)
  <2> HIDE DEF Headed
  <2>1. 0 \in Right /\ \A m \in Nat : m \in Right => m + 1 \in Right
    BY <1>3, <1>4
  <2>2. \A m \in Nat : m \in Right
    <3> HIDE DEF Right
    <3> QED
      BY <2>1, SetInduction
  <2> QED
    BY <2>2
<1>6. n - 1 \in Nat /\ n - 1 + 1 = n /\ n <= n
  BY <1>2
<1>7. Headed(n - 1)
  <2> HIDE DEF Headed, n
  <2> QED
    BY <1>5, <1>6
<1> QED
  <2> HIDE DEF n
  <2>1. Len(f[n]) > 0 /\ f[n][1] = seqs[1][1]
    BY <1>6, <1>7
  <2> QED
    BY <1>1, <2>1 DEF n

LEMMA FlattenType ==
  ASSUME NEW S, NEW seqs \in Seq(Seq(S))
  PROVE  FlattenSeq(seqs) \in Seq(S)
<1>1. CASE Len(seqs) > 0
  <2>1. PICK f \in [1 .. Len(seqs) -> Seq(S)] : FlattenSeq(seqs) = f[Len(seqs)]
    BY <1>1, FlattenSteps
  <2>2. Len(seqs) \in 1 .. Len(seqs)
    BY <1>1
  <2> QED
    BY <2>1, <2>2
<1>2. CASE Len(seqs) = 0
  <2>1. FlattenSeq(seqs) = seqs /\ seqs = <<>>
    BY <1>2 DEF FlattenSeq
  <2> QED
    BY <2>1
<1> QED
  BY <1>1, <1>2

Symbols == STRING \cup {"D", "B", "@", "x", "n", "q", "e", "t", "a", "b", "/", " ", "-", "+"}
Files == [from : Seq(Symbols), path : Seq(Symbols), lines : Seq([sign : Symbols, content : Seq(Symbols)])]

LEMMA ChangesTyped ==
  ASSUME NEW files \in Indexes
  PROVE  files \in Seq(Files)
<1> DEFINE L == [sign : STRING, content : Seq(STRING)]
           M == [sign : Symbols, content : Seq(Symbols)]
           F == [from : Seq(STRING), path : Seq(STRING), lines : Seq(L)]
<1>1. files \in Seq(F)
  BY IndexesAssumption
<1>2. \A s \in Seq(STRING) : s \in Seq(Symbols)
  <2>1. \A x \in STRING : x \in Symbols
    BY DEF Symbols
  <2> QED
    BY <2>1, Widened
<1>3. \A line \in L : line \in M
  BY <1>2 DEF Symbols
<1>4. \A ls \in Seq(L) : ls \in Seq(M)
  <2> HIDE DEF L, M
  <2> QED
    BY <1>3, Widened
<1>5. ASSUME NEW f \in F PROVE f \in Files
  <2> SUFFICES f \in [from : Seq(Symbols), path : Seq(Symbols), lines : Seq(M)]
    BY DEF Files
  <2> HIDE DEF L, M
  <2> QED
    BY <1>2, <1>4
<1> HIDE DEF F
<1> QED
  BY <1>1, <1>5, Widened

(* A change of some file is not blank: it begins with a header.            *)
LEMMA HeaderFirst ==
  ASSUME NEW file \in Files
  PROVE  DiffOf(file) \in Seq(Symbols) /\ Len(DiffOf(file)) > 0 /\ DiffOf(file)[1] = "D"
<1>1. \A path \in Seq(Symbols) : Quoted(path) \in Seq(Symbols)
  <2> SUFFICES ASSUME NEW path \in Seq(Symbols) PROVE Quoted(path) \in Seq(Symbols)
    OBVIOUS
  <2> DEFINE parts == [i \in DOMAIN path |-> IF path[i] \in DOMAIN Quotes THEN Quotes[path[i]] ELSE <<path[i]>>]
  <2>1. \A s \in DOMAIN Quotes : Quotes[s] \in Seq(Symbols)
    <3>1. "e" \in Symbols /\ "q" \in Symbols /\ "t" \in Symbols
      BY DEF Symbols
    <3> QED
      BY <3>1, Couple DEF Quotes
  <2>2. ASSUME NEW i \in DOMAIN path PROVE parts[i] \in Seq(Symbols)
    BY <2>1, Couple
  <2>3. parts \in Seq(Seq(Symbols))
    BY <2>2, Mapped
  <2> QED
    BY <2>3, FlattenType DEF Quoted
<1>2. FlattenSeq([i \in DOMAIN file.lines |->
                    <<file.lines[i].sign>> \o file.lines[i].content \o <<"n">>]) \in Seq(Symbols)
  <2> DEFINE parts == [i \in DOMAIN file.lines |-> <<file.lines[i].sign>> \o file.lines[i].content \o <<"n">>]
  <2>1. file.lines \in Seq([sign : Symbols, content : Seq(Symbols)]) /\ "n" \in Symbols
    BY DEF Files, Symbols
  <2>2. ASSUME NEW i \in DOMAIN file.lines PROVE parts[i] \in Seq(Symbols)
    <3> DEFINE L == [sign : Symbols, content : Seq(Symbols)]
    <3>0. \A l \in L : l.sign \in Symbols /\ l.content \in Seq(Symbols)
      OBVIOUS
    <3>1. file.lines[i] \in L
      <4> HIDE DEF L
      <4>1. file.lines \in Seq(L)
        BY <2>1 DEF L
      <4> QED
        BY <4>1
    <3>2. file.lines[i].sign \in Symbols /\ file.lines[i].content \in Seq(Symbols)
      <4> HIDE DEF L
      <4> QED
        BY <3>0, <3>1
    <3> QED
      BY <2>1, <3>2, Couple
  <2>3. parts \in Seq(Seq(Symbols))
    <3> DEFINE L == [sign : Symbols, content : Seq(Symbols)]
    <3> HIDE DEF L
    <3>1. file.lines \in Seq(L)
      BY <2>1 DEF L
    <3> QED
      BY ZenonT(40), <3>1, <2>2, Mapped
  <2> QED
    BY <2>3, FlattenType
<1>3. \A s, t \in Seq(Symbols) : s \o t \in Seq(Symbols) /\ (Len(s) > 0 => Len(s \o t) > 0 /\ (s \o t)[1] = s[1])
  OBVIOUS
<1>4. file.from \in Seq(Symbols) /\ file.path \in Seq(Symbols)
  BY DEF Files
<1>5. /\ HeaderOf(file.from, file.path) \in Seq(Symbols)
      /\ Len(HeaderOf(file.from, file.path)) > 0 /\ HeaderOf(file.from, file.path)[1] = "D"
  <2> DEFINE left == IF NeedsQuotes(file.from) THEN <<"q", "a", "/">> \o Quoted(file.from) \o <<"q">>
                     ELSE <<"a", "/">> \o file.from
             right == IF NeedsQuotes(file.path) THEN <<" ", "q", "b", "/">> \o Quoted(file.path) \o <<"q">>
                      ELSE <<"B">> \o file.path
  <2>0. /\ <<"q", "a", "/">> \in Seq(Symbols) /\ <<"q">> \in Seq(Symbols) /\ <<"a", "/">> \in Seq(Symbols)
        /\ <<" ", "q", "b", "/">> \in Seq(Symbols) /\ <<"B">> \in Seq(Symbols)
    BY DEF Symbols
  <2>1. left \in Seq(Symbols) /\ right \in Seq(Symbols)
    BY <1>1, <1>3, <1>4, <2>0
  <2>2. HeaderOf(file.from, file.path) = <<"D">> \o left \o right \o <<"n">>
    BY DEF HeaderOf
  <2> HIDE DEF left, right
  <2>3. <<"D">> \in Seq(Symbols) /\ <<"n">> \in Seq(Symbols) /\ Len(<<"D">>) > 0 /\ <<"D">>[1] = "D"
    BY Couple DEF Symbols
  <2> QED
    BY <1>3, <2>1, <2>2, <2>3
<1>6. FileHeaders \o HunkHeader \in Seq(Symbols) /\ <<"x", "n">> \in Seq(Symbols)
  BY DEF FileHeaders, HunkHeader, Symbols
<1> QED
  BY <1>2, <1>3, <1>5, <1>6 DEF DiffOf

LEMMA ChangeNotBlank ==
  ASSUME NEW files \in Seq(Files), IsBlank(GitDiff(files))
  PROVE  files = <<>>
<1> SUFFICES ASSUME files # <<>> PROVE FALSE
  OBVIOUS
<1> DEFINE parts == [i \in DOMAIN files |-> DiffOf(files[i])]
<1>0. \A i \in DOMAIN files : files[i] \in Files /\ parts[i] \in Seq(Symbols)
  BY HeaderFirst
<1>1. parts \in Seq(Seq(Symbols)) /\ Len(parts) > 0 /\ parts[1] = DiffOf(files[1]) /\ files[1] \in Files
  <2>1. files \in Seq(Files) /\ Len(files) \in Nat /\ Len(files) > 0 /\ 1 \in DOMAIN files
    OBVIOUS
  <2> HIDE DEF Files
  <2> QED
    BY <1>0, <2>1
<1>2. Len(parts[1]) > 0 /\ parts[1][1] = "D"
  BY <1>1, HeaderFirst
<1>3. Len(GitDiff(files)) > 0 /\ GitDiff(files)[1] = "D" /\ GitDiff(files) \in Seq(Symbols)
  <2> HIDE DEF parts
  <2>1. GitDiff(files) = FlattenSeq(parts)
    BY DEF GitDiff, parts
  <2> QED
    BY <1>1, <1>2, <2>1, FlattenHead, FlattenType
<1>4. 1 \in DOMAIN GitDiff(files)
  BY <1>3
<1> QED
  BY <1>3, <1>4 DEF IsBlank

-----------------------------------------------------------------------------
LEMMA InitSourceInv == Init => SourceInv
<1> SUFFICES ASSUME Init PROVE SourceInv
  OBVIOUS
<1>1. server \in Pair(Commits) /\ named \in BOOLEAN
  BY OriginsAssumption DEF Init, For
<1>2. PICK clone \in Clones :
        local = clone.objects /\ cut = clone.cut /\ names = clone.names /\ remotes = clone.remotes
  BY ClonesAssumption DEF Init, For
<1>3. /\ local \subseteq Commits /\ cut \subseteq Commits
      /\ names \in Pair(Commits) /\ names \in Pair(local) /\ DOMAIN remotes = {"origin", "upstream"}
  BY <1>2, ClonesAssumption
<1>4. TypeOK
  BY <1>1, <1>3, BoundAssumption DEF Init, TypeOK, Pair
<1>5. Phase /\ Seen /\ Chosen
  BY DEF Init, Phase, Seen, Chosen, Early, Probing, Late
<1>6. Probed /\ Printed
  BY <1>3 DEF Init, Probed, Printed, Late, Waiting, Failed
<1> QED
  BY <1>4, <1>5, <1>6 DEF SourceInv

(* Once the source is resolved, nothing happens any more.                  *)
LEMMA DoneStays ==
  ASSUME pc = "done", [Next]_vars
  PROVE  UNCHANGED vars
BY DEF Next, Own, Network, Misused, Classify, ReadIndex, ResolvePR, ResolveRemoteName, ProbeHead, ProbeBase,
       FetchRef, FetchRefuses, ProbeAgain, RunLog, RunDiff, Killed, Collected, PrepareStaged,
       PrepareCommits, ToolFails, Stopped, Interrupt, Push, MoveNames, Step, vars

-----------------------------------------------------------------------------
(* The steps, conjunct by conjunct.                                        *)

LEMMA TypeStep ==
  ASSUME SourceInv, Next
  PROVE  TypeOK'
<1> USE DEF SourceInv, TypeOK, source, world, work, Step, Ends
<1>1. CASE Misused \/ Classify \/ ReadIndex \/ ToolFails \/ Stopped \/ Interrupt
  BY <1>1 DEF Misused, Classify, ReadIndex, ToolFails, Stopped, Interrupt, Phase, Early
<1>2. CASE ResolvePR \/ ResolveRemoteName
  BY <1>2 DEF ResolvePR, ResolveRemoteName, Matching
<1>3. CASE ProbeHead \/ ProbeBase
  BY ZenonT(40), <1>3 DEF ProbeHead, ProbeBase, Probe, ObjectExists, Pair
<1>4. CASE FetchRef
  <2>1. view \in Pair(Commits)
    BY <1>4 DEF FetchRef, Phase, Seen, Probing
  <2>2. \A end \in {"base", "head"} : Published(end) \in Commits \cup {Missing}
    BY <2>1, OriginsAssumption DEF Published, Pair
  <2>3. Wanted \subseteq Commits
    BY <1>4, <2>2 DEF FetchRef, Wanted
  <2>4. local' \subseteq Commits
    BY <1>4, <2>3, VisibleSubset DEF FetchRef
  <2> QED
    BY <1>4, <2>4 DEF FetchRef
<1>5. CASE FetchRefuses \/ ProbeAgain
  BY ZenonT(40), <1>5 DEF FetchRefuses, ProbeAgain, Pair, ObjectExists
<1>6. CASE RunLog \/ RunDiff
  <2>1. RevRange \in Pair(Commits)
    BY <1>6 DEF RunLog, RunDiff, RevRange, Phase, Seen, Late
  <2>2. /\ Log(RevRange.base, RevRange.head, Dots("log")) \subseteq Commits
        /\ Diff(RevRange.base, RevRange.head, Dots("diff"))
             \in [added : SUBSET Commits, reverted : SUBSET Commits]
    BY <2>1, PrintedTypes DEF Pair
  <2>3. CASE RunLog
    <3>1. logged' \in {Failed} \cup [status : {"ok"}, value : SUBSET Commits]
      BY <2>2, <2>3 DEF RunLog, Got
    <3> QED
      BY <2>3, <3>1 DEF RunLog
  <2>4. CASE RunDiff
    <3>1. diffed' \in {Failed} \cup
            [status : {"ok"}, value : [added : SUBSET Commits, reverted : SUBSET Commits]]
      BY <2>2, <2>4 DEF RunDiff, Got
    <3> QED
      BY <2>4, <3>1 DEF RunDiff
  <2> QED
    BY <1>6, <2>3, <2>4
<1>7. CASE Killed \/ Collected \/ PrepareStaged \/ PrepareCommits
  BY <1>7 DEF Killed, Collected, PrepareStaged, PrepareCommits, Phase
<1>8. CASE Push \/ MoveNames
  <2>1. CASE Push
    BY <2>1, OriginsAssumption, BoundAssumption DEF Push
  <2>2. CASE MoveNames
    BY <2>2, BoundAssumption DEF MoveNames, Pair
  <2> QED
    BY <1>8, <2>1, <2>2
<1> QED
  BY <1>1, <1>2, <1>3, <1>4, <1>5, <1>6, <1>7, <1>8 DEF Next, Own, Network

LEMMA PhaseStep ==
  ASSUME SourceInv, Next
  PROVE  Phase'
<1> USE DEF SourceInv, Phase, Early, Probing, Late, source, world, work, Step, Ends
<1>1. CASE Misused \/ Classify \/ ReadIndex \/ ToolFails \/ Stopped \/ Interrupt
  BY <1>1 DEF Misused, Classify, ReadIndex, ToolFails, Stopped, Interrupt
<1>2. CASE ResolvePR \/ ResolveRemoteName \/ ProbeHead \/ ProbeBase \/ FetchRef
  BY <1>2 DEF ResolvePR, ResolveRemoteName, ProbeHead, ProbeBase, FetchRef
<1>3. CASE FetchRefuses \/ ProbeAgain
  BY <1>3 DEF FetchRefuses, ProbeAgain
<1>4. CASE RunLog \/ RunDiff \/ Killed \/ Collected \/ PrepareStaged \/ PrepareCommits
  BY <1>4 DEF RunLog, RunDiff, Killed, Collected, PrepareStaged, PrepareCommits
<1>5. CASE Push \/ MoveNames
  BY <1>5 DEF Push, MoveNames
<1> QED
  BY <1>1, <1>2, <1>3, <1>4, <1>5 DEF Next, Own, Network

LEMMA SeenStep ==
  ASSUME SourceInv, Next
  PROVE  Seen'
<1> USE DEF SourceInv, Seen, Phase, Early, Probing, Late, source, world, work, Step, Ends
<1>1. CASE Misused \/ Classify \/ ReadIndex \/ ToolFails \/ Stopped \/ Interrupt
  BY <1>1 DEF Misused, Classify, ReadIndex, ToolFails, Stopped, Interrupt
<1>2. CASE ResolvePR \/ ResolveRemoteName \/ ProbeHead \/ ProbeBase \/ FetchRef
  BY <1>2 DEF ResolvePR, ResolveRemoteName, ProbeHead, ProbeBase, FetchRef, TypeOK
<1>3. CASE FetchRefuses \/ ProbeAgain
  BY <1>3 DEF FetchRefuses, ProbeAgain
<1>4. CASE RunLog \/ RunDiff \/ Killed \/ Collected \/ PrepareStaged \/ PrepareCommits
  BY <1>4 DEF RunLog, RunDiff, Killed, Collected, PrepareStaged, PrepareCommits
<1>5. CASE Push \/ MoveNames
  BY <1>5 DEF Push, MoveNames, TypeOK
<1> QED
  BY <1>1, <1>2, <1>3, <1>4, <1>5 DEF Next, Own, Network

LEMMA ChosenStep ==
  ASSUME SourceInv, Next
  PROVE  Chosen'
<1> USE DEF SourceInv, Chosen, Phase, Early, Probing, source, world, work, Step, Ends, Cancelled, Matching
<1>1. CASE Misused \/ Classify \/ ReadIndex \/ ToolFails \/ Stopped \/ Interrupt
  BY <1>1 DEF Misused, Classify, ReadIndex, ToolFails, Stopped, Interrupt
<1>2. CASE ResolvePR \/ ResolveRemoteName \/ ProbeHead \/ ProbeBase \/ FetchRef
  BY <1>2 DEF ResolvePR, ResolveRemoteName, RemoteUnknown, ProbeHead, ProbeBase, FetchRef
<1>3. CASE FetchRefuses \/ ProbeAgain
  BY <1>3 DEF FetchRefuses, ProbeAgain
<1>4. CASE RunLog \/ RunDiff \/ Killed \/ Collected \/ PrepareStaged \/ PrepareCommits
  BY <1>4 DEF RunLog, RunDiff, Killed, Collected, PrepareStaged, PrepareCommits
<1>5. CASE Push \/ MoveNames
  BY <1>5 DEF Push, MoveNames
<1> QED
  BY <1>1, <1>2, <1>3, <1>4, <1>5 DEF Next, Own, Network

LEMMA ProbedStep ==
  ASSUME SourceInv, Next
  PROVE  Probed'
<1> USE DEF SourceInv, Probed, AtHand, Phase, Early, Probing, Late, source, world, work, Step, Ends,
            Cancelled
<1>1. CASE Misused \/ Classify \/ ReadIndex \/ ToolFails \/ Stopped \/ Interrupt
  BY <1>1 DEF Misused, Classify, ReadIndex, ToolFails, Stopped, Interrupt, Reachable, Matching
<1>2. CASE ResolvePR \/ ResolveRemoteName
  BY <1>2 DEF ResolvePR, ResolveRemoteName, Reachable, Matching
<1>3. CASE ProbeHead \/ ProbeBase
  <2>1. have' \in Pair(BOOLEAN) /\ \A end \in {"base", "head"} : have'[end] => AtHand(end)
    BY <1>3, ZenonT(40) DEF ProbeHead, ProbeBase, Probe, ObjectExists, TypeOK, Pair
  <2> QED
    BY <1>3, <2>1 DEF ProbeHead, ProbeBase, Reachable, Matching, Pair
<1>4. CASE FetchRef
  <2>1. view \in Pair(Commits) /\ (moves = 0 => server = view)
    BY <1>4 DEF FetchRef, Seen
  <2>2. ASSUME moves = 0, Reachable, NEW end \in {"base", "head"}, ~have[end]
        PROVE  AtHand(end)'
    <3>1. remotes[remote] \in {"pr", "alias"}
      BY <1>4, <2>2 DEF FetchRef, Chosen, Reachable, Matching
    <3>2. Published(end) = view[end]
      BY <2>1, <2>2, <3>1 DEF Published
    <3>3. view[end] \in Wanted
      BY <2>2, <3>2 DEF Wanted
    <3>4. view[end] \in Visible(view[end])
      BY <2>1, VisibleSubset DEF Pair
    <3> QED
      BY <1>4, <3>3, <3>4 DEF FetchRef
  <2>3. local \subseteq local' /\ UNCHANGED <<remotes, have, view, moves, blame, names, request>> /\ pc' = "again"
    BY <1>4 DEF FetchRef
  <2>4. names' \in Pair(local')
    BY <2>3 DEF Pair
  <2> QED
    BY <2>2, <2>3, <2>4 DEF Reachable, Matching
<1>5. CASE FetchRefuses \/ ProbeAgain
  BY <1>5 DEF FetchRefuses, ProbeAgain, ObjectExists
<1>6. CASE RunLog \/ RunDiff \/ Killed \/ Collected \/ PrepareStaged \/ PrepareCommits
  BY <1>6 DEF RunLog, RunDiff, Killed, Collected, PrepareStaged, PrepareCommits
<1>7. CASE Push
  BY <1>7 DEF Push, TypeOK
<1>8. CASE MoveNames
  BY <1>8 DEF MoveNames, TypeOK, Pair
<1> QED
  BY <1>1, <1>2, <1>3, <1>4, <1>5, <1>6, <1>7, <1>8 DEF Next, Own, Network

(* What git prints of a pull request is about the commits in view, however *)
(* the names and the tips move; what it prints of a range is about what    *)
(* its names stand for at that moment.                                     *)
LEMMA PrintedStep ==
  ASSUME SourceInv, Next
  PROVE  Printed'
<1> USE DEF SourceInv, Printed, Phase, Early, Probing, Late, source, world, work, Step, Ends,
            Waiting, Failed
<1> DEFINE OnPR == request.kind = "pr" /\ pc \in Late
           OnRange == request.kind = "range" /\ pc \in Late
<1>0. ASSUME cut' = cut, NEW a, NEW b, NEW dots
      PROVE  /\ Log(a, b, dots)' = Log(a, b, dots) /\ Diff(a, b, dots)' = Diff(a, b, dots)
             /\ Diffable(a, b, dots)' = Diffable(a, b, dots)
  BY <1>0 DEF Log, Diff, Diffable, Visible
<1>1. ASSUME UNCHANGED <<cut, view, logged, diffed>>, OfPR
      PROVE  OfPR'
  BY <1>1 DEF OfPR, Log, Diff, Diffable, Visible, Got
<1>2. ASSUME UNCHANGED <<cut, names, request, logged, diffed, moves>>, OfRange
      PROVE  OfRange'
  BY <1>2 DEF OfRange, Log, Diff, Visible, Got
<1>3. CASE Misused \/ Classify \/ ReadIndex \/ ToolFails \/ Stopped \/ Interrupt
  <2>1. UNCHANGED <<cut, view, names, request, logged, diffed, moves>>
    BY <1>3 DEF Misused, Classify, ReadIndex, ToolFails, Stopped, Interrupt
  <2>2. CASE pc' \in Late /\ request.kind # "staged"
    <3>1. (OnPR /\ OfPR) \/ (logged = Waiting /\ diffed = Waiting) \/ (OnRange /\ OfRange)
      BY <1>3, <2>2, <2>1 DEF Misused, Classify, ReadIndex, ToolFails, Stopped, Interrupt
    <3>2. logged = Waiting /\ diffed = Waiting => OfPR /\ OfRange
      BY DEF OfPR, OfRange
    <3>3. request.kind = "pr" => OfPR
      BY <3>1, <3>2
    <3>4. request.kind = "range" => OfRange
      BY <3>1, <3>2
    <3>5. /\ pc' = "prepare" => pc = "prepare"
          /\ pc' = "collect" /\ blame' = {} => blame = {} /\ (pc = "collect" \/ Failed \notin {logged, diffed})
      BY <1>3, <2>2 DEF Misused, Classify, ReadIndex, ToolFails, Stopped, Interrupt
    <3> QED
      BY <1>1, <1>2, <2>1, <3>3, <3>4, <3>5 DEF Unrelated
  <2>3. CASE ~(pc' \in Late /\ request.kind # "staged")
    BY <2>1, <2>3, <1>3 DEF Misused, Classify, ReadIndex, ToolFails, Stopped, Interrupt
  <2> QED
    BY <2>2, <2>3
<1>4. CASE ResolvePR \/ ResolveRemoteName \/ ProbeHead \/ FetchRef
  BY <1>4 DEF ResolvePR, ResolveRemoteName, ProbeHead, FetchRef
<1>5. CASE ProbeBase \/ FetchRefuses \/ ProbeAgain
  BY <1>5 DEF ProbeBase, FetchRefuses, ProbeAgain, OfPR
<1>6. CASE RunLog \/ RunDiff
  <2>1. UNCHANGED <<cut, view, names, local, request, moves, pc, blame>> /\ pc = "collect" /\ ~Cancelled
    BY <1>6 DEF RunLog, RunDiff
  <2>2. UNCHANGED diffed \/ (diffed = Waiting /\ UNCHANGED logged)
    BY <1>6 DEF RunLog, RunDiff
  <2>3. logged' = logged \/ logged' = Failed \/ logged' = Got(Log(RevRange.base, RevRange.head, Dots("log")))
    BY <1>6 DEF RunLog, RunDiff
  <2>4. \/ diffed' = diffed
        \/ diffed' = Failed
        \/ /\ diffed' = Got(Diff(RevRange.base, RevRange.head, Dots("diff")))
           /\ Diffable(RevRange.base, RevRange.head, Dots("diff"))
    BY <1>6 DEF RunLog, RunDiff
  <2>7. blame = {} /\ Failed \in {logged', diffed'} => cut # {} \/ Unrelated
    <3>1. {RevRange.base, RevRange.head} \subseteq local /\ RevRange \in Pair(Commits)
      BY <2>1 DEF RevRange, Probed, AtHand, Seen, TypeOK, Pair
    <3>2. cut = {} => Visible(RevRange.base) = Anc[RevRange.base] /\ Visible(RevRange.head) = Anc[RevRange.head]
      BY <3>1, HistoryAssumption DEF Visible
    <3>3. cut = {} /\ ~Unrelated => Diffable(RevRange.base, RevRange.head, Dots("diff"))
      BY <3>1, <3>2 DEF Diffable, Unrelated, Pair
    <3>4. CASE RunLog
      BY <2>1, <3>1, <3>4 DEF RunLog, Got
    <3>5. CASE RunDiff
      BY <2>1, <3>1, <3>3, <3>5 DEF RunDiff, Got
    <3> QED
      BY <1>6, <3>4, <3>5
  <2>5. CASE request.kind = "pr"
    <3>1. RevRange = view /\ Dots("log") = 2 /\ Dots("diff") = 3
      BY <2>5 DEF RevRange, Dots
    <3>2. logged' = logged \/ logged' = Failed \/ logged' = Got(Log(view.base, view.head, 2))
      BY <2>3, <3>1
    <3>3. \/ diffed' = diffed
          \/ diffed' = Failed
          \/ diffed' = Got(Diff(view.base, view.head, 3)) /\ Diffable(view.base, view.head, 3)
      BY <2>4, <3>1
    <3>4. OfPR
      BY <2>1, <2>5
    <3>5. OfPR'
      BY <1>0, <2>1, <3>2, <3>3, <3>4 DEF OfPR, Got
    <3> QED
      BY <2>1, <2>5, <2>7, <3>5
  <2>6. CASE request.kind = "range"
    <3>1. RevRange = names /\ Dots("log") = request.dots /\ Dots("diff") = request.dots
      <4>1. RevRange = names
        BY <2>6 DEF RevRange
      <4>2. \A command : Dots(command) = request.dots
        BY <2>6 DEF Dots
      <4> QED
        BY <4>1, <4>2
    <3>2. logged' = logged \/ logged' = Failed \/ logged' = Got(Log(names.base, names.head, request.dots))
      BY <2>3, <3>1
    <3>3. \/ diffed' = diffed
          \/ diffed' = Failed
          \/ diffed' = Got(Diff(names.base, names.head, request.dots))
      BY <2>4, <3>1
    <3>4. OfRange
      BY <2>1, <2>6
    <3>5. OfRange'
      BY <1>0, <2>1, <3>2, <3>3, <3>4 DEF OfRange, Got
    <3> QED
      BY <2>1, <2>6, <2>7, <3>5
  <2> QED
    BY <2>1, <2>5, <2>6
<1>7. CASE Killed
  <2>1. UNCHANGED <<cut, view, names, request, moves, pc, blame>> /\ pc = "collect"
    BY <1>7 DEF Killed
  <2>2. logged' \in {logged, Failed} /\ diffed' \in {diffed, Failed}
    BY <1>7 DEF Killed
  <2>3. OfPR => OfPR'
    BY <1>0, <2>1, <2>2 DEF OfPR, Got
  <2>4. OfRange => OfRange'
    BY <1>0, <2>1, <2>2 DEF OfRange, Got
  <2>5. blame = {} => Failed \in {logged, diffed}
    BY <1>7 DEF Killed, Cancelled
  <2> QED
    BY <2>1, <2>3, <2>4, <2>5 DEF Unrelated
<1>8. CASE Collected
  <2>1. UNCHANGED <<cut, view, names, request, logged, diffed, moves>> /\ pc = "collect"
    BY <1>8 DEF Collected
  <2>2. pc' = "done" \/ (pc' = "prepare" /\ Failed \notin {logged, diffed})
    BY <1>8 DEF Collected
  <2>3. Failed \notin {logged, diffed} => logged.status = "ok" /\ diffed.status = "ok"
    BY <1>8 DEF Collected, TypeOK
  <2> QED
    BY <1>1, <1>2, <2>1, <2>2, <2>3
<1>9. CASE PrepareStaged \/ PrepareCommits
  BY <1>9 DEF PrepareStaged, PrepareCommits
<1>10. CASE Push
  <2>1. UNCHANGED <<cut, view, request, logged, diffed, pc, blame>> /\ request.kind = "pr"
    BY <1>10 DEF Push
  <2> QED
    BY <1>1, <2>1 DEF Unrelated
<1>11. CASE MoveNames
  <2>1. UNCHANGED <<cut, request, logged, diffed, pc, blame>> /\ request.kind = "range"
    BY <1>11 DEF MoveNames
  <2>2. OfRange'
    BY <1>11, BoundAssumption DEF MoveNames, OfRange, TypeOK
  <2> QED
    BY <2>1, <2>2 DEF Unrelated
<1> QED
  BY <1>3, <1>4, <1>5, <1>6, <1>7, <1>8, <1>9, <1>10, <1>11 DEF Next, Own, Network

LEMMA NextSourceInv ==
  ASSUME SourceInv, [Next]_vars
  PROVE  SourceInv'
<1>1. CASE Next
  BY <1>1, TypeStep, PhaseStep, SeenStep, ChosenStep, ProbedStep, PrintedStep DEF SourceInv
<1>2. CASE UNCHANGED vars
  <2> USE <1>2 DEF SourceInv, vars, source, world, work
  <2>1. TypeOK' /\ Phase' /\ Seen' /\ Chosen' /\ Probed'
    BY DEF TypeOK, Phase, Seen, Chosen, Probed, AtHand, Cancelled, Matching, Reachable
  <2>2. (OfPR => OfPR') /\ (OfRange => OfRange')
    BY DEF OfPR, OfRange, Log, Diff, Diffable, Visible, Got
  <2> QED
    BY <2>1, <2>2 DEF Printed, Unrelated
<1> QED
  BY <1>1, <1>2

THEOREM SourceSafe == Spec => []SourceInv
<1>1. Init => SourceInv
  BY InitSourceInv
<1>2. SourceInv /\ [Next]_vars => SourceInv'
  BY NextSourceInv
<1> QED
  BY <1>1, <1>2, PTL DEF Spec

-----------------------------------------------------------------------------
(* What is true of a source once it is resolved: established by the step   *)
(* that resolves it, and not disturbed, for nothing happens after it.      *)
OutcomeInv == SourceInv /\ index \in Indexes /\ RangeAgrees /\ FailsForCause

LEMMA RangeStep ==
  ASSUME SourceInv, Next, pc # "done"
  PROVE  RangeAgrees'
<1> SUFFICES ASSUME pc' = "done", error' = "none", request.kind = "range", request.dots = 2,
                    moves' = 0, (names.base \in Visible(names.head))', request' = request
             PROVE  (diffed.value = [added |-> logged.value, reverted |-> {}])'
  BY DEF RangeAgrees, Reviewed, Next, Own, Network, Misused, Classify, ReadIndex, ResolvePR, ResolveRemoteName,
         ProbeHead, ProbeBase, FetchRef, FetchRefuses, ProbeAgain, RunLog, RunDiff, Killed, Collected,
         PrepareStaged, PrepareCommits, ToolFails, Stopped, Interrupt, Push, MoveNames, source
<1>1. PrepareCommits
  BY DEF Next, Own, Network, Misused, Classify, ReadIndex, ResolvePR, ResolveRemoteName,
         ProbeHead, ProbeBase, FetchRef, FetchRefuses, ProbeAgain, RunLog, RunDiff, Killed, Collected,
         PrepareStaged, ToolFails, Stopped, Interrupt, Push, MoveNames, Step, Ends, work
<1>2. pc = "prepare" /\ UNCHANGED <<names, moves, cut, logged, diffed>>
  BY <1>1 DEF PrepareCommits, Ends, source, world
<1>3. /\ logged = Got(Log(names.base, names.head, 2)) /\ diffed = Got(Diff(names.base, names.head, 2))
  BY <1>2 DEF SourceInv, Printed, OfRange, Late
<1>4. names.base \in Commits /\ names.head \in Commits
  BY DEF SourceInv, TypeOK, Pair
<1>5. names.base \in Visible(names.head) /\ names.base \in Visible(names.base)
  BY <1>2, <1>4, VisibleSubset DEF Visible
<1>6. Visible(names.head) \ Visible(names.base) = Anc[names.head] \ Anc[names.base]
  BY <1>4, <1>5, VisibleDifference
<1>7. Anc[names.base] \ Anc[names.head] = {}
  BY <1>4, <1>5, HistoryAssumption DEF Visible
<1> QED
  BY <1>2, <1>3, <1>6, <1>7 DEF Got, Log, Diff

LEMMA CauseStep ==
  ASSUME SourceInv, index \in Indexes, Next, pc # "done"
  PROVE  FailsForCause'
<1> SUFFICES ASSUME pc' = "done", blame' = {} PROVE FailsForCause'
  BY DEF FailsForCause
<1> USE DEF SourceInv, source, world, work, Ends, Step, FailsForCause
<1>1. CASE Misused
  BY <1>1 DEF Misused
<1>2. CASE ReadIndex
  <2>1. error' = "nothing" /\ request.kind = "staged" /\ IsBlank(GitDiff(index)) /\ UNCHANGED <<request, index>>
    BY <1>2 DEF ReadIndex, Phase
  <2>2. index = <<>>
    BY <2>1, ChangesTyped, ChangeNotBlank
  <2> QED
    BY <2>1, <2>2
<1>3. CASE FetchRefuses
  <2>1. error' = "fetch" /\ UNCHANGED <<remotes, blame>> /\ Missing \in Wanted /\ pc = "fetch"
    BY <1>3 DEF FetchRefuses
  <2>2. PICK end \in {"base", "head"} : Published(end) = Missing
    BY <2>1 DEF Wanted
  <2>3. view \in Pair(Commits) /\ server \in Pair(Commits) /\ Missing \notin Commits
    BY <2>1, CommitsAssumption DEF Seen, Phase, Probing, TypeOK, Missing
  <2>4. remotes[remote] \notin {"pr", "alias"}
    BY <2>2, <2>3 DEF Published, Pair
  <2>5. ~Reachable
    BY <2>1, <2>4 DEF Chosen, Cancelled, Probing, Reachable, Matching
  <2> QED
    BY <2>1, <2>5 DEF Reachable, Matching
<1>4. CASE ProbeAgain
  <2>1. error' = "unresolved" /\ UNCHANGED <<remotes, blame, moves>> /\ pc = "again" /\ ~Cancelled
    BY <1>4 DEF ProbeAgain, Cancelled
  <2>2. ~ \A end \in {"base", "head"} : have[end] \/ AtHand(end)
    BY <1>4, <2>1 DEF ProbeAgain, ObjectExists, AtHand
  <2>3. moves > 0 \/ ~Reachable
    BY <2>1, <2>2, BoundAssumption DEF Probed, TypeOK
  <2> QED
    BY <2>1, <2>3 DEF Reachable, Matching
<1>5. CASE Collected
  <2>1. pc = "collect" /\ blame = {} /\ UNCHANGED <<request, moves, names, cut>>
    BY <1>5 DEF Collected
  <2>2. CASE Failed \in {logged, diffed}
    <3>1. error' = "git"
      BY <1>5, <2>2 DEF Collected
    <3>2. cut # {} \/ Unrelated
      BY <2>1, <2>2 DEF Printed
    <3> QED
      BY <2>1, <3>1, <3>2 DEF Unrelated
  <2>3. CASE Failed \notin {logged, diffed}
    <3>1. error' = "nothing" /\ request.kind = "range" /\ logged.value = {} /\ logged # Waiting /\ logged # Failed
      BY <1>5, <2>3 DEF Collected
    <3>2. logged.status = "ok"
      BY <3>1 DEF TypeOK
    <3>3. moves = 0 => logged.value = Log(names.base, names.head, request.dots)
      BY <2>1, <3>1, <3>2 DEF Printed, OfRange, Late, Got
    <3>4. moves > 0 \/ Visible(names.head) \subseteq Visible(names.base)
      BY <3>1, <3>3, BoundAssumption DEF Log, TypeOK
    <3>5. Visible(names.head)' = Visible(names.head) /\ Visible(names.base)' = Visible(names.base)
      BY <2>1 DEF Visible
    <3> QED
      BY <2>1, <3>1, <3>4, <3>5
  <2> QED
    BY <2>2, <2>3
<1>6. CASE PrepareStaged
  BY <1>6 DEF PrepareStaged, Phase
<1>7. CASE PrepareCommits
  <2>1. pc = "prepare" /\ request.kind # "staged" /\ UNCHANGED <<request, view>>
    BY <1>7 DEF PrepareCommits
  <2>2. CASE request.kind = "pr" /\ diffed.value.added = {}
    <3>1. diffed = Got(Diff(view.base, view.head, 3)) /\ view \in Pair(Commits)
      BY <2>1, <2>2 DEF Printed, OfPR, Seen, Late
    <3>2. view.head \in Anc[view.base]
      BY <2>2, <3>1, HistoryAssumption DEF Got, Diff, Pair
    <3> QED
      BY <1>7, <2>1, <2>2, <3>2 DEF PrepareCommits
  <2>3. CASE ~(request.kind = "pr" /\ diffed.value.added = {})
    BY <1>7, <2>1, <2>3 DEF PrepareCommits, Phase
  <2> QED
    BY <2>2, <2>3
<1>8. CASE ToolFails \/ Stopped
  BY <1>8 DEF ToolFails, Stopped, Cancelled
<1>9. Misused \/ ReadIndex \/ FetchRefuses \/ ProbeAgain \/ Collected \/ PrepareStaged \/ PrepareCommits
     \/ ToolFails \/ Stopped
  BY DEF Next, Own, Network, Classify, ResolvePR, ResolveRemoteName, ProbeHead, ProbeBase, FetchRef, RunLog, RunDiff,
         Killed, Interrupt, Push, MoveNames
<1> QED
  BY <1>1, <1>2, <1>3, <1>4, <1>5, <1>6, <1>7, <1>8, <1>9

(* A source is resolved to what was asked for, or refused for a cause,     *)
(* whatever the history, the clone and the moves of others: the property   *)
(* Outcome of resolveReviewSource and prepareReview.                       *)
THEOREM OutcomeHolds == Spec => []Outcome
<1>1. Init => OutcomeInv
  <2> SUFFICES ASSUME Init PROVE OutcomeInv
    OBVIOUS
  <2>1. index \in Indexes
    BY IndexesAssumption DEF Init, For
  <2> QED
    BY <2>1, InitSourceInv DEF OutcomeInv, Init, RangeAgrees, FailsForCause, Reviewed
<1>2. OutcomeInv /\ [Next]_vars => OutcomeInv'
  <2> SUFFICES ASSUME OutcomeInv, [Next]_vars PROVE OutcomeInv'
    OBVIOUS
  <2>1. SourceInv'
    BY NextSourceInv DEF OutcomeInv
  <2>2. index' = index
    BY DEF Next, Own, Network, Misused, Classify, ReadIndex, ResolvePR, ResolveRemoteName,
           ProbeHead, ProbeBase, FetchRef, FetchRefuses, ProbeAgain, RunLog, RunDiff, Killed, Collected,
           PrepareStaged, PrepareCommits, ToolFails, Stopped, Interrupt, Push, MoveNames, source, vars
  <2>3. CASE UNCHANGED vars
    BY <2>1, <2>2, <2>3 DEF OutcomeInv, vars, source, world, work, RangeAgrees, FailsForCause, Reviewed,
                      Visible, Reachable, Matching, Unrelated
  <2>4. CASE Next /\ pc # "done"
    BY <2>1, <2>2, <2>4, RangeStep, CauseStep DEF OutcomeInv
  <2> QED
    BY <2>3, <2>4, DoneStays
<1>3. OutcomeInv => Outcome
  BY DEF OutcomeInv, SourceInv, Outcome
<1> QED
  BY <1>1, <1>2, <1>3, PTL DEF Spec

-----------------------------------------------------------------------------
(* ReviewSource implements PRContract.                                     *)
LEMMA ContractInit == Init => Contract!Init
<1> SUFFICES ASSUME Init PROVE Contract!Init
  OBVIOUS
<1>1. server \in [base : Commits, head : Commits]
  BY InitSourceInv DEF SourceInv, TypeOK, Pair
<1>2. view = Contract!Unseen
  BY DEF Init, Unseen, Contract!Unseen
<1> QED
  BY <1>1, <1>2 DEF Init, Contract!Init, Contract!Pending

(* A step after which the source is still to be resolved, and which        *)
(* neither looks nor pushes, is none of the contract's business; so is     *)
(* every step of another kind of source.                                   *)
LEMMA Unconcerned ==
  ASSUME UNCHANGED <<server, view, request>>, pc # "done", pc' # "done" \/ request.kind # "pr"
  PROVE  UNCHANGED Contract!vars
BY DEF Contract!vars

(* A refusal shows nothing.                                                *)
LEMMA Refuses ==
  ASSUME UNCHANGED <<server, view, request>>, pc # "done", request.kind = "pr", pc' = "done", error' # "none"
  PROVE  Contract!Next
<1>1. Contract!Refuse
  BY DEF Contract!Refuse, Contract!Pending, Contract!Refused
<1> QED
  BY <1>1 DEF Contract!Next

(* What is delivered is what git printed of the commits in view: their     *)
(* log and their diff agree although the clone may hide some parents.      *)
LEMMA Delivers ==
  ASSUME SourceInv, PrepareCommits, request.kind = "pr", diffed.value.added # {}
  PROVE  Contract!Next
<1>1. /\ pc = "prepare" /\ pc' = "done" /\ error = "none" /\ error' = "none"
      /\ UNCHANGED <<server, view, request, logged, diffed>>
  BY DEF PrepareCommits, SourceInv, Phase, source, world
<1>2. /\ view \in Pair(Commits) /\ logged = Got(Log(view.base, view.head, 2))
      /\ diffed = Got(Diff(view.base, view.head, 3)) /\ Diffable(view.base, view.head, 3)
  BY <1>1 DEF SourceInv, Seen, Printed, OfPR, Late
<1>3. Visible(view.head) \ Visible(view.base) = Anc[view.head] \ Anc[view.base]
  BY <1>2, VisibleDifference DEF Diffable, Pair
<1>4. /\ logged.value = Anc[view.head] \ Anc[view.base]
      /\ diffed.value = [added |-> Anc[view.head] \ Anc[view.base], reverted |-> {}]
  BY <1>2, <1>3 DEF Got, Log, Diff
<1>5. view # Contract!Unseen
  BY <1>2, CommitsAssumption DEF Contract!Unseen, Pair
<1>6. Contract!Deliver
  BY <1>1, <1>4, <1>5 DEF Contract!Deliver, Contract!Pending, Contract!ReviewOf
<1> QED
  BY <1>6 DEF Contract!Next

LEMMA ContractStep ==
  ASSUME SourceInv, SourceInv', [Next]_vars
  PROVE  [Contract!Next]_(Contract!vars)
<1> USE DEF source, world, work, Step, Ends
<1>1. CASE pc = "done" \/ UNCHANGED vars
  <2>1. UNCHANGED vars
    BY <1>1, DoneStays
  <2> QED
    BY <2>1 DEF vars, Contract!vars
<1>2. CASE pc # "done" /\ ResolvePR
  <2>1. view = Contract!Unseen /\ view' = server /\ pc' # "done" /\ UNCHANGED <<server, request>>
    BY <1>2 DEF ResolvePR, SourceInv, Phase, Early, Unseen, Contract!Unseen
  <2>2. Contract!Look
    BY <1>2, <2>1 DEF Contract!Look
  <2> QED
    BY <2>2 DEF Contract!Next
<1>3. CASE pc # "done" /\ Push
  <2>1. server' \in [base : Commits, head : Commits] /\ UNCHANGED <<view, request, pc>>
    BY <1>3 DEF Push, SourceInv, TypeOK, Pair
  <2>2. Contract!Moves
    BY <1>3, <2>1 DEF Contract!Moves
  <2> QED
    BY <2>2 DEF Contract!Next
<1>4. CASE pc # "done" /\ PrepareCommits
  <2>1. UNCHANGED <<server, view, request>> /\ pc' = "done"
    BY <1>4 DEF PrepareCommits
  <2>2. CASE request.kind = "pr" /\ diffed.value.added = {}
    BY <1>4, <2>1, <2>2, Refuses DEF PrepareCommits
  <2>3. CASE request.kind = "pr" /\ diffed.value.added # {}
    BY <1>4, <2>3, Delivers
  <2>4. CASE request.kind # "pr"
    BY <1>4, <2>1, <2>4, Unconcerned
  <2> QED
    BY <2>2, <2>3, <2>4
<1>5. CASE /\ pc # "done"
           /\ \/ Misused \/ Classify \/ ReadIndex \/ ResolveRemoteName \/ ProbeHead \/ ProbeBase
              \/ FetchRef \/ FetchRefuses \/ ProbeAgain \/ RunLog \/ RunDiff \/ Killed \/ Collected
              \/ PrepareStaged \/ ToolFails \/ Stopped \/ Interrupt \/ MoveNames
  <2>1. UNCHANGED <<server, view, request>>
    BY <1>5 DEF Misused, Classify, ReadIndex, ResolveRemoteName, ProbeHead, ProbeBase, FetchRef,
                FetchRefuses, ProbeAgain, RunLog, RunDiff, Killed, Collected, PrepareStaged, ToolFails,
                Stopped, Interrupt, MoveNames
  <2>2. pc' = "done" /\ request.kind = "pr" => error' # "none"
    BY <1>5 DEF Misused, Classify, ReadIndex, ResolveRemoteName, ProbeHead, ProbeBase, FetchRef,
                FetchRefuses, ProbeAgain, RunLog, RunDiff, Killed, Collected, PrepareStaged, ToolFails,
                Stopped, Interrupt, MoveNames
  <2> QED
    BY <1>5, <2>1, <2>2, Unconcerned, Refuses
<1> QED
  BY <1>1, <1>2, <1>3, <1>4, <1>5 DEF Next, Own, Network

(* The review of a pull request is about the commits GitHub reported at    *)
(* one moment, or there is an error, whatever is pushed meanwhile, from    *)
(* whichever remote the objects came: prSource and rangeSource.            *)
THEOREM KeepsContractHolds == Spec => KeepsContract
<1>1. SourceInv /\ SourceInv' /\ [Next]_vars => [Contract!Next]_(Contract!vars)
  BY ContractStep
<1> QED
  BY <1>1, ContractInit, SourceSafe, PTL DEF Spec, KeepsContract, Contract!Spec
=============================================================================
