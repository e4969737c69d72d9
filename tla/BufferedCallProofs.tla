------------------------- MODULE BufferedCallProofs -------------------------
(***************************************************************************)
(* A buffered call, for any settings, statuses and bodies: it gives up no  *)
(* earlier than the settings say, asks nobody who has answered again,      *)
(* sends nothing once its context is done, sleeps as long as it should in  *)
(* a word that overflows, returns the whole text of an answer, and reports *)
(* on a clean line.                                                        *)
(***************************************************************************)
EXTENDS BufferedCall, FiniteSetTheorems, WellFoundedInduction, TLAPS

(* What the requests tries and the answers read have to do with where the   *)
(* call is.                                                                *)
Counted ==
  /\ maxRetries \in Nat /\ attempt \in Nat /\ tries \in Nat /\ attempt <= maxRetries
  /\ call \in {"idle", "ready", "backoff"} => tries = attempt
  /\ call = "flying" => tries = attempt + 1
  /\ cancelled \in BOOLEAN

Concluded ==
  /\ call \in {"idle", "ready", "flying", "backoff", "ok", "failed"}
  /\ call \in {"idle", "ready", "flying", "backoff"} =>
       failure = "none" /\ answered = 0 /\ text = <<>>
  /\ call = "ok" => failure = "none" /\ answered = 1 /\ text # <<>>
  /\ call = "failed" =>
       text = <<>> /\ (answered = 0 \/ (answered = 1 /\ failure = "empty"))

CallInv == Counted /\ Concluded /\ GivesUp

-----------------------------------------------------------------------------
LEMMA InitCallInv == Init => CallInv
<1> SUFFICES ASSUME Init PROVE CallInv
  OBVIOUS
<1>1. /\ call = "idle" /\ attempt = 0 /\ tries = 0 /\ cancelled = FALSE /\ answered = 0
      /\ text = <<>> /\ failure = "none"
  BY DEF Init, CallInit
<1>2. maxRetries \in Nat
  BY SettingsAssumption DEF Init, CallInit, Retries
<1>3. Counted
  <2>1. cancelled \in BOOLEAN
    BY <1>1
  <2> QED
    BY <1>1, <1>2, <2>1 DEF Counted
<1>4. Concluded
  BY <1>1 DEF Concluded
<1>5. GivesUp
  BY <1>1 DEF GivesUp
<1> QED
  BY <1>3, <1>4, <1>5 DEF CallInv

(* A call fails: for a lack of attempts only after the last of them.       *)
LEMMA FailsInv ==
  ASSUME CallInv, NEW why, Fails(why), call \in {"ready", "flying", "backoff"},
         UNCHANGED <<maxRetries, cancelled, tries, answered>>,
         why \in {"network", "busy"} => tries = maxRetries + 1
  PROVE  CallInv'
<1>1. /\ call' = "failed" /\ failure' = why
      /\ UNCHANGED <<text, attempt, maxRetries, cancelled, tries, answered>>
  BY DEF Fails
<1>2. Counted'
  BY <1>1 DEF CallInv, Counted
<1>3. Concluded'
  BY <1>1 DEF CallInv, Concluded
<1>4. GivesUp'
  BY <1>1 DEF GivesUp
<1> QED
  BY <1>2, <1>3, <1>4 DEF CallInv

LEMMA RetriesInv ==
  ASSUME CallInv, NEW why, RetriesOr(why), call = "flying",
         UNCHANGED <<maxRetries, cancelled, tries, answered>>
  PROVE  CallInv'
<1>1. CASE ~cancelled /\ attempt < maxRetries
  <2>1. /\ call' = "backoff" /\ attempt' = attempt + 1
        /\ UNCHANGED <<text, failure, maxRetries, cancelled, tries, answered>>
    BY <1>1 DEF RetriesOr, outcome
  <2>2. Counted'
    BY <1>1, <2>1 DEF CallInv, Counted
  <2>3. Concluded' /\ GivesUp'
    BY <2>1 DEF CallInv, Concluded, GivesUp
  <2> QED
    BY <2>2, <2>3 DEF CallInv
<1>2. CASE ~(~cancelled /\ attempt < maxRetries)
  <2> DEFINE reason == IF cancelled THEN "cancelled" ELSE why
  <2>1. Fails(reason)
    BY <1>2 DEF RetriesOr
  <2>2. reason \in {"network", "busy"} => tries = maxRetries + 1
    <3>1. CASE cancelled
      BY <3>1
    <3>2. CASE ~cancelled
      BY <1>2, <3>2 DEF CallInv, Counted
    <3> QED
      BY <3>1, <3>2
  <2> HIDE DEF reason
  <2> QED
    BY <2>1, <2>2, FailsInv
<1> QED
  BY <1>1, <1>2

LEMMA AnswersInv ==
  ASSUME CallInv, NEW b, Answers(b)
  PROVE  CallInv'
<1>1. /\ call = "flying" /\ answered' = answered + 1
      /\ UNCHANGED <<maxRetries, cancelled, tries>>
  BY DEF Answers
<1>2. answered' = 1 /\ text = <<>> /\ failure = "none"
  BY <1>1 DEF CallInv, Concluded
<1>3. CASE Usable(provider, b)
  <2>1. call' = "ok" /\ text' = Reply(provider, b) /\ UNCHANGED <<failure, attempt>>
    BY <1>3 DEF Answers
  <2>2. text' # <<>>
    BY <1>3, <2>1 DEF Usable
  <2>3. Counted'
    BY <1>1, <2>1 DEF CallInv, Counted
  <2>4. Concluded' /\ GivesUp'
    BY <1>1, <1>2, <2>1, <2>2 DEF Concluded, GivesUp
  <2> QED
    BY <2>3, <2>4 DEF CallInv
<1>4. CASE ~Usable(provider, b)
  <2>1. call' = "failed" /\ failure' = "empty" /\ UNCHANGED <<text, attempt>>
    BY <1>4 DEF Answers, Fails
  <2>2. Counted'
    BY <1>1, <2>1 DEF CallInv, Counted
  <2>3. Concluded' /\ GivesUp'
    BY <1>2, <2>1 DEF Concluded, GivesUp
  <2> QED
    BY <2>2, <2>3 DEF CallInv
<1> QED
  BY <1>3, <1>4

LEMMA FlightInv ==
  ASSUME CallInv, Flight
  PROVE  CallInv'
<1>1. CASE TransportFails
  BY <1>1, RetriesInv DEF TransportFails
<1>2. CASE BodyFails
  <2> DEFINE reason == IF cancelled THEN "cancelled" ELSE "read"
  <2>1. /\ call = "flying" /\ Fails(reason) /\ reason \notin {"network", "busy"}
        /\ UNCHANGED <<maxRetries, cancelled, tries, answered>>
    BY <1>2 DEF BodyFails
  <2> HIDE DEF reason
  <2> QED
    BY <2>1, FailsInv
<1>3. ASSUME NEW code \in Statuses, StatusError(code) PROVE CallInv'
  <2> DEFINE reason == IF cancelled THEN "cancelled" ELSE "rejected"
  <2>1. /\ call = "flying" /\ reason \notin {"network", "busy"}
        /\ UNCHANGED <<maxRetries, cancelled, tries, answered>>
        /\ RetriesOr("busy") \/ Fails(reason)
    BY <1>3 DEF StatusError
  <2> HIDE DEF reason
  <2>2. CASE RetriesOr("busy")
    BY <2>1, <2>2, RetriesInv
  <2>3. CASE Fails(reason)
    BY <2>1, <2>3, FailsInv
  <2> QED
    BY <2>1, <2>2, <2>3
<1>4. ASSUME NEW b \in Bodies[provider], Answers(b) PROVE CallInv'
  BY <1>4, AnswersInv
<1> QED
  BY <1>1, <1>2, <1>3, <1>4 DEF Flight

LEMMA OwnInv ==
  ASSUME CallInv, Own
  PROVE  CallInv'
<1>1. CASE Try \/ BackoffElapses
  <2>1. Counted'
    BY <1>1 DEF CallInv, Counted, Try, BackoffElapses
  <2>2. Concluded' /\ GivesUp'
    BY <1>1 DEF CallInv, Concluded, GivesUp, Try, BackoffElapses
  <2> QED
    BY <2>1, <2>2 DEF CallInv
<1>2. CASE Refused \/ BackoffCancelled
  <2>1. /\ Fails("cancelled") /\ call \in {"ready", "backoff"}
        /\ UNCHANGED <<maxRetries, cancelled, tries, answered>>
    BY <1>2 DEF Refused, BackoffCancelled
  <2> QED
    BY <2>1, FailsInv
<1> QED
  BY <1>1, <1>2 DEF Own

LEMMA NextCallInv == CallInv /\ [Next]_vars => CallInv'
<1> SUFFICES ASSUME CallInv, [Next]_vars PROVE CallInv'
  OBVIOUS
<1>1. CASE Calls
  BY <1>1, OwnInv, FlightInv DEF Calls, CallNext
<1>2. CASE Begins
  <2>1. Counted'
    BY <1>2 DEF CallInv, Counted, Begins, CallStarts
  <2>2. Concluded' /\ GivesUp'
    BY <1>2 DEF CallInv, Concluded, GivesUp, Begins, CallStarts
  <2> QED
    BY <2>1, <2>2 DEF CallInv
<1>3. CASE Interrupts
  <2>1. Counted'
    BY <1>3 DEF CallInv, Counted, Interrupts, Cancel
  <2>2. Concluded' /\ GivesUp'
    BY <1>3 DEF CallInv, Concluded, GivesUp, Interrupts, Cancel
  <2> QED
    BY <2>1, <2>2 DEF CallInv
<1>4. CASE Warns \/ Stops \/ Joins \/ Reports \/ Spins \/ UNCHANGED vars
  <2>1. UNCHANGED callVars
    BY <1>4 DEF Warns, Stops, Joins, Reports, Spins, vars
  <2> QED
    BY <2>1 DEF callVars, CallInv, Counted, Concluded, GivesUp
<1> QED
  BY <1>1, <1>2, <1>3, <1>4 DEF Next

-----------------------------------------------------------------------------
(* What is true of 0, and of n + 1 if it is of n, is true of every natural *)
(* number: of those it is not true of, one would be the least.             *)
LEMMA SetInduction ==
  ASSUME NEW S, 0 \in S, \A n \in Nat : n \in S => n + 1 \in S
  PROVE  \A n \in Nat : n \in S
<1> DEFINE R == OpToRel(<, Nat)
<1>1. IsWellFoundedOn(R, Nat)
  BY NatLessThanWellFounded
<1>2. ASSUME NEW x \in Nat, NEW y \in Nat, y < x PROVE <<y, x>> \in R
  BY <1>2 DEF OpToRel
<1> HIDE DEF R
<1> SUFFICES ASSUME Nat \ S # {} PROVE FALSE
  OBVIOUS
<1>3. PICK x \in Nat \ S : \A y \in Nat \ S : ~(<<y, x>> \in R)
  <2>1. Nat \ S \subseteq Nat
    OBVIOUS
  <2> QED
    BY <1>1, <2>1, WFMin
<1>4. x # 0 /\ x - 1 \in Nat /\ x - 1 + 1 = x /\ x - 1 < x
  OBVIOUS
<1> QED
  BY <1>2, <1>3, <1>4

(* A recursion from m to n, each step of which depends on its place and on *)
(* the value before it, has a solution.                                    *)
Rules(S, m, n) == [m + 1 .. n -> [S -> S]]
Obeys(f, S, m, n, a, G) ==
  f \in [m .. n -> S] /\ f = [i \in m .. n |-> IF i = m THEN a ELSE G[i][f[i - 1]]]

LEMMA Recursion ==
  ASSUME NEW S, NEW m \in Nat, NEW n \in Nat, m <= n, NEW a \in S, NEW G \in Rules(S, m, n)
  PROVE  \E f : Obeys(f, S, m, n, a, G)
<1> DEFINE Upto(f, k) == /\ f \in [m .. m + k -> S] /\ f[m] = a
                         /\ \A i \in m + 1 .. m + k : f[i] = G[i][f[i - 1]]
           Solvable(k) == m + k <= n => \E f : Upto(f, k)
           Solved == {k \in Nat : Solvable(k)}
<1>1. Solvable(0)
  <2>1. Upto([i \in m .. m |-> a], 0)
    OBVIOUS
  <2> HIDE DEF Upto
  <2> QED
    BY <2>1
<1>2. ASSUME NEW k \in Nat, Solvable(k) PROVE Solvable(k + 1)
  <2> SUFFICES ASSUME m + (k + 1) <= n PROVE \E f : Upto(f, k + 1)
    OBVIOUS
  <2>1. PICK f : Upto(f, k)
    <3>1. m + k <= n
      OBVIOUS
    <3> HIDE DEF Upto
    <3> QED
      BY <1>2, <3>1
  <2> DEFINE c == m + k + 1
             g == [i \in m .. c |-> IF i = c THEN G[c][f[c - 1]] ELSE f[i]]
  <2>2. /\ c \in m + 1 .. n /\ c - 1 = m + k /\ c - 1 \in m .. m + k /\ m + (k + 1) = c /\ c # m
        /\ c \in Nat /\ m \in m .. m + k /\ m \in m .. c
        /\ \A i \in m .. c : i = c \/ i \in m .. m + k
        /\ \A i \in m + 1 .. c : i \in m .. c /\ i - 1 \in m .. m + k /\ i - 1 \in m .. c /\ i - 1 # c
        /\ \A i \in m + 1 .. c : i = c \/ i \in m + 1 .. m + k
    OBVIOUS
  <2>3. f \in [m .. m + k -> S] /\ f[m] = a /\ \A i \in m + 1 .. m + k : f[i] = G[i][f[i - 1]]
    BY <2>1
  <2> HIDE DEF c
  <2>4. G[c][f[c - 1]] \in S
    BY <2>2, <2>3 DEF Rules
  <2>5. g \in [m .. c -> S] /\ g[m] = a
    BY <2>2, <2>3, <2>4
  <2>6. ASSUME NEW i \in m + 1 .. c PROVE g[i] = G[i][g[i - 1]]
    BY <2>2, <2>3
  <2> QED
    BY <2>2, <2>5, <2>6
<1>3. \A k \in Nat : Solvable(k)
  <2> HIDE DEF Solvable
  <2>1. 0 \in Solved /\ \A k \in Nat : k \in Solved => k + 1 \in Solved
    BY <1>1, <1>2
  <2>2. \A k \in Nat : k \in Solved
    <3> HIDE DEF Solved
    <3> QED
      BY <2>1, SetInduction
  <2> QED
    BY <2>2
<1>4. n - m \in Nat /\ m + (n - m) = n /\ n <= n
  OBVIOUS
<1>5. PICK f : Upto(f, n - m)
  <2>1. Solvable(n - m)
    <3> HIDE DEF Solvable
    <3> QED
      BY <1>3, <1>4
  <2> HIDE DEF Upto
  <2> QED
    BY <2>1, <1>4
<1>6. f \in [m .. n -> S] /\ f[m] = a /\ \A i \in m + 1 .. n : f[i] = G[i][f[i - 1]]
  BY <1>4, <1>5
<1>7. \A i \in m .. n : f[i] = IF i = m THEN a ELSE G[i][f[i - 1]]
  <2>1. \A i \in m .. n : i = m \/ i \in m + 1 .. n
    OBVIOUS
  <2> QED
    BY <2>1, <1>6
<1>8. f = [i \in m .. n |-> IF i = m THEN a ELSE G[i][f[i - 1]]]
  BY <1>6, <1>7
<1> QED
  BY <1>6, <1>8 DEF Obeys

-----------------------------------------------------------------------------
(* Powers of two *)

Doubles(d, n) == d \in [0 .. n -> Nat] /\ d[0] = 1 /\ \A i \in 1 .. n : d[i] = 2 * d[i - 1]

LEMMA PowDoubles ==
  ASSUME NEW n \in Nat
  PROVE  \E d : Doubles(d, n) /\ Pow2(n) = d[n]
<1> DEFINE Fix(d) == d = [i \in 0 .. n |-> IF i = 0 THEN 1 ELSE 2 * d[i - 1]]
           z == 0
           one == 1
           G == [i \in z + 1 .. n |-> [k \in Nat |-> 2 * k]]
<1>1. PICK f \in [0 .. n -> Nat] : f = [i \in 0 .. n |-> IF i = 0 THEN 1 ELSE G[i][f[i - 1]]]
  <2>1. G \in Rules(Nat, z, n) /\ one \in Nat /\ z \in Nat /\ z <= n
    BY DEF Rules
  <2>2. \E f : Obeys(f, Nat, z, n, one, G)
    <3> HIDE DEF G, z, one
    <3> QED
      BY <2>1, Recursion
  <2> QED
    BY <2>2 DEF Obeys
<1>2. \A i \in 1 .. n : i - 1 \in 0 .. n /\ i # 0 /\ i \in 0 .. n /\ i \in 0 + 1 .. n
  OBVIOUS
<1>3. \A i \in 1 .. n : f[i] = 2 * f[i - 1]
  BY <1>1, <1>2
<1>4. Fix(f)
  <2>1. \A i \in 0 .. n : i = 0 \/ i \in 1 .. n
    OBVIOUS
  <2>2. f[0] = 1
    BY <1>1
  <2>3. \A i \in 0 .. n : f[i] = IF i = 0 THEN 1 ELSE 2 * f[i - 1]
    BY <2>1, <2>2, <1>3
  <2> QED
    BY <2>3
<1> DEFINE d == CHOOSE e : Fix(e)
<1>5. Fix(d)
  <2> HIDE DEF Fix
  <2> QED
    BY <1>4
<1>6. Pow2(n) = d[n]
  BY DEF Pow2
<1> HIDE DEF d
<1>7. d[0] = 1 /\ \A i \in 1 .. n : d[i] = 2 * d[i - 1]
  BY <1>2, <1>5
<1> DEFINE Typed(k) == k <= n => d[k] \in Nat
           Right == {k \in Nat : Typed(k)}
<1>8. 0 \in Right /\ \A k \in Nat : k \in Right => k + 1 \in Right
  <2>1. ASSUME NEW k \in Nat, Typed(k), k + 1 <= n PROVE d[k + 1] \in Nat
    <3>1. k <= n /\ k + 1 \in 1 .. n /\ k + 1 - 1 = k
      BY <2>1
    <3> QED
      BY <2>1, <3>1, <1>7
  <2> QED
    BY <1>7, <2>1
<1>9. \A k \in Nat : Typed(k)
  <2>1. \A k \in Nat : k \in Right
    <3> HIDE DEF Right
    <3> QED
      BY <1>8, SetInduction
  <2> QED
    BY <2>1
<1>10. d \in [0 .. n -> Nat]
  BY <1>5, <1>9
<1> QED
  BY <1>6, <1>7, <1>10 DEF Doubles

LEMMA PowStep ==
  ASSUME NEW n \in Nat
  PROVE  Pow2(n) \in Nat \ {0} /\ Pow2(n + 1) = 2 * Pow2(n) /\ Pow2(0) = 1
<1>1. PICK d : Doubles(d, n) /\ Pow2(n) = d[n]
  BY PowDoubles
<1>2. PICK e : Doubles(e, n + 1) /\ Pow2(n + 1) = e[n + 1]
  BY PowDoubles
<1>3. PICK z : Doubles(z, 0) /\ Pow2(0) = z[0]
  BY PowDoubles
<1> DEFINE Agree(k) == k <= n => d[k] = e[k] /\ d[k] # 0
           Right == {k \in Nat : Agree(k)}
<1>4. 0 \in Right /\ \A k \in Nat : k \in Right => k + 1 \in Right
  <2>1. ASSUME NEW k \in Nat, Agree(k), k + 1 <= n PROVE d[k + 1] = e[k + 1] /\ d[k + 1] # 0
    <3>1. k <= n /\ k + 1 \in 1 .. n /\ k + 1 \in 1 .. n + 1 /\ k + 1 - 1 = k /\ k \in 0 .. n
      BY <2>1
    <3>2. d[k + 1] = 2 * d[k] /\ d[k] \in Nat
      BY <3>1, <1>1 DEF Doubles
    <3>3. e[k + 1] = 2 * e[k]
      BY <3>1, <1>2 DEF Doubles
    <3> QED
      BY <2>1, <3>1, <3>2, <3>3
  <2> QED
    BY <2>1, <1>1, <1>2 DEF Doubles
<1>5. Agree(n)
  <2>1. \A k \in Nat : k \in Right
    <3> HIDE DEF Right
    <3> QED
      BY <1>4, SetInduction
  <2> QED
    BY <2>1
<1>6. n + 1 \in 1 .. n + 1 /\ n + 1 - 1 = n /\ n \in 0 .. n /\ n <= n
  OBVIOUS
<1>7. e[n + 1] = 2 * e[n] /\ d[n] \in Nat
  BY <1>1, <1>2, <1>6 DEF Doubles
<1>8. Pow2(n) \in Nat \ {0} /\ Pow2(n + 1) = 2 * Pow2(n)
  BY <1>1, <1>2, <1>5, <1>6, <1>7
<1>9. Pow2(0) = 1
  BY <1>3 DEF Doubles
<1> QED
  BY <1>8, <1>9

(* Of two powers, the smaller one divides the larger. *)
LEMMA PowDivides ==
  ASSUME NEW m \in Nat, NEW n \in Nat, m <= n
  PROVE  \E q \in Nat : Pow2(n) = Pow2(m) * q
<1> DEFINE Divides(k) == \E q \in Nat : Pow2(m + k) = Pow2(m) * q
           Right == {k \in Nat : Divides(k)}
<1>1. Divides(0)
  <2>1. Pow2(m + 0) = Pow2(m) * 1
    BY PowStep
  <2> QED
    BY <2>1
<1>2. ASSUME NEW k \in Nat, Divides(k) PROVE Divides(k + 1)
  <2>1. PICK q \in Nat : Pow2(m + k) = Pow2(m) * q
    BY <1>2
  <2>2. m + k \in Nat /\ m + (k + 1) = (m + k) + 1
    OBVIOUS
  <2>3. Pow2(m + (k + 1)) = 2 * Pow2(m + k) /\ Pow2(m) \in Nat
    BY <2>2, PowStep
  <2>4. Pow2(m + (k + 1)) = Pow2(m) * (2 * q) /\ 2 * q \in Nat
    <3> DEFINE P == Pow2(m)
    <3> HIDE DEF P
    <3>1. P \in Nat => 2 * (P * q) = P * (2 * q)
      OBVIOUS
    <3> QED
      BY <2>1, <2>3, <3>1 DEF P
  <2> QED
    BY <2>4
<1>3. \A k \in Nat : Divides(k)
  <2> HIDE DEF Divides
  <2>1. 0 \in Right /\ \A k \in Nat : k \in Right => k + 1 \in Right
    BY <1>1, <1>2
  <2>2. \A k \in Nat : k \in Right
    <3> HIDE DEF Right
    <3> QED
      BY <2>1, SetInduction
  <2> QED
    BY <2>2
<1>4. n - m \in Nat /\ m + (n - m) = n
  OBVIOUS
<1>5. Divides(n - m)
  BY <1>3, <1>4
<1> QED
  BY <1>4, <1>5

LEMMA Modulo ==
  ASSUME NEW x \in Nat, NEW m \in Nat \ {0}
  PROVE  /\ x % m \in 0 .. m - 1
         /\ x < m => x % m = x
         /\ \E t \in Nat : x = m * t + (x % m)
<1>1. x % m \in 0 .. m - 1
  OBVIOUS
<1>2. x < m => x % m = x
  OBVIOUS
<1>3. x = m * (x \div m) + (x % m) /\ x \div m \in Nat
  OBVIOUS
<1> QED
  BY <1>1, <1>2, <1>3

(* Whatever the shift overflows to, the delay before attempt a is the      *)
(* exponential one or BackoffMax, whichever is less.                       *)
LEMMA BackoffValue ==
  ASSUME NEW a \in Nat \ {0}
  PROVE  LET exponential == BackoffBase * Pow2(a - 1)
         IN  /\ Backoff(a) = IF exponential > BackoffMax THEN BackoffMax ELSE exponential
             /\ Backoff(a) \in 0 .. BackoffMax
<1> DEFINE P == Pow2(a - 1)
           M == Pow2(WordBits)
           H == Pow2(WordBits - 1)
           x == BackoffBase * P
           word == x % M
<1>1. /\ P \in Nat \ {0} /\ H \in Nat \ {0} /\ M = 2 * H /\ M \in Nat \ {0}
  <2>1. a - 1 \in Nat /\ WordBits - 1 \in Nat /\ WordBits - 1 + 1 = WordBits
    BY BackoffAssumption
  <2> QED
    BY <2>1, PowStep
<1>2. /\ BackoffBase \in Nat \ {0} /\ BackoffMax \in Nat /\ BackoffBase * BackoffMax < H
  BY BackoffAssumption
<1>3. Shifted(a) = IF word < H THEN word ELSE word - M
  BY DEF Shifted
<1>4. CASE P <= BackoffMax
  <2> HIDE DEF P, M, H
  <2>1. BackoffBase * P <= BackoffBase * BackoffMax
    BY <1>1, <1>2, <1>4
  <2>2. x \in Nat \ {0} /\ x < H
    BY <1>1, <1>2, <2>1
  <2> HIDE DEF x
  <2>3. word = x
    BY <1>1, <2>2, Modulo
  <2> HIDE DEF word
  <2>4. Shifted(a) = x
    BY <1>3, <2>2, <2>3
  <2>5. Backoff(a) = IF x > BackoffMax THEN BackoffMax ELSE x
    BY <2>2, <2>4 DEF Backoff
  <2> QED
    BY <1>2, <2>2, <2>5 DEF x, P
<1>5. CASE P > BackoffMax
  <2>1. \E r \in Nat : word = P * r
    <3>1. CASE a - 1 <= WordBits
      <4>1. PICK q \in Nat : M = P * q
        <5>1. a - 1 \in Nat /\ WordBits \in Nat
          BY BackoffAssumption
        <5> QED
          BY <3>1, <5>1, PowDivides
      <4> HIDE DEF P, M, H
      <4>2. x \in Nat
        BY <1>1, <1>2
      <4>3. PICK t \in Nat : x = M * t + word /\ word \in Nat
        <5> HIDE DEF x
        <5>1. /\ x % M \in 0 .. M - 1 /\ \E t \in Nat : x = M * t + (x % M)
          BY <1>1, <4>2, Modulo
        <5> QED
          BY <5>1
      <4> DEFINE r == BackoffBase - q * t
      <4>4. word = P * r /\ r \in Int
        <5>1. word = BackoffBase * P - (P * q) * t
          BY <4>1, <4>3, <1>1, <1>2
        <5>2. BackoffBase * P - (P * q) * t = P * (BackoffBase - q * t)
          BY <1>1, <1>2
        <5> QED
          BY <5>1, <5>2, <1>2
      <4> HIDE DEF r, word
      <4>5. r >= 0
        BY <4>3, <4>4, <1>1
      <4> QED
        BY <4>4, <4>5
    <3>2. CASE a - 1 > WordBits
      <4>1. PICK q \in Nat : P = M * q
        <5>1. a - 1 \in Nat /\ WordBits \in Nat /\ WordBits <= a - 1
          BY <3>2, BackoffAssumption
        <5> QED
          BY <5>1, PowDivides
      <4> HIDE DEF P, M, H
      <4>2. x \in Nat /\ x = M * (BackoffBase * q)
        BY <1>1, <1>2, <4>1
      <4>3. word = 0
        <5> DEFINE c == BackoffBase * q
        <5>1. c \in Nat /\ x = M * c /\ x \in Nat
          BY <4>2, <1>2
        <5> HIDE DEF c, x
        <5>2. x % M \in 0 .. M - 1 /\ \E t \in Nat : x = M * t + (x % M)
          BY <1>1, <5>1, Modulo
        <5>3. PICK t \in Nat : x = M * t + (x % M)
          BY <5>2
        <5> DEFINE w == x % M
        <5>4. w \in 0 .. M - 1 /\ M * c = M * t + w
          BY <5>1, <5>2, <5>3
        <5> HIDE DEF w
        <5>5. w = M * (c - t) /\ c - t \in Int
          BY <5>1, <5>4, <1>1
        <5>6. CASE c - t >= 1
          <6>1. M * (c - t) >= M
            BY <5>6, <5>1, <1>1
          <6> QED
            BY <6>1, <5>5, <5>4, <1>1
        <5>7. CASE c - t <= -1
          <6>1. M * (c - t) <= -M
            BY <5>7, <5>1, <1>1
          <6> QED
            BY <6>1, <5>5, <5>4, <1>1
        <5>8. CASE c - t = 0
          BY <5>8, <5>5, <1>1 DEF w
        <5> QED
          BY <5>5, <5>6, <5>7, <5>8
      <4>4. word = P * 0
        BY <4>3, <1>1
      <4> QED
        BY <4>4
    <3> QED
      BY <3>1, <3>2, BackoffAssumption
  <2>2. x > BackoffMax /\ x \in Nat
    <3> HIDE DEF P, M, H
    <3>1. BackoffBase * P >= P
      BY <1>1, <1>2
    <3> QED
      BY <1>1, <1>2, <1>5, <3>1
  <2>3. word \in 0 .. M - 1
    <3> HIDE DEF x, M
    <3> QED
      BY <1>1, <2>2, Modulo
  <2>4. word = 0 \/ word >= P
    <3>1. PICK r \in Nat : word = P * r
      BY <2>1
    <3> HIDE DEF P, word
    <3>2. r = 0 \/ P * r >= P
      BY <1>1
    <3> QED
      BY <3>1, <3>2, <1>1
  <2> HIDE DEF P, M, H, x, word
  <2>5. Shifted(a) > BackoffMax \/ Shifted(a) <= 0
    BY <1>1, <1>2, <1>3, <1>5, <2>3, <2>4
  <2>6. Backoff(a) = BackoffMax
    BY <2>5 DEF Backoff
  <2> QED
    BY <1>2, <2>2, <2>6 DEF x, P
<1> QED
  BY <1>1, <1>2, <1>4, <1>5

-----------------------------------------------------------------------------
(* Texts *)

Characters == UNION {Range(t) : t \in Texts}
BlockType == [type : {"text", "thinking"}, text : Texts \cup {<<>>}]

(* g[i] is what the first i of seqs make together. *)
Concat(g, S, seqs) ==
  /\ g \in [0 .. Len(seqs) -> Seq(S)] /\ g[0] = <<>>
  /\ \A i \in 1 .. Len(seqs) : g[i] = g[i - 1] \o seqs[i]

LEMMA FlattenConcat ==
  ASSUME NEW S, NEW seqs \in Seq(Seq(S)), Len(seqs) > 0
  PROVE  \E g : Concat(g, S, seqs) /\ FlattenSeq(seqs) = g[Len(seqs)]
<1> DEFINE n == Len(seqs)
           one == 1
           T == Seq(S)
           Fix(f) == f = [i \in 1 .. n |-> IF i = 1 THEN seqs[i] ELSE f[i - 1] \o seqs[i]]
           G == [i \in one + 1 .. n |-> [s \in T |-> s \o seqs[i]]]
<1>1. n \in Nat \ {0} /\ \A i \in 1 .. n : seqs[i] \in T
  OBVIOUS
<1>2. \A s \in T, i \in 1 .. n : s \o seqs[i] \in T
  BY <1>1
<1>3. PICK f : Obeys(f, T, one, n, seqs[1], G)
  <2>1. G \in Rules(T, one, n) /\ one \in Nat /\ n \in Nat /\ one <= n /\ seqs[1] \in T
    <3>1. \A i \in one + 1 .. n : i \in 1 .. n
      OBVIOUS
    <3> HIDE DEF n, T
    <3> QED
      BY <1>1, <1>2, <3>1 DEF Rules
  <2> HIDE DEF G, n, one, T
  <2> QED
    BY <2>1, Recursion
<1>4. Fix(f)
  <2>1. \A i \in 1 .. n : i # 1 => i \in one + 1 .. n /\ i - 1 \in 1 .. n
    OBVIOUS
  <2>2. f \in [1 .. n -> T] /\ \A i \in 1 .. n : f[i] = IF i = 1 THEN seqs[1] ELSE G[i][f[i - 1]]
    BY <1>3 DEF Obeys
  <2> HIDE DEF n, T
  <2>3. \A i \in 1 .. n : f[i] = IF i = 1 THEN seqs[i] ELSE f[i - 1] \o seqs[i]
    BY <2>1, <2>2
  <2> QED
    BY <2>2, <2>3
<1> DEFINE c == CHOOSE e : Fix(e)
<1>5. Fix(c)
  <2> HIDE DEF Fix
  <2> QED
    BY <1>4
<1>6. FlattenSeq(seqs) = c[n]
  BY <1>1 DEF FlattenSeq
<1> HIDE DEF c, T
<1>7. c[1] = seqs[1] /\ \A i \in 2 .. n : c[i] = c[i - 1] \o seqs[i]
  <2>1. 1 \in 1 .. n /\ \A i \in 2 .. n : i \in 1 .. n /\ i # 1
    BY <1>1
  <2> HIDE DEF n
  <2> QED
    BY <2>1, <1>5
<1> HIDE DEF Fix
<1> DEFINE Typed(k) == k + 1 <= n => c[k + 1] \in T
           Right == {k \in Nat : Typed(k)}
<1>8. 0 \in Right /\ \A k \in Nat : k \in Right => k + 1 \in Right
  <2>1. ASSUME NEW k \in Nat, Typed(k), k + 1 + 1 <= n PROVE c[k + 1 + 1] \in T
    <3> DEFINE j == k + 1
    <3>1. j \in Nat /\ j <= n /\ j + 1 \in 2 .. n /\ j + 1 - 1 = j /\ j + 1 \in 1 .. n
      BY <2>1, <1>1
    <3>2. c[j] \in T
      BY <2>1, <3>1
    <3> HIDE DEF n, j
    <3>3. \A l \in 2 .. n : l - 1 = j => c[l] = c[j] \o seqs[l]
      BY <1>7
    <3>4. c[j + 1] \in T
      <4> DEFINE l == j + 1
      <4>1. l \in 2 .. n /\ l - 1 = j /\ l \in 1 .. n
        BY <3>1
      <4> HIDE DEF l
      <4>2. c[l] \in T
        BY <4>1, <3>2, <3>3, <1>2
      <4> QED
        BY <4>2 DEF l
    <3> QED
      BY <3>4 DEF j
  <2>2. Typed(0)
    <3>1. 1 \in 1 .. n /\ 0 + 1 = 1
      BY <1>1
    <3> HIDE DEF n
    <3> QED
      BY <3>1, <1>1, <1>7
  <2> QED
    BY <2>1, <2>2
<1>9. \A i \in 1 .. n : c[i] \in T
  <2>1. \A k \in Nat : k \in Right
    <3> HIDE DEF Right
    <3> QED
      BY <1>8, SetInduction
  <2>2. \A i \in 1 .. n : i - 1 \in Nat /\ i - 1 + 1 = i /\ i <= n
    BY <1>1
  <2> HIDE DEF n
  <2> QED
    BY <2>1, <2>2
<1> DEFINE g == [i \in 0 .. n |-> IF i = 0 THEN <<>> ELSE c[i]]
<1>10. g \in [0 .. n -> T] /\ g[0] = <<>>
  <2>1. <<>> \in T /\ 0 \in 0 .. n /\ \A i \in 0 .. n : i = 0 \/ i \in 1 .. n
    BY <1>1 DEF T
  <2> HIDE DEF n
  <2> QED
    BY <2>1, <1>9
<1>11. ASSUME NEW i \in 1 .. n PROVE g[i] = g[i - 1] \o seqs[i]
  <2>1. i \in 0 .. n /\ i # 0 /\ i - 1 \in 0 .. n /\ (i = 1 => i - 1 = 0) /\ (i # 1 => i \in 2 .. n /\ i - 1 # 0)
    BY <1>1
  <2>2. g[i] = c[i] /\ (i = 1 => g[i - 1] = <<>>) /\ (i # 1 => g[i - 1] = c[i - 1])
    BY <2>1
  <2>3. CASE i = 1
    <3>1. <<>> \o seqs[1] = seqs[1]
      BY <1>1, <2>3 DEF T
    <3> QED
      BY <3>1, <2>2, <2>3, <1>7
  <2>4. CASE i # 1
    <3> HIDE DEF n
    <3> QED
      BY <2>1, <2>2, <2>4, <1>7
  <2> QED
    BY <2>3, <2>4
<1>12. Concat(g, S, seqs) /\ FlattenSeq(seqs) = g[n]
  <2>1. n \in 0 .. n /\ n # 0
    BY <1>1
  <2>2. g[n] = c[n]
    BY <2>1
  <2> HIDE DEF g
  <2> QED
    BY <2>2, <1>6, <1>10, <1>11 DEF Concat, T
<1> QED
  BY <1>12

(* What some of the sequences make is the beginning of what more make.     *)
LEMMA ConcatGrows ==
  ASSUME NEW S, NEW seqs \in Seq(Seq(S)), NEW g, Concat(g, S, seqs),
         NEW i \in 0 .. Len(seqs), NEW j \in i .. Len(seqs)
  PROVE  Len(g[i]) <= Len(g[j]) /\ \A x \in 1 .. Len(g[i]) : g[j][x] = g[i][x]
<1> DEFINE n == Len(seqs)
           Extended(k) == i + k <= n => Len(g[i]) <= Len(g[i + k]) /\ \A x \in 1 .. Len(g[i]) : g[i + k][x] = g[i][x]
           Right == {k \in Nat : Extended(k)}
<1>1. n \in Nat /\ i \in Nat /\ j \in Nat /\ i <= j /\ j <= n /\ \A m \in 1 .. n : seqs[m] \in Seq(S)
  OBVIOUS
<1>2. /\ \A m \in 0 .. n : g[m] \in Seq(S) /\ Len(g[m]) \in Nat
      /\ \A m \in 1 .. n : g[m] = g[m - 1] \o seqs[m]
  <2>1. g \in [0 .. n -> Seq(S)] /\ \A m \in 1 .. n : g[m] = g[m - 1] \o seqs[m]
    BY DEF Concat
  <2> HIDE DEF n
  <2>2. \A m \in 0 .. n : g[m] \in Seq(S)
    BY <2>1
  <2>3. \A s \in Seq(S) : Len(s) \in Nat
    OBVIOUS
  <2> QED
    BY <2>1, <2>2, <2>3
<1> HIDE DEF n
<1>3. Extended(0)
  <2>1. i + 0 = i /\ i \in 0 .. n
    BY <1>1
  <2> QED
    BY <2>1, <1>2
<1>4. ASSUME NEW k \in Nat, Extended(k) PROVE Extended(k + 1)
  <2> SUFFICES ASSUME i + (k + 1) <= n
               PROVE  Len(g[i]) <= Len(g[i + (k + 1)]) /\ \A x \in 1 .. Len(g[i]) : g[i + (k + 1)][x] = g[i][x]
    OBVIOUS
  <2> DEFINE m == i + (k + 1)
             s == g[m - 1]
             t == seqs[m]
  <2>1. m \in 1 .. n /\ m - 1 = i + k /\ m - 1 \in 0 .. n /\ i \in 0 .. n /\ i + k <= n
    BY <1>1
  <2>2. s \in Seq(S) /\ t \in Seq(S) /\ g[m] = s \o t /\ Len(g[i]) \in Nat
    BY <1>1, <1>2, <2>1
  <2>3. Len(g[i]) <= Len(s) /\ \A x \in 1 .. Len(g[i]) : s[x] = g[i][x]
    BY <1>4, <2>1
  <2> HIDE DEF m, s, t
  <2>4. Len(s \o t) >= Len(s) /\ \A x \in 1 .. Len(s) : (s \o t)[x] = s[x]
    BY <2>2
  <2>5. Len(s) \in Nat /\ \A x \in 1 .. Len(g[i]) : x \in 1 .. Len(s)
    BY <2>2, <2>3
  <2>6. Len(g[i]) <= Len(s \o t)
    BY <2>2, <2>3, <2>4, <2>5
  <2> QED
    BY <2>2, <2>3, <2>4, <2>5, <2>6 DEF m
<1>5. \A k \in Nat : Extended(k)
  <2> HIDE DEF Extended
  <2>1. 0 \in Right /\ \A k \in Nat : k \in Right => k + 1 \in Right
    BY <1>3, <1>4
  <2>2. \A k \in Nat : k \in Right
    <3> HIDE DEF Right
    <3> QED
      BY <2>1, SetInduction
  <2> QED
    BY <2>2
<1>6. j - i \in Nat /\ i + (j - i) = j
  BY <1>1
<1>7. Extended(j - i)
  <2> HIDE DEF Extended
  <2> QED
    BY <1>5, <1>6
<1> QED
  BY <1>1, <1>6, <1>7

(* The bytes of the text blocks before the i-th, counted. *)
SpokenIn(blocks) == {i \in DOMAIN blocks : blocks[i].type = "text"}
Places(t, blocks, i) ==
  {m \in SpokenIn(blocks) \X (1 .. Len(t)) : m[1] < i /\ m[2] <= Len(blocks[m[1]].text)}

LEMMA PlacesGrow ==
  ASSUME NEW t, NEW blocks \in Seq(BlockType), NEW i \in 1 .. Len(blocks), Len(t) \in Nat,
         IsFiniteSet(Places(t, blocks, i)), Len(blocks[i].text) \in Nat,
         i \in SpokenIn(blocks) => Len(blocks[i].text) <= Len(t)
  PROVE  /\ IsFiniteSet(Places(t, blocks, i + 1))
         /\ Cardinality(Places(t, blocks, i + 1)) =
              Cardinality(Places(t, blocks, i)) + (IF i \in SpokenIn(blocks) THEN Len(blocks[i].text) ELSE 0)
<1> DEFINE said == SpokenIn(blocks)
           P == Places(t, blocks, i)
           Q == Places(t, blocks, i + 1)
           w == Len(blocks[i].text)
           New == {i} \X (1 .. w)
<1>1. said \subseteq 1 .. Len(blocks) /\ i \in Nat
  BY DEF SpokenIn
<1>2. CASE i \notin said
  <2>1. \A k \in said : k < i + 1 <=> k < i
    BY <1>1, <1>2
  <2>2. Q = P
    <3> HIDE DEF said
    <3>1. \A m \in said \X (1 .. Len(t)) : m[1] < i + 1 <=> m[1] < i
      BY <2>1
    <3> QED
      BY <3>1 DEF Places, said
  <2> QED
    BY <1>2, <2>2, FS_CardinalityType
<1>3. CASE i \in said
  <2>1. w \in Nat /\ w <= Len(t)
    BY <1>3
  <2>2. Q = P \cup New
    <3>1. \A k \in said : k < i + 1 <=> k < i \/ k = i
      BY <1>1
    <3>2. ASSUME NEW m \in said \X (1 .. Len(t)) PROVE m \in Q <=> m \in P \cup New
      <4>1. /\ m = <<m[1], m[2]>> /\ m[1] \in said /\ m[2] \in 1 .. Len(t)
        OBVIOUS
      <4>2. m \in Q <=> m[1] < i + 1 /\ m[2] <= Len(blocks[m[1]].text)
        BY DEF Places
      <4>3. m \in P <=> m[1] < i /\ m[2] <= Len(blocks[m[1]].text)
        BY DEF Places
      <4>4. m \in New <=> m[1] = i /\ m[2] <= w
        <5> HIDE DEF w
        <5> QED
          BY <4>1, <2>1
      <4> QED
        BY <3>1, <4>1, <4>2, <4>3, <4>4
    <3>3. Q \subseteq said \X (1 .. Len(t)) /\ P \subseteq said \X (1 .. Len(t))
      BY DEF Places
    <3>4. New \subseteq said \X (1 .. Len(t))
      <4> HIDE DEF w, said
      <4> QED
        BY <1>3, <2>1
    <3> QED
      BY <3>2, <3>3, <3>4
  <2>3. P \cap New = {}
    <3>1. \A m \in P : m[1] # i
      BY <1>1 DEF Places
    <3> HIDE DEF P, w
    <3> QED
      BY <3>1
  <2>4. IsFiniteSet(New) /\ Cardinality(New) = w
    <3> HIDE DEF w
    <3>1. IsFiniteSet({i}) /\ Cardinality({i}) = 1
      BY FS_Singleton
    <3>2. IsFiniteSet(1 .. w) /\ Cardinality(1 .. w) = w
      BY <2>1, FS_Interval
    <3>3. IsFiniteSet(New) /\ Cardinality(New) = 1 * w
      BY <3>1, <3>2, FS_Product
    <3> QED
      BY <2>1, <3>3
  <2>5. Cardinality(P) \in Nat /\ Cardinality({}) = 0
    BY FS_CardinalityType, FS_EmptySet
  <2> HIDE DEF P, Q, New, w
  <2>6. IsFiniteSet(P) /\ IsFiniteSet(Q) /\ Cardinality(Q) = Cardinality(P) + w
    <3>1. IsFiniteSet(P)
      BY DEF P
    <3>2. IsFiniteSet(P \cup New) /\ Cardinality(P \cup New) = Cardinality(P) + Cardinality(New) - Cardinality(P \cap New)
      BY <2>4, <3>1, FS_Union
    <3>3. Cardinality(P \cap New) = 0 /\ Cardinality(New) = w /\ Cardinality(P) \in Nat /\ w \in Nat
      BY <2>1, <2>3, <2>4, <2>5
    <3>4. Cardinality(P \cup New) = Cardinality(P) + w
      <4> DEFINE c == Cardinality(P \cup New)
                 p == Cardinality(P)
      <4> HIDE DEF c, p
      <4>1. c = p + w - 0 /\ p \in Nat
        BY <3>2, <3>3 DEF c, p
      <4> QED
        BY <4>1, <3>3 DEF c, p
    <3> QED
      BY <3>1, <3>2, <3>4, <2>2
  <2> QED
    BY <1>3, <2>6 DEF P, Q, w
<1> QED
  BY <1>2, <1>3

LEMMA ConcatWhole ==
  ASSUME NEW blocks \in Seq(BlockType), NEW seqs \in Seq(Seq(Characters)), Len(seqs) = Len(blocks),
         \A i \in 1 .. Len(blocks) :
           /\ blocks[i].text \in Seq(Characters)
           /\ seqs[i] = IF blocks[i].type = "text" THEN blocks[i].text ELSE <<>>,
         NEW g, Concat(g, Characters, seqs)
  PROVE  Whole(g[Len(blocks)], blocks)
<1> DEFINE n == Len(blocks)
           t == g[n]
           said == SpokenIn(blocks)
           Size(i) == Cardinality(Places(t, blocks, i))
           Counts(k) == k <= n => IsFiniteSet(Places(t, blocks, k + 1)) /\ Size(k + 1) = Len(g[k])
           Right == {k \in Nat : Counts(k)}
<1>1. n \in Nat /\ DOMAIN blocks = 1 .. n /\ said = {i \in 1 .. n : blocks[i].type = "text"}
  BY DEF SpokenIn
<1>2. /\ g \in [0 .. n -> Seq(Characters)] /\ g[0] = <<>>
      /\ \A i \in 1 .. n : g[i] = g[i - 1] \o seqs[i]
  BY DEF Concat
<1>3. \A i \in 0 .. n : g[i] \in Seq(Characters) /\ Len(g[i]) \in Nat
  <2> HIDE DEF n
  <2>1. \A i \in 0 .. n : g[i] \in Seq(Characters)
    BY <1>2
  <2>2. \A s \in Seq(Characters) : Len(s) \in Nat
    OBVIOUS
  <2> QED
    BY <2>1, <2>2
<1>4. \A i \in 1 .. n : blocks[i].text \in Seq(Characters) /\ Len(blocks[i].text) \in Nat
  <2>1. \A s \in Seq(Characters) : Len(s) \in Nat
    OBVIOUS
  <2> QED
    BY <2>1
<1>5. t \in Seq(Characters) /\ Len(t) \in Nat
  BY <1>1, <1>3
<1>6. \A i \in 1 .. n : \A j \in i .. n : Len(g[i]) <= Len(g[j]) /\ \A x \in 1 .. Len(g[i]) : g[j][x] = g[i][x]
  <2> SUFFICES ASSUME NEW i \in 1 .. n, NEW j \in i .. n
               PROVE  Len(g[i]) <= Len(g[j]) /\ \A x \in 1 .. Len(g[i]) : g[j][x] = g[i][x]
    OBVIOUS
  <2>1. i \in 0 .. Len(seqs) /\ j \in i .. Len(seqs)
    BY <1>1
  <2> QED
    BY <2>1, ConcatGrows
(* A block that speaks lies between what precedes it and what follows.     *)
<1>7. ASSUME NEW i \in said
      PROVE  /\ i \in 1 .. n /\ i - 1 \in 0 .. n /\ Len(g[i]) = Len(g[i - 1]) + Len(blocks[i].text)
             /\ Len(g[i]) <= Len(t)
             /\ \A x \in 1 .. Len(blocks[i].text) : t[Len(g[i - 1]) + x] = blocks[i].text[x]
  <2> DEFINE a == g[i - 1]
             b == blocks[i].text
  <2>1. i \in 1 .. n /\ i - 1 \in 0 .. n /\ n \in i .. n
    BY <1>1
  <2>2. a \in Seq(Characters) /\ b \in Seq(Characters) /\ g[i] = a \o b
    <3>1. seqs[i] = b
      BY <1>1
    <3> QED
      BY <2>1, <3>1, <1>2, <1>3, <1>4
  <2>3. Len(g[i]) <= Len(t) /\ \A x \in 1 .. Len(g[i]) : t[x] = g[i][x]
    BY <1>6, <2>1
  <2> HIDE DEF a, b, t, n
  <2>4. /\ Len(a) \in Nat /\ Len(b) \in Nat /\ Len(a \o b) = Len(a) + Len(b)
        /\ \A x \in 1 .. Len(b) : (a \o b)[Len(a) + x] = b[x] /\ Len(a) + x \in 1 .. Len(a) + Len(b)
    BY <2>2
  <2>5. Len(g[i]) = Len(a) + Len(b)
    BY <2>2, <2>4
  <2>6. \A x \in 1 .. Len(b) : t[Len(a) + x] = b[x]
    BY <2>2, <2>3, <2>4, <2>5
  <2> QED
    BY <2>1, <2>3, <2>5, <2>6 DEF a, b
<1> HIDE DEF t, said
<1>8. Counts(0)
  <2>1. Places(t, blocks, 0 + 1) = {}
    <3>1. \A m \in said : ~(m < 0 + 1)
      BY <1>1
    <3> QED
      BY <3>1 DEF Places, said
  <2>2. Len(g[0]) = 0
    BY <1>2
  <2> QED
    BY <2>1, <2>2, FS_EmptySet
<1>9. ASSUME NEW k \in Nat, Counts(k) PROVE Counts(k + 1)
  <2> SUFFICES ASSUME k + 1 <= n
               PROVE  IsFiniteSet(Places(t, blocks, k + 1 + 1)) /\ Size(k + 1 + 1) = Len(g[k + 1])
    OBVIOUS
  <2> DEFINE i == k + 1
  <2>1. i \in 1 .. n /\ i - 1 = k /\ k \in 0 .. n /\ k <= n
    BY <1>1
  <2>2. IsFiniteSet(Places(t, blocks, i)) /\ Size(i) = Len(g[k])
    BY <1>9, <2>1
  <2> HIDE DEF i
  <2>3. /\ IsFiniteSet(Places(t, blocks, i + 1))
        /\ Size(i + 1) = Size(i) + (IF i \in said THEN Len(blocks[i].text) ELSE 0)
    <3>1. i \in said => Len(blocks[i].text) <= Len(t)
      <4> SUFFICES ASSUME i \in said PROVE Len(blocks[i].text) <= Len(t)
        OBVIOUS
      <4> DEFINE x == Len(g[i])
                 y == Len(g[i - 1])
                 z == Len(blocks[i].text)
                 w == Len(t)
      <4>1. x = y + z /\ x <= w
        BY <1>7
      <4>2. y \in Nat /\ z \in Nat /\ w \in Nat
        BY <1>3, <1>4, <1>5, <2>1
      <4> HIDE DEF x, y, z, w
      <4>3. z <= w
        BY <4>1, <4>2
      <4> QED
        BY <4>3 DEF z, w
    <3>2. i \in 1 .. Len(blocks) /\ Len(t) \in Nat /\ Len(blocks[i].text) \in Nat
      BY <1>4, <1>5, <2>1
    <3> HIDE DEF n
    <3> QED
      BY <2>2, <3>1, <3>2, PlacesGrow DEF said
  <2>4. Len(g[i]) = Len(g[k]) + (IF i \in said THEN Len(blocks[i].text) ELSE 0)
    <3>1. CASE i \in said
      BY <1>7, <2>1, <3>1
    <3>2. CASE i \notin said
      <4>1. seqs[i] = <<>>
        BY <1>1, <2>1, <3>2
      <4>2. g[i] = g[k] \o <<>> /\ g[k] \in Seq(Characters)
        BY <1>2, <1>3, <2>1, <4>1
      <4>3. g[k] \o <<>> = g[k]
        BY <4>2
      <4> QED
        BY <3>2, <4>2, <4>3, <1>3, <2>1
    <3> QED
      BY <3>1, <3>2
  <2> QED
    BY <2>2, <2>3, <2>4 DEF i
<1>10. \A k \in 0 .. n : Size(k + 1) = Len(g[k])
  <2>1. 0 \in Right /\ \A k \in Nat : k \in Right => k + 1 \in Right
    BY <1>8, <1>9
  <2>2. \A k \in Nat : k \in Right
    <3> HIDE DEF Right
    <3> QED
      BY <2>1, SetInduction
  <2>3. \A k \in 0 .. n : k \in Nat /\ k <= n
    BY <1>1
  <2> QED
    BY <2>2, <2>3
<1>11. Len(t) = Size(n + 1)
  BY <1>1, <1>10 DEF t
<1>12. ASSUME NEW i \in said
       PROVE  SubSeq(t, Size(i) + 1, Size(i) + Len(blocks[i].text)) = blocks[i].text
  <2> DEFINE b == blocks[i].text
             z == Len(g[i - 1])
  <2>1. i - 1 + 1 = i /\ i - 1 \in 0 .. n /\ i \in 1 .. n
    BY <1>1, <1>7
  <2>2. Size(i) = z
    <3> HIDE DEF n
    <3>1. Size(i - 1 + 1) = z
      BY <2>1, <1>10
    <3> QED
      BY <2>1, <3>1
  <2>3. /\ z \in Nat /\ b \in Seq(Characters) /\ Len(b) \in Nat /\ z + Len(b) <= Len(t)
        /\ \A x \in 1 .. Len(b) : t[z + x] = b[x]
    BY <1>3, <1>4, <1>7, <2>1
  <2> HIDE DEF b, z
  <2>4. /\ SubSeq(t, z + 1, z + Len(b)) \in Seq(Characters)
        /\ Len(SubSeq(t, z + 1, z + Len(b))) = Len(b)
        /\ \A x \in 1 .. Len(b) : SubSeq(t, z + 1, z + Len(b))[x] = b[x]
    BY <1>5, <2>3
  <2>5. SubSeq(t, z + 1, z + Len(b)) = b
    BY <2>3, <2>4
  <2> QED
    BY <2>2, <2>5 DEF b
<1> QED
  BY <1>11, <1>12 DEF Whole, Places, SpokenIn, t, said

LEMMA ReplyWhole ==
  ASSUME NEW p \in Providers, NEW b \in Bodies[p], Reply(p, b) # <<>>
  PROVE  Reply(p, b) \in Seq(Characters) /\ Whole(Reply(p, b), Head(b.replies))
<1> DEFINE blocks == Head(b.replies)
           seqs == [i \in DOMAIN blocks |-> Said(p, blocks[i])]
           C == Characters
<1>1. b.replies # <<>> /\ Reply(p, b) = FlattenSeq(seqs)
  BY DEF Reply
<1>2. b.replies \in Seq(Seq(BlockType))
  <2>1. b \in AllBodies
    BY BodiesAssumption
  <2>2. AllBodies = [decodes : BOOLEAN, error : BOOLEAN, replies : Seq(Seq(BlockType))]
    BY DEF AllBodies, BlockType
  <2> HIDE DEF BlockType
  <2> QED
    BY <2>1, <2>2
<1>3. 1 \in DOMAIN b.replies /\ blocks = b.replies[1] /\ blocks \in Seq(BlockType)
  <2> HIDE DEF BlockType
  <2> QED
    BY <1>1, <1>2
<1>4. blocks \in Range(b.replies)
  <2> HIDE DEF blocks
  <2> QED
    BY <1>3 DEF Range
<1>5. p # "anthropic" => \A i \in DOMAIN blocks : blocks[i].type = "text"
  <2> HIDE DEF blocks
  <2>1. \A i \in DOMAIN blocks : blocks[i] \in Range(blocks)
    BY DEF Range
  <2> QED
    BY <1>4, <2>1, BodiesAssumption
<1> HIDE DEF blocks
<1>6. DOMAIN blocks = 1 .. Len(blocks) /\ Len(blocks) \in Nat /\ \A i \in 1 .. Len(blocks) : blocks[i] \in BlockType
  BY <1>3
<1>7. \A t \in Texts \cup {<<>>} : t \in Seq(C)
  <2>1. ASSUME NEW t \in Texts PROVE t \in Seq(C)
    <3>1. t \in Seq(Range(t)) /\ \A x \in Range(t) : x \in C
      BY TextsAssumption DEF Characters
    <3> DEFINE R == Range(t)
    <3> HIDE DEF C, R
    <3>2. \A x \in R : x \in C
      BY <3>1 DEF R
    <3>3. \A s \in Seq(R) : s \in Seq(C)
      BY <3>2
    <3> QED
      BY <3>1, <3>3 DEF R
  <2>2. <<>> \in Seq(C)
    OBVIOUS
  <2> QED
    BY <2>1, <2>2
<1>8. \A i \in 1 .. Len(blocks) :
        /\ blocks[i].text \in Seq(C)
        /\ Said(p, blocks[i]) = IF blocks[i].type = "text" THEN blocks[i].text ELSE <<>>
  <2> SUFFICES ASSUME NEW i \in 1 .. Len(blocks)
               PROVE  /\ blocks[i].text \in Seq(C)
                      /\ Said(p, blocks[i]) = IF blocks[i].type = "text" THEN blocks[i].text ELSE <<>>
    OBVIOUS
  <2>1. blocks[i].text \in Texts \cup {<<>>}
    BY <1>6 DEF BlockType
  <2>2. Said(p, blocks[i]) = IF blocks[i].type = "text" THEN blocks[i].text ELSE <<>>
    BY <1>5, <1>6 DEF Said
  <2> QED
    BY <2>1, <2>2, <1>7
<1>9. /\ seqs \in Seq(Seq(C)) /\ Len(seqs) = Len(blocks)
      /\ \A i \in 1 .. Len(blocks) : seqs[i] = Said(p, blocks[i])
  <2> DEFINE n == Len(blocks)
             T == Seq(C)
  <2>1. \A i \in 1 .. n : seqs[i] \in T /\ seqs[i] = Said(p, blocks[i])
    <3>1. <<>> \in T
      OBVIOUS
    <3> HIDE DEF T
    <3> QED
      BY <1>6, <1>8, <3>1 DEF T
  <2>2. seqs \in [1 .. n -> T]
    <3> HIDE DEF T
    <3> QED
      BY <1>6, <2>1
  <2> HIDE DEF n, T, seqs
  <2>3. seqs \in Seq(T) /\ Len(seqs) = n
    <3>1. n \in Nat
      BY <1>6 DEF n
    <3> QED
      BY <2>2, <3>1
  <2> QED
    BY <2>1, <2>3 DEF n, T
<1>10. Len(seqs) > 0
  <2> SUFFICES ASSUME Len(seqs) = 0 PROVE FALSE
    <3>1. Len(seqs) \in Nat
      BY <1>6, <1>9
    <3> QED
      BY <3>1
  <2>1. seqs = <<>>
    <3> HIDE DEF seqs
    <3> QED
      BY <1>9
  <2>2. FlattenSeq(seqs) = seqs
    <3> HIDE DEF seqs
    <3> QED
      BY DEF FlattenSeq
  <2> QED
    BY <1>1, <2>1, <2>2
<1> HIDE DEF seqs
<1>11. PICK g : Concat(g, C, seqs) /\ FlattenSeq(seqs) = g[Len(seqs)]
  BY <1>9, <1>10, FlattenConcat
<1>12. g[Len(seqs)] \in Seq(C)
  <2> DEFINE n == Len(seqs)
  <2>1. n \in 0 .. n
    BY <1>6, <1>9
  <2> HIDE DEF n
  <2>2. g \in [0 .. n -> Seq(C)]
    BY <1>11 DEF Concat, n
  <2>3. g[n] \in Seq(C)
    BY <2>1, <2>2
  <2> QED
    BY <2>3 DEF n
<1>13. Whole(g[Len(blocks)], blocks)
  <2>1. \A i \in 1 .. Len(blocks) :
          /\ blocks[i].text \in Seq(Characters)
          /\ seqs[i] = IF blocks[i].type = "text" THEN blocks[i].text ELSE <<>>
    BY <1>8, <1>9
  <2> QED
    BY <1>3, <1>9, <1>11, <2>1, ConcatWhole
<1> QED
  BY <1>1, <1>9, <1>11, <1>12, <1>13 DEF blocks

-----------------------------------------------------------------------------
(* Types, the delay that is slept and the text that is returned: none of   *)
(* the three depends on how often the call was made.                       *)
ReplyKept == call = "ok" => text = Reply(provider, body) /\ body \in Bodies[provider] /\ text # <<>>

CallTyped ==
  /\ provider \in Providers /\ maxRetries \in Nat
  /\ call \in {"idle", "ready", "flying", "backoff", "ok", "failed"}
  /\ delay \in 0 .. BackoffMax /\ cancelled \in BOOLEAN
  /\ body \in AllBodies /\ text \in Seq(Characters)
  /\ failure \in {"none", "network", "busy", "rejected", "read", "empty", "cancelled"}

WaitTyped ==
  /\ isTTY \in BOOLEAN /\ spinner \in {"none", "born", "spinning", "exited"}
  /\ stopCh \in {"open", "closed"} /\ frame \in Frames /\ line \in Frames \cup {Erased}
  /\ main \in {"start", "calling", "joining", "reporting", "done"}

Requests == attempt \in 0 .. maxRetries /\ tries \in attempt .. attempt + 1

SoundInv == CallInv /\ CallTyped /\ WaitTyped /\ Requests /\ BackoffExact /\ ReplyKept

LEMMA JitteredDelay ==
  ASSUME NEW a \in Nat \ {0}, NEW d \in Jittered(Backoff(a))
  PROVE  /\ d \in 0 .. BackoffMax
         /\ LET exponential == BackoffBase * Pow2(a - 1)
                c == IF exponential > BackoffMax THEN BackoffMax ELSE exponential
            IN  d \in c \div 2 .. c
<1> DEFINE exponential == BackoffBase * Pow2(a - 1)
           c == IF exponential > BackoffMax THEN BackoffMax ELSE exponential
<1>1. Backoff(a) = c /\ c \in 0 .. BackoffMax /\ BackoffMax \in Nat
  BY BackoffValue, BackoffAssumption
<1> HIDE DEF c
<1>2. PICK r \in 0 .. c \div 2 : d = c \div 2 + r
  BY <1>1 DEF Jittered
<1>3. c \div 2 \in Nat /\ 2 * (c \div 2) <= c /\ c \in Nat
  BY <1>1
<1>4. d \in c \div 2 .. c /\ d \in 0 .. BackoffMax
  BY <1>1, <1>2, <1>3
<1> QED
  BY <1>4 DEF c

LEMMA SoundInit == Init => SoundInv
<1> SUFFICES ASSUME Init PROVE SoundInv
  OBVIOUS
<1>1. CallInv
  BY InitCallInv
<1>2. CallTyped
  <2>1. Blank \in AllBodies
    BY DEF Blank, AllBodies
  <2>2. maxRetries \in Nat /\ 0 \in 0 .. BackoffMax
    BY SettingsAssumption, BackoffAssumption DEF Init, CallInit, Retries
  <2>3. <<>> \in Seq(Characters)
    OBVIOUS
  <2> QED
    BY <2>1, <2>2, <2>3 DEF Init, CallInit, CallTyped
<1>3. WaitTyped
  BY DEF Init, WaitInit, WaitTyped, Frames, Erased
<1>4. Requests /\ BackoffExact /\ ReplyKept
  BY <1>2 DEF CallTyped, Init, CallInit, Requests, BackoffExact, ReplyKept
<1> QED
  BY <1>1, <1>2, <1>3, <1>4 DEF SoundInv

(* A call that fails, or goes to sleep before its next attempt.            *)
LEMMA FailsSound ==
  ASSUME SoundInv, NEW why \in {"network", "busy", "rejected", "read", "empty", "cancelled"}, Fails(why),
         UNCHANGED <<provider, maxRetries, cancelled, tries>>, body' \in AllBodies
  PROVE  CallTyped' /\ Requests' /\ BackoffExact' /\ ReplyKept'
BY DEF SoundInv, Fails, CallTyped, Requests, BackoffExact, ReplyKept

LEMMA RetriesSound ==
  ASSUME SoundInv, NEW why \in {"network", "busy"}, RetriesOr(why), call = "flying",
         UNCHANGED <<provider, maxRetries, cancelled, tries, body>>
  PROVE  CallTyped' /\ Requests' /\ BackoffExact' /\ ReplyKept'
<1>1. CASE ~cancelled /\ attempt < maxRetries
  <2>1. /\ call' = "backoff" /\ attempt' = attempt + 1 /\ UNCHANGED <<text, failure>>
        /\ delay' \in Jittered(Backoff(attempt + 1))
    BY <1>1 DEF RetriesOr, outcome
  <2>2. attempt + 1 \in Nat \ {0} /\ tries = attempt + 1 /\ attempt + 1 - 1 = attempt
    BY DEF SoundInv, CallInv, Counted
  <2>3. delay' \in 0 .. BackoffMax /\ BackoffExact'
    BY <2>1, <2>2, JitteredDelay DEF BackoffExact
  <2>4. CallTyped'
    BY <2>1, <2>3 DEF SoundInv, CallTyped
  <2>5. Requests' /\ ReplyKept'
    BY <1>1, <2>1, <2>2 DEF SoundInv, CallTyped, Requests, ReplyKept
  <2> QED
    BY <2>3, <2>4, <2>5
<1>2. CASE ~(~cancelled /\ attempt < maxRetries)
  <2> DEFINE reason == IF cancelled THEN "cancelled" ELSE why
  <2>1. Fails(reason) /\ reason \in {"network", "busy", "rejected", "read", "empty", "cancelled"}
    BY <1>2 DEF RetriesOr
  <2>2. body' \in AllBodies
    BY DEF SoundInv, CallTyped
  <2> HIDE DEF reason
  <2> QED
    BY <2>1, <2>2, FailsSound
<1> QED
  BY <1>1, <1>2

LEMMA AnswersSound ==
  ASSUME SoundInv, NEW b \in Bodies[provider], Answers(b)
  PROVE  CallTyped' /\ Requests' /\ BackoffExact' /\ ReplyKept'
<1>1. b \in AllBodies /\ provider \in Providers
  BY BodiesAssumption DEF SoundInv, CallTyped
<1>2. call = "flying" /\ body' = b /\ UNCHANGED <<provider, maxRetries, cancelled, tries>>
  BY DEF Answers
<1>3. CASE Usable(provider, b)
  <2>1. call' = "ok" /\ text' = Reply(provider, b) /\ UNCHANGED <<failure, attempt, delay>>
    BY <1>3 DEF Answers
  <2>2. text' # <<>> /\ text' \in Seq(Characters)
    BY <1>1, <1>3, <2>1, ReplyWhole DEF Usable
  <2>3. CallTyped'
    BY <1>1, <1>2, <2>1, <2>2 DEF SoundInv, CallTyped
  <2>4. Requests' /\ BackoffExact' /\ ReplyKept'
    BY <1>2, <2>1, <2>2 DEF SoundInv, Requests, BackoffExact, ReplyKept
  <2> QED
    BY <2>3, <2>4
<1>4. CASE ~Usable(provider, b)
  BY <1>1, <1>2, <1>4, FailsSound DEF Answers
<1> QED
  BY <1>3, <1>4

LEMMA CallSteps ==
  ASSUME SoundInv, CallNext
  PROVE  CallTyped' /\ Requests' /\ BackoffExact' /\ ReplyKept'
<1>0. body \in AllBodies
  BY DEF SoundInv, CallTyped
<1>1. CASE Try \/ BackoffElapses
  <2>1. /\ UNCHANGED <<provider, maxRetries, attempt, cancelled, body, text, failure>>
        /\ call' \in {"flying", "ready"} /\ delay' \in {delay, 0}
        /\ tries' = tries \/ (call = "ready" /\ tries' = tries + 1)
    BY <1>1 DEF Try, BackoffElapses
  <2>2. CallTyped'
    <3>1. delay' \in 0 .. BackoffMax
      BY <2>1, BackoffAssumption DEF SoundInv, CallTyped
    <3> QED
      BY <2>1, <3>1 DEF SoundInv, CallTyped
  <2>3. Requests'
    BY <2>1 DEF SoundInv, CallInv, Counted, Requests
  <2> QED
    BY <2>1, <2>2, <2>3 DEF BackoffExact, ReplyKept
<1>2. CASE Refused \/ BackoffCancelled
  BY <1>0, <1>2, FailsSound DEF Refused, BackoffCancelled
<1>3. CASE TransportFails
  BY <1>3, RetriesSound DEF TransportFails
<1>4. CASE BodyFails
  <2> DEFINE reason == IF cancelled THEN "cancelled" ELSE "read"
  <2>1. /\ Fails(reason) /\ UNCHANGED <<provider, maxRetries, cancelled, tries, body>>
        /\ reason \in {"network", "busy", "rejected", "read", "empty", "cancelled"}
    BY <1>4 DEF BodyFails
  <2> HIDE DEF reason
  <2> QED
    BY <1>0, <2>1, FailsSound
<1>5. ASSUME NEW code \in Statuses, StatusError(code) PROVE CallTyped' /\ Requests' /\ BackoffExact' /\ ReplyKept'
  <2> DEFINE reason == IF cancelled THEN "cancelled" ELSE "rejected"
  <2>1. /\ call = "flying" /\ (RetriesOr("busy") \/ Fails(reason))
        /\ UNCHANGED <<provider, maxRetries, cancelled, tries, body>>
        /\ reason \in {"network", "busy", "rejected", "read", "empty", "cancelled"}
    BY <1>5 DEF StatusError
  <2> HIDE DEF reason
  <2>2. CASE RetriesOr("busy")
    BY <1>5, <2>1, <2>2, RetriesSound DEF StatusError
  <2>3. CASE Fails(reason)
    BY <1>0, <2>1, <2>3, FailsSound
  <2> QED
    BY <2>1, <2>2, <2>3
<1>6. ASSUME NEW b \in Bodies[provider], Answers(b) PROVE CallTyped' /\ Requests' /\ BackoffExact' /\ ReplyKept'
  BY <1>6, AnswersSound
<1> QED
  BY <1>1, <1>2, <1>3, <1>4, <1>5, <1>6 DEF CallNext, Own, Flight

LEMMA WaitSteps ==
  ASSUME WaitTyped, [Next]_vars
  PROVE  WaitTyped'
<1>1. CASE Begins \/ Stops
  BY <1>1 DEF WaitTyped, Begins, Start, Stops, CloseStop
<1>2. CASE Warns \/ Joins
  BY <1>2 DEF WaitTyped, Warns, Joins, Erase
<1>3. CASE Calls \/ Reports \/ Interrupts \/ UNCHANGED vars
  BY <1>3 DEF WaitTyped, Calls, Reports, Interrupts, waitVars, vars
<1>4. CASE Spins
  <2>1. (frame + 1) % 4 \in Frames
    BY DEF WaitTyped, Frames
  <2> QED
    BY <1>4, <2>1 DEF WaitTyped, Spins, Spin, FirstFrame, Tick, SeesStop
<1> QED
  BY <1>1, <1>2, <1>3, <1>4 DEF Next

LEMMA SoundStep == SoundInv /\ [Next]_vars => SoundInv'
<1> SUFFICES ASSUME SoundInv, [Next]_vars PROVE SoundInv'
  OBVIOUS
<1>1. CallInv' /\ WaitTyped'
  BY NextCallInv, WaitSteps DEF SoundInv
<1>2. CASE Calls
  BY <1>1, <1>2, CallSteps DEF Calls, SoundInv
<1>3. CASE Begins \/ Interrupts
  <2>1. /\ UNCHANGED <<provider, maxRetries, attempt, delay, tries, body, text, failure>>
        /\ cancelled' \in {cancelled, TRUE}
        /\ call' = call \/ call' = "ready"
    BY <1>3 DEF Begins, CallStarts, Interrupts, Cancel
  <2>2. CallTyped'
    BY <2>1 DEF SoundInv, CallTyped
  <2> QED
    BY <1>1, <2>1, <2>2 DEF SoundInv, Requests, BackoffExact, ReplyKept
<1>4. CASE Warns \/ Stops \/ Joins \/ Reports \/ Spins \/ UNCHANGED vars
  <2>1. UNCHANGED callVars
    BY <1>4 DEF Warns, Stops, Joins, Reports, Spins, vars
  <2> QED
    BY <1>1, <2>1 DEF callVars, SoundInv, CallTyped, Requests, BackoffExact, ReplyKept
<1> QED
  BY <1>2, <1>3, <1>4 DEF Next

(* For any max_retries, width of a duration, statuses and bodies: between  *)
(* two attempts the call sleeps half to all of the capped exponential      *)
(* delay, though the shift may have wrapped around; it gives up after      *)
(* exactly 1 + max_retries requests; what a provider answered is never     *)
(* asked for again, and its text is returned whole.                        *)
THEOREM CallSoundHolds == Spec => []CallSound
<1>1. SoundInv => CallSound
  <2> SUFFICES ASSUME SoundInv PROVE CallSound
    OBVIOUS
  <2>1. TypeOK
    BY DEF SoundInv, CallTyped, WaitTyped, Requests, TypeOK, Characters
  <2>2. AnswerKept /\ GivesUp /\ BackoffExact
    BY DEF SoundInv, CallInv, Concluded, AnswerKept
  <2>3. AnswerWhole
    BY ReplyWhole DEF SoundInv, CallTyped, ReplyKept, AnswerWhole
  <2> QED
    BY <2>1, <2>2, <2>3 DEF CallSound
<1> QED
  BY <1>1, SoundInit, SoundStep, PTL DEF Spec

(* A report is never drawn over: stop, the first frame and the ticks may   *)
(* come in any order.                                                      *)
THEOREM CleanReportHolds == Spec => []CleanReport
<1>1. Init => CleanReport
  BY DEF Init, CleanReport
<1>2. CleanReport /\ [Next]_vars => CleanReport'
  <2> SUFFICES ASSUME CleanReport, [Next]_vars PROVE CleanReport'
    OBVIOUS
  <2>1. CASE Begins \/ Calls \/ Warns \/ Stops \/ Interrupts
    BY <2>1 DEF CleanReport, Begins, Calls, Warns, Stops, Interrupts
  <2>2. CASE Joins
    BY <2>2 DEF CleanReport, Joins, Erase
  <2>3. CASE Reports \/ UNCHANGED vars
    BY <2>3 DEF CleanReport, Reports, waitVars, vars
  <2>4. CASE Spins
    BY <2>4 DEF CleanReport, Spins, Spin, FirstFrame, Tick, SeesStop
  <2> QED
    BY <2>1, <2>2, <2>3, <2>4 DEF Next
<1> QED
  BY <1>1, <1>2, PTL DEF Spec
=============================================================================
