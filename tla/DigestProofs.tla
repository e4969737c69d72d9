----------------------------- MODULE DigestProofs ---------------------------
(***************************************************************************)
(* `gitl digest`: the log it reads, the trends it makes of it, the viewer  *)
(* of its report, and the pool of workers that collects the digests.       *)
(*                                                                         *)
(* For the log and the trends, any reviews append to the file in any       *)
(* order, and the digest reads it in between.  The inductive invariant     *)
(* says what a line of the file tells of the review that wrote it, that    *)
(* the digest has read a prefix of it, and that the trends so far are the  *)
(* aggregates of what was read; the properties then follow from one-to-one *)
(* maps: from a lost record to the torn write before it, from the counted  *)
(* records to the reviews of the repository, from a record to its rank.    *)
(*                                                                         *)
(* For the viewer, reports and terminals have any height and keys and      *)
(* resizes come in any sequence.  The invariant is that the offset never   *)
(* exceeds the number of lines; it has to be kept in sizes that show       *)
(* nothing, too.                                                           *)
(*                                                                         *)
(* For the numbers of a digest, heads move at any time.  The invariant     *)
(* relates what each git process told to the commits that every head had   *)
(* so far; the numbers follow, as a sum over more commits is no smaller.   *)
(*                                                                         *)
(* For the report made of them, the invariant is that a repository of it   *)
(* is either an error or a digest whose tables add up, about the path that *)
(* was asked for.  The rest is about what is computed from it in one step: *)
(* the tables partition the commits, arranging the rows loses none, and a  *)
(* line of the text that names a repository comes from its digest.         *)
(***************************************************************************)
EXTENDS DigestRun, DigestView, DigestPool, FiniteSetTheorems, SequenceTheorems, WellFoundedInduction, TLAPS

Keys == {Key(place, ctrlC) : place \in Places, ctrlC \in BOOLEAN} \cup {EmptyKey}
Recs == [by : Reviews, time : Nat, repo : Keys, level : Levels, version : Nat]
Writes == [rec : Recs, end : Endings]

(* What the log holds is what reviews wrote, each at most once, and those  *)
(* that saw no error wrote a whole line.                                   *)
RecordInv ==
  \A v \in Reviews : rpc[v] \in {"key", "append"} =>
    /\ rec[v] \in Recs /\ rec[v].by = v /\ rec[v].time <= now
    /\ rec[v].level = levelOf[v] /\ rec[v].version = versionOf[v]
    /\ rpc[v] = "append" => rec[v].repo = Key(placeOf[v], stopped[v])

FileInv ==
  /\ file \in Seq(Writes)
  /\ \A i \in DOMAIN file : \A v \in Reviews : file[i].rec.by = v =>
       /\ rpc[v] \in {"logged", "failed"} /\ (file[i].end = "line" => rpc[v] = "logged")
       /\ file[i].rec.level = levelOf[v] /\ file[i].rec.version = versionOf[v]
       /\ file[i].rec.repo = Key(placeOf[v], stopped[v])
  /\ \A i, j \in DOMAIN file : file[i].rec.by = file[j].rec.by => i = j
  /\ \A v \in Reviews : rpc[v] = "logged" =>
       \E i \in DOMAIN file : file[i].rec.by = v /\ file[i].end = "line"

(* The digest has read a prefix of the log, and its trends are those of    *)
(* the repositories it is through with.                                    *)
TrendOf(p, ctrlC) == Aggregate(records, Key(p, ctrlC), until)
PrefixInv ==
  /\ records \in Seq(Writes) /\ Len(records) <= Len(file)
  /\ \A i \in 1 .. Len(records) : records[i] = file[i]
TrendInv ==
  /\ dpc \in {"idle", "collect", "load", "blank"} => records = <<>> /\ index = 1 /\ \A p \in Places : trends[p] = NoTrend
  /\ \A p \in Places :
       \/ trends[p] = NoTrend
       \/ trends[p] = TrendOf(p, FALSE) \/ (interrupted /\ trends[p] = TrendOf(p, TRUE))
  /\ ~interrupted => \A j \in 1 .. index - 1 : collected[j] =>
       trends[RepoPaths[j]] = TrendOf(RepoPaths[j], FALSE) \/ TrendOf(RepoPaths[j], FALSE).total = 0
  /\ dpc = "done" => index > Len(RepoPaths) \/ Load(records) = {}
  /\ dpc = "done" /\ index <= Len(RepoPaths) => \A p \in Places : trends[p] = NoTrend

VarsTyped ==
  /\ placeOf \in [Reviews -> Places] /\ levelOf \in [Reviews -> Levels] /\ versionOf \in [Reviews -> Nat]
  /\ now \in 0 .. MaxTime /\ until \in 0 .. now
  /\ rpc \in [Reviews -> {"reviewing", "key", "append", "logged", "failed"}]
  /\ stopped \in [Reviews -> BOOLEAN] /\ DOMAIN rec = Reviews
  /\ dpc \in {"idle", "collect", "load", "trends", "done", "blank"}
  /\ interrupted \in BOOLEAN
  /\ collected \in [DOMAIN RepoPaths -> BOOLEAN]
  /\ index \in 1 .. Len(RepoPaths) + 1
  /\ DOMAIN trends = Places

HistoryInv == VarsTyped /\ RecordInv /\ FileInv /\ PrefixInv /\ TrendInv

-----------------------------------------------------------------------------
LEMMA InitHistory == RunInit => HistoryInv
<1> SUFFICES ASSUME RunInit PROVE HistoryInv
  OBVIOUS
<1>1. VarsTyped
  <2>1. Len(RepoPaths) \in Nat
    BY RepoAssumption
  <2>2. now \in 0 .. MaxTime /\ until \in 0 .. now /\ index \in 1 .. Len(RepoPaths) + 1
    BY <2>1, BoundAssumption DEF RunInit
  <2>3. /\ rpc \in [Reviews -> {"reviewing", "key", "append", "logged", "failed"}]
        /\ stopped \in [Reviews -> BOOLEAN] /\ collected \in [DOMAIN RepoPaths -> BOOLEAN]
    BY DEF RunInit
  <2>6. placeOf \in [Reviews -> Places] /\ levelOf \in [Reviews -> Levels] /\ versionOf \in [Reviews -> Nat]
    BY SetupAssumption DEF RunInit
  <2>4. DOMAIN rec = Reviews /\ DOMAIN trends = Places
    BY DEF RunInit
  <2>5. dpc = "idle" /\ interrupted = FALSE
    BY DEF RunInit
  <2> QED
    BY <2>2, <2>3, <2>4, <2>5, <2>6 DEF VarsTyped
<1>2. RecordInv
  BY DEF RunInit, RecordInv
<1>5. FileInv
  <2>1. file \in Seq(Writes) /\ DOMAIN file = {} /\ \A v \in Reviews : rpc[v] = "reviewing"
    BY DEF RunInit
  <2> QED
    BY <2>1 DEF FileInv
<1>3. PrefixInv
  <2>1. records \in Seq(Writes) /\ Len(records) = 0 /\ Len(file) = 0
    BY DEF RunInit
  <2> QED
    BY <2>1 DEF PrefixInv
<1>4. TrendInv
  BY DEF RunInit, TrendInv
<1> QED
  BY <1>1, <1>2, <1>3, <1>4, <1>5 DEF HistoryInv

LEMMA KeyTyped ==
  ASSUME VarsTyped, NEW v \in Reviews, NEW ctrlC \in BOOLEAN
  PROVE  Key(placeOf[v], ctrlC) \in Keys
  BY DEF Keys, VarsTyped

(* A step of a review. *)
LEMMA StampStep ==
  ASSUME HistoryInv, NEW v \in Reviews, Stamp(v)
  PROVE  HistoryInv'
<1>1. /\ UNCHANGED <<placeOf, levelOf, versionOf, now, file, stopped, dpc, interrupted, until, collected, records, index, trends>>
      /\ rpc[v] = "reviewing" /\ rpc' = [rpc EXCEPT ![v] = "key"]
      /\ rec' = [rec EXCEPT ![v] = [by |-> v, time |-> now, repo |-> EmptyKey, level |-> levelOf[v], version |-> versionOf[v]]]
  BY DEF setup, Stamp, digest
<1>2. VarsTyped'
  BY <1>1 DEF HistoryInv, VarsTyped
<1>3. RecordInv'
  <2>1. [by |-> v, time |-> now, repo |-> EmptyKey, level |-> levelOf[v], version |-> versionOf[v]] \in Recs
    BY BoundAssumption DEF HistoryInv, VarsTyped, Recs, Keys
  <2>2. \A w \in Reviews : rec'[w] = IF w = v
          THEN [by |-> v, time |-> now, repo |-> EmptyKey, level |-> levelOf[v], version |-> versionOf[v]] ELSE rec[w]
    BY <1>1 DEF HistoryInv, VarsTyped
  <2>3. \A w \in Reviews : rpc'[w] = IF w = v THEN "key" ELSE rpc[w]
    BY <1>1 DEF HistoryInv, VarsTyped
  <2> QED
    BY <1>1, <2>1, <2>2, <2>3, BoundAssumption DEF HistoryInv, RecordInv, VarsTyped, Key
<1>4. FileInv'
  BY <1>1 DEF HistoryInv, FileInv, VarsTyped, Key
<1>5. PrefixInv' /\ TrendInv'
  BY <1>1 DEF HistoryInv, PrefixInv, TrendInv, TrendOf, Key
<1> QED
  BY <1>2, <1>3, <1>4, <1>5 DEF HistoryInv

LEMMA FindKeyStep ==
  ASSUME HistoryInv, NEW v \in Reviews, FindKey(v)
  PROVE  HistoryInv'
<1>1. PICK ctrlC \in BOOLEAN :
      /\ UNCHANGED <<placeOf, levelOf, versionOf, now, file, dpc, interrupted, until, collected, records, index, trends>>
      /\ rpc[v] = "key" /\ rpc' = [rpc EXCEPT ![v] = "append"]
      /\ stopped' = [stopped EXCEPT ![v] = ctrlC]
      /\ rec' = [rec EXCEPT ![v].repo = Key(placeOf[v], ctrlC)]
  BY DEF setup, FindKey, digest
<1>2. VarsTyped'
  BY <1>1 DEF HistoryInv, VarsTyped
<1>3. RecordInv'
  <2> DEFINE r == [rec[v] EXCEPT !.repo = Key(placeOf[v], ctrlC)]
  <2>1. /\ rec[v] \in Recs /\ rec[v].by = v /\ rec[v].time <= now
        /\ rec[v].level = levelOf[v] /\ rec[v].version = versionOf[v]
    BY <1>1 DEF HistoryInv, RecordInv
  <2>2. /\ r \in Recs /\ r.repo = Key(placeOf[v], ctrlC) /\ r.by = v /\ r.time <= now
        /\ r.level = levelOf[v] /\ r.version = versionOf[v]
    BY <2>1, KeyTyped DEF Recs, HistoryInv
  <2>3. \A w \in Reviews : rec'[w] = IF w = v THEN r ELSE rec[w]
    BY <1>1 DEF HistoryInv, VarsTyped
  <2>4. \A w \in Reviews : /\ rpc'[w] = IF w = v THEN "append" ELSE rpc[w]
                           /\ stopped'[w] = IF w = v THEN ctrlC ELSE stopped[w]
    BY <1>1 DEF HistoryInv, VarsTyped
  <2> HIDE DEF r
  <2>5. ASSUME NEW w \in Reviews, rpc'[w] \in {"key", "append"}
        PROVE  /\ rec'[w] \in Recs /\ rec'[w].by = w /\ rec'[w].time <= now
               /\ rec'[w].level = levelOf[w] /\ rec'[w].version = versionOf[w]
               /\ rpc'[w] = "append" => rec'[w].repo = Key(placeOf[w], stopped'[w])
    <3>1. CASE w = v
      BY <2>2, <2>3, <2>4, <3>1
    <3>2. CASE w # v
      BY <2>3, <2>4, <2>5, <3>2 DEF HistoryInv, RecordInv
    <3> QED
      BY <3>1, <3>2
  <2> QED
    BY <1>1, <2>5 DEF RecordInv, Key
<1>4. FileInv'
  <2>1. \A w \in Reviews : w # v => rpc'[w] = rpc[w] /\ stopped'[w] = stopped[w]
    BY <1>1 DEF HistoryInv, VarsTyped
  <2>2. rpc'[v] = "append"
    BY <1>1 DEF HistoryInv, VarsTyped
  <2> QED
    BY <1>1, <2>1, <2>2 DEF HistoryInv, FileInv, Key
<1>5. PrefixInv' /\ TrendInv'
  BY <1>1 DEF HistoryInv, PrefixInv, TrendInv, TrendOf, Key
<1> QED
  BY <1>2, <1>3, <1>4, <1>5 DEF HistoryInv

(* What is appended, at the end and by nobody else, disturbs nothing that  *)
(* is there, nor what the digest has read.                                 *)
LEMMA AppendStep ==
  ASSUME HistoryInv, NEW v \in Reviews, NEW end \in Endings, rpc[v] = "append",
         file' = Append(file, Write(rec[v], end)),
         rpc' = [rpc EXCEPT ![v] = IF end = "line" THEN "logged" ELSE "failed"],
         rec' = [rec EXCEPT ![v] = NoRecord],
         UNCHANGED <<placeOf, levelOf, versionOf, now, stopped, dpc, interrupted, until, collected, records, index, trends>>
  PROVE  HistoryInv'
<1>0. Write(rec[v], end) \in Writes /\ rec[v].by = v /\ file \in Seq(Writes)
  BY DEF HistoryInv, RecordInv, FileInv, Writes, Write
<1>1. /\ file' \in Seq(Writes) /\ Len(file') = Len(file) + 1 /\ Len(file) \in Nat
      /\ \A i \in 1 .. Len(file) : file'[i] = file[i]
      /\ file'[Len(file) + 1] = Write(rec[v], end)
      /\ DOMAIN file = 1 .. Len(file) /\ DOMAIN file' = 1 .. Len(file) + 1
  <2> HIDE DEF Writes
  <2> QED
    BY <1>0
<1>2. \A w \in Reviews : rpc'[w] = IF w # v THEN rpc[w] ELSE IF end = "line" THEN "logged" ELSE "failed"
  BY DEF HistoryInv, VarsTyped
<1>3. VarsTyped'
  BY DEF HistoryInv, VarsTyped
<1>4. RecordInv'
  <2>1. \A w \in Reviews : w # v => rec'[w] = rec[w]
    BY DEF HistoryInv, VarsTyped
  <2> QED
    BY <1>2, <2>1 DEF HistoryInv, RecordInv, Key
<1>5. FileInv'
  <2> DEFINE n == Len(file) + 1
  <2>1. /\ file'[n].rec = rec[v] /\ file'[n].end = end /\ n \in DOMAIN file'
        /\ \A i \in DOMAIN file' : i = n \/ (i \in DOMAIN file /\ file'[i] = file[i])
        /\ DOMAIN file \subseteq DOMAIN file'
        /\ \A i \in DOMAIN file : file'[i] = file[i]
    BY <1>1 DEF Write
  <2>2. \A i \in DOMAIN file : file[i].rec.by # v
    BY DEF HistoryInv, FileInv
  <2>3. /\ rec[v].level = levelOf[v] /\ rec[v].version = versionOf[v]
        /\ rec[v].repo = Key(placeOf[v], stopped[v])
    BY DEF HistoryInv, RecordInv
  <2> HIDE DEF n
  <2>4. ASSUME NEW i \in DOMAIN file', NEW w \in Reviews, file'[i].rec.by = w
        PROVE  /\ rpc'[w] \in {"logged", "failed"} /\ (file'[i].end = "line" => rpc'[w] = "logged")
               /\ file'[i].rec.level = levelOf[w] /\ file'[i].rec.version = versionOf[w]
               /\ file'[i].rec.repo = Key(placeOf[w], stopped[w])
    <3>1. CASE i = n
      BY <1>0, <1>2, <2>1, <2>3, <2>4, <3>1
    <3>2. CASE i # n
      <4>1. i \in DOMAIN file /\ file'[i] = file[i] /\ w # v
        BY <2>1, <2>2, <2>4, <3>2
      <4> QED
        BY <1>2, <2>4, <4>1 DEF HistoryInv, FileInv
    <3> QED
      BY <3>1, <3>2
  <2>5. \A i, j \in DOMAIN file' : file'[i].rec.by = file'[j].rec.by => i = j
    BY <1>0, <2>1, <2>2 DEF HistoryInv, FileInv
  <2>6. ASSUME NEW w \in Reviews, rpc'[w] = "logged"
        PROVE  \E i \in DOMAIN file' : file'[i].rec.by = w /\ file'[i].end = "line"
    <3>1. CASE w = v
      BY <1>0, <1>2, <2>1, <2>6, <3>1 DEF Endings
    <3>2. CASE w # v
      <4>1. PICK i \in DOMAIN file : file[i].rec.by = w /\ file[i].end = "line"
        BY <1>2, <2>6, <3>2 DEF HistoryInv, FileInv
      <4> QED
        BY <2>1, <4>1
    <3> QED
      BY <3>1, <3>2
  <2> QED
    BY <1>1, <2>4, <2>5, <2>6 DEF FileInv, Key
<1>6. PrefixInv'
  <2>1. /\ records \in Seq(Writes) /\ Len(records) <= Len(file)
        /\ \A i \in 1..Len(records) : records[i] = file[i]
    BY DEF HistoryInv, PrefixInv
  <2>2. /\ Len(file') = Len(file) + 1 /\ Len(file) \in Nat
        /\ \A i \in 1..Len(file) : file'[i] = file[i]
    BY <1>1 DEF Write
  <2>3. records' = records
    BY <1>0
  <2> QED
    BY <2>1, <2>2, <2>3 DEF PrefixInv
<1>7. TrendInv'
  BY DEF HistoryInv, TrendInv, TrendOf, Key
<1> QED
  BY <1>3, <1>4, <1>5, <1>6, <1>7 DEF HistoryInv

LEMMA AppendFailsStep ==
  ASSUME HistoryInv, NEW v \in Reviews, AppendFails(v)
  PROVE  HistoryInv'
<1>1. /\ UNCHANGED <<placeOf, levelOf, versionOf, now, file, stopped, dpc, interrupted, until, collected, records, index, trends>>
      /\ rpc[v] = "append" /\ rpc' = [rpc EXCEPT ![v] = "failed"] /\ rec' = [rec EXCEPT ![v] = NoRecord]
  BY DEF setup, AppendFails, digest
<1>2. VarsTyped'
  BY <1>1 DEF HistoryInv, VarsTyped
<1>3. \A w \in Reviews : rpc'[w] = IF w = v THEN "failed" ELSE rpc[w]
  BY <1>1 DEF HistoryInv, VarsTyped
<1>4. \A w \in Reviews : w # v => rec'[w] = rec[w]
  BY <1>1 DEF HistoryInv, VarsTyped
<1>5. RecordInv' /\ FileInv'
  BY <1>1, <1>3, <1>4 DEF HistoryInv, RecordInv, FileInv, Key
<1>6. PrefixInv' /\ TrendInv'
  BY <1>1 DEF HistoryInv, PrefixInv, TrendInv, TrendOf, Key
<1> QED
  BY <1>2, <1>5, <1>6 DEF HistoryInv

(* The parts of an aggregate. *)
Matched(f, key, time) == {i \in Load(f) : f[i].rec.repo = key /\ InWindow(f[i].rec.time, time)}
High(f, I) == {i \in I : f[i].rec.level = "high"}

LEMMA AggregateParts ==
  ASSUME NEW f \in Seq(Writes), NEW key, NEW time
  PROVE  LET matched == Matched(f, key, time)
             high == High(f, matched)
             trend == Aggregate(f, key, time)
         IN  /\ IsFiniteSet(matched) /\ matched \subseteq DOMAIN f
             /\ trend.total = Cardinality(matched) /\ trend.total \in Nat
             /\ trend.recentHigh + trend.previousHigh = Cardinality(high)
             /\ trend.recent = Newest(NewestFirst(f, matched))
<1> DEFINE matched == Matched(f, key, time)
           high == High(f, matched)
           earlier == {i \in high : 2 * f[i].rec.time < time + (time - Days)}
           trend == Aggregate(f, key, time)
<1>1. trend = [total |-> Cardinality(matched), previousHigh |-> Cardinality(earlier),
               recentHigh |-> Cardinality(high \ earlier), recent |-> Newest(NewestFirst(f, matched))]
  BY DEF Aggregate, Matched, High
<1>2. matched \subseteq DOMAIN f
  BY DEF Matched, Load
<1>3. IsFiniteSet(DOMAIN f)
  <2> HIDE DEF Writes
  <2>1. DOMAIN f = 1 .. Len(f) /\ Len(f) \in Nat
    OBVIOUS
  <2> QED
    BY <2>1, FS_Interval
<1>4. IsFiniteSet(matched) /\ Cardinality(matched) \in Nat
  BY <1>2, <1>3, FS_Subset, FS_CardinalityType
<1>5. high \subseteq matched /\ earlier \subseteq high /\ high \cap earlier = earlier
  BY DEF High
<1>6. IsFiniteSet(high)
  BY <1>4, <1>5, FS_Subset
<1>7. IsFiniteSet(earlier) /\ Cardinality(earlier) \in Nat /\ Cardinality(high) \in Nat
  BY <1>5, <1>6, FS_Subset, FS_CardinalityType
<1>8. Cardinality(high \ earlier) = Cardinality(high) - Cardinality(earlier)
  BY ZenonT(40), <1>5, <1>6, FS_Difference
<1> HIDE DEF matched, high, earlier, trend
<1>9. trend.recentHigh + trend.previousHigh = Cardinality(high)
  BY <1>1, <1>7, <1>8
<1> QED
  BY <1>1, <1>2, <1>4, <1>9 DEF matched, high, trend

LEMMA TrendParts ==
  ASSUME PrefixInv
  PROVE  \A p, c : TrendOf(p, c).total \in Nat
  BY AggregateParts DEF PrefixInv, TrendOf

(* A step of the digest. *)
LEMMA TickStep ==
  ASSUME HistoryInv, Tick \/ Start \/ Collect \/ LoadNothing \/ Build \/ Interrupt
  PROVE  HistoryInv'
<1>1. UNCHANGED <<placeOf, levelOf, versionOf, file, rpc, stopped, rec, records, index, trends>> /\ now' >= now /\ now' \in Nat
  BY BoundAssumption DEF setup, Tick, Start, Collect, LoadNothing, Build, Interrupt, reviews, digest, HistoryInv, VarsTyped
<1>2. VarsTyped'
  <2>1. CASE Tick
    BY <2>1, BoundAssumption DEF setup, Tick, reviews, digest, HistoryInv, VarsTyped
  <2>2. CASE Start \/ Collect \/ LoadNothing
    BY <2>2, BoundAssumption DEF setup, Start, Collect, LoadNothing, reviews, HistoryInv, VarsTyped
  <2>3. CASE Build \/ Interrupt
    BY <2>3 DEF setup, Build, Interrupt, reviews, HistoryInv, VarsTyped
  <2> QED
    BY <2>1, <2>2, <2>3
<1>3. RecordInv'
  <2>1. \A v \in Reviews : rpc[v] \in {"key", "append"} => rec[v].time \in Nat
    BY DEF HistoryInv, RecordInv, Recs
  <2> QED
    BY <1>1, <2>1, BoundAssumption DEF HistoryInv, RecordInv, VarsTyped, Key
<1>4. FileInv'
  BY <1>1 DEF HistoryInv, FileInv, Key
<1>5. PrefixInv'
  BY <1>1 DEF HistoryInv, PrefixInv
<1>6. ASSUME Start \/ Collect \/ LoadNothing PROVE TrendInv'
  <2>1. dpc \in {"idle", "collect", "load"} /\ UNCHANGED <<records, index, trends>> /\ dpc' \in {"collect", "load", "blank"}
    BY <1>6 DEF Start, Collect, LoadNothing
  <2>2. index' = 1 /\ 1 .. index' - 1 = {} /\ records' = <<>> /\ \A p \in Places : trends'[p] = NoTrend
    BY <2>1 DEF HistoryInv, TrendInv
  <2> QED
    BY <2>1, <2>2 DEF TrendInv
<1>7. ASSUME Tick \/ Build \/ Interrupt PROVE TrendInv'
  <2>1. /\ UNCHANGED <<records, index, trends, until, collected>>
        /\ dpc' = dpc \/ (dpc = "trends" /\ dpc' = "done" /\ index > Len(RepoPaths))
        /\ interrupted' = interrupted \/ interrupted'
    BY <1>7 DEF setup, Tick, Build, Interrupt, digest
  <2>2. \A p \in Places, c \in BOOLEAN : TrendOf(p, c)' = TrendOf(p, c)
    BY <2>1 DEF TrendOf, Key
  <2>3. /\ interrupted \in BOOLEAN /\ index \in Nat /\ Len(RepoPaths) \in Nat
        /\ \A j \in 1 .. index - 1 : RepoPaths[j] \in Places
        /\ interrupted => interrupted'
    BY <1>7, RepoAssumption DEF setup, HistoryInv, VarsTyped, Tick, Build, Interrupt, digest
  <2>4. \A p \in Places :
          \/ trends'[p] = NoTrend
          \/ trends'[p] = TrendOf(p, FALSE)' \/ (interrupted' /\ trends'[p] = TrendOf(p, TRUE)')
    BY <2>1, <2>2, <2>3 DEF HistoryInv, TrendInv
  <2>5. ~interrupted' => \A j \in 1 .. index - 1 : collected[j] =>
          trends[RepoPaths[j]] = TrendOf(RepoPaths[j], FALSE)' \/ TrendOf(RepoPaths[j], FALSE)'.total = 0
    BY <2>2, <2>3 DEF HistoryInv, TrendInv
  <2>6. Load(records)' = Load(records)
    BY <2>1
  <2> QED
    <3>1. dpc' \in {"idle", "collect", "load", "blank"} =>
            records' = <<>> /\ index' = 1 /\ \A p \in Places : trends'[p] = NoTrend
      BY <2>1 DEF HistoryInv, TrendInv
    <3>2. dpc' = "done" => index' > Len(RepoPaths) \/ Load(records)' = {}
      BY <2>1, <2>6 DEF HistoryInv, TrendInv
    <3>3. dpc' = "done" /\ index' <= Len(RepoPaths) => \A p \in Places : trends'[p] = NoTrend
      BY <2>1, <2>3 DEF HistoryInv, TrendInv
    <3> QED
      BY <2>1, <2>4, <2>5, <3>1, <3>2, <3>3 DEF TrendInv
<1> QED
  BY <1>2, <1>3, <1>4, <1>5, <1>6, <1>7 DEF HistoryInv

LEMMA LoadStep ==
  ASSUME HistoryInv, LoadLog
  PROVE  HistoryInv'
<1>1. /\ UNCHANGED <<placeOf, levelOf, versionOf, now, file, rpc, stopped, rec, interrupted, until, collected, index, trends>>
      /\ dpc = "load" /\ records' = file /\ dpc' = IF Load(file) = {} THEN "done" ELSE "trends"
  BY DEF setup, LoadLog, reviews
<1>2. VarsTyped'
  BY <1>1 DEF HistoryInv, VarsTyped
<1>3. RecordInv' /\ FileInv'
  BY <1>1 DEF HistoryInv, RecordInv, FileInv, Key
<1>4. PrefixInv'
  BY <1>1 DEF HistoryInv, PrefixInv, FileInv
<1>5. index = 1 /\ \A p \in Places : trends[p] = NoTrend
  BY <1>1 DEF HistoryInv, TrendInv
<1>6. TrendInv'
  <2>1. 1 .. index' - 1 = {} /\ index' = 1 /\ dpc' \in {"done", "trends"} /\ \A p \in Places : trends'[p] = NoTrend
    BY <1>1, <1>5
  <2>2. dpc' = "done" => Load(records') = {}
    BY <1>1
  <2> QED
    BY <2>1, <2>2 DEF TrendInv
<1> QED
  BY <1>2, <1>3, <1>4, <1>6 DEF HistoryInv

LEMMA AttachStep ==
  ASSUME HistoryInv, AttachTrend
  PROVE  HistoryInv'
<1> DEFINE p == RepoPaths[index]
           trend == TrendOf(p, interrupted)
<1>1. /\ UNCHANGED <<placeOf, levelOf, versionOf, now, file, rpc, stopped, rec, dpc, interrupted, until, collected, records>>
      /\ dpc = "trends" /\ index <= Len(RepoPaths) /\ index' = index + 1
      /\ trends' = IF collected[index] /\ trend.total > 0 THEN [trends EXCEPT ![p] = trend] ELSE trends
  BY DEF setup, AttachTrend, reviews, TrendOf
<1>2. p \in Places /\ index \in Nat /\ index >= 1 /\ Len(RepoPaths) \in Nat /\ interrupted \in BOOLEAN
      /\ \A j \in 1 .. Len(RepoPaths) : RepoPaths[j] \in Places
  BY <1>1, RepoAssumption DEF HistoryInv, VarsTyped
<1>3. VarsTyped'
  <2>1. index' \in 1 .. Len(RepoPaths) + 1
    BY <1>1, <1>2
  <2> QED
    BY <1>1, <2>1 DEF HistoryInv, VarsTyped
<1>4. RecordInv' /\ FileInv' /\ PrefixInv'
  BY <1>1 DEF HistoryInv, RecordInv, FileInv, PrefixInv, Key
<1>5. \A q, c : TrendOf(q, c)' = TrendOf(q, c)
  BY <1>1 DEF TrendOf, Key
<1>6. \A q \in Places : trends'[q] = IF q = p /\ collected[index] /\ trend.total > 0 THEN trend ELSE trends[q]
  BY <1>1, <1>2 DEF HistoryInv, VarsTyped
<1>7. \A q \in Places :
        \/ trends'[q] = NoTrend
        \/ trends'[q] = TrendOf(q, FALSE) \/ (interrupted /\ trends'[q] = TrendOf(q, TRUE))
  BY <1>2, <1>6 DEF HistoryInv, TrendInv
<1>8. ASSUME ~interrupted, NEW j \in 1 .. index, collected[j]
      PROVE  trends'[RepoPaths[j]] = TrendOf(RepoPaths[j], FALSE) \/ TrendOf(RepoPaths[j], FALSE).total = 0
  <2>1. trend = TrendOf(p, FALSE)
    BY <1>2, <1>8
  <2>2. trend.total \in Nat
    BY TrendParts DEF HistoryInv
  <2>3. RepoPaths[j] \in Places
    BY <1>1, <1>2
  <2> HIDE DEF trend
  <2>4. CASE j = index
    <3>1. RepoPaths[j] = p /\ collected[index]
      BY <1>8, <2>4
    <3>2. CASE trend.total = 0
      BY <2>1, <3>1, <3>2
    <3>3. CASE trend.total > 0
      <4>1. trends'[p] = trend
        BY <1>2, <1>6, <3>1, <3>3
      <4> QED
        BY <2>1, <3>1, <4>1
    <3>4. trend.total = 0 \/ trend.total > 0
      BY <2>2
    <3> QED
      BY <3>2, <3>3, <3>4
  <2>5. CASE j # index
    <3>1. j \in 1 .. index - 1
      BY <1>2, <2>5
    <3>2. trends[RepoPaths[j]] = TrendOf(RepoPaths[j], FALSE) \/ TrendOf(RepoPaths[j], FALSE).total = 0
      BY <1>8, <3>1 DEF HistoryInv, TrendInv
    <3>3. trends'[RepoPaths[j]] = trends[RepoPaths[j]] \/ (p = RepoPaths[j] /\ trends'[RepoPaths[j]] = trend)
      BY <1>6, <2>3
    <3> QED
      BY <2>1, <3>2, <3>3
  <2> QED
    BY <2>4, <2>5
<1>9. TrendInv'
  <2>1. index' - 1 = index
    BY <1>1, <1>2
  <2> HIDE DEF p, trend
  <2> QED
    BY <1>1, <1>5, <1>7, <1>8, <2>1 DEF TrendInv
<1> QED
  BY <1>3, <1>4, <1>9 DEF HistoryInv

LEMMA NextHistory == HistoryInv /\ [RunNext]_runVars => HistoryInv'
<1> SUFFICES ASSUME HistoryInv, [RunNext]_runVars PROVE HistoryInv'
  OBVIOUS
<1>1. ASSUME NEW v \in Reviews, AppendLine(v) \/ AppendTorn(v) PROVE HistoryInv'
  <2>1. PICK end \in Endings :
          /\ rpc[v] = "append" /\ file' = Append(file, Write(rec[v], end))
          /\ rpc' = [rpc EXCEPT ![v] = IF end = "line" THEN "logged" ELSE "failed"]
          /\ rec' = [rec EXCEPT ![v] = NoRecord]
          /\ UNCHANGED <<setup, now, stopped, digest>>
    BY <1>1 DEF AppendLine, AppendTorn, Endings
  <2> QED
    BY <2>1, AppendStep DEF setup, digest
<1>2. ASSUME UNCHANGED runVars PROVE HistoryInv'
  BY <1>2 DEF setup, runVars, reviews, digest, HistoryInv, VarsTyped, RecordInv, FileInv, PrefixInv, TrendInv, TrendOf, Key
<1> QED
  BY <1>1, <1>2, StampStep, FindKeyStep, AppendFailsStep, TickStep, LoadStep, AttachStep
     DEF RunNext, RunTerminating

(* The log and what the digest makes of it keep their invariant.           *)
THEOREM HistoryHolds == RunSpec => []HistoryInv
<1>1. HistoryInv /\ [RunNext]_runVars => HistoryInv'
  BY NextHistory
<1> QED
  BY InitHistory, <1>1, PTL DEF RunSpec

-----------------------------------------------------------------------------
(* A line that cannot be read stands behind a write that was cut short.    *)
LEMMA LossIsBounded ==
  ASSUME HistoryInv
  PROVE  LossBounded
<1> DEFINE lost == {v \in Reviews : /\ rpc[v] = "logged" /\ versionOf[v] <= RecordSchemaVersion
                                    /\ \A i \in Load(file) : file[i].rec.by # v}
           line(v) == CHOOSE i \in DOMAIN file : file[i].rec.by = v /\ file[i].end = "line"
           f == [v \in lost |-> line(v) - 1]
<1>1. DOMAIN file = 1 .. Len(file) /\ Len(file) \in Nat
  BY DEF HistoryInv, FileInv
<1>2. IsFiniteSet(Torn(file))
  <2>1. IsFiniteSet(1 .. Len(file)) /\ Torn(file) \subseteq 1 .. Len(file)
    BY <1>1, FS_Interval DEF Torn
  <2> QED
    BY <2>1, FS_Subset
<1>3. ASSUME NEW v \in lost
      PROVE  /\ line(v) \in DOMAIN file /\ file[line(v)].rec.by = v /\ line(v) - 1 \in Torn(file)
  <2>1. \E i \in DOMAIN file : file[i].rec.by = v /\ file[i].end = "line"
    BY <1>3 DEF HistoryInv, FileInv
  <2>2. line(v) \in DOMAIN file /\ file[line(v)].rec.by = v /\ file[line(v)].end = "line"
    BY <2>1
  <2> DEFINE i == line(v)
  <2>3. i \in DOMAIN file /\ file[i].rec.by = v /\ file[i].end = "line"
    BY <2>2
  <2> HIDE DEF i
  <2>4. i \notin Load(file) /\ file[i].rec.version = versionOf[v] /\ versionOf[v] <= RecordSchemaVersion
    BY <1>3, <2>3 DEF HistoryInv, FileInv
  <2>5. i > 1 /\ file[i - 1].end # "line"
    BY <1>1, <2>3, <2>4 DEF Load
  <2>6. i - 1 \in Torn(file)
    BY <1>1, <2>3, <2>5 DEF Torn
  <2> QED
    BY <2>2, <2>6 DEF i
<1> HIDE DEF line
<1>4. f \in [lost -> Torn(file)]
  BY <1>3
<1>5. \A v, w \in lost : f[v] = f[w] => v = w
  <2> SUFFICES ASSUME NEW v \in lost, NEW w \in lost, f[v] = f[w] PROVE v = w
    OBVIOUS
  <2>1. line(v) = line(w)
    BY <1>1, <1>3
  <2> QED
    BY <1>3, <2>1
<1> HIDE DEF f, lost
<1>6. f \in Injection(lost, Torn(file))
  BY <1>4, <1>5 DEF Injection, IsInjective
<1>7. Cardinality(lost) <= Cardinality(Torn(file))
  BY <1>2, <1>6, FS_Injection DEF ExistsInjection
<1> QED
  BY <1>7 DEF LossBounded, lost

LEMMA HistoryTyped ==
  ASSUME HistoryInv
  PROVE  RunTypeOK
<1>1. IsPrefix(records, file)
  BY DEF HistoryInv, PrefixInv, FileInv, IsPrefix
<1>2. \A i \in DOMAIN file : file[i].rec.by \in Reviews /\ file[i].end \in Endings
  <2>1. \A i \in DOMAIN file : file[i] \in Writes
    BY DEF HistoryInv, FileInv
  <2> QED
    BY <2>1 DEF Writes, Recs
<1> QED
  BY <1>1, <1>2 DEF HistoryInv, VarsTyped, RunTypeOK

(* The log keeps its shape, and loses a record only to a write that was    *)
(* cut short (riskhistory.Append and Load).                                *)
THEOREM LogSoundHolds == RunSpec => []LogSound
<1>1. HistoryInv => LogSound
  BY LossIsBounded, HistoryTyped DEF LogSound
<1> QED
  BY HistoryHolds, <1>1, PTL

-----------------------------------------------------------------------------
(* riskhistory.RepoKey: two places have one key if and only if they are of *)
(* one repository, where git can name it and no token is in the name.      *)
LEMMA KeysAgree ==
  ASSUME NEW p \in Places, NEW q \in Places, Key(p, FALSE) # EmptyKey, PlainUrls(p)
  PROVE  Key(q, FALSE) = Key(p, FALSE) <=> SameRepository(q, p)
<1> DEFINE NameOf(r) == IF UrlOf[r] = NoOrigin THEN RootOf[r] ELSE UrlOf[r].repo
           Unnamed(r) == UrlOf[r] = NoOrigin /\ RootOf[r] = NoRoot
           Token(r) == UrlOf[r] # NoOrigin /\ UrlOf[r].form = "https" /\ UrlOf[r].user # NoUser
<1>1. ASSUME NEW r \in Places
      PROVE  /\ Unnamed(r) => Key(r, FALSE) = EmptyKey
             /\ Token(r) => Key(r, FALSE) = <<UrlOf[r].user, UrlOf[r].repo>>
             /\ ~Unnamed(r) /\ ~Token(r) => Key(r, FALSE) = <<NameOf(r)>>
  BY DEF Key, RepoKey, RootKey
<1>2. /\ \A a : <<a>> # EmptyKey
      /\ \A a, b : <<a>> = <<b>> <=> a = b
      /\ \A a, b, c : <<a, b>> # <<c>>
  BY DEF EmptyKey
<1>3. NoOrigin.form = "none"
  BY DEF NoOrigin
<1>4. ~Unnamed(p) /\ ~Token(p) /\ Key(p, FALSE) = <<NameOf(p)>>
  <2>1. ~Unnamed(p)
    BY <1>1
  <2>2. ~Token(p)
    BY DEF PlainUrls, SameRepository
  <2> QED
    BY <1>1, <2>1, <2>2
<1>5. Key(q, FALSE) = Key(p, FALSE) <=> ~Unnamed(q) /\ ~Token(q) /\ NameOf(q) = NameOf(p)
  <2> HIDE DEF NameOf, Unnamed, Token
  <2>0. Key(p, FALSE) = <<NameOf(p)>>
    BY <1>4
  <2>1. CASE Unnamed(q)
    <3>1. Key(q, FALSE) = EmptyKey
      BY <1>1, <2>1
    <3> QED
      BY <2>1, <3>1
  <2>2. CASE Token(q)
    <3>1. Key(q, FALSE) = <<UrlOf[q].user, UrlOf[q].repo>>
      BY <1>1, <2>2
    <3>2. <<UrlOf[q].user, UrlOf[q].repo>> # <<NameOf(p)>>
      BY <1>2
    <3> QED
      BY <2>0, <2>2, <3>1, <3>2
  <2>3. CASE ~Unnamed(q) /\ ~Token(q)
    <3>1. Key(q, FALSE) = <<NameOf(q)>>
      BY <1>1, <2>3
    <3>2. <<NameOf(q)>> = <<NameOf(p)>> <=> NameOf(q) = NameOf(p)
      BY <1>2
    <3> QED
      BY <2>0, <2>3, <3>1, <3>2
  <2> QED
    BY <2>1, <2>2, <2>3
<1>6. SameRepository(q, p) => ~Token(q)
  BY <1>3 DEF PlainUrls
<1>7. CASE UrlOf[p] = NoOrigin /\ UrlOf[q] = NoOrigin
  BY <1>3, <1>4, <1>5, <1>7, PlaceAssumption DEF SameRepository, ClonedFrom
<1>8. CASE UrlOf[p] = NoOrigin /\ UrlOf[q] # NoOrigin
  <2>1. NameOf(p) = RootOf[p] /\ NameOf(q) = UrlOf[q].repo /\ RootOf[p] # NoRoot /\ p # q
    BY <1>4, <1>8
  <2>2. UrlOf[q].repo = RootOf[p] => UrlOf[q].form = "raw"
    BY <1>8, PlaceAssumption
  <2>3. SameRepository(q, p) <=> UrlOf[q].form = "raw" /\ UrlOf[q].repo = RootOf[p]
    BY <1>3, <1>8, <2>1 DEF SameRepository, ClonedFrom
  <2> QED
    BY <1>5, <1>6, <1>8, <2>1, <2>2, <2>3
<1>9. CASE UrlOf[p] # NoOrigin /\ UrlOf[q] = NoOrigin
  <2>1. NameOf(q) = RootOf[q] /\ NameOf(p) = UrlOf[p].repo /\ p # q
    BY <1>9
  <2>2. UrlOf[p].repo = RootOf[q] => UrlOf[p].form = "raw"
    BY <1>9, PlaceAssumption
  <2>3. SameRepository(q, p) <=> UrlOf[p].form = "raw" /\ UrlOf[p].repo = RootOf[q] /\ RootOf[q] # NoRoot
    BY <1>3, <1>9, <2>1 DEF SameRepository, ClonedFrom
  <2> QED
    BY <1>5, <1>6, <1>9, <2>1, <2>2, <2>3
<1>10. CASE UrlOf[p] # NoOrigin /\ UrlOf[q] # NoOrigin
  <2>1. NameOf(q) = UrlOf[q].repo /\ NameOf(p) = UrlOf[p].repo /\ ~Unnamed(q)
    BY <1>10
  <2>2. SameRepository(q, p) <=> UrlOf[q].repo = UrlOf[p].repo
    BY <1>10 DEF SameRepository, ClonedFrom
  <2> QED
    BY <1>5, <1>6, <2>1, <2>2
<1> QED
  BY <1>7, <1>8, <1>9, <1>10

(* The records that a trend counts are, one for one, the reviews of its    *)
(* repository.                                                             *)
LEMMA MatchedReviews ==
  ASSUME HistoryInv, Torn(records) = {},
         NEW p \in Places, Key(p, FALSE) # EmptyKey, PlainUrls(p)
  PROVE  LET matched == Matched(records, Key(p, FALSE), until)
         IN  /\ Cardinality(matched) = Cardinality(Reviewed(p))
             /\ Cardinality(High(records, matched)) = Cardinality({v \in Reviewed(p) : levelOf[v] = "high"})
<1> DEFINE matched == Matched(records, Key(p, FALSE), until)
           by == [i \in matched |-> records[i].rec.by]
           highs == {v \in Reviewed(p) : levelOf[v] = "high"}
           byHigh == [i \in High(records, matched) |-> records[i].rec.by]
<1>0. records \in Seq(Writes) /\ DOMAIN records = 1 .. Len(records) /\ DOMAIN file = 1 .. Len(file)
      /\ Len(file) \in Nat /\ Len(records) \in Nat /\ Len(records) <= Len(file)
  BY DEF HistoryInv, PrefixInv, FileInv
<1>1. ASSUME NEW i \in DOMAIN records
      PROVE  LET v == records[i].rec.by
             IN  /\ i \in DOMAIN file /\ v \in Reviews /\ records[i] = file[i] /\ rpc[v] = "logged"
                 /\ records[i].end = "line" /\ records[i].rec.version = versionOf[v]
                 /\ records[i].rec.level = levelOf[v] /\ stopped[v] \in BOOLEAN
                 /\ records[i].rec.repo = Key(placeOf[v], stopped[v])
  <2> DEFINE v == records[i].rec.by
  <2>1. i \in DOMAIN file /\ records[i] = file[i]
    BY <1>0, <1>1 DEF HistoryInv, PrefixInv
  <2>2. records[i] \in Writes
    BY <1>0
  <2>3. v \in Reviews
    BY <2>2 DEF Writes, Recs
  <2>4. records[i].end = "line"
    BY DEF Torn
  <2>5. stopped[v] \in BOOLEAN
    BY <2>3 DEF HistoryInv, VarsTyped
  <2>6. /\ file[i].end = "line" => rpc[v] = "logged"
        /\ file[i].rec.level = levelOf[v] /\ file[i].rec.version = versionOf[v]
        /\ file[i].rec.repo = Key(placeOf[v], stopped[v])
    BY <2>1, <2>3 DEF HistoryInv, FileInv
  <2> QED
    BY <2>1, <2>3, <2>4, <2>5, <2>6
<1>2. \A i \in DOMAIN records : i \in matched <=> records[i].rec.by \in Reviewed(p)
  <2> SUFFICES ASSUME NEW i \in DOMAIN records
               PROVE  i \in matched <=> records[i].rec.by \in Reviewed(p)
    OBVIOUS
  <2> DEFINE v == records[i].rec.by
  <2>1. /\ v \in Reviews /\ rpc[v] = "logged" /\ records[i].rec.version = versionOf[v]
        /\ records[i].rec.repo = Key(placeOf[v], stopped[v]) /\ stopped[v] \in BOOLEAN
        /\ placeOf[v] \in Places
    BY <1>1 DEF HistoryInv, VarsTyped
  <2>2. i \in Load(records) <=> versionOf[v] <= RecordSchemaVersion
    <3>1. i > 1 => i - 1 \in DOMAIN records
      BY <1>0
    <3>2. i > 1 => records[i - 1].end = "line"
      BY <1>1, <3>1
    <3> QED
      BY <1>1, <2>1, <3>2 DEF Load
  <2>3. records[i].rec.repo = Key(p, FALSE) <=> ~stopped[v] /\ SameRepository(placeOf[v], p)
    <3>1. CASE stopped[v] = TRUE
      BY <2>1, <3>1 DEF Key
    <3>2. CASE stopped[v] = FALSE
      BY <2>1, <3>2, KeysAgree
    <3> QED
      BY <2>1, <3>1, <3>2
  <2>4. \A j \in DOMAIN records : records[j].rec.by = v => j = i
    <3>1. \A j \in DOMAIN records : j \in DOMAIN file /\ records[j] = file[j]
      BY <1>1
    <3> QED
      BY <3>1 DEF HistoryInv, FileInv
  <2>5. (\E j \in DOMAIN records : records[j].rec.by = v /\ InWindow(records[j].rec.time, until))
          <=> InWindow(records[i].rec.time, until)
    BY <2>4
  <2> QED
    BY <2>1, <2>2, <2>3, <2>5 DEF Matched, Reviewed
<1>3. matched \subseteq DOMAIN records
  BY DEF Matched, Load
<1>4. by \in [matched -> Reviewed(p)] /\ \A i, j \in matched : by[i] = by[j] => i = j
  <2>1. \A j \in DOMAIN records : j \in DOMAIN file /\ records[j] = file[j]
    BY <1>1
  <2>2. \A i, j \in matched : records[i].rec.by = records[j].rec.by => i = j
    <3> SUFFICES ASSUME NEW i \in matched, NEW j \in matched, records[i].rec.by = records[j].rec.by PROVE i = j
      OBVIOUS
    <3>1. i \in DOMAIN file /\ j \in DOMAIN file /\ file[i].rec.by = file[j].rec.by
      BY <1>3, <2>1
    <3> QED
      BY <3>1 DEF HistoryInv, FileInv
  <2>3. \A i \in matched : records[i].rec.by \in Reviewed(p)
    BY <1>2, <1>3
  <2> HIDE DEF matched
  <2> QED
    BY <2>2, <2>3
<1>5. \A v \in Reviewed(p) : \E i \in matched : by[i] = v
  BY <1>2 DEF Reviewed
<1>6. \A i \in matched : records[i].rec.level = levelOf[by[i]]
  BY <1>1, <1>3
<1>7. IsFiniteSet(matched)
  BY <1>0, AggregateParts
<1> HIDE DEF matched
<1>8. by \in Bijection(matched, Reviewed(p))
  BY <1>4, <1>5 DEF Bijection, Injection, Surjection, IsInjective
<1>9. High(records, matched) \subseteq matched
  BY DEF High
<1>10. byHigh \in Bijection(High(records, matched), highs)
  <2>1. byHigh \in [High(records, matched) -> highs]
    BY <1>4, <1>6, <1>9 DEF High
  <2>2. \A i, j \in High(records, matched) : byHigh[i] = byHigh[j] => i = j
    BY <1>4, <1>9
  <2>3. \A v \in highs : \E i \in High(records, matched) : byHigh[i] = v
    BY <1>5, <1>6 DEF High
  <2> HIDE DEF byHigh, highs
  <2> QED
    BY <2>1, <2>2, <2>3 DEF Bijection, Injection, Surjection, IsInjective
<1>11. Cardinality(matched) = Cardinality(Reviewed(p))
  BY <1>7, <1>8, FS_Bijection DEF ExistsBijection
<1>12. Cardinality(High(records, matched)) = Cardinality(highs)
  BY <1>7, <1>9, <1>10, FS_Bijection, FS_Subset DEF ExistsBijection
<1> QED
  BY <1>11, <1>12 DEF matched

(* digestRiskTrends: the trend of a repository that git can name counts    *)
(* its reviews, once each, and no other, unless a write was cut short, the *)
(* digest interrupted or a token is part of the name.                      *)
THEOREM TrendExactHolds == RunSpec => []TrendExact
<1>1. ASSUME HistoryInv PROVE TrendExact
  <2> SUFFICES ASSUME dpc = "done", Torn(records) = {}, ~interrupted,
                      NEW i \in DOMAIN RepoPaths, collected[i], Key(RepoPaths[i], FALSE) # EmptyKey,
                      PlainUrls(RepoPaths[i])
               PROVE  LET p == RepoPaths[i]
                      IN  /\ trends[p].total = Cardinality(Reviewed(p))
                          /\ trends[p].total > 0 =>
                               trends[p].recentHigh + trends[p].previousHigh
                                 = Cardinality({v \in Reviewed(p) : levelOf[v] = "high"})
    BY DEF TrendExact, Undisturbed, Counted
  <2> DEFINE p == RepoPaths[i]
             matched == Matched(records, Key(p, FALSE), until)
  <2>1. p \in Places /\ i \in 1 .. Len(RepoPaths) /\ Len(RepoPaths) \in Nat /\ index \in Nat
    BY RepoAssumption, <1>1 DEF HistoryInv, VarsTyped
  <2>2. /\ Cardinality(matched) = Cardinality(Reviewed(p))
        /\ Cardinality(High(records, matched)) = Cardinality({v \in Reviewed(p) : levelOf[v] = "high"})
    BY <1>1, <2>1, MatchedReviews
  <2>3. /\ IsFiniteSet(matched) /\ TrendOf(p, FALSE).total = Cardinality(matched)
        /\ TrendOf(p, FALSE).recentHigh + TrendOf(p, FALSE).previousHigh = Cardinality(High(records, matched))
    BY <1>1, AggregateParts DEF HistoryInv, PrefixInv, TrendOf
  <2>4. NoTrend.total = 0
    BY DEF NoTrend
  <2>7. Cardinality(matched) \in Nat
    BY <2>3, FS_CardinalityType
  <2> DEFINE reviewed == Reviewed(p)
             highs == {v \in Reviewed(p) : levelOf[v] = "high"}
             Exact == /\ trends[p].total = Cardinality(reviewed)
                      /\ trends[p].total > 0 =>
                           trends[p].recentHigh + trends[p].previousHigh = Cardinality(highs)
  <2> HIDE DEF p
  <2>5. ASSUME index > Len(RepoPaths) PROVE Exact
    <3>1. i \in 1 .. index - 1
      BY <2>1, <2>5
    <3>2. trends[p] = TrendOf(p, FALSE) \/ TrendOf(p, FALSE).total = 0
      BY <1>1, <3>1 DEF HistoryInv, TrendInv, p
    <3>3. trends[p] = TrendOf(p, FALSE) \/ trends[p] = NoTrend
      BY <1>1, <2>1 DEF HistoryInv, TrendInv
    <3> HIDE DEF matched, reviewed, highs
    <3>4. Cardinality(reviewed) = Cardinality(matched) /\ Cardinality(highs) = Cardinality(High(records, matched))
      BY <2>2 DEF reviewed, highs
    <3>5. CASE trends[p] = TrendOf(p, FALSE)
      <4>1. /\ trends[p].total = Cardinality(reviewed)
            /\ trends[p].recentHigh + trends[p].previousHigh = Cardinality(highs)
        BY <2>3, <3>4, <3>5
      <4> QED
        BY <4>1
    <3>6. CASE trends[p] = NoTrend /\ TrendOf(p, FALSE).total = 0
      <4>1. trends[p].total = 0 /\ Cardinality(reviewed) = 0
        BY <2>3, <2>4, <3>4, <3>6
      <4> QED
        BY <4>1
    <3> QED
      BY <3>2, <3>3, <3>5, <3>6
  <2>6. ASSUME index <= Len(RepoPaths) PROVE Exact
    <3>1. Load(records) = {} /\ trends[p] = NoTrend
      BY <1>1, <2>1, <2>6 DEF HistoryInv, TrendInv
    <3>2. matched = {}
      BY <3>1 DEF Matched
    <3>3. Cardinality(matched) = 0
      BY <3>2, FS_EmptySet
    <3> HIDE DEF matched, reviewed, highs
    <3>4. Cardinality(reviewed) = 0
      BY <2>2, <3>3 DEF reviewed
    <3> QED
      BY <2>4, <3>1, <3>4
  <2>9. Exact
    BY <2>1, <2>5, <2>6
  <2> QED
    BY <2>9 DEF p
<1> QED
  BY HistoryHolds, <1>1, PTL

-----------------------------------------------------------------------------
(* sort.SliceStable by timestamp: the list has every record once, and a    *)
(* newer one never behind an older one.                                    *)
LEMMA NewestFirstSorts ==
  ASSUME NEW f \in Seq(Writes), NEW I \in SUBSET DOMAIN f
  PROVE  LET n == Cardinality(I)
             s == NewestFirst(f, I)
         IN  /\ n \in Nat /\ s \in [1 .. n -> I]
             /\ \A i \in I : \E k \in 1 .. n : s[k] = i
             /\ \A a, b \in 1 .. n : a < b => Newer(f, s[a], s[b])
<1> DEFINE n == Cardinality(I)
           s == NewestFirst(f, I)
           Before(i) == {j \in I : Newer(f, j, i)}
           rank == [i \in I |-> Cardinality(Before(i))]
<1>1. DOMAIN f = 1 .. Len(f) /\ Len(f) \in Nat /\ \A i \in DOMAIN f : f[i].rec.time \in Nat
  <2>1. DOMAIN f = 1 .. Len(f) /\ Len(f) \in Nat /\ \A i \in DOMAIN f : f[i] \in Writes
    <3> HIDE DEF Writes
    <3> QED
      OBVIOUS
  <2> QED
    BY <2>1 DEF Writes, Recs
<1>2. IsFiniteSet(I) /\ n \in Nat
  <2>1. IsFiniteSet(DOMAIN f)
    BY <1>1, FS_Interval
  <2> QED
    BY <2>1, FS_Subset, FS_CardinalityType
<1>3. \A i, j \in I : i = j \/ Newer(f, i, j) \/ Newer(f, j, i)
  BY <1>1 DEF Newer
<1>4. \A i, j, k \in I : Newer(f, i, j) /\ Newer(f, j, k) => Newer(f, i, k)
  BY <1>1 DEF Newer
<1>5. \A i \in I : ~Newer(f, i, i)
  BY <1>1 DEF Newer
<1>6. ASSUME NEW i \in I
      PROVE  IsFiniteSet(Before(i)) /\ rank[i] \in 0 .. n - 1
  <2>1. Before(i) \subseteq I /\ Before(i) # I
    BY <1>5
  <2> HIDE DEF Before
  <2>2. IsFiniteSet(Before(i)) /\ Cardinality(Before(i)) <= n /\ Cardinality(Before(i)) # n
    BY <1>2, <2>1, FS_Subset
  <2>3. Cardinality(Before(i)) \in Nat
    BY <2>2, FS_CardinalityType
  <2> HIDE DEF n
  <2> QED
    BY <1>2, <2>2, <2>3
<1>7. ASSUME NEW i \in I, NEW j \in I, Newer(f, i, j)
      PROVE  rank[i] < rank[j]
  <2>1. Before(i) \subseteq Before(j) /\ i \in Before(j) /\ i \notin Before(i)
    BY <1>4, <1>5, <1>7
  <2> HIDE DEF Before
  <2>2. Cardinality(Before(i)) <= Cardinality(Before(j)) /\ Cardinality(Before(i)) # Cardinality(Before(j))
    BY <1>6, <2>1, FS_Subset
  <2>3. rank[i] \in Nat /\ rank[j] \in Nat /\ rank[i] = Cardinality(Before(i)) /\ rank[j] = Cardinality(Before(j))
    BY <1>2, <1>6
  <2> QED
    BY <2>2, <2>3
<1>8. \A k \in 1 .. n : s[k] = CHOOSE i \in I : Cardinality(Before(i)) = k - 1
  BY DEF NewestFirst
<1>9. DOMAIN s = 1 .. n
  BY DEF NewestFirst
<1>10. \A i \in I : rank[i] = Cardinality(Before(i))
  OBVIOUS
<1>11. rank \in [I -> 0 .. n - 1]
  BY <1>6
<1>12. s = [k \in 1 .. n |-> CHOOSE i \in I : Cardinality(Before(i)) = k - 1]
  BY DEF NewestFirst
<1> HIDE DEF rank, s, Before, n
<1>13. \A i, j \in I : rank[i] = rank[j] => i = j
  BY <1>2, <1>3, <1>6, <1>7
<1>14. \A k \in 1 .. n : \E i \in I : rank[i] = k - 1
  <2>1. rank \in Injection(I, 0 .. n - 1)
    BY <1>11, <1>13 DEF Injection, IsInjective
  <2>2. IsFiniteSet(0 .. n - 1) /\ Cardinality(0 .. n - 1) = n
    BY <1>2, FS_Interval
  <2>3. rank \in Surjection(I, 0 .. n - 1)
    BY <2>1, <2>2, FS_Injection DEF n
  <2>4. \A k \in 0 .. n - 1 : \E i \in I : rank[i] = k
    BY <2>3 DEF Surjection
  <2> QED
    BY <1>2, <2>4
<1>15. \A k \in 1 .. n : s[k] \in I /\ rank[s[k]] = k - 1
  BY <1>8, <1>10, <1>14
<1>16. s \in [1 .. n -> I]
  BY <1>12, <1>15
<1>17. ASSUME NEW i \in I PROVE \E k \in 1 .. n : s[k] = i
  <2>1. rank[i] + 1 \in 1 .. n /\ rank[i] = (rank[i] + 1) - 1
    BY <1>2, <1>6
  <2> QED
    BY <1>13, <1>15, <2>1
<1>18. ASSUME NEW a \in 1 .. n, NEW b \in 1 .. n, a < b PROVE Newer(f, s[a], s[b])
  <2>1. rank[s[a]] < rank[s[b]]
    BY <1>2, <1>15, <1>18
  <2>2. s[a] # s[b] /\ ~(rank[s[b]] < rank[s[a]])
    BY <1>2, <1>15, <1>18
  <2> QED
    BY <1>3, <1>7, <1>15, <2>2
<1> QED
  BY <1>2, <1>16, <1>17, <1>18 DEF n, s

(* Aggregate's short list is in order of time, and leaves out no review    *)
(* that is newer than one it shows.                                        *)
THEOREM NewestShownHolds == RunSpec => []NewestShown
<1>1. ASSUME HistoryInv PROVE NewestShown
  <2> SUFFICES ASSUME NEW p \in Places, trends[p].total > 0,
                      NEW a \in DOMAIN trends[p].recent
               PROVE  LET recent == trends[p].recent
                          TimeOf(i) == records[i].rec.time
                      IN  /\ \A b \in 1 .. a - 1 : TimeOf(recent[b]) >= TimeOf(recent[a])
                          /\ \A i \in Load(records) :
                               /\ records[i].rec.repo = records[recent[a]].rec.repo
                               /\ InWindow(TimeOf(i), until) /\ TimeOf(i) > TimeOf(recent[a])
                               => \E b \in DOMAIN recent : recent[b] = i
    BY DEF NewestShown
  <2>1. PICK c \in BOOLEAN : trends[p] = TrendOf(p, c)
    <3>1. trends[p] # NoTrend
      BY DEF NoTrend
    <3> QED
      BY <1>1, <3>1 DEF HistoryInv, TrendInv
  <2> DEFINE I == Matched(records, Key(p, c), until)
             n == Cardinality(I)
             s == NewestFirst(records, I)
             m == IF n < RecentLimit THEN n ELSE RecentLimit
             recent == trends[p].recent
             TimeOf(i) == records[i].rec.time
  <2>2. records \in Seq(Writes) /\ I \in SUBSET DOMAIN records
    BY <1>1 DEF HistoryInv, PrefixInv, Matched, Load
  <2>3. recent = Newest(s)
    BY <2>1, <2>2, AggregateParts DEF TrendOf
  <2>4. /\ n \in Nat /\ s \in [1 .. n -> I]
        /\ \A i \in I : \E k \in 1 .. n : s[k] = i
        /\ \A k, l \in 1 .. n : k < l => Newer(records, s[k], s[l])
    BY <2>2, NewestFirstSorts
  <2>5. \A i \in I : TimeOf(i) \in Nat /\ records[i].rec.repo = Key(p, c)
    <3>1. \A i \in DOMAIN records : records[i] \in Writes
      BY <2>2
    <3> QED
      BY <2>2, <3>1 DEF Matched, Writes, Recs
  <2>6. \A i \in Load(records) : records[i].rec.repo = Key(p, c) /\ InWindow(TimeOf(i), until) => i \in I
    BY DEF Matched
  <2> HIDE DEF I, n, s
  <2>7. m \in 0 .. n /\ s \in Seq(I) /\ Len(s) = n
    BY <2>4, DaysAssumption
  <2> HIDE DEF m
  <2>8. recent = SubSeq(s, 1, m)
    BY <2>3, <2>7 DEF Newest, m
  <2> HIDE DEF recent
  <2>9. DOMAIN recent = 1 .. m /\ \A k \in 1 .. m : recent[k] = s[k]
    BY <2>4, <2>7, <2>8
  <2>10. a \in 1 .. m /\ a \in 1 .. n /\ recent[a] = s[a] /\ s[a] \in I
    BY <2>4, <2>7, <2>9 DEF recent
  <2>11. ASSUME NEW k \in 1 .. n, NEW l \in 1 .. n, k < l
         PROVE  TimeOf(s[k]) >= TimeOf(s[l])
    <3>1. Newer(records, s[k], s[l]) /\ s[k] \in I /\ s[l] \in I
      BY <2>4, <2>11
    <3>2. TimeOf(s[k]) \in Nat /\ TimeOf(s[l]) \in Nat
      BY <2>5, <3>1
    <3> QED
      BY <3>1, <3>2 DEF Newer
  <2>12. ASSUME NEW b \in 1 .. a - 1 PROVE TimeOf(recent[b]) >= TimeOf(recent[a])
    <3>1. b \in 1 .. m /\ b \in 1 .. n /\ b < a
      BY <2>4, <2>7, <2>10
    <3>2. TimeOf(s[b]) >= TimeOf(s[a])
      BY <2>10, <2>11, <3>1
    <3> QED
      BY <2>9, <2>10, <3>1, <3>2
  <2>13. ASSUME NEW i \in Load(records), records[i].rec.repo = records[recent[a]].rec.repo,
                InWindow(TimeOf(i), until), TimeOf(i) > TimeOf(recent[a])
         PROVE  \E b \in DOMAIN recent : recent[b] = i
    <3>1. i \in I
      BY <2>5, <2>6, <2>10, <2>13
    <3>2. PICK k \in 1 .. n : s[k] = i
      BY <2>4, <3>1
    <3>3. TimeOf(i) \in Nat /\ TimeOf(s[a]) \in Nat /\ TimeOf(i) > TimeOf(s[a])
      BY <2>5, <2>10, <2>13, <3>1
    <3>4. ~(a < k)
      <4>1. a < k => TimeOf(s[a]) >= TimeOf(s[k])
        BY <2>10, <2>11
      <4> HIDE DEF TimeOf
      <4> QED
        BY <3>2, <3>3, <4>1
    <3>5. k \in 1 .. m
      BY <2>4, <2>7, <2>10, <3>2, <3>4
    <3> QED
      BY <2>9, <3>2, <3>5
  <2> QED
    BY <2>12, <2>13 DEF recent
<1> QED
  BY HistoryHolds, <1>1, PTL

(* What Aggregate tells of a repository is right, in its counts and in its *)
(* short list.                                                             *)
THEOREM TrendSoundHolds == RunSpec => []TrendSound
<1>1. TrendExact /\ NewestShown => TrendSound
  BY DEF TrendSound
<1> QED
  BY <1>1, TrendExactHolds, NewestShownHolds, PTL

-----------------------------------------------------------------------------
(* The viewer, alone and then in the run of `gitl digest` that opens it.   *)

Inside ==
  /\ lines \in Nat /\ offset \in Nat /\ height \in Nat
  /\ offset <= lines

LEMMA InitInside == TUIInit => Inside
  BY DEF TUIInit, Inside

(* The last page begins within the report, and ends with it if it is long  *)
(* enough.                                                                 *)
LEMMA LastPageInside ==
  ASSUME Inside
  PROVE  LastPage \in Nat /\ LastPage <= lines /\ (height <= lines => LastPage + height = lines)
  BY DEF Inside, LastPage

LEMMA ResizeInside ==
  ASSUME Inside, NEW terminal \in Nat, Resize(terminal)
  PROVE  Inside'
  BY DEF Inside, Resize

LEMMA UpdateInside ==
  ASSUME Inside, Update
  PROVE  Inside'
<1>1. CASE \E terminal \in Heights : Resize(terminal)
  <2>1. PICK terminal \in Heights : Resize(terminal)
    BY <1>1
  <2>2. terminal \in Nat
    BY HeightsAssumption
  <2> QED BY <2>1, <2>2, ResizeInside
<1>2. CASE Up
  BY <1>2 DEF Inside, Up, Moves
<1>3. CASE Down
  BY <1>3 DEF Inside, Down, Moves
<1>4. CASE PageUp
  BY <1>4 DEF Inside, PageUp, Moves
<1>5. CASE PageDown
  BY <1>5, LastPageInside DEF Inside, PageDown, Moves
<1>6. CASE Quit
  BY <1>6 DEF Inside, Quit
<1> QED BY <1>1, <1>2, <1>3, <1>4, <1>5, <1>6 DEF Update

LEMMA NewInside ==
  ASSUME Inside, NEW n, New(n), offset = 0
  PROVE  Inside'
  BY DEF Inside, New

(* Until the viewer opens, nothing has moved. *)
Closed == shown = "no" => offset = 0

LEMMA ClosedStep ==
  ASSUME Closed, TUINext
  PROVE  Closed'
  BY DEF Closed, TUINext, Update, New, Resize, Up, Down, PageUp, PageDown, Quit, Moves

LEMMA NextInside ==
  ASSUME Inside, Closed, [TUINext]_tuiVars
  PROVE  Inside' /\ Closed'
<1>1. CASE Update
  <2>1. TUINext
    BY <1>1 DEF TUINext
  <2> QED BY <1>1, <2>1, UpdateInside, ClosedStep
<1>2. CASE \E n \in Nat : New(n)
  <2>1. PICK n \in Nat : New(n)
    BY <1>2
  <2>2. offset = 0
    BY <2>1 DEF New, Closed
  <2>3. TUINext
    BY <1>2 DEF TUINext
  <2> QED BY <2>1, <2>2, <2>3, NewInside, ClosedStep
<1>3. CASE UNCHANGED tuiVars
  BY <1>3 DEF Inside, Closed, tuiVars
<1> QED BY <1>1, <1>2, <1>3 DEF TUINext

LEMMA InsideBounds == Inside => ViewInBounds
  BY DEF Inside, ViewInBounds, End

(* The invariant of the viewer: the offset stays within the report. *)
LEMMA TUIInside == TUISpec => [](Inside /\ Closed)
<1>1. TUIInit => Inside /\ Closed
  BY InitInside DEF TUIInit, Closed
<1>2. Inside /\ Closed /\ [TUINext]_tuiVars => (Inside /\ Closed)'
  BY NextInside
<1> QED BY <1>1, <1>2, PTL DEF TUISpec

-----------------------------------------------------------------------------
(* No step of the viewer skips a line. *)

Sound ==
  /\ Moved(offset, offset') => Forward
  /\ Moved(offset', offset) => Backward

LEMMA UpdateSound ==
  ASSUME Inside, Update
  PROVE  Sound
<1>1. CASE \E terminal \in Heights : Resize(terminal)
  BY <1>1 DEF Inside, Resize, Sound, Moved
<1>2. CASE Up
  BY <1>2 DEF Inside, Up, Moves, Sound, Moved, Forward, Backward
<1>3. CASE Down
  BY <1>3 DEF Inside, Down, Moves, Sound, Moved, Forward, Backward
<1>4. CASE PageUp
  BY <1>4 DEF Inside, PageUp, Moves, Sound, Moved, Forward, Backward
<1>5. CASE PageDown
  BY <1>5 DEF Inside, PageDown, LastPage, Moves, Sound, Moved, Forward, Backward
<1>6. CASE Quit
  BY <1>6 DEF Inside, Quit, Sound, Moved
<1> QED BY <1>1, <1>2, <1>3, <1>4, <1>5, <1>6 DEF Update

LEMMA NextSound ==
  ASSUME Inside, [TUINext]_tuiVars
  PROVE  [Sound]_tuiVars
<1>1. CASE Update
  BY <1>1, UpdateSound
<1>2. CASE \E n \in Nat : New(n)
  BY <1>2 DEF New, Sound, Moved, Inside
<1>3. CASE UNCHANGED tuiVars
  BY <1>3
<1> QED BY <1>1, <1>2, <1>3 DEF TUINext

-----------------------------------------------------------------------------
(* The run of `gitl digest` uses the viewer as it is. *)

LEMMA ViewsOpens ==
  ASSUME Views
  PROVE  TUINext
<1>1. PICK text : New(Len(text))
  BY DEF Views
<1>2. Len(text) \in Nat
  BY <1>1 DEF New
<1> QED BY <1>1, <1>2 DEF TUINext

LEMMA StepOfViewer ==
  ASSUME [Next]_vars
  PROVE  [TUINext]_tuiVars
<1>1. CASE Refuses
  BY <1>1 DEF Refuses
<1>2. CASE Starts
  BY <1>2 DEF Starts
<1>3. ASSUME NEW i \in DOMAIN paths, LogSince(i) \/ NumstatSince(i) \/ GitFails(i)
      PROVE  UNCHANGED tuiVars
  BY <1>3 DEF LogSince, NumstatSince, GitFails
<1>4. CASE Builds
  BY <1>4 DEF Builds
<1>5. CASE Prints
  BY <1>5 DEF Prints
<1>6. CASE Views
  BY <1>6, ViewsOpens
<1>7. CASE Scrolls
  BY <1>7 DEF Scrolls, TUINext
<1>8. CASE HeadMoves
  BY <1>8 DEF HeadMoves
<1>9. CASE UNCHANGED vars
  BY <1>9 DEF vars
<1> QED BY <1>1, <1>2, <1>3, <1>4, <1>5, <1>6, <1>7, <1>8, <1>9 DEF Next

(* runDigest drives the viewer of internal/tui and changes nothing of it:  *)
(* what holds of the viewer holds of the command.                          *)
THEOREM UsesViewer == Spec => TUISpec
<1>1. Init => TUIInit
  BY DEF Init
<1>2. [Next]_vars => [TUINext]_tuiVars
  BY StepOfViewer
<1> QED BY <1>1, <1>2, PTL DEF Spec, TUISpec

(* View of the model never slices out of bounds, for every report and      *)
(* every terminal.                                                         *)
THEOREM ViewInBoundsHolds == Spec => []ViewInBounds
<1>1. Inside /\ Closed => ViewInBounds
  BY InsideBounds
<1> QED BY <1>1, UsesViewer, TUIInside, PTL

(* Keys that scroll skip no line and leave no blank space, for every       *)
(* report and every terminal.                                              *)
THEOREM NoLineSkippedHolds == Spec => NoLineSkipped
<1>1. Inside /\ Closed /\ [TUINext]_tuiVars => [Sound]_tuiVars
  BY NextSound
<1>2. TUISpec => [][Sound]_tuiVars
  BY <1>1, TUIInside, PTL DEF TUISpec
<1> QED BY <1>2, UsesViewer, PTL DEF NoLineSkipped, Sound

-----------------------------------------------------------------------------
(* Sums over finite sets, as SumFunction takes them.                       *)

(* What is true of a set if it is of all its proper subsets is true of all *)
(* subsets of a finite set.                                                *)
LEMMA SubsetInduction ==
  ASSUME NEW S, IsFiniteSet(S), NEW Q,
         \A s \in SUBSET S : (\A t \in SUBSET s : t # s => t \in Q) => s \in Q
  PROVE  \A s \in SUBSET S : s \in Q
<1> DEFINE R == StrictSubsetOrdering(S)
           All == SUBSET S
           Rest == {s \in All : s \notin Q}
<1>1. IsWellFoundedOn(R, All)
  BY FS_FiniteSubsetsOfFinite, FS_StrictSubsetOrderingWellFounded
<1>2. \A s \in SUBSET S : \A t \in SUBSET s : t # s => t \in SUBSET S /\ <<t, s>> \in R
  BY DEF StrictSubsetOrdering
<1>3. Rest \subseteq All
  OBVIOUS
<1> SUFFICES ASSUME Rest # {} PROVE FALSE
  OBVIOUS
<1>4. PICK s \in Rest : \A t \in Rest : ~(<<t, s>> \in R)
  <2> HIDE DEF R, All, Rest
  <2> QED
    BY <1>1, <1>3, WFMin
<1> HIDE DEF R
<1>5. s \in SUBSET S /\ s \notin Q
  OBVIOUS
<1>6. ASSUME NEW t \in SUBSET s, t # s PROVE t \in Q
  <2>1. t \in SUBSET S /\ <<t, s>> \in R
    BY <1>2, <1>5, <1>6
  <2> QED
    BY <1>4, <2>1
<1> QED
  BY <1>5, <1>6

-----------------------------------------------------------------------------
(* Sums over finite sets.  The community modules define them by taking an  *)
(* element out until none is left.                                         *)

Pick(s) == CHOOSE x \in s : TRUE
Folds(g, f, S) == \A s \in SUBSET S : g[s] = IF s = {} THEN 0 ELSE f[Pick(s)] + g[s \ {Pick(s)}]
Folded(f, S) == (CHOOSE g : Folds(g, f, S))[S]

LEMMA PickIn == ASSUME NEW s, s # {} PROVE Pick(s) \in s /\ s \ {Pick(s)} \in SUBSET s /\ s \ {Pick(s)} # s
<1>1. Pick(s) \in s
  BY DEF Pick
<1> QED
  BY <1>1

LEMMA FoldUnique ==
  ASSUME NEW S, IsFiniteSet(S), NEW f, NEW h, \A x \in S : f[x] = h[x],
         NEW a, Folds(a, f, S), NEW b, Folds(b, h, S)
  PROVE  \A s \in SUBSET S : a[s] = b[s]
<1> DEFINE Q == {s \in SUBSET S : a[s] = b[s]}
<1>1. ASSUME NEW s \in SUBSET S, \A t \in SUBSET s : t # s => t \in Q PROVE s \in Q
  <2>1. CASE s = {}
    BY <2>1 DEF Folds
  <2>2. CASE s # {}
    <3> DEFINE x == Pick(s)
               t == s \ {x}
    <3>1. x \in s /\ t \in SUBSET s /\ t # s
      BY <2>2, PickIn
    <3>2. a[s] = f[x] + a[t] /\ b[s] = h[x] + b[t]
      BY <2>2 DEF Folds
    <3>3. a[t] = b[t] /\ f[x] = h[x]
      BY <1>1, <3>1
    <3> HIDE DEF t, x
    <3> QED
      BY <3>2, <3>3
  <2> QED
    BY <2>1, <2>2
<1> HIDE DEF Q
<1>2. \A s \in SUBSET S : s \in Q
  BY <1>1, SubsetInduction
<1> QED
  BY <1>2 DEF Q

LEMMA FoldExists ==
  ASSUME NEW S, IsFiniteSet(S), NEW f
  PROVE  \A s \in SUBSET S : \E g : Folds(g, f, s)
<1> DEFINE Q == {s \in SUBSET S : \E g : Folds(g, f, s)}
<1>1. ASSUME NEW s \in SUBSET S, \A t \in SUBSET s : t # s => t \in Q PROVE s \in Q
  <2>1. \A t \in SUBSET s : t # s => Folds(CHOOSE g : Folds(g, f, t), f, t)
    BY <1>1
  <2>2. \A t \in SUBSET s : IsFiniteSet(t)
    BY FS_Subset
  <2>3. ASSUME NEW t \in SUBSET s, t # s, t # {}
        PROVE  Folded(f, t) = f[Pick(t)] + Folded(f, t \ {Pick(t)})
    <3> DEFINE g == CHOOSE e : Folds(e, f, t)
               u == t \ {Pick(t)}
               h == CHOOSE e : Folds(e, f, u)
    <3>1. u \in SUBSET t /\ u \in SUBSET s /\ u # s /\ t \in SUBSET t
      BY <2>3, PickIn
    <3>2. Folds(g, f, t) /\ Folds(h, f, u)
      BY <2>1, <2>3, <3>1
    <3>3. Folded(f, t) = g[t] /\ Folded(f, u) = h[u]
      BY DEF Folded
    <3> HIDE DEF g, h
    <3>4. Folds(g, f, u)
      <4>1. SUBSET u \subseteq SUBSET t
        BY <3>1
      <4> HIDE DEF u
      <4> QED
        BY <3>2, <4>1 DEF Folds
    <3>5. g[u] = h[u]
      <4> HIDE DEF u
      <4>1. IsFiniteSet(u) /\ u \in SUBSET u
        BY <2>2, <3>1
      <4> QED
        BY <3>2, <3>4, <4>1, FoldUnique
    <3>6. g[t] = f[Pick(t)] + g[u]
      BY <2>3, <3>1, <3>2 DEF Folds
    <3> QED
      BY <3>3, <3>5, <3>6
  <2>4. CASE s = {}
    <3>1. Folds([t \in SUBSET s |-> 0], f, s)
      BY <2>4 DEF Folds
    <3> QED
      BY <3>1
  <2>5. CASE s # {}
    <3> DEFINE Value(t) == IF t = {} THEN 0 ELSE Folded(f, t)
               v == [t \in SUBSET s |-> IF t = s THEN f[Pick(s)] + Value(s \ {Pick(s)}) ELSE Value(t)]
    <3>1. \A t \in SUBSET s : t # s => v[t] = Value(t)
      OBVIOUS
    <3>2. v[s] = f[Pick(s)] + Value(s \ {Pick(s)})
      OBVIOUS
    <3>3. Value({}) = 0 /\ \A t \in SUBSET s : t # s /\ t # {} => Value(t) = f[Pick(t)] + Value(t \ {Pick(t)})
      <4>1. Value({}) = 0
        OBVIOUS
      <4>2. ASSUME NEW t \in SUBSET s, t # s, t # {} PROVE Value(t) = f[Pick(t)] + Value(t \ {Pick(t)})
        <5>1. CASE t \ {Pick(t)} # {}
          BY <2>3, <4>2, <5>1
        <5>2. CASE t \ {Pick(t)} = {}
          <6>1. Folded(f, {}) = 0
            <7>1. \E g : Folds(g, f, {})
              BY <1>1, <2>5
            <7>2. Folds(CHOOSE g : Folds(g, f, {}), f, {})
              BY <7>1
            <7> QED
              BY <7>2 DEF Folds, Folded
          <6> QED
            BY <2>3, <4>2, <5>2, <6>1
        <5> QED
          BY <5>1, <5>2
      <4> QED
        BY <4>1, <4>2
    <3> HIDE DEF v, Value
    <3>4. ASSUME NEW t \in SUBSET s, t # {} PROVE v[t] = f[Pick(t)] + v[t \ {Pick(t)}]
      <4>1. t \ {Pick(t)} \in SUBSET s /\ t \ {Pick(t)} # s
        BY <3>4, PickIn
      <4>2. v[t \ {Pick(t)}] = Value(t \ {Pick(t)})
        BY <3>1, <4>1
      <4> QED
        BY <3>1, <3>2, <3>3, <3>4, <4>2
    <3>5. v[{}] = 0
      BY <2>5, <3>1, <3>3
    <3>6. Folds(v, f, s)
      BY <3>4, <3>5 DEF Folds
    <3> QED
      BY <3>6
  <2> QED
    BY <2>4, <2>5
<1> HIDE DEF Q
<1>2. \A s \in SUBSET S : s \in Q
  BY <1>1, SubsetInduction
<1> QED
  BY <1>2 DEF Q

(* Naturals over a finite set *)
Counts(f, S) == IsFiniteSet(S) /\ \A x \in S : f[x] \in Nat

LEMMA FoldedFolds ==
  ASSUME NEW S, IsFiniteSet(S), NEW f
  PROVE  \E g : Folds(g, f, S) /\ \A s \in SUBSET S : Folded(f, s) = g[s]
<1>1. \A s \in SUBSET S : Folds(CHOOSE g : Folds(g, f, s), f, s)
  BY FoldExists
<1> DEFINE g == CHOOSE e : Folds(e, f, S)
<1>2. Folds(g, f, S)
  BY <1>1
<1> HIDE DEF g
<1>3. ASSUME NEW s \in SUBSET S PROVE Folded(f, s) = g[s]
  <2> DEFINE h == CHOOSE e : Folds(e, f, s)
  <2>1. Folds(h, f, s) /\ Folded(f, s) = h[s]
    BY <1>1 DEF Folded
  <2> HIDE DEF h
  <2>2. SUBSET s \subseteq SUBSET S /\ s \in SUBSET s /\ IsFiniteSet(s)
    BY FS_Subset
  <2>3. Folds(g, f, s)
    BY <1>2, <2>2 DEF Folds
  <2>4. g[s] = h[s]
    BY <2>1, <2>2, <2>3, FoldUnique
  <2> QED
    BY <2>1, <2>4
<1> QED
  BY <1>2, <1>3

LEMMA SumIsFolded ==
  ASSUME NEW S, IsFiniteSet(S), NEW f
  PROVE  SumFunctionOnSet(f, S) = Folded(f, S)
<1> DEFINE Fix(g) == g = [s \in SUBSET S |-> IF s = {} THEN 0
                                              ELSE f[CHOOSE x \in s : TRUE] + g[s \ {CHOOSE x \in s : TRUE}]]
           c == CHOOSE e : Fix(e)
<1>1. SumFunctionOnSet(f, S) = c[S]
  BY DEF SumFunctionOnSet, FoldFunctionOnSet, MapThenFoldSet
<1>2. PICK g : Folds(g, f, S) /\ \A s \in SUBSET S : Folded(f, s) = g[s]
  BY FoldedFolds
<1>3. Fix([s \in SUBSET S |-> g[s]])
  <2>1. \A s \in SUBSET S : s # {} => s \ {Pick(s)} \in SUBSET S
    OBVIOUS
  <2> QED
    BY <1>2, <2>1 DEF Folds, Pick
<1>4. Fix(c)
  <2> HIDE DEF Fix
  <2> QED
    BY <1>3
<1> HIDE DEF c
<1>5. Folds(c, f, S)
  BY <1>4 DEF Folds, Pick
<1>6. c[S] = g[S]
  <2>1. \A s \in SUBSET S : c[s] = g[s]
    BY <1>2, <1>5, FoldUnique
  <2> QED
    BY <2>1
<1> QED
  BY <1>1, <1>2, <1>6

(* Any element may be the one taken out first.                             *)
LEMMA FoldedRemove ==
  ASSUME NEW S, NEW f, Counts(f, S)
  PROVE  /\ Folded(f, {}) = 0
         /\ \A s \in SUBSET S : Folded(f, s) \in Nat /\ \A x \in s : Folded(f, s) = f[x] + Folded(f, s \ {x})
<1>1. PICK g : Folds(g, f, S) /\ \A s \in SUBSET S : Folded(f, s) = g[s]
  BY FoldedFolds DEF Counts
<1> DEFINE Q == {s \in SUBSET S : g[s] \in Nat /\ \A x \in s : g[s] = f[x] + g[s \ {x}]}
<1>2. ASSUME NEW s \in SUBSET S, \A t \in SUBSET s : t # s => t \in Q PROVE s \in Q
  <2>1. CASE s = {}
    BY <1>1, <2>1 DEF Folds
  <2>2. CASE s # {}
    <3> DEFINE p == Pick(s)
               t == s \ {p}
    <3>1. p \in s /\ t \in SUBSET s /\ t # s /\ f[p] \in Nat
      BY <2>2, PickIn DEF Counts
    <3>2. g[s] = f[p] + g[t]
      BY <1>1, <2>2 DEF Folds
    <3> HIDE DEF p
    <3>3. t \in Q
      BY <1>2, <3>1
    <3>4. g[t] \in Nat /\ \A x \in t : g[t] = f[x] + g[t \ {x}]
      BY <3>3
    <3>5. ASSUME NEW x \in s PROVE g[s] = f[x] + g[s \ {x}]
      <4>1. CASE x = p
        BY <3>2, <4>1
      <4>2. CASE x # p
        <5> DEFINE u == s \ {x}
                   w == t \ {x}
        <5>1. x \in t /\ u \in SUBSET s /\ u # s /\ p \in u /\ u \ {p} = w /\ w \in SUBSET s /\ w # s /\ f[x] \in Nat
          BY <3>1, <4>2 DEF Counts
        <5>2. g[t] = f[x] + g[w]
          BY <3>4, <5>1
        <5> HIDE DEF t, u, w
        <5>3. u \in Q /\ w \in Q
          BY <1>2, <5>1
        <5>4. g[u] = f[p] + g[w] /\ g[w] \in Nat
          BY <5>1, <5>3
        <5>5. f[p] + (f[x] + g[w]) = f[x] + (f[p] + g[w])
          BY <3>1, <5>1, <5>4
        <5> QED
          BY <3>2, <5>2, <5>4, <5>5 DEF u
      <4> QED
        BY <4>1, <4>2
    <3>6. g[s] \in Nat
      BY <3>1, <3>2, <3>4
    <3> QED
      BY <3>5, <3>6
  <2> QED
    BY <2>1, <2>2
<1>3. \A s \in SUBSET S : s \in Q
  <2>1. IsFiniteSet(S)
    BY DEF Counts
  <2> HIDE DEF Q
  <2> QED
    BY <1>2, <2>1, SubsetInduction
<1>4. Folded(f, {}) = 0
  BY <1>1 DEF Folds
<1>5. ASSUME NEW s \in SUBSET S, NEW x \in s PROVE s \ {x} \in SUBSET S
  OBVIOUS
<1> QED
  BY <1>1, <1>3, <1>4, <1>5

(* The sum over more elements of larger numbers is not smaller.            *)
LEMMA SumMonotone ==
  ASSUME NEW S, NEW f, Counts(f, S), NEW T, NEW h, Counts(h, T),
         S \subseteq T, \A x \in S : f[x] <= h[x]
  PROVE  /\ SumFunctionOnSet(f, S) \in Nat /\ SumFunctionOnSet(h, T) \in Nat
         /\ SumFunctionOnSet(f, S) <= SumFunctionOnSet(h, T)
<1>1. IsFiniteSet(S) /\ IsFiniteSet(T)
  BY DEF Counts
<1> DEFINE F(s) == Folded(f, s \cap S)
           H(s) == Folded(h, s)
<1>2. /\ Folded(f, {}) = 0
      /\ \A s \in SUBSET S : Folded(f, s) \in Nat /\ \A x \in s : Folded(f, s) = f[x] + Folded(f, s \ {x})
  BY FoldedRemove
<1>3. /\ Folded(h, {}) = 0
      /\ \A s \in SUBSET T : Folded(h, s) \in Nat /\ \A x \in s : Folded(h, s) = h[x] + Folded(h, s \ {x})
  BY FoldedRemove
<1> DEFINE Q == {s \in SUBSET T : F(s) <= H(s)}
<1>4. ASSUME NEW s \in SUBSET T, \A t \in SUBSET s : t # s => t \in Q PROVE s \in Q
  <2>1. CASE s = {}
    <3>1. s \cap S = {}
      BY <2>1
    <3> QED
      BY <1>2, <1>3, <2>1, <3>1
  <2>2. CASE s # {}
    <3>1. PICK x \in s : TRUE
      BY <2>2
    <3> DEFINE t == s \ {x}
               u == s \cap S
               w == t \cap S
    <3>2. t \in SUBSET s /\ t # s /\ t \in SUBSET T /\ u \in SUBSET S /\ w \in SUBSET S
      BY <3>1
    <3>3. F(t) <= H(t)
      BY <1>4, <3>2
    <3>4. H(s) = h[x] + H(t) /\ h[x] \in Nat /\ H(t) \in Nat /\ F(t) \in Nat /\ F(s) \in Nat
      BY <1>2, <1>3, <3>1, <3>2 DEF Counts
    <3>5. CASE x \in S
      <4>1. x \in u /\ u \ {x} = w
        BY <3>5
      <4>2. F(s) = f[x] + F(t) /\ f[x] <= h[x] /\ f[x] \in Nat
        BY <1>2, <3>2, <3>5, <4>1 DEF Counts
      <4> HIDE DEF F, H, t
      <4>3. F(s) <= H(s)
        BY <3>3, <3>4, <4>2
      <4> QED
        BY <4>3
    <3>6. CASE x \notin S
      <4>1. u = w
        BY <3>6
      <4>2. F(s) = F(t)
        BY <4>1
      <4> HIDE DEF F, H, t
      <4>3. F(s) <= H(s)
        BY <3>3, <3>4, <4>2
      <4> QED
        BY <4>3
    <3> QED
      BY <3>5, <3>6
  <2> QED
    BY <2>1, <2>2
<1>5. T \in Q
  <2>1. \A s \in SUBSET T : s \in Q
    <3> HIDE DEF Q
    <3> QED
      BY <1>1, <1>4, SubsetInduction
  <2> QED
    BY <2>1
<1>6. T \cap S = S
  OBVIOUS
<1>7. SumFunctionOnSet(f, S) = Folded(f, S) /\ SumFunctionOnSet(h, T) = Folded(h, T)
  BY <1>1, SumIsFolded
<1>8. Folded(f, S) \in Nat /\ Folded(h, T) \in Nat
  BY <1>2, <1>3
<1> QED
  BY <1>5, <1>6, <1>7, <1>8

-----------------------------------------------------------------------------
(* The lines of a digest                                                   *)

(* What one of the two processes said of a repository.                     *)
Told(o, path) ==
  \/ o = Waiting
  \/ o.status = "failed"
  \/ /\ o = Got(o.commits) /\ o.commits \subseteq Commits
     /\ RepoOf(path) \in DOMAIN stays /\ stays[RepoOf(path)] \subseteq o.commits

HeadInv ==
  /\ \A p \in DOMAIN RepoAt : RepoAt[p] \in DOMAIN head
  /\ DOMAIN stays = DOMAIN head /\ \A r \in DOMAIN head : stays[r] \subseteq Window(r, head)

ToldInv ==
  /\ DOMAIN logged = DOMAIN paths /\ DOMAIN counted = DOMAIN paths
  /\ \A i \in DOMAIN paths : Told(logged[i], paths[i]) /\ Told(counted[i], paths[i])

(* A digest is made of what both processes said, or of no digest at all.   *)
MadeOf(d, log, numstat) ==
  IF d.ok
  THEN /\ log.status = "ok" /\ numstat.status = "ok"
       /\ d.digest = AggregateDigest(log.commits, Numstat(numstat.commits))
  ELSE "failed" \in {log.status, numstat.status}

MadeInv ==
  pc = "built" => DOMAIN repos = DOMAIN paths /\ \A i \in DOMAIN paths : MadeOf(repos[i], logged[i], counted[i])

ViewInv == HeadInv /\ ToldInv /\ MadeInv

LEMMA WindowIn == \A r, h : Window(r, h) \subseteq Commits
BY WindowAssumption DEF Window

LEMMA InitTold == Init => ViewInv
<1> SUFFICES ASSUME Init PROVE ViewInv
  OBVIOUS
<1>1. HeadInv
  BY WindowAssumption DEF Init, HeadInv
<1>2. ToldInv /\ MadeInv
  BY DEF Init, ToldInv, MadeInv
<1> QED
  BY <1>1, <1>2 DEF ViewInv

(* What a process that has just looked says of the head it saw.            *)
LEMMA ListedTold ==
  ASSUME HeadInv, NEW i \in DOMAIN paths
  PROVE  Told(Listed(i), paths[i])
<1> DEFINE r == RepoOf(paths[i])
           w == Window(r, head)
<1>1. CASE r = NoRepo \/ head[r] = Unborn
  BY <1>1 DEF Listed, Told, Failed
<1>2. CASE ~(r = NoRepo \/ head[r] = Unborn)
  <2>1. r \in DOMAIN head
    BY <1>2 DEF RepoOf, HeadInv
  <2>2. Listed(i) = Got(w)
    BY <1>2 DEF Listed
  <2>3. stays[r] \subseteq w /\ DOMAIN stays = DOMAIN head /\ w \subseteq Commits
    BY <2>1, WindowIn DEF HeadInv
  <2> HIDE DEF w
  <2>4. Got(w).commits = w
    BY DEF Got
  <2> QED
    BY <2>1, <2>2, <2>3, <2>4 DEF Told
<1> QED
  BY <1>1, <1>2

LEMMA StartsTold ==
  ASSUME ViewInv, Starts
  PROVE  ViewInv'
<1>1. HeadInv'
  BY DEF ViewInv, HeadInv, Starts, world, Window
<1>2. ToldInv'
  BY DEF Starts, ToldInv, Told, world
<1>3. MadeInv'
  BY DEF Starts, MadeInv
<1> QED
  BY <1>1, <1>2, <1>3 DEF ViewInv

(* One of the two processes of a repository ends.                          *)
LEMMA ProcessTold ==
  ASSUME ViewInv, NEW i \in DOMAIN paths, pc = "collect", UNCHANGED <<world, pc, paths>>,
         NEW o, Told(o, paths[i]),
         \/ logged' = [logged EXCEPT ![i] = o] /\ UNCHANGED counted
         \/ counted' = [counted EXCEPT ![i] = o] /\ UNCHANGED logged
  PROVE  ViewInv'
<1>1. HeadInv'
  BY DEF ViewInv, HeadInv, world, Window
<1>2. ToldInv'
  <2>1. \A x, p : Told(x, p)' <=> Told(x, p)
    BY DEF Told, world
  <2>2. ToldInv /\ paths' = paths
    BY DEF ViewInv
  <2> QED
    BY <2>1, <2>2 DEF ToldInv
<1>3. MadeInv'
  BY DEF MadeInv
<1> QED
  BY <1>1, <1>2, <1>3 DEF ViewInv

LEMMA BuildsTold ==
  ASSUME ViewInv, Builds
  PROVE  ViewInv'
<1>1. HeadInv' /\ ToldInv'
  BY DEF Builds, ViewInv, HeadInv, ToldInv, Told, world, Window
<1>2. MadeInv'
  <2>1. PICK rows \in [Range(paths) -> TrendRows], first \in [DOMAIN paths -> {"log", "numstat"}] :
          repos' = [i \in DOMAIN paths |-> Built(i, rows[paths[i]], first[i])]
    BY DEF Builds
  <2>2. ASSUME NEW i \in DOMAIN paths PROVE MadeOf(repos'[i], logged[i], counted[i])
    <3>1. repos'[i] = Built(i, rows[paths[i]], first[i])
      BY <2>1
    <3>2. logged[i] # Waiting /\ counted[i] # Waiting
      BY DEF Builds
    <3>3. Told(logged[i], paths[i]) /\ Told(counted[i], paths[i])
      BY DEF ViewInv, ToldInv
    <3>4. logged[i].status \in {"ok", "failed"} /\ counted[i].status \in {"ok", "failed"}
      <4>1. \A o : Told(o, paths[i]) /\ o # Waiting => o.status \in {"ok", "failed"}
        BY DEF Told, Got
      <4> QED
        BY <3>2, <3>3, <4>1
    <3>5. CASE logged[i].status = "ok" /\ counted[i].status = "ok"
      BY <3>1, <3>5 DEF Built, RepoOK, MadeOf
    <3>6. CASE ~(logged[i].status = "ok" /\ counted[i].status = "ok")
      <4>1. ~repos'[i].ok
        BY <3>1, <3>6 DEF Built, RepoFailed
      <4> QED
        BY <3>4, <3>6, <4>1 DEF MadeOf
    <3> QED
      BY <3>5, <3>6
  <2> QED
    BY <2>1, <2>2 DEF Builds, MadeInv
<1> QED
  BY <1>1, <1>2 DEF ViewInv

(* Whatever the head becomes, fewer commits were there all the time.       *)
LEMMA HeadMovesTold ==
  ASSUME ViewInv, HeadMoves
  PROVE  ViewInv'
<1>1. PICK r : /\ \E c \in Heads : head' = [head EXCEPT ![r] = c]
               /\ stays' = [stays EXCEPT ![r] = @ \cap Window(r, head')]
  BY DEF HeadMoves
<1>2. pc' = "collect" /\ UNCHANGED <<paths, logged, counted>>
  BY DEF HeadMoves, work
<1>3. DOMAIN head' = DOMAIN head /\ DOMAIN stays' = DOMAIN stays /\ DOMAIN stays = DOMAIN head
  BY <1>1 DEF ViewInv, HeadInv
<1>4. ASSUME NEW x \in DOMAIN head PROVE stays'[x] \subseteq stays[x] /\ stays'[x] \subseteq Window(x, head')
  <2>1. CASE x = r
    BY <1>1, <1>3, <2>1
  <2>2. CASE x # r
    <3>1. stays'[x] = stays[x] /\ head'[x] = head[x]
      BY <1>1, <1>3, <2>2
    <3>2. Window(x, head') = Window(x, head)
      BY <3>1 DEF Window
    <3> QED
      BY <3>1, <3>2 DEF ViewInv, HeadInv
  <2> QED
    BY <2>1, <2>2
<1>5. HeadInv'
  BY <1>3, <1>4 DEF ViewInv, HeadInv
<1>6. ToldInv'
  <2>1. ASSUME NEW o, NEW p, Told(o, p) PROVE Told(o, p)'
    <3>1. CASE o = Waiting \/ o.status = "failed"
      BY <3>1 DEF Told
    <3>2. CASE ~(o = Waiting \/ o.status = "failed")
      <4>1. /\ o = Got(o.commits) /\ o.commits \subseteq Commits
            /\ RepoOf(p) \in DOMAIN head /\ stays[RepoOf(p)] \subseteq o.commits
        BY <1>3, <2>1, <3>2 DEF Told
      <4>2. stays'[RepoOf(p)] \subseteq o.commits
        BY <1>4, <4>1
      <4> QED
        BY <1>3, <4>1, <4>2 DEF Told
    <3> QED
      BY <3>1, <3>2
  <2> QED
    BY <1>2, <2>1 DEF ViewInv, ToldInv
<1> QED
  BY <1>2, <1>5, <1>6 DEF ViewInv, MadeInv

LEMMA NextTold == ViewInv /\ [Next]_vars => ViewInv'
<1> SUFFICES ASSUME ViewInv, [Next]_vars PROVE ViewInv'
  OBVIOUS
<1>1. CASE Starts
  BY <1>1, StartsTold
<1>2. ASSUME NEW i \in DOMAIN paths, LogSince(i) PROVE ViewInv'
  <2>1. Told(Listed(i), paths[i])
    BY ListedTold DEF ViewInv
  <2> QED
    BY <1>2, <2>1, ProcessTold DEF LogSince
<1>3. ASSUME NEW i \in DOMAIN paths, NumstatSince(i) PROVE ViewInv'
  <2>1. Told(Listed(i), paths[i])
    BY ListedTold DEF ViewInv
  <2> QED
    BY <1>3, <2>1, ProcessTold DEF NumstatSince
<1>4. ASSUME NEW i \in DOMAIN paths, GitFails(i) PROVE ViewInv'
  <2>1. Told(Failed(2), paths[i])
    BY DEF Told, Failed
  <2> QED
    BY <1>4, <2>1, ProcessTold DEF GitFails
<1>5. CASE Builds
  BY <1>5, BuildsTold
<1>6. CASE HeadMoves
  BY <1>6, HeadMovesTold
<1>7. CASE Refuses \/ Prints \/ Views \/ Scrolls
  <2>1. (UNCHANGED <<world, paths, logged, counted, repos>> /\ pc' # "built") \/ UNCHANGED <<world, work>>
    BY <1>7 DEF Refuses, Prints, Views, Scrolls
  <2>2. UNCHANGED <<head, stays, paths, logged, counted, repos>> /\ (pc' = "built" => pc = "built")
    BY <2>1 DEF world, work
  <2> QED
    BY <2>2 DEF ViewInv, HeadInv, ToldInv, Told, MadeInv, Window
<1>8. CASE UNCHANGED vars
  BY <1>8 DEF vars, world, work, ViewInv, HeadInv, ToldInv, Told, MadeInv, Window
<1> QED
  BY <1>1, <1>2, <1>3, <1>4, <1>5, <1>6, <1>7, <1>8 DEF Next

(* The numstat of a commit counts naturals.                                *)
LEMMA NumstatTyped ==
  ASSUME NEW C, C \subseteq Commits
  PROVE  /\ DOMAIN Numstat(C) = C
         /\ \A c \in C : /\ Numstat(C)[c] = Numstat(Commits)[c]
                         /\ Numstat(C)[c].added \in Nat /\ Numstat(C)[c].removed \in Nat
<1> SUFFICES ASSUME NEW c \in C
             PROVE  /\ Numstat(C)[c] = Numstat(Commits)[c]
                    /\ Numstat(C)[c].added \in Nat /\ Numstat(C)[c].removed \in Nat
  BY DEF Numstat
<1> DEFINE a == [f \in ChangesOf[c] |-> Column(f.added)]
           b == [f \in ChangesOf[c] |-> Column(f.removed)]
<1>1. Counts(a, ChangesOf[c]) /\ Counts(b, ChangesOf[c])
  BY CommitsAssumption DEF Counts, Column
<1>2. /\ Numstat(C)[c] = [added |-> SumFunction(a), removed |-> SumFunction(b)]
      /\ Numstat(Commits)[c] = [added |-> SumFunction(a), removed |-> SumFunction(b)]
  BY DEF Numstat
<1>3. SumFunction(a) \in Nat /\ SumFunction(b) \in Nat
  <2>1. SumFunction(a) = SumFunctionOnSet(a, ChangesOf[c]) /\ SumFunction(b) = SumFunctionOnSet(b, ChangesOf[c])
    BY DEF SumFunction
  <2> HIDE DEF a, b
  <2>2. \A x \in ChangesOf[c] : a[x] <= a[x] /\ b[x] <= b[x]
    BY <1>1 DEF Counts
  <2>3. SumFunctionOnSet(a, ChangesOf[c]) \in Nat
    BY <1>1, <2>2, SumMonotone
  <2>4. SumFunctionOnSet(b, ChangesOf[c]) \in Nat
    BY <1>1, <2>2, SumMonotone
  <2> QED
    BY <2>1, <2>3, <2>4
<1> QED
  BY <1>2, <1>3

(* The lines of some commits with some numstat are at most those of more   *)
(* commits with more numstat.                                              *)
LinesAtMost(S, C, T, D) ==
  LET less == LinesOf(S, Numstat(C))
      more == LinesOf(T, Numstat(D))
  IN  /\ less.added \in Nat /\ more.added \in Nat /\ less.added <= more.added
      /\ less.removed \in Nat /\ more.removed \in Nat /\ less.removed <= more.removed

LEMMA LinesMonotone ==
  ASSUME NEW S, NEW C, NEW T, NEW D, S \subseteq T, T \subseteq Commits, C \subseteq Commits, D \subseteq Commits,
         S \cap C \subseteq D
  PROVE  LinesAtMost(S, C, T, D)
<1> DEFINE Of(stats, c) == IF c \in DOMAIN stats THEN stats[c] ELSE NoLines
           N == Numstat(C)
           M == Numstat(D)
           a == [c \in S |-> Of(N, c).added]
           b == [c \in S |-> Of(N, c).removed]
           x == [c \in T |-> Of(M, c).added]
           y == [c \in T |-> Of(M, c).removed]
<1>1. LinesOf(S, N) = [added |-> SumFunction(a), removed |-> SumFunction(b)]
  BY DEF LinesOf
<1>2. LinesOf(T, M) = [added |-> SumFunction(x), removed |-> SumFunction(y)]
  BY DEF LinesOf
<1>3. /\ SumFunction(a) = SumFunctionOnSet(a, S) /\ SumFunction(b) = SumFunctionOnSet(b, S)
      /\ SumFunction(x) = SumFunctionOnSet(x, T) /\ SumFunction(y) = SumFunctionOnSet(y, T)
  BY DEF SumFunction
<1>4. /\ DOMAIN N = C /\ DOMAIN M = D
      /\ \A c \in C : N[c] = Numstat(Commits)[c] /\ N[c].added \in Nat /\ N[c].removed \in Nat
      /\ \A c \in D : M[c] = Numstat(Commits)[c] /\ M[c].added \in Nat /\ M[c].removed \in Nat
  BY NumstatTyped
<1> HIDE DEF N, M
<1>5. NoLines.added = 0 /\ NoLines.removed = 0
  BY DEF NoLines
<1>6. IsFiniteSet(S) /\ IsFiniteSet(T)
  <2>1. IsFiniteSet(Commits) /\ S \subseteq Commits
    BY CommitsAssumption
  <2> QED
    BY <2>1, FS_Subset
<1>7. \A c \in S : /\ Of(N, c).added \in Nat /\ Of(N, c).removed \in Nat
                   /\ Of(N, c).added <= Of(M, c).added /\ Of(N, c).removed <= Of(M, c).removed
  BY <1>4, <1>5
<1>8. \A c \in T : Of(M, c).added \in Nat /\ Of(M, c).removed \in Nat
  BY <1>4, <1>5
<1> HIDE DEF Of
<1>9. Counts(a, S) /\ Counts(b, S) /\ Counts(x, T) /\ Counts(y, T)
  BY <1>6, <1>7, <1>8 DEF Counts
<1>10. \A c \in S : a[c] <= x[c] /\ b[c] <= y[c]
  BY <1>7
<1> HIDE DEF a, b, x, y
<1>11. /\ SumFunctionOnSet(a, S) \in Nat /\ SumFunctionOnSet(x, T) \in Nat
       /\ SumFunctionOnSet(a, S) <= SumFunctionOnSet(x, T)
  BY <1>9, <1>10, SumMonotone
<1>12. /\ SumFunctionOnSet(b, S) \in Nat /\ SumFunctionOnSet(y, T) \in Nat
       /\ SumFunctionOnSet(b, S) <= SumFunctionOnSet(y, T)
  BY <1>9, <1>10, SumMonotone
<1>13. /\ LinesOf(S, N).added = SumFunctionOnSet(a, S) /\ LinesOf(S, N).removed = SumFunctionOnSet(b, S)
       /\ LinesOf(T, M).added = SumFunctionOnSet(x, T) /\ LinesOf(T, M).removed = SumFunctionOnSet(y, T)
  BY <1>1, <1>2, <1>3
<1> QED
  BY <1>11, <1>12, <1>13 DEF LinesAtMost, N, M

LEMMA InvLines == ViewInv => LinesMatch
<1> SUFFICES ASSUME ViewInv, pc = "built", NEW i \in DOMAIN repos
             PROVE  IF repos[i].ok
                    THEN LET all == LinesOf(logged[i].commits, Numstat(Commits))
                             steady == stays[RepoOf(paths[i])]
                             least == LinesOf(steady, Numstat(Commits))
                             sum == repos[i].digest.lines
                         IN  /\ counted[i].status = "ok"
                             /\ repos[i].digest.commits = Cardinality(logged[i].commits) /\ steady \subseteq logged[i].commits
                             /\ sum.added \in least.added .. all.added
                             /\ sum.removed \in least.removed .. all.removed
                    ELSE "failed" \in {logged[i].status, counted[i].status}
  BY DEF LinesMatch
<1>1. i \in DOMAIN paths /\ MadeOf(repos[i], logged[i], counted[i])
  BY DEF ViewInv, MadeInv
<1>2. CASE ~repos[i].ok
  BY <1>1, <1>2 DEF MadeOf
<1>3. CASE repos[i].ok
  <2> DEFINE L == logged[i].commits
             C == counted[i].commits
             steady == stays[RepoOf(paths[i])]
  <2>1. /\ logged[i].status = "ok" /\ counted[i].status = "ok"
        /\ repos[i].digest = AggregateDigest(L, Numstat(C))
    BY <1>1, <1>3 DEF MadeOf
  <2>2. repos[i].digest.lines = LinesOf(L, Numstat(C)) /\ repos[i].digest.commits = Cardinality(L)
    BY <2>1 DEF AggregateDigest, Total
  <2>3. \A o : Told(o, paths[i]) /\ o.status = "ok" => o.commits \subseteq Commits /\ steady \subseteq o.commits
    BY DEF Told, Waiting
  <2>4. L \subseteq Commits /\ C \subseteq Commits /\ steady \subseteq L /\ steady \subseteq C
    BY <1>1, <2>1, <2>3 DEF ViewInv, ToldInv
  <2> HIDE DEF L, C, steady
  <2>5. LinesAtMost(L, C, L, Commits)
    BY <2>4, LinesMonotone
  <2>6. LinesAtMost(steady, Commits, L, C)
    BY <2>4, LinesMonotone
  <2>7. /\ LinesOf(L, Numstat(C)).added \in LinesOf(steady, Numstat(Commits)).added .. LinesOf(L, Numstat(Commits)).added
        /\ LinesOf(L, Numstat(C)).removed \in LinesOf(steady, Numstat(Commits)).removed .. LinesOf(L, Numstat(Commits)).removed
    BY <2>5, <2>6 DEF LinesAtMost
  <2> QED
    BY <1>3, <2>1, <2>2, <2>4, <2>7 DEF L, steady
<1> QED
  BY <1>2, <1>3

(* For any history, any moves of the heads and any failures: the commits   *)
(* of a digest are those of one moment, its lines are at most theirs and   *)
(* at least those of the commits that were there all the time, and half a  *)
(* digest is never shown.                                                  *)
THEOREM LinesMatchHolds == Spec => []LinesMatch
<1> QED
  BY InitTold, NextTold, InvLines, PTL DEF Spec

-----------------------------------------------------------------------------
(* The report: lists.  FlattenSeq is a recursion over the list it is given; *)
(* what it makes follows from the concatenations one after the other.      *)

(* What is true of 0, and of n + 1 if it is of n, is true of every natural *)
(* number: of those it is not true of, one would be the least.             *)
LEMMA SetInduction ==
  ASSUME NEW S, 0 \in S, \A n \in Nat : n \in S => n + 1 \in S
  PROVE  \A n \in Nat : n \in S
<1> DEFINE R == OpToRel(<, Nat)
<1>1. IsWellFoundedOn(R, Nat)
  BY NatLessThanWellFounded
<1>2. ASSUME NEW x \in Nat, NEW y \in Nat, y < x PROVE <<y, x>> \in R
  BY <1>2 DEF OpToRel
<1> HIDE DEF R
<1> SUFFICES ASSUME Nat \ S # {} PROVE FALSE
  OBVIOUS
<1>3. PICK x \in Nat \ S : \A y \in Nat \ S : ~(<<y, x>> \in R)
  <2>1. Nat \ S \subseteq Nat
    OBVIOUS
  <2> QED
    BY <1>1, <2>1, WFMin
<1>4. x # 0 /\ x - 1 \in Nat /\ x - 1 + 1 = x /\ x - 1 < x
  OBVIOUS
<1> QED
  BY <1>2, <1>3, <1>4

LEMMA SeqUp ==
  ASSUME NEW S, NEW Q, <<>> \in Q, \A s \in Seq(S) : \A e \in S : s \in Q => Append(s, e) \in Q
  PROVE  Seq(S) \subseteq Q
<1> DEFINE N == {n \in Nat : \A s \in Seq(S) : Len(s) = n => s \in Q}
<1>1. 0 \in N
  <2>1. \A s \in Seq(S) : Len(s) = 0 => s = <<>>
    OBVIOUS
  <2> QED
    BY <2>1
<1>2. ASSUME NEW n \in Nat, n \in N PROVE n + 1 \in N
  <2> SUFFICES ASSUME NEW s \in Seq(S), Len(s) = n + 1 PROVE s \in Q
    OBVIOUS
  <2> DEFINE t == SubSeq(s, 1, n)
             e == s[n + 1]
  <2>1. t \in Seq(S) /\ Len(t) = n /\ e \in S
    OBVIOUS
  <2>2. s = Append(t, e)
    <3>1. Append(t, e) \in Seq(S) /\ Len(Append(t, e)) = n + 1
      BY <2>1
    <3>2. \A i \in 1 .. n + 1 : s[i] = Append(t, e)[i]
      BY <2>1
    <3> QED
      BY <3>1, <3>2
  <2>3. t \in Q
    BY <1>2, <2>1
  <2> QED
    BY <2>1, <2>2, <2>3
<1>3. \A m \in Nat : m \in N
  <2> HIDE DEF N
  <2> QED
    BY <1>1, <1>2, SetInduction
<1> QED
  BY <1>3

(* FlattenSeq, by the concatenations it makes *)
Flattens(f, ss) ==
  /\ DOMAIN f = 1 .. Len(ss)
  /\ \A i \in 1 .. Len(ss) : f[i] = IF i = 1 THEN ss[i] ELSE f[i - 1] \o ss[i]

LEMMA FlattenExists ==
  ASSUME NEW S
  PROVE  \A ss \in Seq(Seq(S)) : \E f : Flattens(f, ss)
<1> DEFINE T == Seq(S)
           Q == {ss \in Seq(T) : \E f : Flattens(f, ss)}
<1>1. <<>> \in Q
  <2>1. Flattens(<<>>, <<>>)
    BY DEF Flattens
  <2> QED
    BY <2>1
<1>2. ASSUME NEW ss \in Seq(T), NEW t \in T, ss \in Q PROVE Append(ss, t) \in Q
  <2> DEFINE tt == Append(ss, t)
  <2>1. PICK f : Flattens(f, ss)
    BY <1>2
  <2> DEFINE n == Len(ss)
             g == [i \in 1 .. n + 1 |-> IF i <= n THEN f[i] ELSE IF i = 1 THEN t ELSE f[n] \o t]
  <2>2. n \in Nat /\ Len(tt) = n + 1 /\ tt \in Seq(T) /\ tt[n + 1] = t /\ \A i \in 1 .. n : tt[i] = ss[i]
    <3> HIDE DEF T
    <3> QED
      OBVIOUS
  <2> HIDE DEF T, tt
  <2>3. \A i \in 1 .. n : f[i] = IF i = 1 THEN ss[i] ELSE f[i - 1] \o ss[i]
    BY <2>1 DEF Flattens
  <2> HIDE DEF n
  <2>4. Flattens(g, tt)
    <3>1. ASSUME NEW i \in 1 .. n + 1 PROVE g[i] = IF i = 1 THEN tt[i] ELSE g[i - 1] \o tt[i]
      <4>1. CASE i <= n
        <5>1. g[i] = f[i] /\ tt[i] = ss[i] /\ i \in 1 .. n
          BY <2>2, <3>1, <4>1
        <5>2. i # 1 => g[i - 1] = f[i - 1]
          BY <2>2, <3>1, <4>1
        <5> QED
          BY <2>3, <5>1, <5>2
      <4>2. CASE i = n + 1
        <5>1. g[i] = IF i = 1 THEN t ELSE f[n] \o t
          BY <2>2, <4>2
        <5>2. i # 1 => i - 1 = n /\ g[n] = f[n]
          BY <2>2, <4>2
        <5> QED
          BY <2>2, <4>2, <5>1, <5>2
      <4> QED
        BY <2>2, <4>1, <4>2
    <3> QED
      BY <2>2, <3>1 DEF Flattens
  <2> HIDE DEF g
  <2> QED
    BY <2>2, <2>4 DEF tt
<1>3. Seq(T) \subseteq Q
  <2> HIDE DEF T, Q
  <2> QED
    BY <1>1, <1>2, SeqUp
<1> QED
  BY <1>3

LEMMA FlattenIs ==
  ASSUME NEW S, NEW ss \in Seq(Seq(S)), Len(ss) # 0
  PROVE  \E f : Flattens(f, ss) /\ FlattenSeq(ss) = f[Len(ss)]
<1> DEFINE n == Len(ss)
           F == CHOOSE h : h = [i \in 1 .. n |-> IF i = 1 THEN ss[i] ELSE h[i - 1] \o ss[i]]
<1>1. FlattenSeq(ss) = F[n]
  BY DEF FlattenSeq
<1>2. PICK f : Flattens(f, ss)
  BY FlattenExists
<1> DEFINE g == [i \in 1 .. n |-> f[i]]
<1>3. n \in Nat
  OBVIOUS
<1>4. g = [i \in 1 .. n |-> IF i = 1 THEN ss[i] ELSE g[i - 1] \o ss[i]]
  <2>1. ASSUME NEW i \in 1 .. n PROVE f[i] = IF i = 1 THEN ss[i] ELSE g[i - 1] \o ss[i]
    <3>1. i # 1 => i - 1 \in 1 .. n
      BY <1>3
    <3> QED
      BY <1>2, <3>1 DEF Flattens
  <2> QED
    BY <2>1
<1> HIDE DEF g
<1>5. F = [i \in 1 .. n |-> IF i = 1 THEN ss[i] ELSE F[i - 1] \o ss[i]]
  BY <1>4
<1> HIDE DEF F
<1>6. Flattens(F, ss)
  BY <1>5 DEF Flattens
<1> QED
  BY <1>1, <1>6

Agree(f, g, n) == \A i \in 1 .. n : f[i] = g[i]

LEMMA FlattenUnique ==
  ASSUME NEW n \in Nat, NEW ss, NEW tt, NEW f, NEW g, Len(ss) \in Nat, Len(tt) \in Nat,
         Flattens(f, ss), Flattens(g, tt), n <= Len(ss), n <= Len(tt), Agree(ss, tt, n)
  PROVE  Agree(f, g, n)
<1> USE DEF Agree
<1> DEFINE Q == {m \in Nat : m \in 1 .. n => f[m] = g[m]}
<1>1. 0 \in Q
  OBVIOUS
<1>2. ASSUME NEW m \in Nat, m \in Q PROVE m + 1 \in Q
  <2> SUFFICES ASSUME m + 1 \in 1 .. n PROVE f[m + 1] = g[m + 1]
    OBVIOUS
  <2>1. m + 1 \in 1 .. Len(ss) /\ m + 1 \in 1 .. Len(tt) /\ ss[m + 1] = tt[m + 1]
    OBVIOUS
  <2>2. m + 1 # 1 => f[m] = g[m]
    BY <1>2
  <2> DEFINE k == m + 1
  <2>3. k - 1 = m
    OBVIOUS
  <2> HIDE DEF k
  <2>4. f[k] = IF k = 1 THEN ss[k] ELSE f[k - 1] \o ss[k]
    BY <2>1 DEF Flattens, k
  <2>5. g[k] = IF k = 1 THEN tt[k] ELSE g[k - 1] \o tt[k]
    BY <2>1 DEF Flattens, k
  <2> QED
    BY <2>1, <2>2, <2>3, <2>4, <2>5 DEF k
<1>3. \A m \in Nat : m \in Q
  <2> HIDE DEF Q
  <2> QED
    BY <1>1, <1>2, SetInduction
<1> QED
  BY <1>3

(* FlattenSeq(<<>>) and FlattenSeq(Append(ss, t)) *)
LEMMA FlattenAppend ==
  ASSUME NEW S
  PROVE  /\ FlattenSeq(<<>>) = <<>>
         /\ \A ss \in Seq(Seq(S)) : /\ FlattenSeq(ss) \in Seq(S)
                                    /\ \A t \in Seq(S) : FlattenSeq(Append(ss, t)) = FlattenSeq(ss) \o t
<1> DEFINE T == Seq(S)
<1>1. FlattenSeq(<<>>) = <<>>
  BY DEF FlattenSeq
<1>2. ASSUME NEW ss \in Seq(T), NEW t \in T, FlattenSeq(ss) \in T
      PROVE  FlattenSeq(Append(ss, t)) = FlattenSeq(ss) \o t
  <2> DEFINE tt == Append(ss, t)
             n == Len(ss)
  <2>1. n \in Nat /\ Len(tt) = n + 1 /\ tt \in Seq(T) /\ tt[n + 1] = t /\ \A i \in 1 .. n : tt[i] = ss[i]
    <3> HIDE DEF T
    <3> QED
      OBVIOUS
  <2> HIDE DEF tt
  <2>2. PICK g : Flattens(g, tt) /\ FlattenSeq(tt) = g[n + 1]
    <3>1. Len(tt) # 0 /\ tt \in Seq(Seq(S))
      BY <2>1
    <3> QED
      BY <2>1, <3>1, FlattenIs
  <2>3. g[n + 1] = IF n + 1 = 1 THEN t ELSE g[n] \o t
    <3> DEFINE k == n + 1
    <3>1. k \in 1 .. Len(tt) /\ k - 1 = n
      BY <2>1
    <3>2. tt[k] = t
      BY <2>1
    <3> HIDE DEF k
    <3>3. g[k] = IF k = 1 THEN tt[k] ELSE g[k - 1] \o tt[k]
      BY <2>2, <3>1 DEF Flattens
    <3> QED
      BY <3>1, <3>2, <3>3 DEF k
  <2>4. CASE n = 0
    <3>1. ss = <<>>
      BY <2>4
    <3>2. <<>> \o t = t
      OBVIOUS
    <3> QED
      BY <1>1, <2>2, <2>3, <2>4, <3>1, <3>2 DEF tt
  <2>5. CASE n # 0
    <3>1. PICK f : Flattens(f, ss) /\ FlattenSeq(ss) = f[n]
      BY <2>5, FlattenIs
    <3>2. \A i \in 1 .. n : f[i] = g[i]
      <4>1. n <= Len(ss) /\ n <= Len(tt) /\ Len(ss) \in Nat /\ Len(tt) \in Nat /\ Agree(ss, tt, n)
        BY <2>1 DEF Agree
      <4> HIDE DEF n
      <4>2. Agree(f, g, n)
        BY <2>1, <2>2, <3>1, <4>1, FlattenUnique
      <4> QED
        BY <4>2 DEF Agree
    <3>3. n \in 1 .. n /\ n + 1 # 1
      BY <2>1, <2>5
    <3> QED
      BY <2>2, <2>3, <3>1, <3>2, <3>3 DEF tt
  <2> QED
    BY <2>4, <2>5
<1> DEFINE Q == {ss \in Seq(T) : FlattenSeq(ss) \in T}
<1>3. <<>> \in Q
  <2>1. <<>> \in Seq(T) /\ <<>> \in T
    OBVIOUS
  <2>2. FlattenSeq(<<>>) \in T
    BY <1>1, <2>1, Zenon
  <2> QED
    BY <2>1, <2>2
<1>4. ASSUME NEW ss \in Seq(T), NEW t \in T, ss \in Q PROVE Append(ss, t) \in Q
  <2>1. FlattenSeq(ss) \o t \in T /\ Append(ss, t) \in Seq(T)
    BY <1>4
  <2> QED
    BY <1>2, <1>4, <2>1
<1>5. Seq(T) \subseteq Q
  <2> HIDE DEF T, Q
  <2> QED
    BY <1>3, <1>4, SeqUp
<1> QED
  BY <1>1, <1>2, <1>5

LEMMA RangeOfAppend ==
  ASSUME NEW S, NEW s \in Seq(S), NEW x \in S
  PROVE  /\ Range(<<>>) = {} /\ Range(<<x>>) = {x}
         /\ Range(Append(s, x)) = Range(s) \cup {x}
<1>1. Range(<<>>) = {} /\ Range(<<x>>) = {x}
  BY DEF Range
<1>2. Range(Append(s, x)) = Range(s) \cup {x}
  <2>1. /\ DOMAIN Append(s, x) = 1 .. Len(s) + 1 /\ DOMAIN s = 1 .. Len(s) /\ Len(s) \in Nat
        /\ \A i \in 1 .. Len(s) : Append(s, x)[i] = s[i]
        /\ Append(s, x)[Len(s) + 1] = x
    OBVIOUS
  <2> QED
    BY <2>1 DEF Range
<1> QED
  BY <1>1, <1>2

LEMMA RangeOfConcat ==
  ASSUME NEW S, NEW s \in Seq(S), NEW t \in Seq(S)
  PROVE  Range(s \o t) = Range(s) \cup Range(t)
<1>3. Range(s \o t) = Range(s) \cup Range(t)
  <2> DEFINE u == s \o t
             m == Len(s)
             n == Len(t)
  <2>1. /\ DOMAIN u = 1 .. m + n /\ DOMAIN s = 1 .. m /\ DOMAIN t = 1 .. n /\ m \in Nat /\ n \in Nat
        /\ \A i \in 1 .. m : u[i] = s[i]
        /\ \A i \in 1 .. n : u[i + m] = t[i]
    OBVIOUS
  <2> HIDE DEF u, m, n
  <2>3. Range(u) \subseteq Range(s) \cup Range(t)
    <3>1. ASSUME NEW k \in 1 .. m + n PROVE u[k] \in Range(s) \cup Range(t)
      <4>1. CASE k <= m
        <5>1. k \in 1 .. m /\ u[k] = s[k]
          BY <2>1, <4>1
        <5> QED
          BY <2>1, <5>1 DEF Range
      <4>2. CASE ~(k <= m)
        <5> DEFINE j == k - m
        <5>1. j \in 1 .. n /\ j + m = k
          BY <2>1, <4>2
        <5> HIDE DEF j
        <5>2. u[k] = t[j]
          BY <2>1, <5>1
        <5> QED
          BY <2>1, <5>1, <5>2 DEF Range
      <4> QED
        BY <4>1, <4>2
    <3> QED
      BY <2>1, <3>1 DEF Range
  <2>4. Range(s) \subseteq Range(u)
    <3>1. \A i \in 1 .. m : i \in 1 .. m + n
      BY <2>1
    <3> QED
      BY <2>1, <3>1 DEF Range
  <2>5. Range(t) \subseteq Range(u)
    <3>1. \A i \in 1 .. n : i + m \in 1 .. m + n
      BY <2>1
    <3> QED
      BY <2>1, <3>1 DEF Range
  <2> QED
    BY <2>3, <2>4, <2>5 DEF u
<1> QED
  BY <1>3

Union(ss) == UNION {Range(ss[i]) : i \in DOMAIN ss}

LEMMA UnionOfAppend ==
  ASSUME NEW T, NEW ss \in Seq(T), NEW t \in T
  PROVE  Union(<<>>) = {} /\ Union(Append(ss, t)) = Union(ss) \cup Range(t)
<1>1. Union(<<>>) = {}
  BY DEF Union
<1> DEFINE tt == Append(ss, t)
<1>2. /\ DOMAIN tt = 1 .. Len(ss) + 1 /\ DOMAIN ss = 1 .. Len(ss) /\ Len(ss) \in Nat
      /\ \A i \in 1 .. Len(ss) : tt[i] = ss[i]
      /\ tt[Len(ss) + 1] = t
  OBVIOUS
<1> HIDE DEF tt
<1>3. DOMAIN tt = DOMAIN ss \cup {Len(ss) + 1}
  BY <1>2
<1>4. Union(tt) = Union(ss) \cup Range(t)
  BY <1>2, <1>3 DEF Union
<1> QED
  BY <1>1, <1>4 DEF tt

LEMMA FlattenRange ==
  ASSUME NEW S
  PROVE  \A ss \in Seq(Seq(S)) : FlattenSeq(ss) \in Seq(S) /\ Range(FlattenSeq(ss)) = Union(ss)
<1> DEFINE T == Seq(S)
           Q == {ss \in Seq(T) : Range(FlattenSeq(ss)) = Union(ss)}
<1>1. <<>> \in Q
  <2>1. Range(<<>>) = {} /\ <<>> \in Seq(T)
    BY DEF Range
  <2>2. Union(<<>>) = {}
    BY DEF Union
  <2> QED
    BY <2>1, <2>2, FlattenAppend
<1>2. ASSUME NEW ss \in Seq(T), NEW t \in T, ss \in Q PROVE Append(ss, t) \in Q
  <2>1. FlattenSeq(Append(ss, t)) = FlattenSeq(ss) \o t /\ FlattenSeq(ss) \in Seq(S)
    BY FlattenAppend
  <2>2. Range(FlattenSeq(ss) \o t) = Range(FlattenSeq(ss)) \cup Range(t)
    <3>1. FlattenSeq(ss) \in Seq(S) /\ t \in Seq(S)
      BY <2>1
    <3> HIDE DEF T
    <3> QED
      BY <3>1, RangeOfConcat
  <2>3. Append(ss, t) \in Seq(T)
    OBVIOUS
  <2>4. Union(Append(ss, t)) = Union(ss) \cup Range(t)
    <3> HIDE DEF T
    <3> QED
      BY UnionOfAppend
  <2> QED
    BY <1>2, <2>1, <2>2, <2>3, <2>4
<1>3. Seq(T) \subseteq Q
  <2> HIDE DEF T, Q
  <2> QED
    BY <1>1, <1>2, SeqUp
<1> QED
  BY <1>3, FlattenAppend

IsList(s) == s \in Seq(Range(s))

LEMMA ListWithin ==
  ASSUME NEW S, NEW s, IsList(s), Range(s) \subseteq S
  PROVE  s \in Seq(S)
<1> DEFINE R == Range(s)
<1>1. s \in Seq(R) /\ R \subseteq S
  BY DEF IsList
<1> HIDE DEF R
<1> QED
  BY <1>1

LEMMA ListOf ==
  ASSUME NEW s, NEW n \in Nat, DOMAIN s = 1 .. n, s = [i \in 1 .. n |-> s[i]]
  PROVE  IsList(s) /\ Len(s) = n
<1> DEFINE R == Range(s)
<1>1. \A i \in 1 .. n : s[i] \in R
  BY DEF Range
<1> HIDE DEF R
<1>2. s \in [1 .. n -> R]
  BY <1>1
<1>3. s \in Seq(R) /\ Len(s) = n
  BY <1>2
<1> QED
  BY <1>3 DEF R, IsList

LEMMA ListIs ==
  ASSUME NEW s, IsList(s)
  PROVE  Len(s) \in Nat /\ DOMAIN s = 1 .. Len(s) /\ (s = <<>> <=> Len(s) = 0)
<1> DEFINE R == Range(s)
<1>1. s \in Seq(R)
  BY DEF IsList
<1> HIDE DEF R
<1> QED
  BY <1>1

LEMMA SeqIsList ==
  ASSUME NEW S, NEW s \in Seq(S)
  PROVE  IsList(s) /\ Range(s) \subseteq S
<1>1. s = [i \in 1 .. Len(s) |-> s[i]] /\ Len(s) \in Nat /\ DOMAIN s = 1 .. Len(s)
  OBVIOUS
<1>2. IsList(s)
  BY <1>1, ListOf
<1>3. \A i \in DOMAIN s : s[i] \in S
  OBVIOUS
<1> QED
  BY <1>2, <1>3 DEF Range

LEMMA ConcatList ==
  ASSUME NEW s, NEW t, IsList(s), IsList(t)
  PROVE  IsList(s \o t) /\ Range(s \o t) = Range(s) \cup Range(t)
<1> DEFINE S == Range(s) \cup Range(t)
<1>1. s \in Seq(S) /\ t \in Seq(S)
  BY ListWithin
<1> HIDE DEF S
<1>2. Range(s \o t) = Range(s) \cup Range(t) /\ s \o t \in Seq(S)
  BY <1>1, RangeOfConcat
<1> QED
  BY <1>2, SeqIsList

LEMMA FlattenList ==
  ASSUME NEW n \in Nat, NEW ss, ss = [i \in 1 .. n |-> ss[i]], \A i \in 1 .. n : IsList(ss[i])
  PROVE  IsList(FlattenSeq(ss)) /\ Range(FlattenSeq(ss)) = Union(ss)
<1> DEFINE S == Union(ss)
           T == Seq(S)
<1>1. \A i \in 1 .. n : ss[i] \in T
  <2> TAKE i \in 1 .. n
  <2>1. Range(ss[i]) \subseteq S
    BY DEF Union
  <2> HIDE DEF S
  <2> QED
    BY <2>1, ListWithin
<1> HIDE DEF S, T
<1>2. ss \in [1 .. n -> T]
  BY <1>1
<1>3. ss \in Seq(T)
  BY <1>2
<1>4. FlattenSeq(ss) \in Seq(S) /\ Range(FlattenSeq(ss)) = Union(ss)
  BY <1>3, FlattenRange DEF T
<1> QED
  BY <1>4, SeqIsList

-----------------------------------------------------------------------------
(* The lines of the report's text                                          *)

(* Lists of a few lines *)
LEMMA Lists0 == IsList(<<>>) /\ Range(<<>>) = {}
  BY DEF IsList, Range

LEMMA Lists1 ==
  \A a : IsList(<<a>>) /\ Range(<<a>>) = {a}
<1> TAKE a
<1>1. Range(<<a>>) = {a}
  BY DEF Range
<1>2. <<a>> \in Seq({a})
  OBVIOUS
<1> QED
  BY <1>1, <1>2, SeqIsList

LEMMA Lists2 ==
  \A a, b : IsList(<<a, b>>) /\ Range(<<a, b>>) = {a, b}
<1> TAKE a, b
<1>1. Range(<<a, b>>) = {a, b}
  BY DEF Range
<1>2. <<a, b>> \in Seq({a, b})
  OBVIOUS
<1> QED
  BY <1>1, <1>2, SeqIsList

LEMMA Lists6 ==
  \A a, b, c, d, e, f : IsList(<<a, b, c, d, e, f>>) /\ Range(<<a, b, c, d, e, f>>) = {a, b, c, d, e, f}
<1> TAKE a, b, c, d, e, f
<1>1. Range(<<a, b, c, d, e, f>>) = {a, b, c, d, e, f}
  BY DEF Range
<1>2. <<a, b, c, d, e, f>> \in Seq({a, b, c, d, e, f})
  OBVIOUS
<1> QED
  BY <1>1, <1>2, SeqIsList

LEMMA Lists7 ==
  \A a, b, c, d, e, f, g :
    IsList(<<a, b, c, d, e, f, g>>) /\ Range(<<a, b, c, d, e, f, g>>) = {a, b, c, d, e, f, g}
<1> TAKE a, b, c, d, e, f, g
<1>1. Range(<<a, b, c, d, e, f, g>>) = {a, b, c, d, e, f, g}
  BY DEF Range
<1>2. <<a, b, c, d, e, f, g>> \in Seq({a, b, c, d, e, f, g})
  OBVIOUS
<1> QED
  BY <1>1, <1>2, SeqIsList

LEMMA Lists8 ==
  \A a, b, c, d, e, f, g, h :
    IsList(<<a, b, c, d, e, f, g, h>>) /\ Range(<<a, b, c, d, e, f, g, h>>) = {a, b, c, d, e, f, g, h}
<1> TAKE a, b, c, d, e, f, g, h
<1>1. Range(<<a, b, c, d, e, f, g, h>>) = {a, b, c, d, e, f, g, h}
  BY DEF Range
<1>2. <<a, b, c, d, e, f, g, h>> \in Seq({a, b, c, d, e, f, g, h})
  OBVIOUS
<1> QED
  BY <1>1, <1>2, SeqIsList

LEMMA NumberedIs ==
  ASSUME NEW n \in Nat, NEW line
  PROVE  IsList(NumberedLines(n, line)) /\ \A l \in Range(NumberedLines(n, line)) : \E i : l = <<line, i>>
<1> DEFINE s == NumberedLines(n, line)
<1>1. s = [i \in 1 .. n |-> <<line, i>>]
  BY DEF NumberedLines
<1>2. DOMAIN s = 1 .. n /\ s = [i \in 1 .. n |-> s[i]]
  BY <1>1
<1>3. \A l \in Range(s) : \E i : l = <<line, i>>
  BY <1>1 DEF Range
<1> HIDE DEF s
<1>4. IsList(s)
  BY <1>2, ListOf
<1> QED
  BY <1>3, <1>4 DEF s

(* A table: the rows, and lines that are none. *)
RowLines(repo, title, rows) == {<<"row", repo, title, x>> : x \in Range(rows)}
LEMMA TableIs ==
  ASSUME NEW repo, NEW title, NEW rows, IsList(rows)
  PROVE  /\ IsList(Table(repo, title, rows))
         /\ RowLines(repo, title, rows) \subseteq Range(Table(repo, title, rows))
         /\ Range(Table(repo, title, rows)) \subseteq
              RowLines(repo, title, rows) \cup
              {<<title, repo>>, Blank, <<"nothing", repo>>, <<"header", title>>, <<"ruler", title>>}
<1> DEFINE n == Len(rows)
           s == [i \in DOMAIN rows |-> <<"row", repo, title, rows[i]>>]
           top == <<<<title, repo>>, Blank>>
           head2 == <<<<"header", title>>, <<"ruler", title>>>>
           mid == IF rows = <<>> THEN <<<<"nothing", repo>>>> ELSE head2 \o s
           end == <<Blank>>
<1>1. n \in Nat /\ DOMAIN rows = 1 .. n /\ (rows = <<>> <=> n = 0)
  BY ListIs
<1>2. Range(s) = RowLines(repo, title, rows)
  BY DEF Range, RowLines
<1>3. IsList(s)
  <2>1. DOMAIN s = 1 .. n /\ s = [i \in 1 .. n |-> s[i]]
    BY <1>1
  <2> HIDE DEF s
  <2> QED
    BY <1>1, <2>1, ListOf
<1>4. IsList(top) /\ Range(top) = {<<title, repo>>, Blank}
  BY Lists2
<1>5. IsList(end) /\ Range(end) = {Blank}
  BY Lists1
<1>6. IsList(head2) /\ Range(head2) = {<<"header", title>>, <<"ruler", title>>}
  BY Lists2
<1>7. IsList(<<<<"nothing", repo>>>>) /\ Range(<<<<"nothing", repo>>>>) = {<<"nothing", repo>>}
  BY Lists1
<1>8. Table(repo, title, rows) = (top \o mid) \o end
  BY DEF Table
<1>9. rows = <<>> => RowLines(repo, title, rows) = {}
  BY DEF RowLines, Range
<1>10. rows = <<>> => mid = <<<<"nothing", repo>>>>
  OBVIOUS
<1>11. rows # <<>> => mid = head2 \o s
  OBVIOUS
<1> HIDE DEF s, top, head2, mid, end
<1>12. IsList(head2 \o s) /\ Range(head2 \o s) = Range(head2) \cup Range(s)
  BY <1>3, <1>6, ConcatList
<1>13. /\ IsList(mid) /\ RowLines(repo, title, rows) \subseteq Range(mid)
       /\ Range(mid) \subseteq RowLines(repo, title, rows) \cup {<<"nothing", repo>>, <<"header", title>>, <<"ruler", title>>}
  <2>1. CASE rows = <<>>
    BY <1>7, <1>9, <1>10, <2>1
  <2>2. CASE rows # <<>>
    BY <1>2, <1>6, <1>11, <1>12, <2>2
  <2> QED
    BY <2>1, <2>2
<1>14. IsList(top \o mid) /\ Range(top \o mid) = Range(top) \cup Range(mid)
  BY <1>4, <1>13, ConcatList
<1>15. IsList((top \o mid) \o end) /\ Range((top \o mid) \o end) = Range(top \o mid) \cup Range(end)
  BY <1>5, <1>14, ConcatList
<1> QED
  BY <1>4, <1>5, <1>8, <1>13, <1>14, <1>15

LEMMA TrendLines ==
  ASSUME NEW repo, NEW n \in Nat
  PROVE  /\ IsList(Trend(repo, n))
         /\ \A l \in Range(Trend(repo, n)) : l[1] \in {"trend", "blank", "reviews", "high", "recent", "header", "ruler", "review"}
<1> DEFINE top == <<<<"trend", repo>>, Blank, <<"reviews", repo>>, <<"high", repo>>, <<"recent", repo>>, Blank,
                    <<"header", "recent">>, <<"ruler", "recent">>>>
           s == NumberedLines(n, "review")
           end == <<Blank>>
<1>1. n = 0 => Trend(repo, n) = <<>>
  BY DEF Trend
<1>2. n # 0 => Trend(repo, n) = (top \o s) \o end
  BY DEF Trend
<1>3. IsList(top) /\ Range(top) = {<<"trend", repo>>, Blank, <<"reviews", repo>>, <<"high", repo>>, <<"recent", repo>>, Blank,
                    <<"header", "recent">>, <<"ruler", "recent">>}
  BY Lists8
<1>4. IsList(end) /\ Range(end) = {Blank}
  BY Lists1
<1>5. IsList(s) /\ \A l \in Range(s) : \E i : l = <<"review", i>>
  BY NumberedIs
<1> HIDE DEF top, s, end
<1>6. IsList(top \o s) /\ Range(top \o s) = Range(top) \cup Range(s)
  BY <1>3, <1>5, ConcatList
<1>7. IsList((top \o s) \o end) /\ Range((top \o s) \o end) = Range(top \o s) \cup Range(end)
  BY <1>4, <1>6, ConcatList
<1> DEFINE Tags == {"trend", "blank", "reviews", "high", "recent", "header", "ruler", "review"}
<1>8. \A l \in Range(top) \cup Range(s) \cup Range(end) : l[1] \in Tags
  <2>1. \A l \in Range(s) : l[1] \in Tags
    BY <1>5
  <2>2. \A l \in Range(top) \cup Range(end) : l[1] \in Tags
    BY <1>3, <1>4 DEF Blank
  <2> QED
    BY <2>1, <2>2
<1> HIDE DEF Tags
<1>9. IsList(Trend(repo, n)) /\ \A l \in Range(Trend(repo, n)) : l[1] \in Tags
  BY <1>1, <1>2, <1>6, <1>7, <1>8, Lists0
<1> QED
  BY <1>9 DEF Tags

-----------------------------------------------------------------------------
(* What a line of the text can say.  A row, a "nothing" and a summary name *)
(* the repository they are about, and come from its body; so the rows that *)
(* a reader finds under a repository are those of its digest.              *)

(* What a repository must be for its part of the text to be lines. *)
Shape(r) ==
  /\ r.err \in Nat /\ r.trend \in Nat
  /\ IsList(r.digest.byAuthor) /\ IsList(r.digest.byTopic) /\ IsList(r.digest.topFiles)

(* What a line of the i-th repository may say, and which lines there are. *)
Says(i, r, l) ==
  /\ l[1] = "row" => /\ r.ok /\ l[2] = i
                     /\ (l[3] = "author" => l[4] \in Range(r.digest.byAuthor))
                     /\ (l[3] = "topic" => l[4] \in Range(r.digest.byTopic))
  /\ l[1] \in {"nothing", "summary"} => r.ok /\ l[2] = i
Wanted(i, r) ==
  {<<"commits", i, r.digest.commits>>, <<"lines", i, r.digest.lines>>}
  \cup RowLines(i, "author", r.digest.byAuthor) \cup RowLines(i, "topic", r.digest.byTopic)

LEMMA TableSays ==
  ASSUME NEW i, NEW r, r.ok, NEW title \in {"author", "topic", "file"}, NEW rows, IsList(rows),
         title = "author" => rows = r.digest.byAuthor, title = "topic" => rows = r.digest.byTopic
  PROVE  \A l \in Range(Table(i, title, rows)) : Says(i, r, l)
<1> TAKE l \in Range(Table(i, title, rows))
<1>1. l \in RowLines(i, title, rows) \cup
            {<<title, i>>, Blank, <<"nothing", i>>, <<"header", title>>, <<"ruler", title>>}
  BY TableIs
<1>2. CASE l \in RowLines(i, title, rows)
  <2>1. PICK x \in Range(rows) : l = <<"row", i, title, x>>
    BY <1>2 DEF RowLines
  <2>2. l[1] = "row" /\ l[2] = i /\ l[3] = title /\ l[4] = x
    BY <2>1
  <2> QED
    BY <2>2 DEF Says
<1>3. CASE l = <<"nothing", i>>
  BY <1>3 DEF Says
<1>4. CASE l \in {<<title, i>>, Blank, <<"header", title>>, <<"ruler", title>>}
  <2>1. l[1] \in {"author", "topic", "file", "blank", "header", "ruler"}
    BY <1>4 DEF Blank
  <2>2. l[1] # "row" /\ l[1] # "nothing" /\ l[1] # "summary"
    BY <2>1
  <2> QED
    BY <2>2 DEF Says
<1> QED
  BY <1>1, <1>2, <1>3, <1>4

LEMMA BodyIs ==
  ASSUME NEW i, NEW r, Shape(r)
  PROVE  /\ IsList(Body(i, r)) /\ \A l \in Range(Body(i, r)) : Says(i, r, l)
         /\ r.ok => Wanted(i, r) \subseteq Range(Body(i, r))
<1>1. CASE ~r.ok
  <2> DEFINE s == NumberedLines(r.err, "error")
             end == <<Blank>>
  <2>1. Body(i, r) = s \o end
    BY <1>1 DEF Body
  <2>2. IsList(s) /\ \A l \in Range(s) : \E k : l = <<"error", k>>
    BY NumberedIs DEF Shape
  <2>3. IsList(end) /\ Range(end) = {Blank}
    BY Lists1
  <2> HIDE DEF s, end
  <2>4. IsList(s \o end) /\ Range(s \o end) = Range(s) \cup Range(end)
    BY <2>2, <2>3, ConcatList
  <2>5. \A l \in Range(s) \cup Range(end) : l[1] \in {"error", "blank"}
    BY <2>2, <2>3 DEF Blank
  <2>6. \A l : l[1] \in {"error", "blank"} => Says(i, r, l)
    BY DEF Says
  <2> QED
    BY <1>1, <2>1, <2>4, <2>5, <2>6
<1>2. CASE r.ok
  <2> DEFINE d == r.digest
             top == <<<<"summary", i>>, Blank, <<"commits", i, d.commits>>, <<"files", i, d.filesChanged>>,
                      <<"lines", i, d.lines>>, Blank>>
             a == Table(i, "author", d.byAuthor)
             t == Table(i, "topic", d.byTopic)
             f == Table(i, "file", d.topFiles)
             e == Trend(i, r.trend)
  <2>1. Body(i, r) = (((top \o a) \o t) \o f) \o e
    BY <1>2 DEF Body
  <2>2. /\ IsList(top)
        /\ Range(top) = {<<"summary", i>>, Blank, <<"commits", i, d.commits>>, <<"files", i, d.filesChanged>>,
                         <<"lines", i, d.lines>>, Blank}
    BY Lists6
  <2>3. IsList(d.byAuthor) /\ IsList(d.byTopic) /\ IsList(d.topFiles) /\ r.trend \in Nat
    BY DEF Shape
  <2>4. IsList(a) /\ RowLines(i, "author", d.byAuthor) \subseteq Range(a)
    BY <2>3, TableIs
  <2>5. IsList(t) /\ RowLines(i, "topic", d.byTopic) \subseteq Range(t)
    BY <2>3, TableIs
  <2>6. IsList(f)
    BY <2>3, TableIs
  <2>7. IsList(e) /\ \A l \in Range(e) : l[1] \in {"trend", "blank", "reviews", "high", "recent", "header", "ruler", "review"}
    BY <2>3, TrendLines
  <2>8. \A l \in Range(a) : Says(i, r, l)
    BY <1>2, <2>3, TableSays
  <2>9. \A l \in Range(t) : Says(i, r, l)
    BY <1>2, <2>3, TableSays
  <2>10. \A l \in Range(f) : Says(i, r, l)
    BY <1>2, <2>3, TableSays
  <2>11. \A l \in Range(e) : Says(i, r, l)
    BY <2>7 DEF Says
  <2>12. \A l \in Range(top) : Says(i, r, l)
    <3> TAKE l \in Range(top)
    <3>1. l = <<"summary", i>> \/ l[1] \in {"blank", "commits", "files", "lines"}
      BY <2>2 DEF Blank
    <3> HIDE DEF top
    <3> QED
      BY <1>2, <3>1 DEF Says
  <2>13. {<<"commits", i, d.commits>>, <<"lines", i, d.lines>>} \subseteq Range(top)
    BY <2>2
  <2> HIDE DEF d, top, a, t, f, e
  <2>14. IsList(top \o a) /\ Range(top \o a) = Range(top) \cup Range(a)
    BY <2>2, <2>4, ConcatList
  <2>15. IsList((top \o a) \o t) /\ Range((top \o a) \o t) = Range(top \o a) \cup Range(t)
    BY <2>5, <2>14, ConcatList
  <2>16. IsList(((top \o a) \o t) \o f) /\ Range(((top \o a) \o t) \o f) = Range((top \o a) \o t) \cup Range(f)
    BY <2>6, <2>15, ConcatList
  <2>17. IsList((((top \o a) \o t) \o f) \o e) /\ Range((((top \o a) \o t) \o f) \o e) = Range(((top \o a) \o t) \o f) \cup Range(e)
    BY <2>7, <2>16, ConcatList
  <2>18. Range(Body(i, r)) = Range(top) \cup Range(a) \cup Range(t) \cup Range(f) \cup Range(e)
    BY <2>1, <2>14, <2>15, <2>16, <2>17
  <2>19. Wanted(i, r) \subseteq Range(top) \cup Range(a) \cup Range(t)
    BY <2>4, <2>5, <2>13 DEF Wanted, d
  <2> QED
    BY <2>1, <2>8, <2>9, <2>10, <2>11, <2>12, <2>17, <2>18, <2>19
<1> QED
  BY <1>1, <1>2

(* The lines of a report are those of its repositories and some that name  *)
(* none of them.                                                           *)
LEMMA TextIs ==
  ASSUME NEW rs, IsList(rs), rs # <<>>, \A i \in DOMAIN rs : Shape(rs[i])
  PROVE  /\ IsList(Text(rs)) /\ \E l \in Range(Text(rs)) : l # Blank
         /\ \A l \in Range(Text(rs)) : l[1] \in {"row", "nothing", "summary"} =>
              \E i \in DOMAIN rs : l \in Range(Body(i, rs[i]))
         /\ \A i \in DOMAIN rs : Range(Body(i, rs[i])) \subseteq Range(Text(rs))
         /\ Len(rs) > 1 => Range(OverallSummary(rs)) \subseteq Range(Text(rs))
<1>1. Len(rs) \in Nat /\ DOMAIN rs = 1 .. Len(rs) /\ Len(rs) # 0
  BY ListIs
<1>2. \A i \in DOMAIN rs : IsList(Body(i, rs[i]))
  BY BodyIs
<1>3. CASE Len(rs) = 1
  <2> DEFINE top == <<<<"digest">>, Blank>>
             b == Body(1, rs[1])
  <2>1. Text(rs) = top \o b
    BY <1>3 DEF Text
  <2>2. IsList(top) /\ Range(top) = {<<"digest">>, Blank}
    BY Lists2
  <2>3. DOMAIN rs = {1}
    BY <1>1, <1>3
  <2>4. IsList(b)
    BY <1>2, <2>3
  <2>5. \A l \in Range(top) : l[1] \in {"digest", "blank"}
    BY <2>2 DEF Blank
  <2>6. <<"digest">> # Blank
    BY DEF Blank
  <2> HIDE DEF top, b
  <2>7. IsList(top \o b) /\ Range(top \o b) = Range(top) \cup Range(b)
    BY <2>2, <2>4, ConcatList
  <2>8. \A l \in Range(top) : l[1] \notin {"row", "nothing", "summary"}
    BY <2>5
  <2>9. b = Body(1, rs[1]) /\ 1 \in DOMAIN rs /\ ~(Len(rs) > 1)
    BY <1>3, <2>3 DEF b
  <2>10. \A l \in Range(Text(rs)) : l[1] \in {"row", "nothing", "summary"} => l \in Range(b)
    BY <2>1, <2>7, <2>8
  <2>11. \A i \in DOMAIN rs : Range(Body(i, rs[i])) \subseteq Range(Text(rs))
    BY <2>1, <2>3, <2>7, <2>9
  <2> QED
    <3>1. IsList(Text(rs)) /\ \E l \in Range(Text(rs)) : l # Blank
      BY <2>1, <2>2, <2>6, <2>7
    <3>2. \A l \in Range(Text(rs)) : l[1] \in {"row", "nothing", "summary"} =>
            \E i \in DOMAIN rs : l \in Range(Body(i, rs[i]))
      BY <2>9, <2>10
    <3> QED
      BY <2>9, <2>11, <3>1, <3>2
<1>4. CASE Len(rs) > 1
  <2> DEFINE n == Len(rs)
             top == <<<<"multi-repo">>, Blank>>
             own(i) == <<<<"repo", i, rs[i].path>>, Blank>>
             part(i) == own(i) \o Body(i, rs[i])
             parts == [i \in DOMAIN rs |-> part(i)]
             all == FlattenSeq(parts)
             end == OverallSummary(rs)
  <2>1. Text(rs) = (top \o all) \o end
    <3>1. Len(rs) # 1
      BY <1>4
    <3> QED
      BY <3>1 DEF Text
  <2>2. IsList(top) /\ Range(top) = {<<"multi-repo">>, Blank}
    BY Lists2
  <2>3. \A i \in DOMAIN rs : IsList(own(i)) /\ Range(own(i)) = {<<"repo", i, rs[i].path>>, Blank}
    BY Lists2
  <2>4. /\ IsList(end)
        /\ \A l \in Range(end) : l[1] \in {"overall", "blank", "requested", "ok", "failed", "combined commits", "combined lines"}
    <3> DEFINE Tags == {"overall", "blank", "requested", "ok", "failed", "combined commits", "combined lines"}
    <3>1. /\ IsList(end)
          /\ Range(end) = {<<"overall">>, Blank, <<"requested", Len(rs)>>, <<"ok", Cardinality(OK(rs))>>,
                           <<"failed", FailedOf(rs)>>, <<"combined commits", Combined(rs).commits>>,
                           <<"combined lines", [added |-> Combined(rs).added, removed |-> Combined(rs).removed]>>}
      <4> DEFINE c == <<"requested", Len(rs)>>
                 o == <<"ok", Cardinality(OK(rs))>>
                 f == <<"failed", FailedOf(rs)>>
                 m == <<"combined commits", Combined(rs).commits>>
                 s == <<"combined lines", [added |-> Combined(rs).added, removed |-> Combined(rs).removed]>>
      <4>1. end = <<<<"overall">>, Blank, c, o, f, m, s>>
        BY DEF OverallSummary
      <4> HIDE DEF c, o, f, m, s, end
      <4>2. IsList(end) /\ Range(end) = {<<"overall">>, Blank, c, o, f, m, s}
        BY <4>1, Lists7
      <4> QED
        BY <4>2 DEF c, o, f, m, s
    <3>2. \A l \in Range(end) : l[1] \in Tags
      <4> HIDE DEF end
      <4>1. \E c, o, f, m, s : Range(end) = {<<"overall">>, Blank, <<"requested", c>>, <<"ok", o>>, <<"failed", f>>,
                                             <<"combined commits", m>>, <<"combined lines", s>>}
        BY <3>1
      <4> TAKE l \in Range(end)
      <4>2. PICK c, o, f, m, s : l \in {<<"overall">>, Blank, <<"requested", c>>, <<"ok", o>>, <<"failed", f>>,
                                       <<"combined commits", m>>, <<"combined lines", s>>}
        BY <4>1
      <4>3. l = <<"overall">> \/ l = <<"blank">> => l[1] = "overall" \/ l[1] = "blank"
        OBVIOUS
      <4>4. l = <<"requested", c>> \/ l = <<"ok", o>> \/ l = <<"failed", f>> => l[1] = "requested" \/ l[1] = "ok" \/ l[1] = "failed"
        OBVIOUS
      <4>5. l = <<"combined commits", m>> \/ l = <<"combined lines", s>> => l[1] = "combined commits" \/ l[1] = "combined lines"
        <5>1. \A x, y : <<x, y>>[1] = x
          OBVIOUS
        <5> QED
          BY <5>1, Zenon
      <4> QED
        BY <4>2, <4>3, <4>4, <4>5, Zenon DEF Blank
    <3> QED
      BY <3>1, <3>2
  <2>5. <<"multi-repo">> # Blank
    BY DEF Blank
  <2>6. \A i \in DOMAIN rs : IsList(part(i)) /\ Range(part(i)) = Range(own(i)) \cup Range(Body(i, rs[i]))
    <3> TAKE i \in DOMAIN rs
    <3>1. IsList(own(i)) /\ IsList(Body(i, rs[i]))
      BY <1>2, <2>3
    <3> HIDE DEF own
    <3> QED
      BY <3>1, ConcatList
  <2>7. IsList(all) /\ Range(all) = Union(parts)
    <3>1. parts = [i \in 1 .. n |-> parts[i]] /\ \A i \in 1 .. n : parts[i] = part(i)
      BY <1>1
    <3>2. \A i \in 1 .. n : IsList(parts[i])
      BY <1>1, <2>6, <3>1
    <3>3. n \in Nat
      BY <1>1
    <3> HIDE DEF parts, n
    <3> QED
      BY <3>1, <3>2, <3>3, FlattenList
  <2>8. Union(parts) = UNION {Range(part(i)) : i \in DOMAIN rs}
    <3> HIDE DEF part
    <3> QED
      BY DEF Union
  <2>9. \A l \in Range(top) : l[1] \in {"multi-repo", "blank"}
    BY <2>2 DEF Blank
  <2>10. \A i \in DOMAIN rs : \A l \in Range(own(i)) : l[1] \in {"repo", "blank"}
    BY <2>3 DEF Blank
  <2>11. Len(rs) > 1 => end = OverallSummary(rs)
    OBVIOUS
  <2> HIDE DEF top, all, end, parts, part, own
  <2>12. IsList(top \o all) /\ Range(top \o all) = Range(top) \cup Range(all)
    BY <2>2, <2>7, ConcatList
  <2>13. IsList((top \o all) \o end) /\ Range((top \o all) \o end) = Range(top \o all) \cup Range(end)
    BY <2>4, <2>12, ConcatList
  <2>14. Range(Text(rs)) = Range(top) \cup Range(all) \cup Range(end) /\ IsList(Text(rs))
    BY <2>1, <2>12, <2>13
  <2>15. ASSUME NEW l \in Range(Text(rs)), l[1] \in {"row", "nothing", "summary"}
         PROVE  \E i \in DOMAIN rs : l \in Range(Body(i, rs[i]))
    <3>1. l \notin Range(top)
      BY <2>9, <2>15
    <3>2. l \notin Range(end)
      BY <2>4, <2>15
    <3>3. PICK i \in DOMAIN rs : l \in Range(part(i))
      BY <2>7, <2>8, <2>14, <3>1, <3>2
    <3>4. l \notin Range(own(i))
      BY <2>10, <2>15
    <3> QED
      BY <2>6, <3>3, <3>4
  <2>16. \A i \in DOMAIN rs : Range(Body(i, rs[i])) \subseteq Range(Text(rs))
    BY <2>6, <2>7, <2>8, <2>14
  <2>17. \E l \in Range(Text(rs)) : l # Blank
    BY <2>2, <2>5, <2>14
  <2> QED
    BY <2>11, <2>14, <2>15, <2>16, <2>17
<1> QED
  BY <1>1, <1>3, <1>4

-----------------------------------------------------------------------------
(* Sums by parts                                                           *)

LEMMA SumSplit ==
  ASSUME NEW S, NEW f, Counts(f, S), NEW A \in SUBSET S, NEW B \in SUBSET S, A \cap B = {}
  PROVE  Folded(f, A \cup B) = Folded(f, A) + Folded(f, B)
<1> DEFINE Q == {s \in SUBSET A : Folded(f, s \cup B) = Folded(f, s) + Folded(f, B)}
<1>1. /\ Folded(f, {}) = 0
      /\ \A s \in SUBSET S : Folded(f, s) \in Nat /\ \A x \in s : Folded(f, s) = f[x] + Folded(f, s \ {x})
  BY FoldedRemove
<1>2. IsFiniteSet(A) /\ \A x \in A : f[x] \in Nat
  BY FS_Subset DEF Counts
<1>3. ASSUME NEW s \in SUBSET A, \A t \in SUBSET s : t # s => t \in Q PROVE s \in Q
  <2>1. CASE s = {}
    <3>1. s \cup B = B /\ Folded(f, B) \in Nat
      BY <1>1, <2>1
    <3> QED
      BY <1>1, <2>1, <3>1
  <2>2. CASE s # {}
    <3>1. PICK x \in s : TRUE
      BY <2>2
    <3> DEFINE t == s \ {x}
               u == s \cup B
               w == t \cup B
    <3>2. t \in SUBSET s /\ t # s /\ u \in SUBSET S /\ w \in SUBSET S /\ x \in u /\ u \ {x} = w /\ s \in SUBSET S /\ t \in SUBSET S
      BY <3>1
    <3>3. Folded(f, u) = f[x] + Folded(f, w) /\ Folded(f, s) = f[x] + Folded(f, t)
      BY <1>1, <3>1, <3>2
    <3>4. Folded(f, w) = Folded(f, t) + Folded(f, B)
      BY <1>3, <3>2
    <3>5. f[x] \in Nat /\ Folded(f, t) \in Nat /\ Folded(f, B) \in Nat
      BY <1>1, <1>2, <3>1, <3>2
    <3> HIDE DEF t, u, w
    <3>6. Folded(f, u) = Folded(f, s) + Folded(f, B)
      BY <3>3, <3>4, <3>5
    <3> QED
      BY <3>6 DEF u
  <2> QED
    BY <2>1, <2>2
<1>4. A \in Q
  <2>1. \A s \in SUBSET A : s \in Q
    <3> HIDE DEF Q
    <3> QED
      BY <1>2, <1>3, SubsetInduction
  <2> QED
    BY <2>1
<1> QED
  BY <1>4

(* The sums of the parts of a set are its sum. *)
LEMMA SumByParts ==
  ASSUME NEW S, NEW f, Counts(f, S), NEW R, IsFiniteSet(R), NEW part \in [R -> SUBSET S], NEW g,
         \A r \in R : g[r] = Folded(f, part[r]),
         \A r, q \in R : r # q => part[r] \cap part[q] = {}
  PROVE  Counts(g, R) /\ Folded(g, R) = Folded(f, UNION {part[r] : r \in R})
<1> DEFINE U(s) == UNION {part[r] : r \in s}
           Q == {s \in SUBSET R : Folded(g, s) = Folded(f, U(s))}
<1>1. /\ Folded(f, {}) = 0
      /\ \A s \in SUBSET S : Folded(f, s) \in Nat
  BY FoldedRemove
<1>2. Counts(g, R)
  BY <1>1 DEF Counts
<1>3. /\ Folded(g, {}) = 0
      /\ \A s \in SUBSET R : Folded(g, s) \in Nat /\ \A x \in s : Folded(g, s) = g[x] + Folded(g, s \ {x})
  BY <1>2, FoldedRemove
<1>4. ASSUME NEW s \in SUBSET R, \A t \in SUBSET s : t # s => t \in Q PROVE s \in Q
  <2>1. CASE s = {}
    <3>1. U(s) = {}
      BY <2>1
    <3> QED
      BY <1>1, <1>3, <2>1, <3>1
  <2>2. CASE s # {}
    <3>1. PICK x \in s : TRUE
      BY <2>2
    <3> DEFINE t == s \ {x}
    <3>2. t \in SUBSET s /\ t # s /\ t \in SUBSET R
      BY <3>1
    <3>3. Folded(g, s) = g[x] + Folded(g, t)
      BY <1>3, <3>1
    <3>4. Folded(g, t) = Folded(f, U(t))
      BY <1>4, <3>2
    <3>5. U(s) = part[x] \cup U(t) /\ part[x] \cap U(t) = {} /\ part[x] \in SUBSET S /\ U(t) \in SUBSET S
      BY <3>1
    <3> HIDE DEF U, t
    <3>6. Folded(f, part[x] \cup U(t)) = Folded(f, part[x]) + Folded(f, U(t))
      BY <3>5, SumSplit
    <3>7. Folded(g, s) = Folded(f, U(s))
      BY <3>1, <3>3, <3>4, <3>5, <3>6
    <3> QED
      BY <3>7
  <2> QED
    BY <2>1, <2>2
<1>5. R \in Q
  <2>1. \A s \in SUBSET R : s \in Q
    <3> HIDE DEF Q
    <3> QED
      BY <1>4, SubsetInduction
  <2> QED
    BY <2>1
<1> QED
  BY <1>2, <1>5

(* A cardinality is a sum of ones. *)
LEMMA SumOfOnes ==
  ASSUME NEW S, IsFiniteSet(S)
  PROVE  LET one == [x \in S |-> 1] IN Counts(one, S) /\ \A s \in SUBSET S : Folded(one, s) = Cardinality(s)
<1> DEFINE one == [x \in S |-> 1]
           Q == {s \in SUBSET S : Folded(one, s) = Cardinality(s)}
<1>1. Counts(one, S) /\ \A x \in S : one[x] = 1
  BY DEF Counts
<1> HIDE DEF one
<1>2. /\ Folded(one, {}) = 0
      /\ \A s \in SUBSET S : \A x \in s : Folded(one, s) = one[x] + Folded(one, s \ {x})
  BY <1>1, FoldedRemove
<1>3. ASSUME NEW s \in SUBSET S, \A t \in SUBSET s : t # s => t \in Q PROVE s \in Q
  <2>1. CASE s = {}
    BY <1>2, <2>1, FS_EmptySet
  <2>2. CASE s # {}
    <3>1. PICK x \in s : TRUE
      BY <2>2
    <3> DEFINE t == s \ {x}
    <3>2. t \in SUBSET s /\ t # s /\ IsFiniteSet(s)
      BY <3>1, FS_Subset
    <3>3. Folded(one, s) = 1 + Folded(one, t)
      BY <1>1, <1>2, <3>1
    <3>4. Folded(one, t) = Cardinality(t)
      BY <1>3, <3>2
    <3>5. Cardinality(t) = Cardinality(s) - 1 /\ Cardinality(s) \in Nat
      BY <3>1, <3>2, FS_RemoveElement, FS_CardinalityType
    <3> HIDE DEF t
    <3>6. Folded(one, s) = Cardinality(s)
      BY <3>3, <3>4, <3>5
    <3> QED
      BY <3>6
  <2> QED
    BY <2>1, <2>2
<1>4. \A s \in SUBSET S : s \in Q
  <2> HIDE DEF Q
  <2> QED
    BY <1>3, SubsetInduction
<1> QED
  BY <1>1, <1>4 DEF one

(* A sum depends on the values in its set only. *)
LEMMA SumEqual ==
  ASSUME NEW S, NEW f, NEW g, Counts(f, S), \A x \in S : f[x] = g[x]
  PROVE  \A s \in SUBSET S : Folded(f, s) = Folded(g, s)
<1> DEFINE Q == {s \in SUBSET S : Folded(f, s) = Folded(g, s)}
<1>1. Counts(g, S) /\ IsFiniteSet(S)
  BY DEF Counts
<1>2. Folded(f, {}) = 0 /\ \A s \in SUBSET S : \A x \in s : Folded(f, s) = f[x] + Folded(f, s \ {x})
  BY FoldedRemove
<1>3. Folded(g, {}) = 0 /\ \A s \in SUBSET S : \A x \in s : Folded(g, s) = g[x] + Folded(g, s \ {x})
  BY <1>1, FoldedRemove
<1>4. ASSUME NEW s \in SUBSET S, \A t \in SUBSET s : t # s => t \in Q PROVE s \in Q
  <2>1. CASE s = {}
    BY <1>2, <1>3, <2>1
  <2>2. CASE s # {}
    <3>1. PICK x \in s : TRUE
      BY <2>2
    <3> DEFINE t == s \ {x}
    <3>2. t \in SUBSET s /\ t # s
      BY <3>1
    <3>3. Folded(f, s) = f[x] + Folded(f, t) /\ Folded(g, s) = g[x] + Folded(g, t) /\ f[x] = g[x]
      BY <1>2, <1>3, <3>1
    <3>4. Folded(f, t) = Folded(g, t)
      BY <1>4, <3>2
    <3> QED
      BY <3>3, <3>4
  <2> QED
    BY <2>1, <2>2
<1>5. \A s \in SUBSET S : s \in Q
  <2> HIDE DEF Q
  <2> QED
    BY <1>1, <1>4, SubsetInduction
<1> QED
  BY <1>5

-----------------------------------------------------------------------------
(* Arranging a set.  In a strict total order every element has a different *)
(* number of elements before it, so each place is taken once.              *)

Orders(R, S) ==
  /\ \A x, y \in S : x = y \/ <<x, y>> \in R \/ <<y, x>> \in R
  /\ \A x, y, z \in S : <<x, y>> \in R /\ <<y, z>> \in R => <<x, z>> \in R
  /\ \A x \in S : <<x, x>> \notin R

(* A set in an order: every element once, none before one that precedes it. *)
LEMMA ArrangedIs ==
  ASSUME NEW S, IsFiniteSet(S), NEW R, Orders(R, S)
  PROVE  LET s == Arranged(S, R)
         IN  /\ IsList(s) /\ Range(s) = S /\ Len(s) = Cardinality(S)
             /\ \A a, b \in DOMAIN s : a < b => <<s[a], s[b]>> \in R
<1> DEFINE n == Cardinality(S)
           s == Arranged(S, R)
           Before(x) == {y \in S : <<y, x>> \in R}
           rank == [x \in S |-> Cardinality(Before(x))]
<1>1. n \in Nat
  BY FS_CardinalityType
<1>2. ASSUME NEW x \in S
      PROVE  IsFiniteSet(Before(x)) /\ rank[x] \in 0 .. n - 1
  <2>1. Before(x) \subseteq S /\ Before(x) # S
    BY DEF Orders
  <2> HIDE DEF Before
  <2>2. IsFiniteSet(Before(x)) /\ Cardinality(Before(x)) <= n /\ Cardinality(Before(x)) # n
    BY <2>1, FS_Subset
  <2>3. Cardinality(Before(x)) \in Nat
    BY <2>2, FS_CardinalityType
  <2> HIDE DEF n
  <2> QED
    BY <1>1, <2>2, <2>3
<1>3. ASSUME NEW x \in S, NEW y \in S, <<x, y>> \in R
      PROVE  rank[x] < rank[y]
  <2>1. Before(x) \subseteq Before(y) /\ x \in Before(y) /\ x \notin Before(x)
    BY <1>3 DEF Orders
  <2> HIDE DEF Before
  <2>2. Cardinality(Before(x)) <= Cardinality(Before(y)) /\ Cardinality(Before(x)) # Cardinality(Before(y))
    BY <1>2, <2>1, FS_Subset
  <2>3. rank[x] \in Nat /\ rank[y] \in Nat /\ rank[x] = Cardinality(Before(x)) /\ rank[y] = Cardinality(Before(y))
    BY <1>1, <1>2
  <2> QED
    BY <2>2, <2>3
<1>4. s = [k \in 1 .. n |-> CHOOSE x \in S : Cardinality(Before(x)) = k - 1]
  BY DEF Arranged
<1>5. \A x \in S : rank[x] = Cardinality(Before(x))
  OBVIOUS
<1>6. rank \in [S -> 0 .. n - 1]
  BY <1>2
<1>7. \A x, y \in S : x = y \/ <<x, y>> \in R \/ <<y, x>> \in R
  BY DEF Orders
<1> HIDE DEF rank, s, Before, n
<1>8. \A x, y \in S : rank[x] = rank[y] => x = y
  <2> SUFFICES ASSUME NEW x \in S, NEW y \in S, rank[x] = rank[y], x # y PROVE FALSE
    OBVIOUS
  <2>1. rank[x] < rank[y] \/ rank[y] < rank[x]
    BY <1>3, <1>7
  <2>2. rank[x] \in Int /\ rank[y] \in Int
    BY <1>1, <1>2
  <2> QED
    BY <2>1, <2>2
<1>9. \A k \in 1 .. n : \E x \in S : rank[x] = k - 1
  <2>1. rank \in Injection(S, 0 .. n - 1)
    BY <1>6, <1>8 DEF Injection, IsInjective
  <2>2. IsFiniteSet(0 .. n - 1) /\ Cardinality(0 .. n - 1) = n
    BY <1>1, FS_Interval
  <2>3. rank \in Surjection(S, 0 .. n - 1)
    BY <2>1, <2>2, FS_Injection DEF n
  <2>4. \A k \in 0 .. n - 1 : \E x \in S : rank[x] = k
    BY <2>3 DEF Surjection
  <2> QED
    BY <1>1, <2>4
<1>10. \A k \in 1 .. n : s[k] \in S /\ rank[s[k]] = k - 1
  BY <1>4, <1>5, <1>9
<1>11. DOMAIN s = 1 .. n /\ s = [k \in 1 .. n |-> s[k]]
  BY <1>4
<1>12. IsList(s) /\ Len(s) = n
  BY <1>1, <1>11, ListOf
<1>13. Range(s) = S
  <2>1. Range(s) \subseteq S
    BY <1>10, <1>11 DEF Range
  <2>2. ASSUME NEW x \in S PROVE x \in Range(s)
    <3>1. rank[x] + 1 \in 1 .. n /\ rank[x] = (rank[x] + 1) - 1
      BY <1>1, <1>2
    <3>2. s[rank[x] + 1] = x
      BY <1>8, <1>10, <3>1
    <3> QED
      BY <1>11, <3>1, <3>2 DEF Range
  <2> QED
    BY <2>1, <2>2
<1>14. ASSUME NEW a \in 1 .. n, NEW b \in 1 .. n, a < b PROVE <<s[a], s[b]>> \in R
  <2>1. rank[s[a]] < rank[s[b]]
    BY <1>1, <1>10, <1>14
  <2>2. s[a] # s[b] /\ ~(rank[s[b]] < rank[s[a]]) /\ s[a] \in S /\ s[b] \in S
    BY <1>1, <1>10, <1>14
  <2> QED
    BY <1>3, <1>7, <2>2
<1> QED
  BY <1>11, <1>12, <1>13, <1>14 DEF n, s

(* The rows of a table: one for each name, in how many commits it is *)
Rows(rows) ==
  /\ IsFiniteSet(rows)
  /\ \A r \in rows : r.name \in Range(Names) /\ r.commits \in Nat
  /\ \A r, q \in rows : r.name = q.name => r = q

LEMMA NamesOrder ==
  /\ \A a, b \in Range(Names) : a = b \/ Precedes(a, b) \/ Precedes(b, a)
  /\ \A a, b, c \in Range(Names) : Precedes(a, b) /\ Precedes(b, c) => Precedes(a, c)
  /\ \A a \in Range(Names) : ~Precedes(a, a)
<1> DEFINE D == DOMAIN Names
<1>1. D \subseteq Int /\ \A i, j \in D : Names[i] = Names[j] => i = j
  <2> DEFINE R == Range(Names)
  <2>1. Names \in Seq(R)
    BY NamesAssumption
  <2> HIDE DEF R
  <2>2. D = 1 .. Len(Names) /\ Len(Names) \in Nat
    BY <2>1
  <2>3. \A i, j \in D : Names[i] = Names[j] => i = j
    BY NamesAssumption DEF IsInjective
  <2> QED
    BY <2>2, <2>3
<1>2. \A a \in Range(Names) : \E i \in D : Names[i] = a
  BY DEF Range
<1>3. \A a, b : Precedes(a, b) <=> \E i, j \in D : i < j /\ Names[i] = a /\ Names[j] = b
  BY DEF Precedes
<1> HIDE DEF D
<1>4. \A a, b \in Range(Names) : a = b \/ Precedes(a, b) \/ Precedes(b, a)
  <2> TAKE a, b \in Range(Names)
  <2>1. PICK i \in D, j \in D : Names[i] = a /\ Names[j] = b
    BY <1>2
  <2>2. i < j \/ j < i \/ i = j
    BY <1>1
  <2> QED
    BY <1>3, <2>1, <2>2
<1>5. \A a, b, c : Precedes(a, b) /\ Precedes(b, c) => Precedes(a, c)
  <2> SUFFICES ASSUME NEW a, NEW b, NEW c, Precedes(a, b), Precedes(b, c) PROVE Precedes(a, c)
    OBVIOUS
  <2>1. PICK i \in D, j \in D : i < j /\ Names[i] = a /\ Names[j] = b
    BY <1>3
  <2>2. PICK k \in D, l \in D : k < l /\ Names[k] = b /\ Names[l] = c
    BY <1>3
  <2>3. j = k
    BY <1>1, <2>1, <2>2
  <2>4. i < l
    BY <1>1, <2>1, <2>2, <2>3
  <2> QED
    BY <1>3, <2>1, <2>2, <2>4
<1>6. \A a : ~Precedes(a, a)
  BY <1>1, <1>3
<1> QED
  BY <1>4, <1>5, <1>6

LEMMA RankedIs ==
  ASSUME NEW rows, Rows(rows)
  PROVE  LET s == Ranked(rows)
         IN  /\ IsList(s) /\ Range(s) = rows /\ Len(s) = Cardinality(rows)
             /\ \A a, b \in DOMAIN s : a < b => s[a] # s[b] /\ s[a].commits >= s[b].commits
<1> DEFINE R == {p \in rows \X rows : MostFirst(p[1], p[2])}
           s == Ranked(rows)
<1>1. s = Arranged(rows, R)
  BY DEF Ranked
<1>2. \A r, q \in rows : <<r, q>> \in R <=> MostFirst(r, q)
  OBVIOUS
<1> HIDE DEF R, s
<1>3. Orders(R, rows)
  <2>1. \A r, q \in rows : r = q \/ MostFirst(r, q) \/ MostFirst(q, r)
    BY NamesOrder DEF Rows, MostFirst
  <2>2. \A r, q, t \in rows : MostFirst(r, q) /\ MostFirst(q, t) => MostFirst(r, t)
    <3> SUFFICES ASSUME NEW r \in rows, NEW q \in rows, NEW t \in rows, MostFirst(r, q), MostFirst(q, t)
                 PROVE  MostFirst(r, t)
      OBVIOUS
    <3>1. /\ r.commits \in Nat /\ q.commits \in Nat /\ t.commits \in Nat
          /\ r.name \in Range(Names) /\ q.name \in Range(Names) /\ t.name \in Range(Names)
      BY DEF Rows
    <3>2. Precedes(r.name, q.name) /\ Precedes(q.name, t.name) => Precedes(r.name, t.name)
      BY <3>1, NamesOrder
    <3> QED
      BY <3>1, <3>2 DEF MostFirst
  <2>3. \A r \in rows : ~MostFirst(r, r)
    BY NamesOrder DEF Rows, MostFirst
  <2> QED
    BY <1>2, <2>1, <2>2, <2>3 DEF Orders
<1>4. /\ IsList(s) /\ Range(s) = rows /\ Len(s) = Cardinality(rows)
      /\ \A a, b \in DOMAIN s : a < b => <<s[a], s[b]>> \in R
  BY <1>1, <1>3, ArrangedIs DEF Rows
<1>5. ASSUME NEW a \in DOMAIN s, NEW b \in DOMAIN s, a < b PROVE s[a] # s[b] /\ s[a].commits >= s[b].commits
  <2>1. s[a] \in rows /\ s[b] \in rows
    BY <1>4 DEF Range
  <2>2. MostFirst(s[a], s[b])
    BY <1>2, <1>4, <1>5, <2>1
  <2>3. s[a].commits \in Nat /\ s[b].commits \in Nat
    BY <2>1 DEF Rows
  <2>4. s[a] # s[b]
    BY <1>3, <1>2, <2>1, <2>2 DEF Orders
  <2> QED
    BY <2>2, <2>3, <2>4 DEF MostFirst
<1> QED
  BY <1>4, <1>5 DEF s

-----------------------------------------------------------------------------
(* The rows of the tables of a digest                                      *)

LEMMA FiniteImage ==
  ASSUME NEW S, IsFiniteSet(S), NEW f
  PROVE  IsFiniteSet({f[x] : x \in S})
<1> DEFINE T == {f[x] : x \in S}
           g == [x \in S |-> f[x]]
<1>1. g \in Surjection(S, T)
  BY DEF Surjection
<1> HIDE DEF g, T
<1>2. IsFiniteSet(T)
  BY <1>1, FS_Surjection
<1> QED
  BY <1>2 DEF T

(* The rows of a table by key: one for each key that the commits have. *)
Grouped(rows, L, key) ==
  /\ IsFiniteSet(rows) /\ IsFiniteSet(L)
  /\ \A r, q \in rows : r.name = q.name => r = q
  /\ \A c \in L : \E r \in rows : r.name = key[c]

LEMMA GroupedSum ==
  ASSUME NEW rows, NEW L, NEW key, Grouped(rows, L, key), NEW f, Counts(f, L), NEW g,
         \A r \in rows : g[r] = Folded(f, {c \in L : key[c] = r.name})
  PROVE  SumFunctionOnSet(g, rows) = Folded(f, L)
<1> DEFINE part == [r \in rows |-> {c \in L : key[c] = r.name}]
<1>1. part \in [rows -> SUBSET L] /\ IsFiniteSet(rows)
  BY DEF Grouped
<1>2. \A r \in rows : g[r] = Folded(f, part[r])
  OBVIOUS
<1>3. \A r, q \in rows : r # q => part[r] \cap part[q] = {}
  BY DEF Grouped
<1>4. UNION {part[r] : r \in rows} = L
  BY DEF Grouped
<1> HIDE DEF part
<1>5. Counts(g, rows) /\ Folded(g, rows) = Folded(f, L)
  BY <1>1, <1>2, <1>3, <1>4, SumByParts
<1> QED
  BY <1>1, <1>5, SumIsFolded

AuthorRows(L, stats) ==
  LET Own(a) == {c \in L : AuthorOf[c] = a}
  IN  {[name |-> a, commits |-> Cardinality(Own(a)), lines |-> LinesOf(Own(a), stats)] : a \in {AuthorOf[c] : c \in L}}
TopicRows(L) ==
  {[name |-> t, commits |-> Cardinality({c \in L : TopicOf(c) = t})] : t \in {TopicOf(c) : c \in L}}
FileRows(L) ==
  {[name |-> p, commits |-> Cardinality({c \in L : p \in FilesOf(c)})] : p \in UNION {FilesOf(c) : c \in L}}

LEMMA FiniteCommits == \A L \in SUBSET Commits : IsFiniteSet(L) /\ Cardinality(L) \in Nat
<1> TAKE L \in SUBSET Commits
<1>1. IsFiniteSet(L)
  BY CommitsAssumption, FS_Subset
<1> QED
  BY <1>1, FS_CardinalityType

LEMMA AuthorRowsAre ==
  ASSUME NEW L \in SUBSET Commits, NEW stats
  PROVE  Rows(AuthorRows(L, stats)) /\ Grouped(AuthorRows(L, stats), L, AuthorOf)
<1> DEFINE row == [a \in {AuthorOf[c] : c \in L} |->
                     [name |-> a, commits |-> Cardinality({c \in L : AuthorOf[c] = a}),
                      lines |-> LinesOf({c \in L : AuthorOf[c] = a}, stats)]]
           A == {AuthorOf[c] : c \in L}
           rows == AuthorRows(L, stats)
<1>1. rows = {row[a] : a \in A}
  BY DEF AuthorRows
<1>2. \A a \in A : row[a].name = a /\ row[a].commits = Cardinality({c \in L : AuthorOf[c] = a})
  OBVIOUS
<1>3. A \subseteq Range(Names)
  BY NamesAssumption
<1>4. IsFiniteSet(L)
  BY FiniteCommits
<1>5. IsFiniteSet(A)
  <2> HIDE DEF row, rows
  <2> QED
    BY <1>4, FiniteImage
<1>6. \A a \in A : Cardinality({c \in L : AuthorOf[c] = a}) \in Nat
  BY FiniteCommits
<1>7. \A c \in L : AuthorOf[c] \in A
  OBVIOUS
<1> HIDE DEF row, A, rows
<1>8. IsFiniteSet(rows)
  BY <1>1, <1>5, FiniteImage
<1>9. Rows(rows)
  <2>1. \A r \in rows : r.name \in Range(Names) /\ r.commits \in Nat
    <3> TAKE r \in rows
    <3>1. PICK a \in A : r = row[a]
      BY <1>1
    <3> QED
      BY <3>1, <1>2, <1>3, <1>6
  <2>2. \A r, q \in rows : r.name = q.name => r = q
    <3> TAKE r, q \in rows
    <3>1. PICK a \in A : r = row[a]
      BY <1>1
    <3>2. PICK b \in A : q = row[b]
      BY <1>1
    <3> QED
      BY <3>1, <3>2, <1>2
  <2> QED
    BY <1>8, <2>1, <2>2 DEF Rows
<1>10. \A c \in L : \E r \in rows : r.name = AuthorOf[c]
  BY <1>1, <1>2, <1>7
<1>11. Grouped(rows, L, AuthorOf)
  BY <1>4, <1>8, <1>9, <1>10 DEF Rows, Grouped
<1> QED
  BY <1>9, <1>11 DEF rows

LEMMA TopicRowsAre ==
  ASSUME NEW L \in SUBSET Commits
  PROVE  Rows(TopicRows(L)) /\ Grouped(TopicRows(L), L, [c \in L |-> TopicOf(c)])
<1> DEFINE key == [c \in L |-> TopicOf(c)]
           A == {key[c] : c \in L}
           row == [t \in A |-> [name |-> t, commits |-> Cardinality({c \in L : TopicOf(c) = t})]]
           rows == TopicRows(L)
<1>1. rows = {row[a] : a \in A}
  BY DEF TopicRows
<1>2. \A a \in A : row[a].name = a /\ row[a].commits = Cardinality({c \in L : TopicOf(c) = a})
  OBVIOUS
<1>3. A \subseteq Range(Names)
  BY NamesAssumption
<1>4. IsFiniteSet(L)
  BY FiniteCommits
<1>5. IsFiniteSet(A)
  <2> HIDE DEF row, rows, key
  <2> QED
    BY <1>4, FiniteImage
<1>6. \A a \in A : Cardinality({c \in L : TopicOf(c) = a}) \in Nat
  BY FiniteCommits
<1>7. \A c \in L : key[c] \in A
  OBVIOUS
<1> HIDE DEF row, A, rows, key
<1>8. IsFiniteSet(rows)
  BY <1>1, <1>5, FiniteImage
<1>9. Rows(rows)
  <2>1. \A r \in rows : r.name \in Range(Names) /\ r.commits \in Nat
    <3> TAKE r \in rows
    <3>1. PICK a \in A : r = row[a]
      BY <1>1
    <3> QED
      BY <3>1, <1>2, <1>3, <1>6
  <2>2. \A r, q \in rows : r.name = q.name => r = q
    <3> TAKE r, q \in rows
    <3>1. PICK a \in A : r = row[a]
      BY <1>1
    <3>2. PICK b \in A : q = row[b]
      BY <1>1
    <3> QED
      BY <3>1, <3>2, <1>2
  <2> QED
    BY <1>8, <2>1, <2>2 DEF Rows
<1>10. \A c \in L : \E r \in rows : r.name = key[c]
  BY <1>1, <1>2, <1>7
<1>11. Grouped(rows, L, key)
  BY <1>4, <1>8, <1>9, <1>10 DEF Rows, Grouped
<1> QED
  BY <1>9, <1>11 DEF rows, key

LEMMA FileRowsAre ==
  ASSUME NEW L \in SUBSET Commits
  PROVE  Rows(FileRows(L)) /\ Cardinality(FileRows(L)) = Cardinality(UNION {FilesOf(c) : c \in L})
<1> DEFINE A == UNION {FilesOf(c) : c \in L}
           row == [t \in A |-> [name |-> t, commits |-> Cardinality({c \in L : t \in FilesOf(c)})]]
           rows == FileRows(L)
<1>1. rows = {row[a] : a \in A}
  BY DEF FileRows
<1>2. \A a \in A : row[a].name = a /\ row[a].commits = Cardinality({c \in L : a \in FilesOf(c)})
  OBVIOUS
<1>3. A \subseteq Range(Names)
  BY NamesAssumption
<1>4. IsFiniteSet(L)
  BY FiniteCommits
<1>5. IsFiniteSet(A)
  <2> DEFINE files == [c \in L |-> FilesOf(c)]
             path == [f \in UNION {ChangesOf[c] : c \in L} |-> f.path]
  <2>1. \A c \in L : IsFiniteSet(FilesOf(c))
    <3> TAKE c \in L
    <3> DEFINE of == [f \in ChangesOf[c] |-> f.path]
    <3>1. FilesOf(c) = {of[f] : f \in ChangesOf[c]}
      BY DEF FilesOf
    <3>2. IsFiniteSet(ChangesOf[c])
      BY CommitsAssumption
    <3> HIDE DEF of
    <3> QED
      BY <3>1, <3>2, FiniteImage
  <2>2. A = UNION {files[c] : c \in L} /\ \A c \in L : files[c] = FilesOf(c)
    OBVIOUS
  <2> HIDE DEF files, row, rows, A
  <2>3. IsFiniteSet({files[c] : c \in L})
    BY <1>4, FiniteImage
  <2>4. \A T \in {files[c] : c \in L} : IsFiniteSet(T)
    BY <2>1, <2>2
  <2> QED
    BY <2>2, <2>3, <2>4, FS_UNION
<1>6. \A a \in A : Cardinality({c \in L : a \in FilesOf(c)}) \in Nat
  BY FiniteCommits
<1>7. row \in Bijection(A, rows)
  <2>1. row \in [A -> rows]
    BY <1>1
  <2>2. \A a, b \in A : row[a] = row[b] => a = b
    BY <1>2
  <2>3. \A r \in rows : \E a \in A : row[a] = r
    BY <1>1
  <2> HIDE DEF row, A, rows
  <2> QED
    BY <2>1, <2>2, <2>3 DEF Bijection, Injection, Surjection, IsInjective
<1> HIDE DEF row, A, rows
<1>8. IsFiniteSet(rows) /\ Cardinality(rows) = Cardinality(A)
  BY <1>5, <1>7, FS_Bijection DEF ExistsBijection
<1>9. Rows(rows)
  <2>1. \A r \in rows : r.name \in Range(Names) /\ r.commits \in Nat
    <3> TAKE r \in rows
    <3>1. PICK a \in A : r = row[a]
      BY <1>1
    <3> QED
      BY <3>1, <1>2, <1>3, <1>6
  <2>2. \A r, q \in rows : r.name = q.name => r = q
    <3> TAKE r, q \in rows
    <3>1. PICK a \in A : r = row[a]
      BY <1>1
    <3>2. PICK b \in A : q = row[b]
      BY <1>1
    <3> QED
      BY <3>1, <3>2, <1>2
  <2> QED
    BY <1>8, <2>1, <2>2 DEF Rows
<1> QED
  BY <1>8, <1>9 DEF rows, A

-----------------------------------------------------------------------------
(* The rows of a table add up to the totals.                               *)

(* The rows of a table by key add up to all the commits, *)
Tallied(rows, L, key) == \A r \in rows : r.commits = Cardinality({c \in L : key[c] = r.name})
LEMMA CommitsAddUp ==
  ASSUME NEW L \in SUBSET Commits, NEW rows, NEW key, Grouped(rows, L, key), Tallied(rows, L, key)
  PROVE  SumFunction([r \in rows |-> r.commits]) = Cardinality(L)
<1> DEFINE one == [c \in L |-> 1]
           g == [r \in rows |-> r.commits]
<1>1. IsFiniteSet(L)
  BY FiniteCommits
<1>2. Counts(one, L) /\ \A s \in SUBSET L : Folded(one, s) = Cardinality(s)
  BY <1>1, SumOfOnes
<1>3. \A r \in rows : g[r] = r.commits
  OBVIOUS
<1>4. SumFunction(g) = SumFunctionOnSet(g, rows)
  BY DEF SumFunction
<1> HIDE DEF one, g
<1>5. \A r \in rows : {c \in L : key[c] = r.name} \in SUBSET L
  OBVIOUS
<1>6. \A r \in rows : g[r] = Folded(one, {c \in L : key[c] = r.name})
  BY <1>2, <1>3, <1>5 DEF Tallied
<1>7. SumFunctionOnSet(g, rows) = Folded(one, L)
  BY <1>2, <1>6, GroupedSum
<1> QED
  BY <1>2, <1>4, <1>7 DEF g

(* A column of the lines of some commits *)
LineColumn(stats, col) == [c \in Commits |-> IF c \in DOMAIN stats THEN stats[c][col] ELSE 0]

LEMMA LinesAreFolded ==
  ASSUME NEW C \in SUBSET Commits
  PROVE  LET N == Numstat(C)
         IN  /\ Counts(LineColumn(N, "added"), Commits) /\ Counts(LineColumn(N, "removed"), Commits)
             /\ \A S \in SUBSET Commits : /\ LinesOf(S, N).added = Folded(LineColumn(N, "added"), S)
                                          /\ LinesOf(S, N).removed = Folded(LineColumn(N, "removed"), S)
<1> DEFINE N == Numstat(C)
           Of(c) == IF c \in DOMAIN N THEN N[c] ELSE NoLines
           f == LineColumn(N, "added")
           h == LineColumn(N, "removed")
<1>1. DOMAIN N = C /\ \A c \in C : N[c].added \in Nat /\ N[c].removed \in Nat
  BY NumstatTyped
<1> HIDE DEF N
<1>2. \A c \in Commits : /\ f[c] = Of(c).added /\ h[c] = Of(c).removed
                         /\ f[c] \in Nat /\ h[c] \in Nat
  BY <1>1 DEF LineColumn, NoLines
<1>3. \A S : LinesOf(S, N) = [added |-> SumFunction([c \in S |-> Of(c).added]),
                              removed |-> SumFunction([c \in S |-> Of(c).removed])]
  BY DEF LinesOf
<1> HIDE DEF f, h, Of
<1>4. IsFiniteSet(Commits)
  BY CommitsAssumption
<1>5. Counts(f, Commits) /\ Counts(h, Commits)
  BY <1>2, <1>4 DEF Counts
<1>6. ASSUME NEW S \in SUBSET Commits
      PROVE  LinesOf(S, N).added = Folded(f, S) /\ LinesOf(S, N).removed = Folded(h, S)
  <2> DEFINE a == [c \in S |-> Of(c).added]
             b == [c \in S |-> Of(c).removed]
  <2>1. LinesOf(S, N).added = SumFunction(a) /\ LinesOf(S, N).removed = SumFunction(b)
    BY <1>3
  <2>2. SumFunction(a) = SumFunctionOnSet(a, S) /\ SumFunction(b) = SumFunctionOnSet(b, S)
    BY DEF SumFunction
  <2>3. \A c \in S : a[c] = f[c] /\ b[c] = h[c] /\ a[c] \in Nat /\ b[c] \in Nat
    BY <1>2
  <2> HIDE DEF a, b
  <2>4. IsFiniteSet(S)
    BY FiniteCommits
  <2>5. Counts(a, S) /\ Counts(b, S)
    BY <2>3, <2>4 DEF Counts
  <2>6. SumFunctionOnSet(a, S) = Folded(a, S)
    BY <2>4, <2>5, SumIsFolded DEF Counts
  <2>9. SumFunctionOnSet(b, S) = Folded(b, S)
    BY <2>4, <2>5, SumIsFolded DEF Counts
  <2>7. Folded(a, S) = Folded(f, S)
    BY <2>3, <2>5, SumEqual
  <2>8. Folded(b, S) = Folded(h, S)
    BY <2>3, <2>5, SumEqual
  <2> QED
    BY <2>1, <2>2, <2>6, <2>7, <2>8, <2>9
<1> QED
  BY <1>5, <1>6 DEF N, f, h

(* and so do their lines. *)
LEMMA LinesAddUp ==
  ASSUME NEW L \in SUBSET Commits, NEW C \in SUBSET Commits
  PROVE  LET rows == AuthorRows(L, Numstat(C))
         IN  LinesOf(L, Numstat(C)) = [added |-> SumFunction([r \in rows |-> r.lines.added]),
                                       removed |-> SumFunction([r \in rows |-> r.lines.removed])]
<1> DEFINE N == Numstat(C)
           rows == AuthorRows(L, N)
           f == LineColumn(N, "added")
           h == LineColumn(N, "removed")
           a == [r \in rows |-> r.lines.added]
           b == [r \in rows |-> r.lines.removed]
           own(r) == {c \in L : AuthorOf[c] = r.name}
<1>1. Counts(f, Commits) /\ Counts(h, Commits)
  BY LinesAreFolded
<1>2. \A S \in SUBSET Commits : LinesOf(S, N).added = Folded(f, S) /\ LinesOf(S, N).removed = Folded(h, S)
  BY LinesAreFolded
<1>3. Grouped(rows, L, AuthorOf)
  BY AuthorRowsAre
<1>4. \A r \in rows : r.lines = LinesOf(own(r), N)
  <2> TAKE r \in rows
  <2>1. PICK a0 \in {AuthorOf[c] : c \in L} :
          r = [name |-> a0, commits |-> Cardinality({c \in L : AuthorOf[c] = a0}),
               lines |-> LinesOf({c \in L : AuthorOf[c] = a0}, N)]
    BY DEF AuthorRows
  <2>2. r.name = a0 /\ r.lines = LinesOf({c \in L : AuthorOf[c] = a0}, N)
    BY <2>1
  <2> QED
    BY <2>2
<1>5. SumFunction(a) = SumFunctionOnSet(a, rows) /\ SumFunction(b) = SumFunctionOnSet(b, rows)
  BY DEF SumFunction
<1>6. \A r \in rows : a[r] = r.lines.added /\ b[r] = r.lines.removed
  OBVIOUS
<1>7. LinesOf(L, N) = [added |-> LinesOf(L, N).added, removed |-> LinesOf(L, N).removed]
  BY DEF LinesOf
<1> HIDE DEF N, rows, f, h, a, b
<1>8. \A r \in rows : own(r) \in SUBSET Commits
  OBVIOUS
<1>9. \A r \in rows : a[r] = Folded(f, own(r)) /\ b[r] = Folded(h, own(r))
  <2> HIDE DEF own
  <2> QED
    BY <1>2, <1>4, <1>6, <1>8
<1>10. Counts(f, L) /\ Counts(h, L)
  BY <1>1, FS_Subset DEF Counts
<1>11. SumFunctionOnSet(a, rows) = Folded(f, L)
  BY <1>3, <1>9, <1>10, GroupedSum
<1>12. SumFunctionOnSet(b, rows) = Folded(h, L)
  BY <1>3, <1>9, <1>10, GroupedSum
<1>13. LinesOf(L, N) = [added |-> SumFunction(a), removed |-> SumFunction(b)]
  BY <1>2, <1>5, <1>7, <1>11, <1>12
<1> QED
  BY <1>13 DEF N, rows, a, b

-----------------------------------------------------------------------------
(* The digest of some commits with some numstat                            *)

(* What the tables of a digest say of the commits it is made of *)
TablesTell(d) ==
  /\ IsList(d.byAuthor) /\ IsList(d.byTopic) /\ IsList(d.topFiles)
  /\ d.commits = SumFunction([r \in Range(d.byAuthor) |-> r.commits])
  /\ d.commits = SumFunction([r \in Range(d.byTopic) |-> r.commits])
  /\ d.lines = [added |-> SumFunction([r \in Range(d.byAuthor) |-> r.lines.added]),
                removed |-> SumFunction([r \in Range(d.byAuthor) |-> r.lines.removed])]

Touched(L) == UNION {FilesOf(c) : c \in L}
TimesIn(L, p) == Cardinality({c \in L : p \in FilesOf(c)})
Listing(top) == {top[k].name : k \in DOMAIN top}
TopTells(d, L) ==
  /\ \A k \in DOMAIN d.topFiles : d.topFiles[k].commits = TimesIn(L, d.topFiles[k].name)
  /\ \A p \in Touched(L) \ Listing(d.topFiles), q \in Listing(d.topFiles) : TimesIn(L, p) <= TimesIn(L, q)
  /\ Len(d.topFiles) = Cardinality(Listing(d.topFiles))
  /\ Listing(d.topFiles) # Touched(L) => Len(d.topFiles) = TopFilesLimit
  /\ d.filesChanged = Cardinality(Touched(L))

LEMMA TopFilesAre ==
  ASSUME NEW L \in SUBSET Commits
  PROVE  LET top == TopFiles(L)
         IN  /\ IsList(top)
             /\ \A k \in DOMAIN top : top[k].commits = TimesIn(L, top[k].name)
             /\ \A p \in Touched(L) \ Listing(top), q \in Listing(top) : TimesIn(L, p) <= TimesIn(L, q)
             /\ Len(top) = Cardinality(Listing(top))
             /\ Listing(top) # Touched(L) => Len(top) = TopFilesLimit
             /\ Len(AllFiles(L)) = Cardinality(Touched(L))
<1> DEFINE all == AllFiles(L)
           n == Len(all)
           m == IF n > TopFilesLimit THEN TopFilesLimit ELSE n
           top == TopFiles(L)
           rows == FileRows(L)
<1>1. all = Ranked(rows)
  BY DEF AllFiles, FileRows
<1>2. Rows(rows) /\ Cardinality(rows) = Cardinality(Touched(L))
  BY FileRowsAre DEF Touched
<1>3. top = SubSeq(all, 1, m)
  BY DEF TopFiles
<1>4. /\ \A r \in rows : r.name \in Touched(L) /\ r.commits = TimesIn(L, r.name)
      /\ \A p \in Touched(L) : \E r \in rows : r.name = p
  <2>1. rows = {[name |-> p, commits |-> TimesIn(L, p)] : p \in Touched(L)}
    BY DEF FileRows, Touched, TimesIn
  <2> HIDE DEF rows
  <2>2. ASSUME NEW r \in rows PROVE r.name \in Touched(L) /\ r.commits = TimesIn(L, r.name)
    <3>1. PICK p \in Touched(L) : r = [name |-> p, commits |-> TimesIn(L, p)]
      BY <2>1
    <3> QED
      BY <3>1
  <2>3. ASSUME NEW p \in Touched(L) PROVE \E r \in rows : r.name = p
    <3>1. [name |-> p, commits |-> TimesIn(L, p)] \in rows
      BY <2>1
    <3> QED
      BY <3>1
  <2> QED
    BY <2>2, <2>3
<1> HIDE DEF all, top, rows
<1>5. /\ IsList(all) /\ Range(all) = rows /\ n = Cardinality(rows)
      /\ \A a, b \in DOMAIN all : a < b => all[a] # all[b] /\ all[a].commits >= all[b].commits
  BY <1>1, <1>2, RankedIs
<1>6. n \in Nat /\ DOMAIN all = 1 .. n
  BY <1>5, ListIs
<1>7. TopFilesLimit \in Nat
  BY CommitsAssumption
<1>8. m \in Nat /\ m <= n /\ (m # n => m = TopFilesLimit)
  BY <1>6, <1>7
<1> HIDE DEF m, n
<1>9. DOMAIN top = 1 .. m /\ Len(top) = m /\ IsList(top) /\ \A k \in 1 .. m : top[k] = all[k]
  <2>1. all \in Seq(rows)
    BY <1>5 DEF IsList
  <2>2. top \in Seq(rows) /\ Len(top) = m /\ \A k \in 1 .. m : top[k] = all[k]
    <3>1. \A k \in 1 .. m : all[k] \in rows
      BY <1>5, <1>6, <1>8 DEF Range
    <3>2. 1 \in Int /\ m \in Int
      BY <1>8
    <3>3. /\ SubSeq(all, 1, m) \in Seq(rows)
          /\ Len(SubSeq(all, 1, m)) = IF 1 <= m THEN m - 1 + 1 ELSE 0
          /\ \A k \in 1 .. m - 1 + 1 : SubSeq(all, 1, m)[k] = all[1 + k - 1]
      BY <3>1, <3>2, SubSeqProperties
    <3> QED
      BY <1>3, <1>8, <3>3
  <2>3. IsList(top)
    BY <2>2, SeqIsList
  <2> QED
    BY <2>2, <2>3, ListIs
<1>10. \A k \in 1 .. n : all[k] \in rows
  BY <1>5, <1>6 DEF Range
<1>11. 1 .. m \subseteq 1 .. n
  BY <1>6, <1>8
<1>12. \A k \in 1 .. m : top[k] \in rows
  BY <1>9, <1>10, <1>11
<1>13. \A k \in DOMAIN top : top[k].commits = TimesIn(L, top[k].name)
  BY <1>4, <1>9, <1>12
<1>14. ASSUME NEW p \in Touched(L), p \notin Listing(top)
       PROVE  \E j \in 1 .. n : j > m /\ all[j].commits = TimesIn(L, p)
  <2>1. PICK r \in rows : r.name = p
    BY <1>4
  <2>2. PICK j \in 1 .. n : all[j] = r
    BY <1>5, <1>6 DEF Range
  <2>3. j \notin 1 .. m
    <3>1. j \in 1 .. m => top[j].name = p
      BY <1>9, <2>1, <2>2
    <3> QED
      BY <1>9, <1>14, <3>1 DEF Listing
  <2>4. j > m
    BY <1>6, <1>8, <2>3
  <2> QED
    BY <1>4, <2>1, <2>2, <2>4
<1>15. ASSUME NEW p \in Touched(L) \ Listing(top), NEW q \in Listing(top)
       PROVE  TimesIn(L, p) <= TimesIn(L, q)
  <2>1. PICK k \in 1 .. m : q = top[k].name
    BY <1>9 DEF Listing
  <2>2. PICK j \in 1 .. n : j > m /\ all[j].commits = TimesIn(L, p)
    BY <1>14
  <2>3. k < j /\ k \in 1 .. n
    BY <1>6, <1>8, <1>11, <2>2
  <2>4. all[k].commits >= all[j].commits
    BY <1>5, <1>6, <2>3
  <2>5. all[k].commits = TimesIn(L, q)
    BY <1>9, <1>13, <2>1
  <2>6. TimesIn(L, p) \in Nat /\ TimesIn(L, q) \in Nat
    BY FiniteCommits DEF TimesIn
  <2> QED
    BY <2>2, <2>4, <2>5, <2>6
<1>16. Len(top) = Cardinality(Listing(top))
  <2> DEFINE name == [k \in 1 .. m |-> top[k].name]
             D == 1 .. m
  <2>1. name \in [D -> Listing(top)]
    BY <1>9 DEF Listing
  <2>2. \A p \in Listing(top) : \E k \in D : name[k] = p
    BY <1>9 DEF Listing
  <2>3. ASSUME NEW a \in D, NEW b \in D, name[a] = name[b] PROVE a = b
    <3>1. top[a] = top[b]
      BY <1>2, <1>12, <2>3 DEF Rows
    <3>2. all[a] = all[b] /\ a \in DOMAIN all /\ b \in DOMAIN all
      BY <1>6, <1>9, <1>11, <3>1
    <3>3. ~(a < b) /\ ~(b < a)
      BY <1>5, <3>2
    <3> QED
      BY <3>3
  <2>4. IsFiniteSet(D) /\ Cardinality(D) = m
    <3>2. IsFiniteSet(D) /\ Cardinality(D) = IF 1 > m THEN 0 ELSE m - 1 + 1
      BY <1>8, FS_Interval
    <3> QED
      BY <1>8, <3>2
  <2> HIDE DEF name, D
  <2>5. name \in Bijection(D, Listing(top))
    BY <2>1, <2>2, <2>3 DEF Bijection, Injection, Surjection, IsInjective
  <2>6. Cardinality(Listing(top)) = Cardinality(D)
    BY <2>4, <2>5, FS_Bijection DEF ExistsBijection
  <2> QED
    BY <1>9, <2>4, <2>6
<1>17. Listing(top) # Touched(L) => Len(top) = TopFilesLimit
  <2>1. ASSUME m = n PROVE Listing(top) = Touched(L)
    <3>1. Listing(top) \subseteq Touched(L)
      BY <1>4, <1>9, <1>12 DEF Listing
    <3>2. \A p \in Touched(L) : p \in Listing(top)
      <4> TAKE p \in Touched(L)
      <4>1. ASSUME p \notin Listing(top) PROVE FALSE
        <5>1. PICK j \in 1 .. n : j > m
          BY <1>14, <4>1
        <5> QED
          BY <1>6, <2>1, <5>1
      <4> QED
        BY <4>1
    <3> QED
      BY <3>1, <3>2
  <2> QED
    BY <1>8, <1>9, <2>1
<1>18. Len(AllFiles(L)) = Cardinality(Touched(L))
  BY <1>2, <1>5 DEF all, n
<1> QED
  BY <1>9, <1>13, <1>15, <1>16, <1>17, <1>18 DEF top

LEMMA TablesAre ==
  ASSUME NEW L \in SUBSET Commits, NEW C \in SUBSET Commits
  PROVE  /\ TablesTell(AggregateDigest(L, Numstat(C)))
         /\ TopTells(AggregateDigest(L, Numstat(C)), L)
<1> DEFINE N == Numstat(C)
           d == AggregateDigest(L, N)
           as == AuthorRows(L, N)
           ts == TopicRows(L)
           key == [c \in L |-> TopicOf(c)]
<1>1. /\ d.commits = Cardinality(L) /\ d.filesChanged = Len(AllFiles(L)) /\ d.lines = LinesOf(L, N)
      /\ d.byAuthor = ByAuthor(L, N) /\ d.byTopic = ByTopic(L) /\ d.topFiles = TopFiles(L)
  BY DEF AggregateDigest, Total
<1>2. ByAuthor(L, N) = Ranked(as) /\ ByTopic(L) = Ranked(ts)
  BY DEF ByAuthor, ByTopic, AuthorRows, TopicRows
<1>3. Rows(as) /\ Grouped(as, L, AuthorOf)
  BY AuthorRowsAre
<1>4. Rows(ts) /\ Grouped(ts, L, key)
  BY TopicRowsAre
<1>5. Tallied(as, L, AuthorOf)
  <2> SUFFICES \A r \in as : r.commits = Cardinality({c \in L : AuthorOf[c] = r.name})
    BY DEF Tallied
  <2> TAKE r \in as
  <2>1. PICK a \in {AuthorOf[c] : c \in L} :
          r = [name |-> a, commits |-> Cardinality({c \in L : AuthorOf[c] = a}),
               lines |-> LinesOf({c \in L : AuthorOf[c] = a}, N)]
    BY DEF AuthorRows
  <2> QED
    BY <2>1
<1>6. Tallied(ts, L, key)
  <2> SUFFICES \A r \in ts : r.commits = Cardinality({c \in L : key[c] = r.name})
    BY DEF Tallied
  <2> TAKE r \in ts
  <2>1. r.commits = Cardinality({c \in L : TopicOf(c) = r.name})
    <3>1. PICK t \in {TopicOf(c) : c \in L} :
            r = [name |-> t, commits |-> Cardinality({c \in L : TopicOf(c) = t})]
      BY DEF TopicRows
    <3> QED
      BY <3>1
  <2>2. {c \in L : TopicOf(c) = r.name} = {c \in L : key[c] = r.name}
    OBVIOUS
  <2> QED
    BY <2>1, <2>2
<1>7. LinesOf(L, N) = [added |-> SumFunction([r \in as |-> r.lines.added]),
                       removed |-> SumFunction([r \in as |-> r.lines.removed])]
  BY LinesAddUp
<1> HIDE DEF as, ts, key, d, N
<1>8. IsList(Ranked(as)) /\ Range(Ranked(as)) = as
  BY <1>3, RankedIs
<1>9. IsList(Ranked(ts)) /\ Range(Ranked(ts)) = ts
  BY <1>4, RankedIs
<1>10. SumFunction([r \in as |-> r.commits]) = Cardinality(L)
    BY <1>3, <1>5, CommitsAddUp
<1>11. SumFunction([r \in ts |-> r.commits]) = Cardinality(L)
  BY <1>4, <1>6, CommitsAddUp
<1>12. TablesTell(d)
  BY <1>1, <1>2, <1>7, <1>8, <1>9, <1>10, <1>11, TopFilesAre DEF TablesTell
<1>13. TopTells(d, L)
  BY <1>1, TopFilesAre DEF TopTells
<1> QED
  BY <1>12, <1>13 DEF d, N

-----------------------------------------------------------------------------
(* The repositories asked for                                              *)

Listable == Seq(DOMAIN Abs \cup {Empty})

LEMMA GivenIs ==
  ASSUME NEW raw \in Listable
  PROVE  IsList(Given(raw)) /\ Range(Given(raw)) \subseteq DOMAIN Abs \cap Range(raw)
<1> DEFINE n == Len(raw)
           own(i) == IF raw[i] = Empty THEN <<>> ELSE <<raw[i]>>
           parts == [i \in DOMAIN raw |-> own(i)]
<1>1. /\ n \in Nat /\ DOMAIN raw = 1 .. n
      /\ \A i \in 1 .. n : raw[i] \in Range(raw) /\ raw[i] \in DOMAIN Abs \cup {Empty}
  BY DEF Listable, Range
<1>2. Given(raw) = FlattenSeq(parts)
  BY DEF Given
<1>3. parts = [i \in 1 .. n |-> parts[i]] /\ \A i \in 1 .. n : parts[i] = own(i)
  BY <1>1
<1>4. \A i \in 1 .. n : IsList(own(i)) /\ Range(own(i)) \subseteq DOMAIN Abs \cap Range(raw)
  <2> TAKE i \in 1 .. n
  <2>1. CASE raw[i] = Empty
    BY <2>1, Lists0
  <2>2. CASE raw[i] # Empty
    BY <1>1, <2>2, Lists1
  <2> QED
    BY <2>1, <2>2
<1>5. DOMAIN parts = 1 .. n
  BY <1>1
<1> HIDE DEF n, own, parts
<1>6. IsList(FlattenSeq(parts)) /\ Range(FlattenSeq(parts)) = Union(parts)
  BY <1>1, <1>3, <1>4, FlattenList
<1>7. Union(parts) \subseteq DOMAIN Abs \cap Range(raw)
  BY <1>3, <1>4, <1>5 DEF Union
<1> QED
  BY <1>2, <1>6, <1>7

LEMMA NormalizedIs ==
  ASSUME NEW raw \in Listable
  PROVE  LET p == NormalizeRepoPaths(raw)
         IN  /\ IsList(p) /\ Len(p) = Len(Given(raw))
             /\ \A i \in DOMAIN p : p[i] = Abs[Given(raw)[i]] /\ p[i] \in Range(Abs)
             /\ raw = <<>> => p = <<>>
<1> DEFINE g == Given(raw)
           n == Len(g)
           p == NormalizeRepoPaths(raw)
<1>1. IsList(g) /\ Range(g) \subseteq DOMAIN Abs \cap Range(raw)
  BY GivenIs
<1>2. p = [i \in DOMAIN g |-> Abs[g[i]]]
  BY DEF NormalizeRepoPaths
<1> HIDE DEF g, p
<1>3. n \in Nat /\ DOMAIN g = 1 .. n
  BY <1>1, ListIs
<1> HIDE DEF n
<1>4. DOMAIN p = 1 .. n /\ p = [i \in 1 .. n |-> p[i]] /\ \A i \in 1 .. n : p[i] = Abs[g[i]]
  BY <1>2, <1>3
<1>5. IsList(p) /\ Len(p) = n
  BY <1>3, <1>4, ListOf
<1>6. \A i \in 1 .. n : g[i] \in DOMAIN Abs /\ g[i] \in Range(raw)
  BY <1>1, <1>3 DEF Range
<1>7. \A i \in 1 .. n : p[i] \in Range(Abs)
  BY <1>4, <1>6 DEF Range
<1>8. ASSUME raw = <<>> PROVE p = <<>>
  <2>1. Range(raw) = {}
    BY <1>8 DEF Range
  <2>2. n = 0
    BY <1>3, <1>6, <2>1
  <2> QED
    BY <1>5, <2>2, ListIs
<1> QED
  BY <1>4, <1>5, <1>7, <1>8 DEF n, g, p

Answers(p, asked) ==
  /\ IsList(p) /\ \A i \in DOMAIN p : p[i] \in Range(Abs) \cup {"."}
  /\ asked # <<>> => Len(p) = Len(Given(asked)) /\ \A i \in DOMAIN p : p[i] = Abs[Given(asked)[i]]
  /\ asked = <<>> => p = <<>> \/ p = <<".">>

LEMMA PathsAnswer ==
  \A r \in Requests : Answers(DigestRepoPaths(r.repos, r.config), IF r.repos # NotSet THEN r.repos ELSE r.config)
<1> TAKE r \in Requests
<1>1. {r.repos, r.config} \subseteq Listable \cup {NotSet} /\ r.config # NotSet
  BY RequestsAssumption DEF Listable
<1>2. \A raw \in Listable : Answers(NormalizeRepoPaths(raw), raw)
  <2> TAKE raw \in Listable
  <2> QED
    BY NormalizedIs DEF Answers
<1>3. CASE r.repos # NotSet
  BY <1>1, <1>2, <1>3 DEF DigestRepoPaths
<1>4. CASE r.repos = NotSet /\ r.config # <<>>
  BY <1>1, <1>2, <1>4 DEF DigestRepoPaths
<1>5. CASE r.repos = NotSet /\ r.config = <<>>
  <2>1. DigestRepoPaths(r.repos, r.config) = <<".">>
    BY <1>5 DEF DigestRepoPaths
  <2>2. IsList(<<".">>) /\ \A i \in DOMAIN <<".">> : <<".">>[i] = "."
    BY Lists1
  <2> QED
    BY <1>5, <2>1, <2>2 DEF Answers
<1> QED
  BY <1>3, <1>4, <1>5

-----------------------------------------------------------------------------
(* How the report of a repository comes from what git said of it           *)
Reported(d, path, log) ==
  /\ d.path = path /\ d.ok \in BOOLEAN
  /\ d.ok => /\ d = RepoOK(path, d.digest, d.trend) /\ d.trend \in Nat
             /\ TablesTell(d.digest) /\ TopTells(d.digest, log.commits)
  /\ ~d.ok => d = RepoFailed(path, d.err) /\ d.err \in Nat

AskedPaths == DigestRepoPaths(request.repos, request.config)
AnswerInv ==
  /\ request \in Requests
  /\ pc \in {"start", "refused", "collect", "built", "printed", "viewing"}
  /\ pc \in {"start", "refused"} => paths = <<>>
  /\ pc \in {"start", "refused", "collect"} => repos = <<>>
  /\ pc \notin {"start", "refused"} => paths = AskedPaths /\ paths # <<>>
ErrorsInv == \A i \in DOMAIN paths : \A o \in {logged[i], counted[i]} : o.status = "failed" => o.err \in Nat
ReportedInv ==
  pc \in {"built", "printed", "viewing"} =>
    /\ repos = [i \in DOMAIN paths |-> repos[i]]
    /\ \A i \in DOMAIN paths : Reported(repos[i], paths[i], logged[i])
RangesInv ==
  /\ \A r \in DOMAIN head : head[r] \in Commits \cup {Unborn}
  /\ moves \in 0 .. MaxMoves
  /\ shown \in {"no", "yes", "quit"} /\ (shown = "no" <=> lines = 0) /\ ready \in BOOLEAN
ReportInv == AnswerInv /\ ErrorsInv /\ ReportedInv /\ RangesInv

-----------------------------------------------------------------------------
(* What the viewer is given                                                *)

(* A report has a line that is not blank, so the viewer has one to show.   *)
LEMMA Greatest ==
  ASSUME NEW n \in Nat
  PROVE  \A T \in SUBSET (1 .. n) : T # {} => Max(T) \in T
<1> DEFINE Q == {k \in Nat : \A T \in SUBSET (1 .. k) : T # {} => \E x \in T : \A y \in T : x >= y}
<1>1. 0 \in Q
  <2>1. 1 .. 0 = {}
    OBVIOUS
  <2> QED
    BY <2>1
<1>2. ASSUME NEW k \in Nat, k \in Q PROVE k + 1 \in Q
  <2>1. ASSUME NEW T \in SUBSET (1 .. k + 1), T # {} PROVE \E x \in T : \A y \in T : x >= y
    <3>1. CASE k + 1 \in T
      BY <3>1
    <3>2. CASE k + 1 \notin T
      <4>1. T \in SUBSET (1 .. k)
        BY <3>2
      <4> QED
        BY <1>2, <2>1, <4>1
    <3> QED
      BY <3>1, <3>2
  <2> QED
    BY <2>1
<1>3. n \in Q
  <2> HIDE DEF Q
  <2> QED
    BY <1>1, <1>2, SetInduction
<1>4. \A T \in SUBSET (1 .. n) : T # {} => \E x \in T : \A y \in T : x >= y
  BY <1>3
<1> QED
  BY <1>4 DEF Max

LEMMA ShownIs ==
  ASSUME NEW text, IsList(text), \E l \in Range(text) : l # Blank
  PROVE  Len(Shown(text)) # 0
<1> DEFINE T == {i \in DOMAIN text : text[i] # Blank}
           m == Max(T)
           n == Len(text)
<1>1. n \in Nat /\ DOMAIN text = 1 .. n
  BY ListIs
<1>2. T # {} /\ T \in SUBSET (1 .. n)
  BY <1>1 DEF Range
<1>3. Shown(text) = SubSeq(text, 1, m)
  BY DEF Shown
<1> HIDE DEF T, n
<1>4. m \in 1 .. n
  BY <1>1, <1>2, Greatest
<1> HIDE DEF m
<1>5. \A i \in 1 .. m : text[i] \in Range(text)
  BY <1>1, <1>4 DEF Range
<1>6. 1 \in Int /\ m \in Int /\ 1 <= m
  BY <1>1, <1>4
<1>7. Len(SubSeq(text, 1, m)) = IF 1 <= m THEN m - 1 + 1 ELSE 0
  BY <1>5, <1>6, SubSeqProperties
<1> QED
  BY <1>3, <1>6, <1>7

(* When the report is built, its repositories are what TextIs asks for.    *)
Printable(rs) ==
  IsList(rs) /\ rs # <<>> /\ \A i \in DOMAIN rs : Shape(rs[i])

LEMMA ReportedShape ==
  ASSUME NEW d, NEW path, NEW log, Reported(d, path, log)
  PROVE  Shape(d)
<1>1. CASE d.ok
  <2>1. d = RepoOK(path, d.digest, d.trend) /\ d.trend \in Nat /\ TablesTell(d.digest)
    BY <1>1 DEF Reported
  <2>2. d.err = 0
    BY <2>1 DEF RepoOK
  <2> QED
    BY <2>1, <2>2 DEF Shape, TablesTell
<1>2. CASE ~d.ok
  <2>1. d = RepoFailed(path, d.err) /\ d.err \in Nat
    BY <1>2 DEF Reported
  <2>2. d.digest = ZeroDigest /\ d.trend = 0
    BY <2>1 DEF RepoFailed
  <2>3. ZeroDigest.byAuthor = <<>> /\ ZeroDigest.byTopic = <<>> /\ ZeroDigest.topFiles = <<>>
    BY DEF ZeroDigest
  <2> QED
    BY <2>1, <2>2, <2>3, Lists0 DEF Shape
<1> QED
  BY <1>1, <1>2

LEMMA ReportPrintable ==
  ASSUME AnswerInv, ReportedInv, pc \in {"built", "printed", "viewing"}
  PROVE  Printable(repos) /\ Len(repos) = Len(paths) /\ DOMAIN repos = DOMAIN paths
<1>1. paths = AskedPaths /\ paths # <<>>
  BY DEF AnswerInv
<1>2. IsList(AskedPaths)
  BY PathsAnswer DEF Answers, AskedPaths, AnswerInv
<1> DEFINE n == Len(paths)
<1>3. n \in Nat /\ DOMAIN paths = 1 .. n /\ n # 0
  BY <1>1, <1>2, ListIs
<1> HIDE DEF n
<1>4. repos = [i \in 1 .. n |-> repos[i]] /\ \A i \in 1 .. n : Reported(repos[i], paths[i], logged[i])
  BY <1>3 DEF ReportedInv
<1>5. DOMAIN repos = 1 .. n
  BY <1>4
<1>6. IsList(repos) /\ Len(repos) = n
  BY <1>3, <1>4, <1>5, ListOf
<1>7. \A i \in 1 .. n : Shape(repos[i])
  BY <1>4, ReportedShape
<1>8. repos # <<>>
  BY <1>3, <1>6
<1> QED
  BY <1>3, <1>5, <1>6, <1>7, <1>8 DEF Printable, n

-----------------------------------------------------------------------------
LEMMA InitReport == Init => ReportInv
<1> SUFFICES ASSUME Init PROVE ReportInv
  OBVIOUS
<1>1. AnswerInv /\ ErrorsInv /\ ReportedInv
  BY DEF Init, AnswerInv, ErrorsInv, ReportedInv
<1>2. head \in Histories
  BY DEF Init
<1>3. \A r \in DOMAIN head : head[r] \in Commits \cup {Unborn}
  BY <1>2, WindowAssumption
<1>4. moves = 0 /\ 0 \in 0 .. MaxMoves
  BY WindowAssumption DEF Init
<1>5. shown = "no" /\ lines = 0 /\ ready = FALSE
  BY DEF Init, TUIInit
<1>6. RangesInv
  BY <1>3, <1>4, <1>5 DEF RangesInv
<1> QED
  BY <1>1, <1>6 DEF ReportInv

LEMMA StartsReport ==
  ASSUME ReportInv, Starts
  PROVE  ReportInv'
<1>1. AnswerInv'
  BY DEF ReportInv, AnswerInv, AskedPaths, Starts
<1>2. ErrorsInv'
  <2>1. \A i \in DOMAIN paths' : logged'[i] = Waiting /\ counted'[i] = Waiting
    BY DEF Starts
  <2>2. Waiting.status # "failed"
    BY DEF Waiting
  <2> QED
    BY <2>1, <2>2 DEF ErrorsInv
<1>3. ReportedInv'
  BY DEF Starts, ReportedInv
<1>4. RangesInv'
  BY DEF ReportInv, RangesInv, Starts, world, tuiVars
<1> QED
  BY <1>1, <1>2, <1>3, <1>4 DEF ReportInv

LEMMA ProcessReport ==
  ASSUME ReportInv, NEW i \in DOMAIN paths, pc = "collect", UNCHANGED <<request, world, pc, paths, repos, tuiVars>>,
         NEW o, o.status = "failed" => o.err \in Nat,
         DOMAIN logged = DOMAIN paths, DOMAIN counted = DOMAIN paths,
         \/ logged' = [logged EXCEPT ![i] = o] /\ UNCHANGED counted
         \/ counted' = [counted EXCEPT ![i] = o] /\ UNCHANGED logged
  PROVE  ReportInv'
<1>1. AnswerInv'
  BY DEF ReportInv, AnswerInv, AskedPaths
<1>2. ErrorsInv'
  <2>1. \A j \in DOMAIN paths : \A x \in {logged'[j], counted'[j]} : x \in {logged[j], counted[j], o}
    OBVIOUS
  <2> QED
    BY <2>1 DEF ReportInv, ErrorsInv
<1>3. ReportedInv'
  BY DEF ReportedInv
<1>4. RangesInv'
  BY DEF ReportInv, RangesInv, world, tuiVars
<1> QED
  BY <1>1, <1>2, <1>3, <1>4 DEF ReportInv

LEMMA ListedErrors == \A i : Listed(i).status = "failed" => Listed(i).err \in Nat
<1> TAKE i
<1>1. Failed(1).err \in Nat
  BY DEF Failed
<1>2. \A c : Got(c).status # "failed"
  BY DEF Got
<1>3. Listed(i) = Failed(1) \/ \E c : Listed(i) = Got(c)
  BY DEF Listed
<1> QED
  BY <1>1, <1>2, <1>3

LEMMA BuildsReport ==
  ASSUME ViewInv, ReportInv, Builds
  PROVE  ReportInv'
<1>1. PICK rows \in [Range(paths) -> TrendRows], first \in [DOMAIN paths -> {"log", "numstat"}] :
        repos' = [i \in DOMAIN paths |-> Built(i, rows[paths[i]], first[i])]
  BY DEF Builds
<1>2. AnswerInv'
  BY DEF ReportInv, AnswerInv, AskedPaths, Builds
<1>3. ErrorsInv'
  BY DEF ReportInv, ErrorsInv, Builds
<1>4. RangesInv'
  BY DEF ReportInv, RangesInv, Builds, world, tuiVars
<1>5. ASSUME NEW i \in DOMAIN paths PROVE Reported(repos'[i], paths[i], logged[i])
  <2> DEFINE d == Built(i, rows[paths[i]], first[i])
             trend == rows[paths[i]]
  <2>1. trend \in Nat
    BY WindowAssumption DEF Range
  <2>2. logged[i] # Waiting /\ counted[i] # Waiting /\ Told(logged[i], paths[i]) /\ Told(counted[i], paths[i])
    BY DEF Builds, ViewInv, ToldInv
  <2>3. logged[i].status \in {"ok", "failed"} /\ counted[i].status \in {"ok", "failed"}
    BY <2>2 DEF Told, Got
  <2>4. CASE logged[i].status = "ok" /\ counted[i].status = "ok"
    <3> DEFINE L == logged[i].commits
               C == counted[i].commits
               made == AggregateDigest(L, Numstat(C))
    <3>1. L \in SUBSET Commits /\ C \in SUBSET Commits
      BY <2>2, <2>4 DEF Told
    <3> HIDE DEF L, C
    <3>2. TablesTell(made) /\ TopTells(made, L)
      BY <3>1, TablesAre
    <3>3. d = RepoOK(paths[i], made, trend)
      BY <2>4 DEF Built, L, C
    <3> HIDE DEF d, made, trend
    <3>4. d.path = paths[i] /\ d.ok = TRUE /\ d.digest = made /\ d.trend = trend
      BY <3>3 DEF RepoOK
    <3>5. Reported(d, paths[i], logged[i])
      BY <2>1, <3>2, <3>3, <3>4 DEF Reported, L
    <3> QED
      BY <1>1, <3>5 DEF d
  <2>5. CASE ~(logged[i].status = "ok" /\ counted[i].status = "ok")
    <3>1. PICK e \in {logged[i].err, counted[i].err} : d = RepoFailed(paths[i], e) /\ e \in Nat
      <4> DEFINE log == logged[i]
                 numstat == counted[i]
                 of(o) == IF o = "log" THEN log ELSE numstat
                 failed == {o \in {"log", "numstat"} : of(o).status = "failed"}
                 told == IF first[i] \in failed THEN first[i] ELSE CHOOSE o \in failed : TRUE
      <4>1. d = RepoFailed(paths[i], of(told).err)
        BY <2>5 DEF Built
      <4>2. failed # {}
        BY <2>3, <2>5
      <4>3. told \in failed
        BY <4>2
      <4>4. told \in {"log", "numstat"} /\ of(told).status = "failed"
        BY <4>3
      <4>5. of(told) \in {logged[i], counted[i]}
        OBVIOUS
      <4> HIDE DEF of, told
      <4>6. of(told).err \in Nat
        BY <4>4, <4>5 DEF ReportInv, ErrorsInv
      <4> QED
        BY <4>1, <4>5, <4>6
    <3> HIDE DEF d
    <3>2. d.path = paths[i] /\ d.ok = FALSE /\ d.err = e
      BY <3>1 DEF RepoFailed
    <3>3. Reported(d, paths[i], logged[i])
      BY <3>1, <3>2 DEF Reported
    <3> QED
      BY <1>1, <3>3 DEF d
  <2> QED
    BY <2>4, <2>5
<1>6. ReportedInv'
  <2>1. repos' = [i \in DOMAIN paths |-> repos'[i]]
    BY <1>1
  <2>2. UNCHANGED <<paths, logged>>
    BY DEF Builds
  <2> QED
    BY <1>5, <2>1, <2>2 DEF ReportedInv
<1> QED
  BY <1>2, <1>3, <1>4, <1>6 DEF ReportInv

LEMMA ViewsReport ==
  ASSUME ReportInv, Views
  PROVE  ReportInv'
<1>1. AnswerInv' /\ ErrorsInv' /\ ReportedInv'
  BY DEF ReportInv, AnswerInv, AskedPaths, ErrorsInv, ReportedInv, Views
<1>2. Printable(repos)
  BY ReportPrintable DEF ReportInv, Views
<1>3. IsList(Text(repos)) /\ \E l \in Range(Text(repos)) : l # Blank
  BY <1>2, TextIs DEF Printable
<1>4. Len(Shown(Text(repos))) # 0
  BY <1>3, ShownIs
<1>5. New(Len(Shown(Text(repos))))
  BY DEF Views
<1>6. shown' = "yes" /\ lines' # 0 /\ UNCHANGED ready
  BY <1>4, <1>5 DEF New
<1>7. RangesInv'
  BY <1>6 DEF ReportInv, RangesInv, Views, world
<1> QED
  BY <1>1, <1>7 DEF ReportInv

LEMMA ScrollsReport ==
  ASSUME ReportInv, Update, UNCHANGED <<request, world, work>>
  PROVE  ReportInv'
<1>1. AnswerInv' /\ ErrorsInv' /\ ReportedInv'
  BY DEF ReportInv, AnswerInv, AskedPaths, ErrorsInv, ReportedInv, work
<1>2. shown = "yes" /\ shown' \in {"yes", "quit"} /\ lines' = lines /\ (ready' = TRUE \/ ready' = ready)
  BY DEF Update, Resize, Up, Down, PageUp, PageDown, Quit, Moves
<1>3. RangesInv'
  BY <1>2 DEF ReportInv, RangesInv, world
<1> QED
  BY <1>1, <1>3 DEF ReportInv

LEMMA HeadMovesReport ==
  ASSUME ReportInv, HeadMoves
  PROVE  ReportInv'
<1>1. AnswerInv' /\ ErrorsInv' /\ ReportedInv'
  BY DEF ReportInv, AnswerInv, AskedPaths, ErrorsInv, ReportedInv, HeadMoves, work
<1>2. PICK c \in Heads : \E r : head' = [head EXCEPT ![r] = c]
  BY DEF HeadMoves
<1>3. c \in Commits
  BY WindowAssumption
<1>4. \A x \in DOMAIN head' : head'[x] \in Commits \cup {Unborn}
  BY <1>2, <1>3 DEF ReportInv, RangesInv
<1>5. moves' \in 0 .. MaxMoves
  BY WindowAssumption DEF HeadMoves, ReportInv, RangesInv
<1>6. RangesInv'
  BY <1>4, <1>5 DEF ReportInv, RangesInv, HeadMoves, tuiVars
<1> QED
  BY <1>1, <1>6 DEF ReportInv

LEMMA NextReport == ViewInv /\ ReportInv /\ [Next]_vars => ReportInv'
<1> SUFFICES ASSUME ViewInv, ReportInv, [Next]_vars PROVE ReportInv'
  OBVIOUS
<1>1. CASE Starts
  BY <1>1, StartsReport
<1>2. ASSUME NEW i \in DOMAIN paths, LogSince(i) PROVE ReportInv'
  BY <1>2, ListedErrors, ProcessReport DEF LogSince, ViewInv, ToldInv
<1>3. ASSUME NEW i \in DOMAIN paths, NumstatSince(i) PROVE ReportInv'
  BY <1>3, ListedErrors, ProcessReport DEF NumstatSince, ViewInv, ToldInv
<1>4. ASSUME NEW i \in DOMAIN paths, GitFails(i) PROVE ReportInv'
  <2>1. Failed(2).err \in Nat
    BY DEF Failed
  <2> QED
    BY <1>4, <2>1, ProcessReport DEF GitFails, ViewInv, ToldInv
<1>5. CASE Builds
  BY <1>5, BuildsReport
<1>6. CASE HeadMoves
  BY <1>6, HeadMovesReport
<1>7. CASE Views
  BY <1>7, ViewsReport
<1>8. CASE Scrolls
  BY <1>8, ScrollsReport DEF Scrolls
<1>9. CASE Refuses \/ Prints
  BY <1>9 DEF Refuses, Prints, ReportInv, AnswerInv, AskedPaths, ErrorsInv, ReportedInv, RangesInv, world, tuiVars
<1>10. CASE UNCHANGED vars
  BY <1>10 DEF vars, world, work, tuiVars, ReportInv, AnswerInv, AskedPaths, ErrorsInv, ReportedInv, RangesInv
<1> QED
  BY <1>1, <1>2, <1>3, <1>4, <1>5, <1>6, <1>7, <1>8, <1>9, <1>10 DEF Next

-----------------------------------------------------------------------------
(* From the report to its text and its JSON document                       *)

(* The lines of the summary of several repositories                        *)
LEMMA SummaryIs ==
  ASSUME NEW rs
  PROVE  {<<"requested", Len(rs)>>, <<"ok", Cardinality(OK(rs))>>, <<"failed", FailedOf(rs)>>,
          <<"combined commits", Combined(rs).commits>>,
          <<"combined lines", [added |-> Combined(rs).added, removed |-> Combined(rs).removed]>>}
           \subseteq Range(OverallSummary(rs))
<1> DEFINE c == <<"requested", Len(rs)>>
           o == <<"ok", Cardinality(OK(rs))>>
           f == <<"failed", FailedOf(rs)>>
           m == <<"combined commits", Combined(rs).commits>>
           s == <<"combined lines", [added |-> Combined(rs).added, removed |-> Combined(rs).removed]>>
           end == OverallSummary(rs)
<1>1. end = <<<<"overall">>, Blank, c, o, f, m, s>>
  BY DEF OverallSummary
<1> HIDE DEF c, o, f, m, s, end
<1>2. Range(end) = {<<"overall">>, Blank, c, o, f, m, s}
  BY <1>1, Lists7
<1>3. {c, o, f, m, s} \subseteq Range(end)
  BY <1>2
<1> QED
  BY <1>3 DEF c, o, f, m, s, end

LEMMA InRange ==
  ASSUME NEW s, NEW l \in Range(s)
  PROVE  In(s, l) /\ \E k \in DOMAIN s : s[k] = l
  BY DEF Range, In

(* The rows of a repository in the text are those of its digest. *)
LEMMA RowsAre ==
  ASSUME NEW rs, Printable(rs), NEW i \in DOMAIN rs, rs[i].ok
  PROVE  /\ RowsIn(Text(rs), i, "author") = Range(rs[i].digest.byAuthor)
         /\ RowsIn(Text(rs), i, "topic") = Range(rs[i].digest.byTopic)
         /\ Wanted(i, rs[i]) \subseteq Range(Text(rs))
<1> DEFINE text == Text(rs)
<1>1. \A l \in Range(text) : l[1] = "row" => \E j \in DOMAIN rs : l \in Range(Body(j, rs[j]))
  BY TextIs DEF Printable
<1>2. \A j \in DOMAIN rs : \A l \in Range(Body(j, rs[j])) : Says(j, rs[j], l)
  BY BodyIs DEF Printable
<1>3. Wanted(i, rs[i]) \subseteq Range(Body(i, rs[i]))
  BY BodyIs DEF Printable
<1>4. Range(Body(i, rs[i])) \subseteq Range(text)
  BY TextIs DEF Printable
<1> HIDE DEF text
<1>5. \A k \in DOMAIN text : text[k] \in Range(text)
  BY DEF Range
<1>6. ASSUME NEW k \in DOMAIN text, text[k][1] = "row", text[k][2] = i PROVE Says(i, rs[i], text[k])
  <2>1. PICK j \in DOMAIN rs : text[k] \in Range(Body(j, rs[j]))
    BY <1>1, <1>5, <1>6
  <2>2. Says(j, rs[j], text[k])
    BY <1>2, <2>1
  <2>3. j = i
    BY <1>6, <2>2 DEF Says
  <2> QED
    BY <2>2, <2>3
<1>7. ASSUME NEW title \in {"author", "topic"},
             NEW rows, rows = IF title = "author" THEN rs[i].digest.byAuthor ELSE rs[i].digest.byTopic
      PROVE  RowsIn(text, i, title) = Range(rows)
  <2>1. ASSUME NEW x \in RowsIn(text, i, title) PROVE x \in Range(rows)
    <3>1. PICK k \in DOMAIN text : text[k][1] = "row" /\ text[k][2] = i /\ text[k][3] = title /\ x = text[k][4]
      BY DEF RowsIn
    <3>2. Says(i, rs[i], text[k])
      BY <1>6, <3>1
    <3> QED
      BY <1>7, <3>1, <3>2 DEF Says
  <2>2. ASSUME NEW x \in Range(rows) PROVE x \in RowsIn(text, i, title)
    <3>1. <<"row", i, title, x>> \in Wanted(i, rs[i])
      BY <1>7 DEF Wanted, RowLines
    <3>2. PICK k \in DOMAIN text : text[k] = <<"row", i, title, x>>
      BY <1>3, <1>4, <3>1, InRange
    <3>3. text[k][1] = "row" /\ text[k][2] = i /\ text[k][3] = title /\ text[k][4] = x
      BY <3>2
    <3> QED
      BY <3>3 DEF RowsIn
  <2> QED
    BY <2>1, <2>2
<1>8. RowsIn(text, i, "author") = Range(rs[i].digest.byAuthor)
  BY <1>7
<1>9. RowsIn(text, i, "topic") = Range(rs[i].digest.byTopic)
  BY <1>7
<1> QED
  BY <1>3, <1>4, <1>8, <1>9 DEF text

(* A repository that failed does not look like one where nothing happened. *)
LEMMA FailedNotQuiet ==
  ASSUME NEW rs, Printable(rs), NEW i \in DOMAIN rs, ~rs[i].ok
  PROVE  ~Quiet(Text(rs), i)
<1> DEFINE text == Text(rs)
<1>1. \A l \in Range(text) : l[1] \in {"nothing", "summary"} => \E j \in DOMAIN rs : l \in Range(Body(j, rs[j]))
  BY TextIs DEF Printable
<1>2. \A j \in DOMAIN rs : \A l \in Range(Body(j, rs[j])) : Says(j, rs[j], l)
  BY BodyIs DEF Printable
<1> HIDE DEF text
<1>3. ASSUME NEW k \in DOMAIN text, text[k] \in {<<"nothing", i>>, <<"summary", i>>} PROVE FALSE
  <2>1. text[k] \in Range(text) /\ text[k][1] \in {"nothing", "summary"} /\ text[k][2] = i
    BY <1>3 DEF Range
  <2>2. PICK j \in DOMAIN rs : Says(j, rs[j], text[k])
    BY <1>1, <1>2, <2>1
  <2> QED
    BY <2>1, <2>2 DEF Says
<1> QED
  BY <1>3 DEF Quiet, text

(* The ones that failed, in the order of the report *)
LEMMA FailedAre ==
  ASSUME NEW rs, IsList(rs)
  PROVE  LET failing == DOMAIN rs \ OK(rs)
         IN  /\ Range(FailedOf(rs)) = failing /\ Len(FailedOf(rs)) = Cardinality(failing)
             /\ Cardinality(OK(rs)) \in Nat /\ Cardinality(failing) = Len(rs) - Cardinality(OK(rs))
<1> DEFINE n == Len(rs)
           F == DOMAIN rs \ OK(rs)
           R == {p \in F \X F : p[1] < p[2]}
<1>1. n \in Nat /\ DOMAIN rs = 1 .. n
  BY ListIs
<1>2. OK(rs) \subseteq DOMAIN rs
  BY DEF OK
<1>3. FailedOf(rs) = Arranged(F, R)
  BY DEF FailedOf
<1> DEFINE D == DOMAIN rs
<1>4. IsFiniteSet(D) /\ Cardinality(D) = n
  <2>1. IsFiniteSet(1 .. n) /\ Cardinality(1 .. n) = IF 1 > n THEN 0 ELSE n - 1 + 1
    BY <1>1, FS_Interval
  <2> QED
    BY <1>1, <2>1
<1>5. F \subseteq D /\ F \subseteq Nat
  BY <1>1
<1>6. \A x, y \in F : <<x, y>> \in R <=> x < y
  OBVIOUS
<1>7. F = D \ OK(rs) /\ D \cap OK(rs) = OK(rs)
  BY <1>2
<1> HIDE DEF F, R, D, n
<1>8. IsFiniteSet(F) /\ IsFiniteSet(OK(rs)) /\ Cardinality(OK(rs)) \in Nat
  BY <1>2, <1>4, <1>5, FS_Subset, FS_CardinalityType DEF D
<1>9. Orders(R, F)
  <2>1. \A x, y \in F : x = y \/ x < y \/ y < x
    BY <1>5
  <2>2. \A x, y, z \in F : x < y /\ y < z => x < z
    BY <1>5
  <2>3. \A x \in F : ~(x < x)
    BY <1>5
  <2> QED
    BY <1>6, <2>1, <2>2, <2>3 DEF Orders
<1>10. Range(Arranged(F, R)) = F /\ Len(Arranged(F, R)) = Cardinality(F)
  BY <1>8, <1>9, ArrangedIs
<1>11. Cardinality(F) = n - Cardinality(OK(rs))
  BY <1>4, <1>7, FS_Difference
<1> QED
  BY <1>3, <1>8, <1>10, <1>11 DEF F, n

(* What the JSON document says of each repository *)
LEMMA JsonIs ==
  ASSUME NEW rs, \A i \in DOMAIN rs : rs[i].ok \in BOOLEAN
  PROVE  /\ \A i \in DOMAIN rs : Json(rs).repos[i].ok = rs[i].ok
         /\ \A i \in OK(rs) : Json(rs).repos[i].stats = rs[i].digest
         /\ DOMAIN Json(rs).repos = DOMAIN rs
         /\ Json(rs).overall = JsonOverall(rs)
<1> DEFINE rows == [i \in DOMAIN rs |-> JsonRepo(rs[i])]
<1>1. Json(rs) = [repos |-> rows, overall |-> JsonOverall(rs)]
  BY DEF Json
<1>2. DOMAIN rows = DOMAIN rs /\ \A i \in DOMAIN rs : rows[i] = JsonRepo(rs[i])
  OBVIOUS
<1> HIDE DEF rows
<1>3. Json(rs).repos = rows /\ Json(rs).overall = JsonOverall(rs)
  BY <1>1
<1>4. \A i \in DOMAIN rs : JsonRepo(rs[i]).ok = rs[i].ok
  BY DEF JsonRepo
<1>5. \A i \in OK(rs) : JsonRepo(rs[i]).stats = rs[i].digest /\ i \in DOMAIN rs
  BY DEF JsonRepo, OK
<1> QED
  BY <1>2, <1>3, <1>4, <1>5

-----------------------------------------------------------------------------
LEMMA InvNumbers == ReportInv => NumbersAddUp
<1> SUFFICES ASSUME ReportInv, pc = "built" PROVE NumbersAddUp
  BY DEF NumbersAddUp
<1> DEFINE text == Text(repos)
           json == Json(repos)
           overall == json.overall
           Failing == {i \in DOMAIN repos : ~json.repos[i].ok}
           Whole == DOMAIN json.repos \ Failing
           Stats(i) == json.repos[i].stats
<1>1. Printable(repos) /\ DOMAIN repos = DOMAIN paths
  BY ReportPrintable DEF ReportInv
<1>2. \A i \in DOMAIN repos : Reported(repos[i], paths[i], logged[i])
  BY <1>1 DEF ReportInv, ReportedInv
<1>3. \A i \in DOMAIN repos : repos[i].ok \in BOOLEAN /\ (repos[i].ok => TablesTell(repos[i].digest))
  BY <1>2 DEF Reported
<1>4. /\ \A i \in DOMAIN repos : json.repos[i].ok = repos[i].ok
      /\ \A i \in OK(repos) : Stats(i) = repos[i].digest
      /\ DOMAIN json.repos = DOMAIN repos /\ overall = JsonOverall(repos)
  BY <1>3, JsonIs
<1>5. /\ overall.requested = Len(repos) /\ overall.ok = Cardinality(OK(repos))
      /\ overall.failed = Len(repos) - Cardinality(OK(repos)) /\ overall.combined = Combined(repos)
  BY <1>4 DEF JsonOverall, JsonCombined, Combined
<1> HIDE DEF text, json, overall
<1>6. Failing = DOMAIN repos \ OK(repos) /\ Whole = OK(repos)
  BY <1>4 DEF OK
<1>7. ASSUME NEW i \in DOMAIN repos PROVE IF repos[i].ok THEN RepoAddsUp(text, i) ELSE ~Quiet(text, i)
  <2>1. CASE ~repos[i].ok
    BY <1>1, <2>1, FailedNotQuiet DEF text
  <2>2. CASE repos[i].ok
    <3> DEFINE d == repos[i].digest
    <3>1. /\ RowsIn(text, i, "author") = Range(d.byAuthor) /\ RowsIn(text, i, "topic") = Range(d.byTopic)
          /\ Wanted(i, repos[i]) \subseteq Range(text)
      BY <1>1, <2>2, RowsAre DEF text
    <3>2. TablesTell(d)
      BY <1>3, <2>2
    <3>3. {<<"commits", i, d.commits>>, <<"lines", i, d.lines>>} \subseteq Range(text)
      BY <3>1 DEF Wanted
    <3> HIDE DEF d
    <3>4. In(text, <<"commits", i, d.commits>>) /\ In(text, <<"lines", i, d.lines>>)
      BY <3>3, InRange
    <3>5. RepoAddsUp(text, i)
      BY <3>1, <3>2, <3>4 DEF RepoAddsUp, TablesTell
    <3> QED
      BY <2>2, <3>5
  <2> QED
    BY <2>1, <2>2
<1>8. Len(repos) \in Nat /\ IsList(repos)
  BY <1>1, ListIs DEF Printable
<1>9. /\ Range(FailedOf(repos)) = Failing /\ Len(FailedOf(repos)) = Cardinality(Failing)
      /\ Cardinality(OK(repos)) \in Nat /\ Cardinality(Failing) = Len(repos) - Cardinality(OK(repos))
  <2> HIDE DEF Failing
  <2> QED
    BY <1>6, <1>8, FailedAre
<1>10. overall.ok + overall.failed = overall.requested /\ overall.failed = Cardinality(Failing)
  <2> HIDE DEF Failing
  <2> QED
    BY <1>5, <1>8, <1>9
<1>11. /\ overall.combined.commits = SumFunction([i \in Whole |-> Stats(i).commits])
       /\ overall.combined.added = SumFunction([i \in Whole |-> Stats(i).lines.added])
       /\ overall.combined.removed = SumFunction([i \in Whole |-> Stats(i).lines.removed])
  <2>1. /\ Combined(repos).commits = SumFunction([i \in OK(repos) |-> repos[i].digest.commits])
        /\ Combined(repos).added = SumFunction([i \in OK(repos) |-> repos[i].digest.lines.added])
        /\ Combined(repos).removed = SumFunction([i \in OK(repos) |-> repos[i].digest.lines.removed])
    BY DEF Combined
  <2> HIDE DEF Whole, Stats
  <2>2. [i \in Whole |-> Stats(i).commits] = [i \in OK(repos) |-> repos[i].digest.commits]
    BY <1>4, <1>6
  <2>3. [i \in Whole |-> Stats(i).lines.added] = [i \in OK(repos) |-> repos[i].digest.lines.added]
    BY <1>4, <1>6
  <2>4. [i \in Whole |-> Stats(i).lines.removed] = [i \in OK(repos) |-> repos[i].digest.lines.removed]
    BY <1>4, <1>6
  <2> QED
    BY <1>5, <2>1, <2>2, <2>3, <2>4
<1>12. ASSUME Len(repos) > 1
       PROVE  /\ In(text, <<"requested", overall.requested>>) /\ In(text, <<"ok", overall.ok>>)
              /\ In(text, <<"combined commits", overall.combined.commits>>)
              /\ In(text, <<"combined lines", [added |-> overall.combined.added,
                                               removed |-> overall.combined.removed]>>)
              /\ \E names \in {text[k][2] : k \in {j \in DOMAIN text : text[j][1] = "failed"}} :
                   Range(names) = Failing /\ Len(names) = overall.failed
  <2> DEFINE c == <<"requested", Len(repos)>>
             o == <<"ok", Cardinality(OK(repos))>>
             f == <<"failed", FailedOf(repos)>>
             m == <<"combined commits", Combined(repos).commits>>
             s == <<"combined lines", [added |-> Combined(repos).added, removed |-> Combined(repos).removed]>>
  <2>1. Range(OverallSummary(repos)) \subseteq Range(text)
    BY <1>1, <1>12, TextIs DEF Printable, text
  <2>2. {c, o, f, m, s} \subseteq Range(text)
    BY <2>1, SummaryIs
  <2> HIDE DEF c, o, f, m, s
  <2>3. In(text, c) /\ In(text, o) /\ In(text, m) /\ In(text, s)
    BY <2>2, InRange
  <2>4. PICK k \in DOMAIN text : text[k] = f
    BY <2>2, InRange
  <2>5. text[k][1] = "failed" /\ text[k][2] = FailedOf(repos)
    BY <2>4 DEF f
  <2>6. FailedOf(repos) \in {text[j][2] : j \in {x \in DOMAIN text : text[x][1] = "failed"}}
    BY <2>5
  <2>7. Range(FailedOf(repos)) = Failing /\ Len(FailedOf(repos)) = overall.failed
    BY <1>9, <1>10
  <2>8. c = <<"requested", overall.requested>> /\ o = <<"ok", overall.ok>>
    BY <1>5 DEF c, o
  <2>9. m = <<"combined commits", overall.combined.commits>>
    BY <1>5, Zenon DEF m
  <2>10. s = <<"combined lines", [added |-> overall.combined.added, removed |-> overall.combined.removed]>>
    BY <1>5, Zenon DEF s
  <2> HIDE DEF Failing
  <2> QED
    BY <2>3, <2>6, <2>7, <2>8, <2>9, <2>10
<1> HIDE DEF Failing, Whole, Stats
<1>13. NumbersAddUp <=> 
        /\ \A i \in DOMAIN repos : IF repos[i].ok THEN RepoAddsUp(text, i) ELSE ~Quiet(text, i)
        /\ overall.ok + overall.failed = overall.requested /\ overall.failed = Cardinality(Failing)
        /\ overall.combined.commits = SumFunction([i \in Whole |-> Stats(i).commits])
        /\ overall.combined.added = SumFunction([i \in Whole |-> Stats(i).lines.added])
        /\ overall.combined.removed = SumFunction([i \in Whole |-> Stats(i).lines.removed])
        /\ Len(repos) > 1 =>
             /\ In(text, <<"requested", overall.requested>>) /\ In(text, <<"ok", overall.ok>>)
             /\ In(text, <<"combined commits", overall.combined.commits>>)
             /\ In(text, <<"combined lines", [added |-> overall.combined.added,
                                              removed |-> overall.combined.removed]>>)
             /\ \E names \in {text[k][2] : k \in {j \in DOMAIN text : text[j][1] = "failed"}} :
                  Range(names) = Failing /\ Len(names) = overall.failed
  BY DEF NumbersAddUp, Failing, Whole, Stats, overall, text, json
<1> QED
  BY <1>7, <1>10, <1>11, <1>12, <1>13

LEMMA InvTopFiles == ReportInv => TopFilesFirst
<1> SUFFICES ASSUME ReportInv, pc = "built", NEW i \in DOMAIN repos, repos[i].ok
             PROVE  LET top == repos[i].digest.topFiles
                        Times(p) == Cardinality({c \in logged[i].commits : p \in FilesOf(c)})
                        touched == UNION {FilesOf(c) : c \in logged[i].commits}
                        listed == {top[k].name : k \in DOMAIN top}
                    IN  /\ \A k \in DOMAIN top : top[k].commits = Times(top[k].name)
                        /\ \A p \in touched \ listed, q \in listed : Times(p) <= Times(q)
                        /\ Len(top) = Cardinality(listed)
                        /\ listed # touched => Len(top) = TopFilesLimit
                        /\ repos[i].digest.filesChanged = Cardinality(touched)
  BY DEF TopFilesFirst
<1>1. DOMAIN repos = DOMAIN paths
  BY ReportPrintable DEF ReportInv
<1>2. TopTells(repos[i].digest, logged[i].commits)
  BY <1>1 DEF ReportInv, ReportedInv, Reported
<1> QED
  BY <1>2 DEF TopTells, TimesIn, Touched, Listing

LEMMA InvAnswers == ReportInv => AskedIsAnswered
<1> SUFFICES ASSUME ReportInv, pc = "built"
             PROVE  /\ Asked # <<>> => /\ Len(repos) = Len(Given(Asked)) /\ Len(Given(Asked)) > 0
                                      /\ \A i \in DOMAIN repos : repos[i].path = Abs[Given(Asked)[i]]
                    /\ Asked = <<>> => Len(repos) = 1 /\ repos[1].path = "."
  BY DEF AskedIsAnswered
<1>1. Answers(AskedPaths, Asked)
  BY PathsAnswer DEF AskedPaths, Asked, ReportInv, AnswerInv
<1>2. paths = AskedPaths /\ paths # <<>>
  BY DEF ReportInv, AnswerInv
<1>3. Len(repos) = Len(paths) /\ DOMAIN repos = DOMAIN paths
  BY ReportPrintable DEF ReportInv
<1>4. \A i \in DOMAIN repos : repos[i].path = paths[i]
  BY <1>3 DEF ReportInv, ReportedInv, Reported
<1>5. Len(paths) \in Nat /\ DOMAIN paths = 1 .. Len(paths) /\ Len(paths) # 0
  BY <1>1, <1>2, ListIs DEF Answers
<1>6. ASSUME Asked # <<>>
      PROVE  /\ Len(repos) = Len(Given(Asked)) /\ Len(Given(Asked)) > 0
             /\ \A i \in DOMAIN repos : repos[i].path = Abs[Given(Asked)[i]]
  BY <1>1, <1>2, <1>3, <1>4, <1>5, <1>6 DEF Answers
<1>7. ASSUME Asked = <<>> PROVE Len(repos) = 1 /\ repos[1].path = "."
  <2>1. paths = <<".">>
    BY <1>1, <1>2, <1>7 DEF Answers
  <2>2. Len(paths) = 1 /\ paths[1] = "."
    BY <2>1
  <2> QED
    BY <1>3, <1>4, <1>5, <2>2
<1> QED
  BY <1>6, <1>7

LEMMA InvReportType == Inside /\ ViewInv /\ ReportInv => TypeOK
<1> SUFFICES ASSUME Inside, ViewInv, ReportInv PROVE TypeOK
  OBVIOUS
<1>1. \A i \in DOMAIN paths : paths[i] \in Range(Abs) \cup {"."}
  <2>1. \A i \in DOMAIN AskedPaths : AskedPaths[i] \in Range(Abs) \cup {"."}
    BY PathsAnswer DEF Answers, AskedPaths, ReportInv, AnswerInv
  <2> QED
    BY <2>1 DEF ReportInv, AnswerInv
<1>2. \A i \in DOMAIN repos : repos[i].path = paths[i]
  <2>1. CASE pc \in {"built", "printed", "viewing"}
    <3>1. DOMAIN repos = DOMAIN paths
      BY <2>1, ReportPrintable DEF ReportInv
    <3> QED
      BY <2>1, <3>1 DEF ReportInv, ReportedInv, Reported
  <2>2. CASE pc \notin {"built", "printed", "viewing"}
    BY <2>2 DEF ReportInv, AnswerInv
  <2> QED
    BY <2>1, <2>2
<1>3. \A r \in DOMAIN head : head[r] \in Commits \cup {Unborn} /\ stays[r] \subseteq Window(r, head)
  BY DEF ViewInv, HeadInv, ReportInv, RangesInv
<1>4. DOMAIN logged = DOMAIN paths /\ DOMAIN counted = DOMAIN paths
  BY DEF ViewInv, ToldInv
<1> QED
  BY <1>1, <1>2, <1>3, <1>4 DEF TypeOK, Inside, ReportInv, AnswerInv, RangesInv

(* For any requests, histories, moves of the heads and failures, any       *)
(* authors, types and paths, and any length of the list of files: a digest *)
(* is about the repositories asked for, the rows of its tables add up to   *)
(* the totals in the text and in the JSON document, a repository that      *)
(* failed is named as such and never looks quiet, and no file is left out  *)
(* for one that was changed less often.                                    *)
THEOREM ReportSoundHolds == Spec => []ReportSound
<1>1. Init => ViewInv /\ ReportInv
  BY InitTold, InitReport
<1>2. ViewInv /\ ReportInv /\ [Next]_vars => ViewInv' /\ ReportInv'
  BY NextTold, NextReport
<1>3. Inside /\ ViewInv /\ ReportInv => ReportSound
  BY InvNumbers, InvTopFiles, InvAnswers, InvReportType DEF ReportSound
<1> QED
  BY <1>1, <1>2, <1>3, UsesViewer, TUIInside, PTL DEF Spec

-----------------------------------------------------------------------------
(* The worker pool, for every number of repositories and every concurrency *)
(* argument.                                                               *)
(*                                                                         *)
(* OneWriter and CompleteOnReturn are not inductive.  SlotInv adds why     *)
(* they hold: the dispatcher's index separates the slots somebody owns or  *)
(* has written from those nobody has touched, and the slot a busy worker   *)
(* owns is still unwritten.                                                *)

USE NReposAssumption, ConcurrencyAssumption, PathAssumption

Written(i) == results[i].path = PathOf[i] /\ results[i].outcome # "none"

(* Every slot below next is written or owned by a busy worker; every slot  *)
(* from next on is untouched; an owned slot is unwritten.                  *)
SlotInv ==
  /\ \A w \in Workers : Busy(w) => job[w] \in Repos /\ job[w] < next
  /\ \A w \in Workers : Busy(w) => results[job[w]] = Unwritten
  /\ \A i \in Repos : results[i] = Unwritten \/ Written(i)
  /\ \A i \in Repos : i < next =>
       Written(i) \/ \E w \in Workers : Busy(w) /\ job[w] = i
  /\ \A i \in Repos : i >= next /\ phase # "returned" => results[i] = Unwritten

PhaseInv ==
  /\ phase = "wait" => next = NRepos + 1
  /\ phase = "returned" => AllDone /\ \A i \in Repos : Written(i)

(* The errors in flight: only a git that failed after the group had kept   *)
(* an error carries "siblingKilled", so that one is never kept.            *)
ErrorInv ==
  /\ phase = "waitCancelled" => cancelled
  /\ \A w \in Workers : firstErr[w] # "siblingKilled"
  /\ \A w \in Workers : firstErr[w] = "cancelled" => cancelled
  /\ \A w \in Workers, g \in Gits :
       /\ git[w][g] = "siblingKilled" => firstErr[w] # "none"
       /\ git[w][g] = "cancelled" => cancelled

-----------------------------------------------------------------------------
LEMMA PoolSizePositive == PoolSize \in Nat \ {0} /\ PoolSize <= NRepos
BY DEF PoolSize

LEMMA UnwrittenType == Unwritten \in [path : Paths \cup {EmptyPath}, outcome : Outcomes]
BY DEF Unwritten, Outcomes

LEMMA WriteType ==
  ASSUME PoolTypeOK, NEW w \in Workers, job[w] \in Repos,
         NEW o \in Outcomes, WriteResult(w, o)
  PROVE  /\ results' \in [Repos -> [path : Paths \cup {EmptyPath}, outcome : Outcomes]]
         /\ wstate' \in [Workers -> {"receive", "start", "open", "git", "done"}]
<1>1. [path |-> PathOf[job[w]], outcome |-> o] \in [path : Paths \cup {EmptyPath}, outcome : Outcomes]
  OBVIOUS
<1>2. QED
  BY <1>1 DEF WriteResult, PoolTypeOK

(* The outcome a worker writes at the end of collectOne. *)
LEMMA FinishOutcome ==
  ASSUME PoolTypeOK, NEW w \in Workers
  PROVE  (IF firstErr[w] = "none" THEN "digest" ELSE firstErr[w]) \in Outcomes \ {"none"}
BY DEF PoolTypeOK, Outcomes, Errors

LEMMA RunErrorType ==
  ASSUME NEW w \in Workers
  PROVE  RunError(w) \in Errors
BY DEF RunError, Errors

LEMMA FillType ==
  ASSUME PoolTypeOK
  PROVE  FillCancelled(results) \in [Repos -> [path : Paths \cup {EmptyPath}, outcome : Outcomes]]
<1>1. ASSUME NEW i \in Repos
      PROVE  [path |-> PathOf[i], outcome |-> "cancelled"]
               \in [path : Paths \cup {EmptyPath}, outcome : Outcomes]
  BY DEF Outcomes, Errors
<1>2. QED
  BY <1>1 DEF FillCancelled, PoolTypeOK

-----------------------------------------------------------------------------
(* Type correctness.  The part of SlotInv that it needs: a busy worker has *)
(* a job.                                                                  *)
BusyHasJob == \A w \in Workers : Busy(w) => job[w] \in Repos

LEMMA TypeInit == PoolInit => PoolTypeOK /\ BusyHasJob
<1> SUFFICES ASSUME PoolInit PROVE PoolTypeOK /\ BusyHasJob
  OBVIOUS
<1>1. NoGit \in [Gits -> GitStates]
  BY DEF NoGit, GitStates
<1>2. PoolTypeOK
  <2>1. next \in 1 .. NRepos + 1 /\ job \in [Workers -> 0 .. NRepos]
    BY DEF PoolInit
  <2>2. results \in [Repos -> [path : Paths \cup {EmptyPath}, outcome : Outcomes]]
    BY UnwrittenType DEF PoolInit
  <2>3. git \in [Workers -> [Gits -> GitStates]]
    BY <1>1 DEF PoolInit
  <2>4. wstate \in [Workers -> {"receive", "start", "open", "git", "done"}]
    BY DEF PoolInit
  <2>5. firstErr \in [Workers -> {"none"} \cup Errors]
    BY DEF PoolInit
  <2>6. QED
    BY <2>1, <2>2, <2>3, <2>4, <2>5 DEF PoolInit, PoolTypeOK
<1>3. BusyHasJob
  BY DEF PoolInit, BusyHasJob, Busy
<1>4. QED
  BY <1>2, <1>3

LEMMA TypeStep == PoolTypeOK /\ BusyHasJob /\ [PoolNext]_poolVars => PoolTypeOK' /\ BusyHasJob'
<1> SUFFICES ASSUME PoolTypeOK, BusyHasJob, [PoolNext]_poolVars
             PROVE  PoolTypeOK' /\ BusyHasJob'
  OBVIOUS
<1> USE DEF BusyHasJob, Busy
<1>1. CASE Cancel
  BY <1>1 DEF Cancel, PoolTypeOK
<1>2. CASE Dispatcher
  <2>1. CASE CloseJobs
    BY <2>1 DEF CloseJobs, PoolTypeOK
  <2>2. CASE StopDispatching
    BY <2>2 DEF StopDispatching, PoolTypeOK
  <2>3. CASE Return
    BY <2>3 DEF Return, PoolTypeOK
  <2>4. CASE ReturnCancelled
    BY <2>4, FillType DEF ReturnCancelled, PoolTypeOK
  <2>5. QED
    BY <1>2, <2>1, <2>2, <2>3, <2>4 DEF Dispatcher
<1>3. ASSUME NEW w \in Workers, Handoff(w)
      PROVE  PoolTypeOK' /\ BusyHasJob'
  <2>1. next \in Repos /\ next' \in 1 .. NRepos + 1
    BY <1>3 DEF Handoff, PoolTypeOK, Repos
  <2>2. PoolTypeOK'
    BY <1>3, <2>1 DEF Handoff, PoolTypeOK, Repos
  <2>3. BusyHasJob'
    BY <1>3, <2>1 DEF Handoff, PoolTypeOK
  <2>4. QED
    BY <2>2, <2>3
<1>4. ASSUME NEW w \in Workers, WorkerStep(w)
      PROVE  PoolTypeOK' /\ BusyHasJob'
  <2>1. CASE CollectCancelled(w)
    <3>1. "cancelled" \in Outcomes
      BY DEF Outcomes, Errors
    <3>2. PoolTypeOK'
      BY <2>1, <3>1, WriteType DEF CollectCancelled, PoolTypeOK
    <3>3. BusyHasJob'
      BY <2>1 DEF CollectCancelled, WriteResult, PoolTypeOK
    <3>4. QED
      BY <3>2, <3>3
  <2>2. CASE CheckCtx(w)
    BY <2>2 DEF CheckCtx, PoolTypeOK
  <2>3. CASE CollectNoGit(w)
    <3>1. "noGit" \in Outcomes
      BY DEF Outcomes, Errors
    <3>2. PoolTypeOK'
      BY <2>3, <3>1, WriteType DEF CollectNoGit, PoolTypeOK
    <3>3. BusyHasJob'
      BY <2>3 DEF CollectNoGit, WriteResult, PoolTypeOK
    <3>4. QED
      BY <3>2, <3>3
  <2>4. CASE SpawnGits(w)
    BY <2>4 DEF SpawnGits, PoolTypeOK, GitStates
  <2>5. CASE FinishRepo(w)
    <3>1. NoGit \in [Gits -> GitStates]
      BY DEF NoGit, GitStates
    <3>2. PoolTypeOK'
      BY <2>5, <3>1, FinishOutcome, WriteType DEF FinishRepo, PoolTypeOK
    <3>3. BusyHasJob'
      BY <2>5 DEF FinishRepo, WriteResult, PoolTypeOK
    <3>4. QED
      BY <3>2, <3>3
  <2>6. CASE WorkerExits(w)
    BY <2>6 DEF WorkerExits, PoolTypeOK
  <2>7. QED
    BY <1>4, <2>1, <2>2, <2>3, <2>4, <2>5, <2>6 DEF WorkerStep
<1>5. ASSUME NEW w \in Workers, NEW g \in Gits, GitGoroutine(w, g)
      PROVE  PoolTypeOK' /\ BusyHasJob'
  <2>1. CASE StartGit(w, g)
    BY <2>1 DEF StartGit, SetGit, PoolTypeOK, GitStates
  <2>2. CASE RefuseGit(w, g)
    BY <2>2, RunErrorType DEF RefuseGit, SetGit, PoolTypeOK, GitStates
  <2>3. CASE ReportError(w, g)
    BY <2>3 DEF ReportError, PoolTypeOK, GitStates
  <2>4. QED
    BY <1>5, <2>1, <2>2, <2>3 DEF GitGoroutine
<1>6. ASSUME NEW w \in Workers, NEW g \in Gits, GitExits(w, g)
      PROVE  PoolTypeOK' /\ BusyHasJob'
  <2>1. CASE GitSucceeds(w, g)
    BY <2>1 DEF GitSucceeds, SetGit, PoolTypeOK, GitStates
  <2>2. CASE RunFails(w, g)
    BY <2>2, RunErrorType DEF RunFails, SetGit, PoolTypeOK, GitStates
  <2>3. QED
    BY <1>6, <2>1, <2>2 DEF GitExits
<1>7. CASE UNCHANGED poolVars
  BY <1>7 DEF poolVars, PoolTypeOK
<1>8. QED
  BY <1>1, <1>2, <1>3, <1>4, <1>5, <1>6, <1>7 DEF PoolNext, Terminating

(* Every variable of the pool keeps its type: in particular the index a    *)
(* worker writes results[i] at is always within the slice.                 *)
THEOREM TypeCorrect == PoolSpec => []PoolTypeOK
<1>1. QED
  BY TypeInit, TypeStep, PTL DEF PoolSpec

-----------------------------------------------------------------------------
(* The slots. *)

Slots == SlotInv /\ OneWriter /\ PhaseInv

LEMMA UnwrittenIsNotWritten == \A i \in Repos : Written(i) => results[i] # Unwritten
BY DEF Written, Unwritten

LEMMA SlotsInit == PoolInit => Slots
<1> SUFFICES ASSUME PoolInit PROVE Slots
  OBVIOUS
<1>1. \A w \in Workers : ~Busy(w)
  BY DEF PoolInit, Busy
<1>2. \A i \in Repos : results[i] = Unwritten /\ i >= next
  BY DEF PoolInit, Repos
<1>3. QED
  BY <1>1, <1>2 DEF PoolInit, Slots, SlotInv, OneWriter, PhaseInv, Repos

(* A step that moves no slot: nobody becomes or ceases to be busy. *)
LEMMA SlotsQuiet ==
  ASSUME PoolTypeOK, Slots, UNCHANGED <<phase, next, job, results>>,
         \A w \in Workers : Busy(w)' = Busy(w),
         \A w \in Workers : wstate[w] = "done" => wstate'[w] = "done"
  PROVE  Slots'
<1>1. \A i \in Repos : Written(i)' = Written(i)
  BY DEF Written
<1>2. SlotInv'
  BY <1>1 DEF Slots, SlotInv
<1>3. OneWriter'
  BY DEF Slots, OneWriter
<1>4. PhaseInv'
  BY <1>1 DEF Slots, PhaseInv, AllDone
<1>5. QED
  BY <1>2, <1>3, <1>4 DEF Slots

(* The write of a worker fills the slot it owns and no other. *)
LEMMA SlotsWrite ==
  ASSUME PoolTypeOK, Slots, NEW w \in Workers, Busy(w),
         NEW o \in Outcomes \ {"none"}, WriteResult(w, o),
         UNCHANGED <<phase, next, job>>
  PROVE  Slots'
<1>1. job[w] \in Repos /\ job[w] < next
  BY DEF Slots, SlotInv
<1>2. results'[job[w]] = [path |-> PathOf[job[w]], outcome |-> o]
  BY <1>1 DEF WriteResult, PoolTypeOK
<1>3. \A i \in Repos \ {job[w]} : results'[i] = results[i]
  BY DEF WriteResult, PoolTypeOK
<1>4. Written(job[w])'
  BY <1>1, <1>2 DEF Written
<1>5. ~Busy(w)' /\ \A v \in Workers \ {w} : Busy(v)' = Busy(v)
  BY DEF WriteResult, Busy, PoolTypeOK
<1>6. \A v \in Workers \ {w} : Busy(v) => job[v] # job[w]
  BY DEF Slots, OneWriter
<1>7. \A i \in Repos \ {job[w]} : Written(i)' = Written(i)
  BY <1>3 DEF Written
<1>8. phase # "returned"
  BY DEF Slots, PhaseInv, AllDone, Busy
<1>9. SlotInv'
  <2>1. \A v \in Workers : Busy(v)' => job'[v] \in Repos /\ job'[v] < next'
    BY <1>5 DEF Slots, SlotInv
  <2>2. \A v \in Workers : Busy(v)' => results'[job'[v]] = Unwritten
    BY <1>3, <1>5, <1>6 DEF Slots, SlotInv
  <2>3. \A i \in Repos : results'[i] = Unwritten \/ Written(i)'
    BY <1>3, <1>4, <1>7 DEF Slots, SlotInv
  <2>4. \A i \in Repos : i < next' =>
           Written(i)' \/ \E v \in Workers : Busy(v)' /\ job'[v] = i
    BY <1>4, <1>5, <1>7 DEF Slots, SlotInv
  <2>5. \A i \in Repos : i >= next' /\ phase' # "returned" => results'[i] = Unwritten
    <3>1. next \in Nat /\ job[w] \in Nat /\ Repos \subseteq Nat
      BY <1>1 DEF PoolTypeOK, Repos
    <3>2. \A i \in Repos : i >= next => i # job[w] /\ results[i] = Unwritten
      BY <1>1, <1>8, <3>1 DEF Slots, SlotInv
    <3> QED
      BY <1>3, <3>2
  <2>6. QED
    BY <2>1, <2>2, <2>3, <2>4, <2>5 DEF SlotInv
<1>10. OneWriter'
  BY <1>5 DEF Slots, OneWriter
<1>11. PhaseInv'
  BY <1>8 DEF Slots, PhaseInv
<1>12. QED
  BY <1>9, <1>10, <1>11 DEF Slots

(* The rendezvous gives the worker the next slot, which nobody has touched. *)
LEMMA SlotsHandoff ==
  ASSUME PoolTypeOK, Slots, NEW w \in Workers, Handoff(w)
  PROVE  Slots'
<1>1. next \in Repos /\ next' = next + 1 /\ next \in Nat
  BY DEF Handoff, PoolTypeOK, Repos
<1>2. Busy(w)' /\ ~Busy(w) /\ job'[w] = next
  BY DEF Handoff, Busy, PoolTypeOK
<1>3. \A v \in Workers \ {w} : Busy(v)' = Busy(v) /\ job'[v] = job[v]
  BY DEF Handoff, Busy, PoolTypeOK
<1>4. UNCHANGED <<phase, results>> /\ phase = "dispatch"
  BY DEF Handoff
<1>5. \A i \in Repos : Written(i)' = Written(i) /\ i \in Nat
  BY <1>4 DEF Written, Repos
<1>6. SlotInv'
  <2>1. \A v \in Workers : Busy(v)' => job'[v] \in Repos /\ job'[v] < next'
    <3>1. job'[w] \in Repos /\ job'[w] < next'
      BY <1>1, <1>2
    <3>2. ASSUME NEW v \in Workers \ {w}, Busy(v)'
          PROVE  job'[v] \in Repos /\ job'[v] < next'
      <4>1. job[v] \in Repos /\ job[v] < next /\ job'[v] = job[v]
        BY <3>2, <1>3 DEF Slots, SlotInv
      <4>2. job[v] \in Nat
        BY <4>1 DEF Repos
      <4>3. QED
        BY <4>1, <4>2, <1>1
    <3>3. QED
      BY <3>1, <3>2
  <2>2. \A v \in Workers : Busy(v)' => results'[job'[v]] = Unwritten
    BY <1>1, <1>2, <1>3, <1>4 DEF Slots, SlotInv
  <2>3. \A i \in Repos : results'[i] = Unwritten \/ Written(i)'
    BY <1>4, <1>5 DEF Slots, SlotInv
  <2>4. ASSUME NEW i \in Repos, i < next'
        PROVE  Written(i)' \/ \E v \in Workers : Busy(v)' /\ job'[v] = i
    <3>1. CASE i = next
      BY <3>1, <1>2
    <3>2. CASE i # next
      <4>1. i < next
        BY <3>2, <2>4, <1>1, <1>5
      <4>2. Written(i) \/ \E v \in Workers : Busy(v) /\ job[v] = i
        BY <4>1 DEF Slots, SlotInv
      <4>3. QED
        BY <4>2, <1>2, <1>3, <1>5
    <3>3. QED
      BY <3>1, <3>2
  <2>5. \A i \in Repos : i >= next' /\ phase' # "returned" => results'[i] = Unwritten
    BY <1>1, <1>4, <1>5 DEF Slots, SlotInv
  <2>6. QED
    BY <2>1, <2>2, <2>3, <2>4, <2>5 DEF SlotInv
<1>7. OneWriter'
  <2>1. \A v \in Workers : Busy(v) => job[v] < next /\ job[v] \in Nat
    BY <1>5 DEF Slots, SlotInv
  <2>2. QED
    BY <2>1, <1>1, <1>2, <1>3 DEF Slots, OneWriter
<1>8. PhaseInv'
  BY <1>4 DEF PhaseInv
<1>9. QED
  BY <1>6, <1>7, <1>8 DEF Slots

(* The dispatcher's own steps. *)
LEMMA SlotsDispatcher ==
  ASSUME PoolTypeOK, Slots, Dispatcher
  PROVE  Slots'
<1>1. UNCHANGED <<wstate, job, next>>
  BY DEF Dispatcher, CloseJobs, StopDispatching, Return, ReturnCancelled
<1>2. \A w \in Workers : Busy(w)' = Busy(w)
  BY <1>1 DEF Busy
<1>3. OneWriter'
  BY <1>1, <1>2 DEF Slots, OneWriter
<1>4. next \in 1 .. NRepos + 1
  BY DEF PoolTypeOK
<1>5. CASE CloseJobs \/ StopDispatching
  <2>1. results' = results /\ phase' # "returned" /\ phase # "returned"
        /\ (phase' = "wait" => next' = NRepos + 1)
    BY <1>4, <1>5 DEF CloseJobs, StopDispatching
  <2>2. \A i \in Repos : Written(i)' = Written(i)
    BY <2>1 DEF Written
  <2>3. SlotInv'
    BY <2>1, <2>2, <1>1, <1>2 DEF Slots, SlotInv
  <2>4. PhaseInv'
    BY <2>1 DEF PhaseInv
  <2>5. QED
    BY <2>3, <2>4, <1>3 DEF Slots
<1>6. CASE Return
  <2>1. results' = results /\ phase' = "returned" /\ AllDone /\ next = NRepos + 1
    BY <1>6 DEF Return, Slots, PhaseInv
  <2>2. \A i \in Repos : Written(i)' = Written(i)
    BY <2>1 DEF Written
  <2>3. \A w \in Workers : ~Busy(w)
    BY <2>1 DEF AllDone, Busy
  <2>4. \A i \in Repos : Written(i)
    BY <2>1, <2>3 DEF Slots, SlotInv, Repos
  <2>5. SlotInv'
    BY <2>1, <2>2, <1>1, <1>2 DEF Slots, SlotInv
  <2>6. PhaseInv'
    BY <2>1, <2>2, <2>4, <1>1 DEF PhaseInv, AllDone
  <2>7. QED
    BY <2>5, <2>6, <1>3 DEF Slots
<1>7. CASE ReturnCancelled
  <2>1. results' = FillCancelled(results) /\ phase' = "returned" /\ AllDone
    BY <1>7 DEF ReturnCancelled
  <2>2. \A w \in Workers : ~Busy(w)
    BY <2>1 DEF AllDone, Busy
  <2>3. \A i \in Repos : Written(i)'
    <3> SUFFICES ASSUME NEW i \in Repos PROVE Written(i)'
      OBVIOUS
    <3>1. CASE results[i].path = EmptyPath
      BY <3>1, <2>1 DEF FillCancelled, Written
    <3>2. CASE results[i].path # EmptyPath
      <4>1. results'[i] = results[i]
        BY <3>2, <2>1 DEF FillCancelled
      <4>2. Written(i)
        BY <3>2 DEF Slots, SlotInv, Unwritten
      <4>3. QED
        BY <4>1, <4>2 DEF Written
    <3>3. QED
      BY <3>1, <3>2
  <2>4. SlotInv'
    BY <2>1, <2>2, <2>3, <1>2 DEF SlotInv
  <2>5. PhaseInv'
    BY <2>1, <2>3, <1>1 DEF PhaseInv, AllDone
  <2>6. QED
    BY <2>4, <2>5, <1>3 DEF Slots
<1>8. QED
  BY <1>5, <1>6, <1>7 DEF Dispatcher

LEMMA SlotsStep == PoolTypeOK /\ Slots /\ [PoolNext]_poolVars => Slots'
<1> SUFFICES ASSUME PoolTypeOK, Slots, [PoolNext]_poolVars
             PROVE  Slots'
  OBVIOUS
<1>1. CASE Cancel
  BY <1>1, SlotsQuiet DEF Cancel, Busy
<1>2. CASE Dispatcher
  BY <1>2, SlotsDispatcher
<1>3. ASSUME NEW w \in Workers, Handoff(w)
      PROVE  Slots'
  BY <1>3, SlotsHandoff
<1>4. ASSUME NEW w \in Workers, WorkerStep(w)
      PROVE  Slots'
  <2>1. CASE CollectCancelled(w)
    <3>1. Busy(w) /\ "cancelled" \in Outcomes \ {"none"}
      BY <2>1 DEF CollectCancelled, Busy, Outcomes, Errors
    <3>2. QED
      BY <2>1, <3>1, SlotsWrite DEF CollectCancelled
  <2>2. CASE CheckCtx(w)
    <3>1. \A v \in Workers : Busy(v)' = Busy(v)
      BY <2>2 DEF CheckCtx, Busy, PoolTypeOK
    <3>2. \A v \in Workers : wstate[v] = "done" => wstate'[v] = "done"
      BY <2>2 DEF CheckCtx, PoolTypeOK
    <3>3. QED
      BY <2>2, <3>1, <3>2, SlotsQuiet DEF CheckCtx
  <2>3. CASE CollectNoGit(w)
    <3>1. Busy(w) /\ "noGit" \in Outcomes \ {"none"}
      BY <2>3 DEF CollectNoGit, Busy, Outcomes, Errors
    <3>2. QED
      BY <2>3, <3>1, SlotsWrite DEF CollectNoGit
  <2>4. CASE SpawnGits(w)
    <3>1. \A v \in Workers : Busy(v)' = Busy(v)
      BY <2>4 DEF SpawnGits, Busy, PoolTypeOK
    <3>2. \A v \in Workers : wstate[v] = "done" => wstate'[v] = "done"
      BY <2>4 DEF SpawnGits, PoolTypeOK
    <3>3. QED
      BY <2>4, <3>1, <3>2, SlotsQuiet DEF SpawnGits
  <2>5. CASE FinishRepo(w)
    <3>1. Busy(w)
      BY <2>5 DEF FinishRepo, Busy
    <3>2. QED
      BY <2>5, <3>1, FinishOutcome, SlotsWrite DEF FinishRepo
  <2>6. CASE WorkerExits(w)
    <3>1. \A v \in Workers : Busy(v)' = Busy(v)
      BY <2>6 DEF WorkerExits, Busy, PoolTypeOK
    <3>2. \A v \in Workers : wstate[v] = "done" => wstate'[v] = "done"
      BY <2>6 DEF WorkerExits, PoolTypeOK
    <3>3. QED
      BY <2>6, <3>1, <3>2, SlotsQuiet DEF WorkerExits
  <2>7. QED
    BY <1>4, <2>1, <2>2, <2>3, <2>4, <2>5, <2>6 DEF WorkerStep
<1>5. ASSUME NEW w \in Workers, NEW g \in Gits, GitGoroutine(w, g) \/ GitExits(w, g)
      PROVE  Slots'
  <2>1. UNCHANGED <<phase, next, wstate, job, results>>
    BY <1>5 DEF GitGoroutine, GitExits, StartGit, RefuseGit, ReportError,
                GitSucceeds, RunFails, SetGit
  <2>2. QED
    BY <2>1, SlotsQuiet DEF Busy
<1>6. CASE UNCHANGED poolVars
  BY <1>6, SlotsQuiet DEF poolVars, Busy
<1>7. QED
  BY <1>1, <1>2, <1>3, <1>4, <1>5, <1>6 DEF PoolNext, Terminating

LEMMA SlotsInvariant == PoolSpec => []Slots
<1>1. PoolTypeOK /\ Slots /\ [PoolNext]_poolVars => Slots'
  BY SlotsStep
<1>2. QED
  BY SlotsInit, <1>1, TypeCorrect, PTL DEF PoolSpec

(* At any time a repository belongs to at most one worker, however many    *)
(* workers and repositories there are: the code needs no mutex.            *)
THEOREM OneWriterHolds == PoolSpec => []OneWriter
<1>1. Slots => OneWriter
  BY DEF Slots
<1>2. QED
  BY <1>1, SlotsInvariant, PTL

(* CollectDigests returns only with every slot filled for its own          *)
(* repository and with no worker left running, cancelled or not.           *)
THEOREM CompleteOnReturnHolds == PoolSpec => []CompleteOnReturn
<1>1. Slots => CompleteOnReturn
  BY DEF Slots, PhaseInv, Written, CompleteOnReturn
<1>2. QED
  BY <1>1, SlotsInvariant, PTL

(* A result, once written, is never replaced: a worker writes only the     *)
(* unwritten slot it owns, and fillCancelled only the empty ones.          *)
THEOREM WriteOnceHolds == PoolSpec => WriteOnce
<1>1. PoolTypeOK /\ Slots /\ [PoolNext]_poolVars =>
        [\A i \in Repos : results[i] # Unwritten => results'[i] = results[i]]_poolVars
  <2> SUFFICES ASSUME PoolTypeOK, Slots, PoolNext,
                      NEW i \in Repos, results[i] # Unwritten
               PROVE  results'[i] = results[i]
    OBVIOUS
  <2>1. ASSUME NEW w \in Workers, NEW o, Busy(w), WriteResult(w, o)
        PROVE  results'[i] = results[i]
    <3>1. job[w] # i
      BY <2>1 DEF Slots, SlotInv
    <3>2. QED
      BY <2>1, <3>1 DEF WriteResult, PoolTypeOK
  <2>2. CASE ReturnCancelled
    <3>1. results[i].path # EmptyPath
      BY DEF Slots, SlotInv, Written
    <3>2. QED
      BY <2>2, <3>1 DEF ReturnCancelled, FillCancelled
  <2>3. CASE UNCHANGED results
    BY <2>3
  <2>4. ASSUME NEW w \in Workers, WorkerStep(w)
        PROVE  results'[i] = results[i]
    BY <2>1, <2>4 DEF WorkerStep, CollectCancelled, CheckCtx, CollectNoGit,
                      SpawnGits, FinishRepo, WorkerExits, Busy
  <2>5. Cancel \/ (Dispatcher /\ ~ReturnCancelled) \/ Terminating
          \/ (\E w \in Workers : Handoff(w) \/ \E g \in Gits : GitGoroutine(w, g) \/ GitExits(w, g))
        => UNCHANGED results
    BY DEF Cancel, Dispatcher, CloseJobs, StopDispatching, Return, Terminating, poolVars,
           Handoff, GitGoroutine, GitExits, StartGit, RefuseGit, ReportError,
           GitSucceeds, RunFails, SetGit
  <2>6. QED
    BY <2>2, <2>3, <2>4, <2>5 DEF PoolNext
<1>2. QED
  BY <1>1, TypeCorrect, SlotsInvariant, PTL DEF PoolSpec, WriteOnce

-----------------------------------------------------------------------------
(* Errors and processes. *)

LEMMA ErrorInit == PoolInit => ErrorInv
<1>1. \A w \in Workers, g \in Gits : PoolInit => git[w][g] = "off"
  BY DEF PoolInit, NoGit
<1>2. QED
  BY <1>1 DEF PoolInit, ErrorInv

LEMMA ErrorStep == PoolTypeOK /\ ErrorInv /\ [PoolNext]_poolVars => ErrorInv'
<1> SUFFICES ASSUME PoolTypeOK, ErrorInv, [PoolNext]_poolVars
             PROVE  ErrorInv'
  OBVIOUS
<1>1. CASE Cancel
  BY <1>1 DEF Cancel, ErrorInv
<1>2. CASE Dispatcher
  BY <1>2 DEF Dispatcher, CloseJobs, StopDispatching, Return, ReturnCancelled, ErrorInv
<1>3. ASSUME NEW w \in Workers, Handoff(w)
      PROVE  ErrorInv'
  BY <1>3 DEF Handoff, ErrorInv
<1>4. ASSUME NEW w \in Workers, WorkerStep(w)
      PROVE  ErrorInv'
  <2>1. CASE SpawnGits(w)
    BY <2>1 DEF SpawnGits, ErrorInv, PoolTypeOK
  <2>2. CASE FinishRepo(w)
    BY <2>2 DEF FinishRepo, WriteResult, ErrorInv, PoolTypeOK, NoGit
  <2>3. CASE ~SpawnGits(w) /\ ~FinishRepo(w)
    BY <1>4, <2>3 DEF WorkerStep, CollectCancelled, CheckCtx, CollectNoGit,
                      WorkerExits, ErrorInv
  <2>4. QED
    BY <2>1, <2>2, <2>3
<1>5. ASSUME NEW w \in Workers, NEW g \in Gits, GitGoroutine(w, g)
      PROVE  ErrorInv'
  <2>1. CASE StartGit(w, g)
    BY <2>1 DEF StartGit, SetGit, ErrorInv, PoolTypeOK
  <2>2. CASE RefuseGit(w, g)
    BY <2>2 DEF RefuseGit, SetGit, RunError, ErrorInv, PoolTypeOK
  <2>3. CASE ReportError(w, g)
    BY <2>3 DEF ReportError, ErrorInv, PoolTypeOK, Errors
  <2>4. QED
    BY <1>5, <2>1, <2>2, <2>3 DEF GitGoroutine
<1>6. ASSUME NEW w \in Workers, NEW g \in Gits, GitExits(w, g)
      PROVE  ErrorInv'
  BY <1>6 DEF GitExits, GitSucceeds, RunFails, SetGit, RunError, ErrorInv, PoolTypeOK
<1>7. CASE UNCHANGED poolVars
  BY <1>7 DEF poolVars, ErrorInv
<1>8. QED
  BY <1>1, <1>2, <1>3, <1>4, <1>5, <1>6, <1>7 DEF PoolNext, Terminating

LEMMA RootCauseInit == PoolInit => RootCause
BY DEF PoolInit, RootCause, Unwritten

LEMMA RootCauseStep == PoolTypeOK /\ ErrorInv /\ RootCause /\ [PoolNext]_poolVars => RootCause'
<1> SUFFICES ASSUME PoolTypeOK, ErrorInv, RootCause, [PoolNext]_poolVars
             PROVE  RootCause'
  OBVIOUS
<1>1. ASSUME NEW w \in Workers, NEW o, WriteResult(w, o), UNCHANGED cancelled,
             o # "siblingKilled", o = "cancelled" => cancelled
      PROVE  RootCause'
  BY <1>1 DEF WriteResult, RootCause, PoolTypeOK
<1>2. CASE Cancel
  BY <1>2 DEF Cancel, RootCause
<1>3. CASE ReturnCancelled
  BY <1>3 DEF ReturnCancelled, FillCancelled, RootCause, ErrorInv
<1>4. CASE UNCHANGED <<results, cancelled>>
  BY <1>4 DEF RootCause
<1>5. ASSUME NEW w \in Workers, WorkerStep(w)
      PROVE  RootCause'
  <2>1. CASE CollectCancelled(w)
    BY <2>1, <1>1 DEF CollectCancelled
  <2>2. CASE CollectNoGit(w)
    BY <2>2, <1>1 DEF CollectNoGit
  <2>3. CASE FinishRepo(w)
    BY <2>3, <1>1 DEF FinishRepo, ErrorInv
  <2>4. CASE CheckCtx(w) \/ SpawnGits(w) \/ WorkerExits(w)
    BY <2>4, <1>4 DEF CheckCtx, SpawnGits, WorkerExits
  <2>5. QED
    BY <1>5, <2>1, <2>2, <2>3, <2>4 DEF WorkerStep
<1>6. CASE Dispatcher /\ ~ReturnCancelled
  BY <1>4, <1>6 DEF Dispatcher, CloseJobs, StopDispatching, Return
<1>7. ASSUME NEW w \in Workers, Handoff(w)
      PROVE  RootCause'
  BY <1>4, <1>7 DEF Handoff
<1>8. ASSUME NEW w \in Workers, NEW g \in Gits, GitGoroutine(w, g) \/ GitExits(w, g)
      PROVE  RootCause'
  BY <1>4, <1>8 DEF GitGoroutine, GitExits, StartGit, RefuseGit, ReportError,
                    GitSucceeds, RunFails, SetGit
<1>9. CASE UNCHANGED poolVars
  BY <1>4, <1>9 DEF poolVars
<1>10. QED
  BY <1>2, <1>3, <1>5, <1>6, <1>7, <1>8, <1>9 DEF PoolNext, Terminating

(* A failed repository is never reported with the error of the git process *)
(* the errgroup killed as a consequence, nor with a cancellation that did  *)
(* not happen.                                                             *)
THEOREM RootCauseHolds == PoolSpec => []RootCause
<1>1. PoolSpec => []ErrorInv
  BY ErrorInit, ErrorStep, TypeCorrect, PTL DEF PoolSpec
<1>2. QED
  BY <1>1, RootCauseInit, RootCauseStep, TypeCorrect, PTL DEF PoolSpec

LEMMA NoOrphanInit == PoolInit => NoOrphanGit
BY DEF PoolInit, NoOrphanGit, NoGit

LEMMA NoOrphanStep == PoolTypeOK /\ NoOrphanGit /\ [PoolNext]_poolVars => NoOrphanGit'
<1> SUFFICES ASSUME PoolTypeOK, NoOrphanGit, [PoolNext]_poolVars
             PROVE  NoOrphanGit'
  OBVIOUS
<1>1. CASE Cancel
  BY <1>1 DEF Cancel, NoOrphanGit
<1>2. CASE Dispatcher
  BY <1>2 DEF Dispatcher, CloseJobs, StopDispatching, Return, ReturnCancelled, NoOrphanGit
<1>3. ASSUME NEW w \in Workers, Handoff(w)
      PROVE  NoOrphanGit'
  BY <1>3 DEF Handoff, NoOrphanGit, PoolTypeOK
<1>4. ASSUME NEW w \in Workers, WorkerStep(w)
      PROVE  NoOrphanGit'
  <2>1. CASE SpawnGits(w)
    BY <2>1 DEF SpawnGits, NoOrphanGit, PoolTypeOK
  <2>2. CASE FinishRepo(w)
    BY <2>2 DEF FinishRepo, WriteResult, NoOrphanGit, PoolTypeOK, NoGit
  <2>3. CASE ~SpawnGits(w) /\ ~FinishRepo(w)
    BY <1>4, <2>3 DEF WorkerStep, CollectCancelled, CheckCtx, CollectNoGit,
                      WorkerExits, WriteResult, NoOrphanGit, PoolTypeOK
  <2>4. QED
    BY <2>1, <2>2, <2>3
<1>5. ASSUME NEW w \in Workers, NEW g \in Gits, GitGoroutine(w, g)
      PROVE  NoOrphanGit'
  <2>1. CASE StartGit(w, g)
    BY <2>1 DEF StartGit, SetGit, NoOrphanGit, PoolTypeOK
  <2>2. CASE RefuseGit(w, g)
    BY <2>2 DEF RefuseGit, SetGit, NoOrphanGit, PoolTypeOK
  <2>3. CASE ReportError(w, g)
    BY <2>3 DEF ReportError, NoOrphanGit, PoolTypeOK, Errors
  <2>4. QED
    BY <1>5, <2>1, <2>2, <2>3 DEF GitGoroutine
<1>6. ASSUME NEW w \in Workers, NEW g \in Gits, GitExits(w, g)
      PROVE  NoOrphanGit'
  BY <1>6 DEF GitExits, GitSucceeds, RunFails, SetGit, NoOrphanGit, PoolTypeOK
<1>7. CASE UNCHANGED poolVars
  BY <1>7 DEF poolVars, NoOrphanGit
<1>8. QED
  BY <1>1, <1>2, <1>3, <1>4, <1>5, <1>6, <1>7 DEF PoolNext, Terminating

(* No git process of a repository is alive once its worker has moved on,   *)
(* so none survives the return of CollectDigests.                          *)
THEOREM NoOrphanGitHolds == PoolSpec => []NoOrphanGit
<1>1. QED
  BY NoOrphanInit, NoOrphanStep, TypeCorrect, PTL DEF PoolSpec

(* The slots are sound for any number of repositories and workers, with    *)
(* git failing, hanging and being killed and Ctrl-C at any moment.         *)
THEOREM ResultsSoundHolds == PoolSpec => []ResultsSound
<1>1. OneWriter /\ CompleteOnReturn /\ RootCause => ResultsSound
  BY DEF ResultsSound
<1> QED
  BY <1>1, OneWriterHolds, CompleteOnReturnHolds, RootCauseHolds, PTL
=============================================================================
