------------------------------ MODULE DigestRun -----------------------------
(***************************************************************************)
(* `gitl digest` (cli.RunDigestCore) while reviews end and append to the   *)
(* risk history (cli.recordRiskHistory).                                   *)
(*                                                                         *)
(* Collecting the digests of the repositories is DigestPool; here it ends  *)
(* in one step, with a digest or an error for every repository.            *)
(***************************************************************************)
EXTENDS RiskHistory, Risk

CONSTANTS
  Reviews,       \* one process each
  Setups,        \* what they may be: the place each runs in, the level it finds,
                 \* the schema version its gitl writes
  Places,        \* repositories on disk
  UrlOf,         \* the origin of each
  RootOf,        \* its worktree, NoRoot in a bare repository
  RepoPaths,     \* the repositories of the digest, a sequence of places
  MaxTime,       \* bound: last instant
  MaxTorn        \* bound: writes cut short

ASSUME SetupAssumption ==
  Setups \subseteq [place : [Reviews -> Places], level : [Reviews -> Levels], version : [Reviews -> Nat]]
(* A repository on disk has a worktree of its own, if it has one.  What    *)
(* https and ssh URLs name, host/owner/name, is neither an absolute path   *)
(* nor, unless somebody gives a relative path of that very form as origin, *)
(* another URL.                                                            *)
ASSUME PlaceAssumption ==
  /\ \A p \in Places : UrlOf[p] = NoOrigin \/ UrlOf[p].form \in {"https", "ssh", "raw"}
  /\ \A p, q \in Places : RootOf[p] = RootOf[q] /\ RootOf[p] # NoRoot => p = q
  /\ \A p, q \in Places : UrlOf[p].form \in {"https", "ssh"} =>
       /\ UrlOf[p].repo # RootOf[q]
       /\ UrlOf[q].form = "raw" => UrlOf[p].repo # UrlOf[q].repo
ASSUME RepoAssumption == RepoPaths \in Seq(Places)
ASSUME BoundAssumption == MaxTime \in Nat /\ MaxTorn \in Nat

VARIABLES
  placeOf, levelOf, versionOf,  \* of each review
  now,
  file,         \* risk-history.jsonl
  rpc,          \* program counter of each review
  stopped,      \* reviews that had received Ctrl-C by then
  rec,          \* the record each review is building
  dpc,          \* program counter of the digest
  interrupted,  \* the digest has received Ctrl-C
  until,        \* now, as RunDigestCore reads it
  collected,    \* which repositories have a digest
  records,      \* what Load read of the file
  index,        \* loop index of digestRiskTrends
  trends        \* the trend of each path, NoTrend if there is none

setup == <<placeOf, levelOf, versionOf>>
reviews == <<rpc, stopped, rec>>
digest == <<dpc, interrupted, until, collected, records, index, trends>>
runVars == <<setup, now, file, reviews, digest>>

NoTrend == [total |-> 0]
NoRecord == [repo |-> EmptyKey]

RunInit ==
  /\ \E s \in Setups : placeOf = s.place /\ levelOf = s.level /\ versionOf = s.version
  /\ now = 0 /\ file = <<>>
  /\ rpc = [v \in Reviews |-> "reviewing"]
  /\ stopped = [v \in Reviews |-> FALSE]
  /\ rec = [v \in Reviews |-> NoRecord]
  /\ dpc = "idle" /\ interrupted = FALSE /\ until = 0
  /\ collected = [i \in DOMAIN RepoPaths |-> FALSE]
  /\ records = <<>> /\ index = 1
  /\ trends = [p \in Places |-> NoTrend]

Tick == now < MaxTime /\ now' = now + 1 /\ UNCHANGED <<setup, file, reviews, digest>>

(* No git process starts under a context that is done. *)
Key(place, cancelled) == IF cancelled THEN EmptyKey ELSE RepoKey(UrlOf[place], RootOf[place])

-----------------------------------------------------------------------------
(* recordRiskHistory *)

(* time.Now().UTC() comes before the git processes of RepoKey. *)
Stamp(v) ==
  /\ rpc[v] = "reviewing"
  /\ rpc' = [rpc EXCEPT ![v] = "key"]
  /\ rec' = [rec EXCEPT ![v] =
       [by |-> v, time |-> now, repo |-> EmptyKey, level |-> levelOf[v], version |-> versionOf[v]]]
  /\ UNCHANGED <<setup, now, file, stopped, digest>>

(* By now the review may have received Ctrl-C, which it does not look at. *)
FindKey(v) ==
  /\ rpc[v] = "key"
  /\ rpc' = [rpc EXCEPT ![v] = "append"]
  /\ \E ctrlC \in BOOLEAN :
       /\ stopped' = [stopped EXCEPT ![v] = ctrlC]
       /\ rec' = [rec EXCEPT ![v].repo = Key(placeOf[v], ctrlC)]
  /\ UNCHANGED <<setup, now, file, digest>>

(* O_APPEND: one write, at the end of the file, whoever else writes. *)
AppendLine(v) ==
  /\ rpc[v] = "append"
  /\ rpc' = [rpc EXCEPT ![v] = "logged"] /\ rec' = [rec EXCEPT ![v] = NoRecord]
  /\ file' = Append(file, Write(rec[v], "line"))
  /\ UNCHANGED <<setup, now, stopped, digest>>

Torn(f) == {i \in DOMAIN f : f[i].end # "line"}

(* Mutant: Append takes a short write for a whole one. *)
AppendShort(v) ==
  /\ rpc[v] = "append" /\ Cardinality(Torn(file)) < MaxTorn
  /\ rpc' = [rpc EXCEPT ![v] = "logged"] /\ rec' = [rec EXCEPT ![v] = NoRecord]
  /\ \E end \in Endings \ {"line"} : file' = Append(file, Write(rec[v], end))
  /\ UNCHANGED <<setup, now, stopped, digest>>

(* A short write: Append returns the error, nobody removes what is there. *)
AppendTorn(v) ==
  /\ rpc[v] = "append" /\ Cardinality(Torn(file)) < MaxTorn
  /\ rpc' = [rpc EXCEPT ![v] = "failed"] /\ rec' = [rec EXCEPT ![v] = NoRecord]
  /\ \E end \in Endings \ {"line"} : file' = Append(file, Write(rec[v], end))
  /\ UNCHANGED <<setup, now, stopped, digest>>

(* The directory or the file cannot be created, or the write writes nothing. *)
AppendFails(v) ==
  /\ rpc[v] = "append"
  /\ rpc' = [rpc EXCEPT ![v] = "failed"] /\ rec' = [rec EXCEPT ![v] = NoRecord]
  /\ UNCHANGED <<setup, now, file, stopped, digest>>

-----------------------------------------------------------------------------
(* RunDigestCore *)

Start ==
  /\ dpc = "idle"
  /\ dpc' = "collect" /\ until' = now
  /\ UNCHANGED <<setup, now, file, reviews, interrupted, collected, records, index, trends>>

(* CollectDigests: a repository without a digest has an error. *)
Collect ==
  /\ dpc = "collect"
  /\ dpc' = "load"
  /\ collected' \in [DOMAIN RepoPaths -> BOOLEAN]
  /\ UNCHANGED <<setup, now, file, reviews, interrupted, until, records, index, trends>>

LoadLog ==
  /\ dpc = "load"
  /\ records' = file
  /\ dpc' = IF Load(file) = {} THEN "done" ELSE "trends"
  /\ UNCHANGED <<setup, now, file, reviews, interrupted, until, collected, index, trends>>

(* The log is disabled or cannot be read: the digest has no trends. *)
LoadNothing ==
  /\ dpc = "load"
  /\ dpc' = "blank"
  /\ UNCHANGED <<setup, now, file, reviews, interrupted, until, collected, records, index, trends>>

(* The next repository of the loop of digestRiskTrends. *)
AttachTrend ==
  /\ dpc = "trends" /\ index <= Len(RepoPaths)
  /\ index' = index + 1
  /\ LET p == RepoPaths[index]
         trend == Aggregate(records, Key(p, interrupted), until)
     IN trends' = IF collected[index] /\ trend.total > 0
                  THEN [trends EXCEPT ![p] = trend] ELSE trends
  /\ UNCHANGED <<setup, now, file, reviews, dpc, interrupted, until, collected, records>>

Build ==
  /\ dpc = "trends" /\ index > Len(RepoPaths)
  /\ dpc' = "done"
  /\ UNCHANGED <<setup, now, file, reviews, interrupted, until, collected, records, index, trends>>

Interrupt ==
  /\ dpc \in {"collect", "load", "trends"} /\ ~interrupted
  /\ interrupted' = TRUE
  /\ UNCHANGED <<setup, now, file, reviews, dpc, until, collected, records, index, trends>>

RunTerminating ==
  /\ dpc \in {"done", "blank"} /\ \A v \in Reviews : rpc[v] \in {"logged", "failed"}
  /\ UNCHANGED runVars

RunNext ==
  \/ Tick
  \/ \E v \in Reviews :
       Stamp(v) \/ FindKey(v) \/ AppendLine(v) \/ AppendTorn(v) \/ AppendFails(v)
  \/ Start \/ Collect \/ LoadLog \/ LoadNothing \/ AttachTrend \/ Build \/ Interrupt
  \/ RunTerminating

RunSpec == RunInit /\ [][RunNext]_runVars

-----------------------------------------------------------------------------
(* A clone, by its path, of a worktree that has no origin of its own. *)
ClonedFrom(p, q) ==
  /\ UrlOf[p].form = "raw" /\ UrlOf[q] = NoOrigin
  /\ UrlOf[p].repo = RootOf[q] /\ RootOf[q] # NoRoot

(* Clones of one hosted repository, by whichever protocol, or of one URL;  *)
(* and a worktree without an origin with the clones of it.                 *)
SameRepository(p, q) ==
  \/ p = q
  \/ NoOrigin \notin {UrlOf[p], UrlOf[q]} /\ UrlOf[p].repo = UrlOf[q].repo
  \/ ClonedFrom(p, q) \/ ClonedFrom(q, p)

(* The variables have their types; every repository has a result, and what *)
(* was read of the log is a prefix of it.                                  *)
RunTypeOK ==
  /\ placeOf \in [Reviews -> Places] /\ levelOf \in [Reviews -> Levels] /\ versionOf \in [Reviews -> Nat]
  /\ now \in 0 .. MaxTime /\ until \in 0 .. now
  /\ \A i \in DOMAIN file : file[i].rec.by \in Reviews /\ file[i].end \in Endings
  /\ rpc \in [Reviews -> {"reviewing", "key", "append", "logged", "failed"}]
  /\ stopped \in [Reviews -> BOOLEAN]
  /\ dpc \in {"idle", "collect", "load", "trends", "done", "blank"}
  /\ interrupted \in BOOLEAN
  /\ collected \in [DOMAIN RepoPaths -> BOOLEAN]
  /\ IsPrefix(records, file)
  /\ index \in 1 .. Len(RepoPaths) + 1
  /\ DOMAIN trends = Places

(* riskhistory.Append without a lock: whatever order processes append in,  *)
(* a record whose review saw no error stays readable, but for at most one  *)
(* record per write that was cut short before it.                          *)
LossBounded ==
  LET lost == {v \in Reviews : /\ rpc[v] = "logged" /\ versionOf[v] <= RecordSchemaVersion
                               /\ \A i \in Load(file) : file[i].rec.by # v}
  IN Cardinality(lost) <= Cardinality(Torn(file))

(* What a reader of the digest takes a trend for: the reviews of the same  *)
(* repository, from whichever clone, that were logged in the window and    *)
(* before the digest read the log; not those that received Ctrl-C, which   *)
(* are logged without a repository.                                        *)
Reviewed(p) ==
  {v \in Reviews :
     /\ rpc[v] = "logged" /\ versionOf[v] <= RecordSchemaVersion /\ ~stopped[v]
     /\ SameRepository(placeOf[v], p)
     /\ \E i \in DOMAIN records : records[i].rec.by = v /\ InWindow(records[i].rec.time, until)}

(* Each of them once, and those of a high risk once in the two halves.     *)
Counted(p) ==
  /\ trends[p].total = Cardinality(Reviewed(p))
  /\ trends[p].total > 0 =>
       trends[p].recentHigh + trends[p].previousHigh
         = Cardinality({v \in Reviewed(p) : levelOf[v] = "high"})

(* The digest ended undisturbed, and has to say something of this place,   *)
(* which git can name.                                                     *)
Undisturbed(i) ==
  /\ dpc = "done" /\ Torn(records) = {} /\ ~interrupted
  /\ collected[i] /\ Key(RepoPaths[i], FALSE) # EmptyKey

(* No clone of it has an https origin with credentials or a port in it.    *)
PlainUrls(p) ==
  \A q \in Places : SameRepository(q, p) /\ UrlOf[q].form = "https" => UrlOf[q].user = NoUser

(* Unless a write was cut short or somebody pressed Ctrl-C during the      *)
(* digest, the trend of a repository counts each of its reviews once, and  *)
(* none of another repository or of a review that was interrupted,         *)
(* although the review and the digest find the key in different clones.    *)
TrendExact == \A i \in DOMAIN RepoPaths : Undisturbed(i) /\ PlainUrls(RepoPaths[i]) => Counted(RepoPaths[i])

(* The short list is in order of time, and leaves out no review newer than *)
(* the ones it shows, although reviews that overlap append in another      *)
(* order than they took their timestamps.                                  *)
NewestShown ==
  \A p \in Places : trends[p].total > 0 =>
    LET recent == trends[p].recent
        TimeOf(i) == records[i].rec.time
    IN \A a \in DOMAIN recent :
         /\ \A b \in 1 .. a - 1 : TimeOf(recent[b]) >= TimeOf(recent[a])
         /\ \A i \in Load(records) :
              /\ records[i].rec.repo = records[recent[a]].rec.repo
              /\ InWindow(TimeOf(i), until) /\ TimeOf(i) > TimeOf(recent[a])
              => \E b \in DOMAIN recent : recent[b] = i

(* A trend shows the reviews of its repository: counted once, newest first. *)
TrendSound == TrendExact /\ NewestShown

(* The log keeps its shape, and what was appended to it.                   *)
LogSound == RunTypeOK /\ LossBounded
=============================================================================
