----------------------------- MODULE RiskHistory ----------------------------
(***************************************************************************)
(* The risk-history log (internal/riskhistory): one file per user, one     *)
(* JSON line per review, appended by any number of processes without a     *)
(* lock and aggregated by `gitl digest`.                                   *)
(*                                                                         *)
(* The file is the sequence of the writes that reached it.  A write that   *)
(* is cut short (full disk, power loss) leaves no line feed behind, so the *)
(* next line is glued to it.                                               *)
(***************************************************************************)
EXTENDS Integers, Sequences, FiniteSets, SequencesExt

CONSTANTS
  Days,          \* the window, in units of time
  RecentLimit    \* recentListLimit

ASSUME DaysAssumption == Days \in Nat \ {0} /\ RecentLimit \in Nat

RecordSchemaVersion == 1

(* What a write left: the line, the line without its line feed, or a part. *)
Endings == {"line", "bare", "cut"}
Write(rec, end) == [rec |-> rec, end |-> end]

-----------------------------------------------------------------------------
(* An origin URL is [form, user, repo], with what the key drops (case, a   *)
(* port of ssh, .git) left out of it: https and ssh name a repository as   *)
(* host/owner/name; anything else (a path, an exotic scheme) is "raw", and *)
(* its repo is the URL itself.  The user of an https URL stands for what   *)
(* its host is written with: credentials, a port.  NoOrigin: git names no  *)
(* origin; the key is then the root of the worktree, and in a bare         *)
(* repository, which has NoRoot, or under a context that is done, it is    *)
(* empty.                                                                  *)
(*                                                                         *)
(* All keys are plain strings, here sequences of parts: nothing tells a    *)
(* root from a URL that spells the same path.                              *)
NoOrigin == [form |-> "none"]
NoUser == "none"
NoRoot == "none"
EmptyKey == <<>>

RootKey(root) == IF root = NoRoot THEN EmptyKey ELSE <<root>>

(* Mutant: the URL is used as it is written. *)
KeyOfUrl(url, root) ==
  IF url = NoOrigin THEN RootKey(root) ELSE <<url.form, url.repo>>

RepoKey(url, root) ==
  IF url = NoOrigin THEN RootKey(root)
  ELSE IF url.form = "https" /\ url.user # NoUser THEN <<url.user, url.repo>> ELSE <<url.repo>>

-----------------------------------------------------------------------------
(* Load: the writes that stand on a line of their own, complete, and of a  *)
(* schema this gitl knows; the last line need not end in a line feed.      *)
Load(file) ==
  {i \in DOMAIN file :
     /\ file[i].end = "line" \/ (file[i].end = "bare" /\ i = Len(file))
     /\ i > 1 => file[i - 1].end = "line"
     /\ file[i].rec.version <= RecordSchemaVersion}

InWindow(time, now) == time >= now - Days /\ time <= now

(* Mutant: file order is taken for chronological order. *)
InFileOrder(file, I) ==
  [k \in 1 .. Cardinality(I) |-> CHOOSE i \in I : Cardinality({j \in I : j > i}) = k - 1]

Newer(file, i, j) ==
  \/ file[i].rec.time > file[j].rec.time
  \/ file[i].rec.time = file[j].rec.time /\ i < j

(* sort.SliceStable by timestamp, newest first: before the k-th stand k - 1. *)
NewestFirst(file, I) ==
  [k \in 1 .. Cardinality(I) |-> CHOOSE i \in I : Cardinality({j \in I : Newer(file, j, i)}) = k - 1]

Newest(s) == SubSeq(s, 1, IF Len(s) < RecentLimit THEN Len(s) ELSE RecentLimit)

(* Mutant: a record on the midpoint is in neither half. *)
AggregateOpen(file, key, now) ==
  LET matched == {i \in Load(file) : file[i].rec.repo = key /\ InWindow(file[i].rec.time, now)}
      high == {i \in matched : file[i].rec.level = "high"}
      Middle(i) == 2 * file[i].rec.time = now + (now - Days)
      earlier == {i \in high : 2 * file[i].rec.time < now + (now - Days)}
  IN [total |-> Cardinality(matched),
      previousHigh |-> Cardinality(earlier),
      recentHigh |-> Cardinality({i \in high \ earlier : ~Middle(i)}),
      recent |-> Newest(NewestFirst(file, matched))]

(* Aggregate, over the records that were loaded. *)
Aggregate(file, key, now) ==
  LET matched == {i \in Load(file) : file[i].rec.repo = key /\ InWindow(file[i].rec.time, now)}
      high == {i \in matched : file[i].rec.level = "high"}
      \* before the middle of the window
      earlier == {i \in high : 2 * file[i].rec.time < now + (now - Days)}
  IN [total |-> Cardinality(matched),
      previousHigh |-> Cardinality(earlier),
      recentHigh |-> Cardinality(high \ earlier),
      recent |-> Newest(NewestFirst(file, matched))]
=============================================================================
