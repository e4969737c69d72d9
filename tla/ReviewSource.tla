---------------------------- MODULE ReviewSource ----------------------------
(***************************************************************************)
(* Where the commits and the diff of a review come from                    *)
(* (internal/cli/review.go, prresolve.go): the index, a revision range, or *)
(* a pull request, each by git processes (internal/gitlog/runner.go) and,  *)
(* for a pull request, gh; then the shaping of the diff by prepareReview.  *)
(*                                                                         *)
(* Meanwhile others commit, fetch and push.  A diff of commits is the set  *)
(* of those whose changes it adds and of those it takes back; histories    *)
(* have no merges.  The staged diff is a text (DiffShape).                 *)
(***************************************************************************)
EXTENDS DiffShape

CONSTANTS
  Commits,
  Anc,          \* the ancestors of a commit and itself
  Requests,     \* arguments of the command
  Indexes,      \* what may be staged: sequences of files
  Shapings,     \* diff.exclude_globs, policy.exclude_globs, max_diff_bytes
  Clones,       \* states of the local repository
  Origins,      \* states of the pull request and its repository
  ForkTips,     \* what a fork publishes under the same names
  MaxMoves      \* bound on pushes and local ref updates

(* A history is a chain: no merges, and no commit before itself. *)
ASSUME HistoryAssumption ==
  /\ Anc \in [Commits -> SUBSET Commits]
  /\ \A c \in Commits :
       /\ c \in Anc[c]
       /\ \A d \in Anc[c] : Anc[d] \subseteq Anc[c] /\ (c \in Anc[d] => c = d)
       /\ \A d, e \in Anc[c] : d \in Anc[e] \/ e \in Anc[d]
ASSUME BoundAssumption == MaxMoves \in Nat

Kinds == {"none", "both", "badpr", "staged", "range", "pr"}
Missing == "missing"
Pair(S) == [base : S, head : S]

ASSUME CommitsAssumption == {"missing", "unseen"} \cap Commits = {}
ASSUME RequestsAssumption == Requests \subseteq [kind : Kinds, dots : {2, 3}]
ASSUME OriginsAssumption == Origins \subseteq Pair(Commits) /\ Origins # {} /\ ForkTips \in Pair(Commits)
ASSUME ClonesAssumption ==
  /\ Clones \subseteq [objects : SUBSET Commits, cut : SUBSET Commits, names : Pair(Commits),
                       remotes : [{"origin", "upstream"} -> {"pr", "alias", "fork", Missing}]]
  /\ Clones # {} /\ \A clone \in Clones : clone.names \in Pair(clone.objects)
ASSUME IndexesAssumption ==
  /\ Indexes # {}
  /\ \A files \in Indexes : files \in Seq([from : Seq(STRING), path : Seq(STRING),
                                           lines : Seq([sign : STRING, content : Seq(STRING)])])

VARIABLES
  request, index, shaping,
  server,      \* the tips of the pull request's base and head now
  named,       \* whether gh reports the base branch's name
  local,       \* the commits at hand
  cut,         \* those among them whose parents a shallow clone hides
  names,       \* what the two ends of a range stand for, here and now
  remotes,     \* the repository behind each remote; "alias": by a URL that
               \* ParseRemoteURL does not recognise
  pc,
  view,        \* baseRefOid and headRefOid
  remote,
  have,        \* baseOK and headOK
  logged,      \* the outcome of git log
  diffed,      \* the outcome of git diff
  shaped,      \* the staged diff as it is sent
  error,
  blame,       \* what went wrong outside gitl
  moves

source == <<request, index, shaping, named, cut, remotes>>
world == <<server, local, names, moves>>
work == <<pc, view, remote, have, logged, diffed, shaped, error, blame>>
vars == <<source, world, work>>

Unseen == [base |-> "unseen", head |-> "unseen"]
Waiting == [status |-> "waiting"]
Failed == [status |-> "failed"]
Got(value) == [status |-> "ok", value |-> value]

(* What a request does not look at has one value. *)
For(kinds, S) == IF request.kind \in kinds THEN S ELSE {CHOOSE s \in S : TRUE}

Init ==
  /\ request \in Requests
  /\ index \in For({"staged"}, Indexes)
  /\ shaping \in For({"staged"}, Shapings)
  /\ server \in For({"pr"}, Origins) /\ named \in For({"pr"}, BOOLEAN)
  /\ \E clone \in For({"range", "pr"}, Clones) :
       local = clone.objects /\ cut = clone.cut /\ names = clone.names /\ remotes = clone.remotes
  /\ pc = "start" /\ view = Unseen /\ remote = "origin" /\ have = [base |-> FALSE, head |-> FALSE]
  /\ logged = Waiting /\ diffed = Waiting /\ shaped = <<>> /\ error = "none"
  /\ blame = {} /\ moves = 0

-----------------------------------------------------------------------------
(* git, as far as this repository's history goes *)

Visible(c) == Anc[c] \ UNION {Anc[s] \ {s} : s \in cut \cap Anc[c]}

(* Mutant: the left end of the range is lost. *)
LogOfRightEnd(a, b, dots) == Visible(b)

(* `git log a..b`, `git log a...b` *)
Log(a, b, dots) ==
  IF dots = 2 THEN Visible(b) \ Visible(a)
  ELSE (Visible(b) \ Visible(a)) \cup (Visible(a) \ Visible(b))

(* `git diff a..b` compares the two; `git diff a...b` starts at the merge  *)
(* base, and fails if there is none in sight.                              *)
Diff(a, b, dots) ==
  [added |-> Anc[b] \ Anc[a], reverted |-> IF dots = 2 THEN Anc[a] \ Anc[b] ELSE {}]
Diffable(a, b, dots) == dots = 2 \/ Visible(a) \cap Visible(b) # {}

ObjectExists(c) == c \in local
Cancelled == "cancel" \in blame

-----------------------------------------------------------------------------
(* resolveReviewSource *)

Step(from, to) == pc = from /\ pc' = to
Ends(why) ==
  /\ pc' = "done" /\ error' = why
  /\ UNCHANGED <<view, remote, have, logged, diffed, shaped>>

(* A process fails: no git or gh, no network, no authorization. *)
ToolFails ==
  /\ pc \in {"start", "index", "gh", "fetch"}
  /\ request.kind \in {"staged", "range", "pr"}
  /\ Ends("tool") /\ blame' = blame \cup {"tool"}
  /\ UNCHANGED <<source, world>>

(* Mutant: the processes that use the network do not have the context. *)
LocalStopped ==
  /\ pc = "index" /\ Cancelled
  /\ Ends("tool")
  /\ UNCHANGED <<source, world, blame>>

(* A process whose context is done is killed. *)
Stopped ==
  /\ pc \in {"index", "gh", "fetch"} /\ Cancelled
  /\ Ends("tool")
  /\ UNCHANGED <<source, world, blame>>

(* Ctrl-C or SIGTERM: the context of every process is done. *)
Interrupt ==
  /\ pc # "done" /\ ~Cancelled
  /\ blame' = blame \cup {"cancel"}
  /\ UNCHANGED <<source, world, pc, view, remote, have, logged, diffed, shaped, error>>

Misused ==
  /\ pc = "start" /\ request.kind \in {"none", "both", "badpr"}
  /\ Ends("usage")
  /\ UNCHANGED <<source, world, blame>>

Classify ==
  /\ request.kind \in {"staged", "range", "pr"}
  /\ Step("start", CASE request.kind = "staged" -> "index"
                     [] request.kind = "range" -> "collect"
                     [] request.kind = "pr" -> "gh")
  /\ UNCHANGED <<source, world, view, remote, have, logged, diffed, shaped, error, blame>>

(* stagedSource *)
ReadIndex ==
  /\ pc = "index" /\ ~Cancelled
  /\ IF IsBlank(GitDiff(index)) THEN Ends("nothing")
     ELSE /\ pc' = "prepare"
          /\ shaped' = GitDiff(index)
          /\ UNCHANGED <<view, remote, have, logged, diffed, error>>
  /\ UNCHANGED <<source, world, blame>>

-----------------------------------------------------------------------------
(* prSource *)

(* ResolvePR: one answer of GitHub about both ends. *)
ResolvePR ==
  /\ ~Cancelled
  /\ Step("gh", "remote")
  /\ view' = server
  /\ UNCHANGED <<source, world, remote, have, logged, diffed, shaped, error, blame>>

Matching == {n \in DOMAIN remotes : remotes[n] = "pr"}

(* Mutant: the remote is always origin. *)
AlwaysOrigin ==
  /\ Step("remote", "head")
  /\ remote' = "origin"
  /\ UNCHANGED <<source, world, view, have, logged, diffed, shaped, error, blame>>

(* git cannot list the remotes, or not tell a URL. *)
RemoteUnknown == Cancelled

ResolveRemoteName ==
  /\ Step("remote", "head")
  /\ remote' \in (IF Matching = {} \/ RemoteUnknown THEN {"origin"} ELSE Matching)
  /\ UNCHANGED <<source, world, view, have, logged, diffed, shaped, error, blame>>

(* A probe that fails for any reason says that the object is not there. *)
Probe(end) == have' = [have EXCEPT ![end] = ObjectExists(view[end]) /\ ~Cancelled]

ProbeHead ==
  /\ Step("head", "base") /\ Probe("head")
  /\ UNCHANGED <<source, world, view, remote, logged, diffed, shaped, error, blame>>
ProbeBase ==
  /\ pc = "base" /\ Probe("base")
  /\ pc' = IF have'.head /\ have'.base THEN "collect" ELSE "fetch"
  /\ UNCHANGED <<source, world, view, remote, logged, diffed, shaped, error, blame>>

(* pull/N/head and the base branch, or the base itself, at the remote. *)
Published(end) ==
  CASE remotes[remote] \in {"pr", "alias"} ->
         IF end = "base" /\ ~named THEN view.base ELSE server[end]
    [] remotes[remote] = "fork" ->
         IF end = "base" /\ ~named /\ view.base # ForkTips.base THEN Missing ELSE ForkTips[end]
    [] OTHER -> Missing

Wanted == {Published(end) : end \in {e \in {"base", "head"} : ~have[e]}}

(* One fetch of what is missing; a shallow clone stays shallow. *)
FetchRef ==
  /\ ~Cancelled
  /\ Step("fetch", "again")
  /\ Missing \notin Wanted
  /\ local' = local \cup UNION {Visible(c) : c \in Wanted}
  /\ UNCHANGED <<source, server, names, moves, view, remote, have, logged, diffed, shaped, error, blame>>

(* The remote lacks a ref, so nothing is fetched. *)
FetchRefuses ==
  /\ pc = "fetch" /\ Missing \in Wanted
  /\ Ends("fetch")
  /\ UNCHANGED <<source, world, blame>>

(* Mutant: after a fetch the objects are taken to be there. *)
TrustsFetch ==
  /\ pc = "again"
  /\ have' = [base |-> TRUE, head |-> TRUE] /\ pc' = "collect"
  /\ UNCHANGED <<view, remote, logged, diffed, shaped, error>>
  /\ UNCHANGED <<source, world, blame>>

(* Only what was missing is probed again. *)
ProbeAgain ==
  /\ pc = "again"
  /\ LET ok == [e \in {"base", "head"} |-> have[e] \/ (ObjectExists(view[e]) /\ ~Cancelled)]
     IN  IF ok.base /\ ok.head
         THEN pc' = "collect" /\ have' = ok /\ UNCHANGED <<view, remote, logged, diffed, shaped, error>>
         ELSE Ends("unresolved")
  /\ UNCHANGED <<source, world, blame>>

-----------------------------------------------------------------------------
(* The two processes of rangeSource and prSource, which run side by side.  *)
(* Each finds out on its own what the names of a range stand for.          *)

(* Mutant: a pull request is read by what its refs stand for now. *)
EndsByName == IF request.kind = "pr" THEN server ELSE names

RevRange == IF request.kind = "pr" THEN view ELSE names
Dots(command) == IF request.kind = "range" THEN request.dots
                 ELSE IF command = "log" THEN 2 ELSE 3

RunLog ==
  /\ pc = "collect" /\ logged = Waiting /\ ~Cancelled
  /\ logged' = IF {RevRange.base, RevRange.head} \subseteq local
               THEN Got(Log(RevRange.base, RevRange.head, Dots("log"))) ELSE Failed
  /\ UNCHANGED <<source, world, pc, view, remote, have, diffed, shaped, error, blame>>

RunDiff ==
  /\ pc = "collect" /\ diffed = Waiting /\ ~Cancelled
  /\ diffed' = IF /\ {RevRange.base, RevRange.head} \subseteq local
                  /\ Diffable(RevRange.base, RevRange.head, Dots("diff"))
               THEN Got(Diff(RevRange.base, RevRange.head, Dots("diff"))) ELSE Failed
  /\ UNCHANGED <<source, world, pc, view, remote, have, logged, shaped, error, blame>>

(* A process is killed: the context is done, or the other one has failed,  *)
(* which cancels the group's context.                                      *)
Killed ==
  /\ pc = "collect"
  /\ Cancelled \/ Failed \in {logged, diffed}
  /\ \/ logged = Waiting /\ logged' = Failed /\ UNCHANGED diffed
     \/ diffed = Waiting /\ diffed' = Failed /\ UNCHANGED logged
  /\ UNCHANGED <<source, world, pc, view, remote, have, shaped, error, blame>>

(* g.Wait *)
Collected ==
  /\ pc = "collect" /\ Waiting \notin {logged, diffed}
  /\ CASE Failed \in {logged, diffed} -> Ends("git")
       [] Failed \notin {logged, diffed} /\ request.kind = "range" /\ logged.value = {} -> Ends("nothing")
       [] OTHER -> pc' = "prepare" /\ UNCHANGED <<view, remote, have, logged, diffed, shaped, error>>
  /\ UNCHANGED <<source, world, blame>>

-----------------------------------------------------------------------------
(* prepareReview *)

Globs == MergedExcludeGlobs(shaping.diff, shaping.policy)

(* Mutant: the limit is applied before the globs. *)
TruncatesFirst(text, sent) ==
  \E short \in {TruncateDiff(text, shaping.limit)} : sent = FilterDiffByGlobs(short, Globs)

Shapes(text, sent) ==
  \E kept \in {FilterDiffByGlobs(text, Globs)} : sent = TruncateDiff(kept, shaping.limit)

PrepareStaged ==
  /\ pc = "prepare" /\ request.kind = "staged"
  /\ pc' = "done"
  /\ Shapes(shaped, shaped')
  /\ error' = IF IsBlank(shaped') THEN "excluded" ELSE error
  /\ UNCHANGED <<source, world, view, remote, have, logged, diffed, blame>>

(* A range may be reviewed by its commits alone, a pull request not. *)
PrepareCommits ==
  /\ pc = "prepare" /\ request.kind # "staged"
  /\ IF request.kind = "pr" /\ diffed.value.added = {} THEN Ends("nothing")
     ELSE pc' = "done" /\ UNCHANGED <<view, remote, have, logged, diffed, shaped, error>>
  /\ UNCHANGED <<source, world, blame>>

-----------------------------------------------------------------------------
(* The others *)

(* A push to the pull request or its base, a force-push among them. *)
Push ==
  /\ request.kind = "pr" /\ pc # "done" /\ moves < MaxMoves
  /\ server' \in Origins \ {server} /\ moves' = moves + 1
  /\ UNCHANGED <<source, local, names, work>>

(* A commit, a checkout or a fetch in this repository. *)
MoveNames ==
  /\ request.kind = "range" /\ pc # "done" /\ moves < MaxMoves
  /\ \E end \in {"base", "head"}, c \in local : c # names[end] /\ names' = [names EXCEPT ![end] = c]
  /\ moves' = moves + 1
  /\ UNCHANGED <<source, server, local, work>>

(* gitl's own steps, those of git in this repository, and kills *)
Own ==
  \/ Misused \/ Classify \/ ReadIndex
  \/ ResolveRemoteName \/ ProbeHead \/ ProbeBase \/ ProbeAgain
  \/ RunLog \/ RunDiff \/ Killed \/ Stopped \/ Collected
  \/ PrepareStaged \/ PrepareCommits

(* gh and git fetch end by themselves, or a process fails. *)
Network == ResolvePR \/ FetchRef \/ FetchRefuses \/ ToolFails

Next == Own \/ Network \/ Interrupt \/ Push \/ MoveNames
Spec == Init /\ [][Next]_vars

(* gitl goes on, git ends in the local repository, and a killed process    *)
(* is gone.  Nothing makes gh or git fetch end while the network is        *)
(* silent: neither has a timeout.                                          *)
FairSpec == Spec /\ WF_vars(Own)

-----------------------------------------------------------------------------
TypeOK ==
  /\ request \in Requests
  /\ server \in Pair(Commits) /\ named \in BOOLEAN
  /\ local \subseteq Commits /\ cut \subseteq Commits
  /\ names \in Pair(Commits) /\ DOMAIN remotes = {"origin", "upstream"}
  /\ pc \in {"start", "index", "gh", "remote", "head", "base", "fetch", "again", "collect",
             "prepare", "done"}
  /\ view \in Pair(Commits) \cup {Unseen} /\ remote \in DOMAIN remotes
  /\ have \in Pair(BOOLEAN)
  /\ logged \in {Waiting, Failed} \/ logged \in [status : {"ok"}, value : SUBSET Commits]
  /\ diffed \in {Waiting, Failed} \/
     diffed \in [status : {"ok"}, value : [added : SUBSET Commits, reverted : SUBSET Commits]]
  /\ error \in {"none", "usage", "tool", "nothing", "excluded", "fetch", "unresolved", "git"}
  /\ blame \subseteq {"tool", "cancel"} /\ moves \in 0 .. MaxMoves

Reviewed == pc = "done" /\ error = "none"

(* The review of a pull request is about the commits GitHub reported at    *)
(* one moment, whatever is pushed, force-pushed or missing meanwhile, from *)
(* whichever remote the objects came, and however shallow the clone is.    *)
Contract == INSTANCE PRContract WITH
  outcome <- IF request.kind # "pr" \/ pc # "done" THEN [status |-> "pending"]
             ELSE IF error # "none" THEN [status |-> "refused"]
             ELSE [status |-> "ok", commits |-> logged.value, diff |-> diffed.value]
KeepsContract == Contract!Spec

(* A range whose left end is in the history of its right end: the diff is  *)
(* the changes of the listed commits, if the names do not move between the *)
(* processes that read them.                                               *)
RangeAgrees ==
  Reviewed /\ request = [kind |-> "range", dots |-> 2] /\ moves = 0
    /\ names.base \in Visible(names.head)
  => diffed.value = [added |-> logged.value, reverted |-> {}]

(* A review is refused for a reason the user can do something about: a     *)
(* misuse, a failing tool, Ctrl-C, a shallow clone, histories that have    *)
(* nothing in common, a pull request pushed to meanwhile, no remote for    *)
(* its repository, nothing to review.                                      *)
Reachable == Matching # {} \/ remotes["origin"] = "alias"
Unrelated == \E c, d \in Commits : Anc[c] \cap Anc[d] = {}
FailsForCause ==
  pc = "done" /\ blame = {} =>
    CASE error = "tool" -> FALSE
      [] error = "usage" -> request.kind \in {"none", "both", "badpr"}
      [] error = "fetch" -> ~Reachable
      [] error = "unresolved" -> moves > 0 \/ ~Reachable
      [] error = "git" -> cut # {} \/ Unrelated
      [] error = "nothing" ->
           (CASE request.kind = "staged" -> index = <<>>
              [] request.kind = "range" -> moves > 0 \/ Visible(names.head) \subseteq Visible(names.base)
              [] request.kind = "pr" -> view.head \in Anc[view.base])
      [] OTHER -> TRUE

(* The header of a file does not tell where its left side ends: a path     *)
(* with " b/" in it, printed without quotes, may be read as a shorter one. *)
Ambiguous(path) == ~NeedsQuotes(path) /\ \E i \in DOMAIN path : path[i] = "B"

(* What may be kept of the index: every file that no glob excludes and     *)
(* none that one does, those with an ambiguous header aside.               *)
Excludes(i) == MatchesAnyGlob(index[i].path, Globs)
Selections ==
  {S \in SUBSET (DOMAIN index) :
     \A i \in DOMAIN index : ~Ambiguous(index[i].path) => (i \in S <=> ~Excludes(i))}
Kept(S) ==
  LET files == SetToSortSeq(S, <) IN GitDiff([k \in DOMAIN files |-> index[files[k]]])
Fits(S) == shaping.limit <= 0 \/ Len(Kept(S)) <= shaping.limit
Sends(S) ==
  IF Fits(S) THEN shaped = Kept(S)
  ELSE \E k \in {shaping.limit - 1, shaping.limit} :
         shaped = SubSeq(Kept(S), 1, k) \o TruncationMarker /\ (k > 0 => Kept(S)[k] # "r1")

(* What is sent of a staged change is the diff of the files whose path no  *)
(* glob excludes, whole or cut at the limit between two runes; text in a   *)
(* file that looks like a header changes nothing.                          *)
SentIsAllowed ==
  request.kind = "staged" /\ pc = "done" /\ error \in {"none", "excluded"} =>
    \E S \in Selections : (error = "excluded" <=> S = {}) /\ (error = "none" => Sends(S))

(* The numbers of the report are those of the files sent: neither file     *)
(* headers nor content that looks like them are taken for one another.     *)
Signed(S, sign) ==
  Cardinality({m \in S \X (1 .. Len(shaped)) :
                 m[2] \in DOMAIN index[m[1]].lines /\ index[m[1]].lines[m[2]].sign = sign})
StatsAgree ==
  request.kind = "staged" /\ Reviewed =>
    \A S \in Selections : Sends(S) =>
      IF Fits(S)
      THEN /\ DiffLineStats(shaped) = [added |-> Signed(S, "+"), removed |-> Signed(S, "-")]
           /\ DiffFileCount(shaped) = Cardinality(S)
      ELSE /\ DiffLineStats(shaped).added <= Signed(S, "+")
           /\ DiffLineStats(shaped).removed <= Signed(S, "-")
           /\ DiffFileCount(shaped) <= Cardinality(S)

(* Resolving a source ends if gh and git fetch do, and after Ctrl-C even   *)
(* if the network never answers.                                           *)
NetworkAnswers == []<>(pc \notin {"gh", "fetch"})
SourceEnds == NetworkAnswers \/ <>Cancelled => <>(pc = "done")

(* A source is resolved to what was asked for, or refused for a cause.     *)
Outcome == TypeOK /\ RangeAgrees /\ FailsForCause
=============================================================================
