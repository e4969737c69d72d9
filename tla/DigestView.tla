------------------------------ MODULE DigestView ----------------------------
(***************************************************************************)
(* A run of `gitl digest` from its flags to what the user sees             *)
(* (internal/cli/digest.go, digest_core.go): which repositories it is      *)
(* about, the two git processes of collectOne for each of them             *)
(* (internal/gitlog/multidigest.go) while others commit, the report, and   *)
(* the viewer.                                                             *)
(*                                                                         *)
(* The worker pool around collectOne is DigestPool, the trends DigestRun.  *)
(***************************************************************************)
EXTENDS DigestReport, DigestTUI

CONSTANTS
  Anc,          \* the ancestors of a commit and itself
  Recent,       \* the commits since the start of the window
  Requests,     \* [days, repos, tui, terminal, config]; repos: the values of
                \* --repos, config: of digest.repos
  Abs,          \* the absolute path of a path that is not empty
  RepoAt,       \* the repositories at some paths
  Histories,    \* heads of each repository at the start
  Heads,        \* what a head may become
  TrendRows,    \* how many reviews a trend may show
  MaxMoves      \* bound on the moves of heads

Empty == "empty"          \* an entry that is blank
NotSet == <<"not set">>
NoRepo == "no repository"
Unborn == "unborn"        \* the head of a repository without commits

ASSUME WindowAssumption ==
  /\ Anc \in [Commits -> SUBSET Commits] /\ Recent \subseteq Commits /\ Heads \subseteq Commits
  /\ \A h \in Histories : /\ \A p \in DOMAIN RepoAt : RepoAt[p] \in DOMAIN h
                          /\ \A r \in DOMAIN h : h[r] \in Commits \cup {Unborn}
  /\ MaxMoves \in Nat /\ TrendRows \subseteq Nat

(* An entry of a list is blank or the path of something. *)
ASSUME RequestsAssumption ==
  \A r \in Requests : {r.repos, r.config} \subseteq Seq(DOMAIN Abs \cup {Empty}) \cup {NotSet}
                     /\ r.config # NotSet

VARIABLES
  request,
  pc,
  paths,      \* the repositories the digest is about
  head,       \* of each repository
  stays,      \* the commits that were in the window all the time
  logged,     \* the outcome of LogSince for each path
  counted,    \* the outcome of NumstatSince
  repos,      \* DigestArtifact.Repos
  moves

world == <<head, stays, moves>>
work == <<pc, paths, logged, counted, repos>>
vars == <<request, world, work, tuiVars>>

Waiting == [status |-> "waiting"]
Failed(n) == [status |-> "failed", err |-> n]
Got(commits) == [status |-> "ok", commits |-> commits]

RepoOf(path) == IF path \in DOMAIN RepoAt THEN RepoAt[path] ELSE NoRepo

Window(repo, heads) ==
  IF repo = NoRepo THEN {} ELSE IF heads[repo] = Unborn THEN {} ELSE Anc[heads[repo]] \cap Recent

Init ==
  /\ request \in Requests
  /\ head \in Histories
  /\ stays = [r \in DOMAIN head |-> Window(r, head)]
  /\ pc = "start" /\ paths = <<>> /\ logged = <<>> /\ counted = <<>> /\ repos = <<>> /\ moves = 0
  /\ TUIInit

-----------------------------------------------------------------------------
(* digestRepoPaths *)

(* Mutant: an empty entry is made absolute like any other. *)
NormalizeAll(raw) == [i \in DOMAIN raw |-> IF raw[i] = Empty THEN Abs["."] ELSE Abs[raw[i]]]

(* The entries that are not blank *)
Given(raw) == FlattenSeq([i \in DOMAIN raw |-> IF raw[i] = Empty THEN <<>> ELSE <<raw[i]>>])

NormalizeRepoPaths(raw) ==
  LET given == Given(raw)
  IN  [i \in DOMAIN given |-> Abs[given[i]]]

DigestRepoPaths(explicit, config) ==
  IF explicit # NotSet THEN NormalizeRepoPaths(explicit)
  ELSE IF config # <<>> THEN NormalizeRepoPaths(config)
  ELSE <<".">>

(* RunDigestCore up to CollectDigests *)
Refuses ==
  /\ pc = "start"
  /\ request.days <= 0 \/ DigestRepoPaths(request.repos, request.config) = <<>>
  /\ pc' = "refused"
  /\ UNCHANGED <<request, world, paths, logged, counted, repos, tuiVars>>

Starts ==
  /\ pc = "start" /\ request.days > 0 /\ DigestRepoPaths(request.repos, request.config) # <<>>
  /\ pc' = "collect"
  /\ paths' = DigestRepoPaths(request.repos, request.config)
  /\ logged' = [i \in DOMAIN paths' |-> Waiting] /\ counted' = [i \in DOMAIN paths' |-> Waiting]
  /\ UNCHANGED <<request, world, repos, tuiVars>>

-----------------------------------------------------------------------------
(* collectOne *)

(* git log fails where there is no repository, or no commit yet. *)
Listed(i) ==
  IF RepoOf(paths[i]) = NoRepo THEN Failed(1)
  ELSE IF head[RepoOf(paths[i])] = Unborn THEN Failed(1)
  ELSE Got(Window(RepoOf(paths[i]), head))

LogSince(i) ==
  /\ pc = "collect" /\ logged[i] = Waiting
  /\ logged' = [logged EXCEPT ![i] = Listed(i)]
  /\ UNCHANGED <<request, world, pc, paths, counted, repos, tuiVars>>

NumstatSince(i) ==
  /\ pc = "collect" /\ counted[i] = Waiting
  /\ counted' = [counted EXCEPT ![i] = Listed(i)]
  /\ UNCHANGED <<request, world, pc, paths, logged, repos, tuiVars>>

(* A process fails or is killed; what it says takes two lines. *)
GitFails(i) ==
  /\ pc = "collect"
  /\ \/ logged[i] = Waiting /\ logged' = [logged EXCEPT ![i] = Failed(2)] /\ UNCHANGED counted
     \/ counted[i] = Waiting /\ counted' = [counted EXCEPT ![i] = Failed(2)] /\ UNCHANGED logged
  /\ UNCHANGED <<request, world, pc, paths, repos, tuiVars>>

(* Mutant: an error of numstat is ignored. *)
BuiltFromLog(i, trend, first) ==
  IF logged[i].status = "failed" THEN RepoFailed(paths[i], logged[i].err)
  ELSE RepoOK(paths[i],
              AggregateDigest(logged[i].commits,
                              IF counted[i].status = "ok" THEN Numstat(counted[i].commits) ELSE <<>>),
              trend)

(* g.Wait returns the error of whichever process failed first. *)
Built(i, trend, first) ==
  IF logged[i].status = "ok" /\ counted[i].status = "ok"
  THEN RepoOK(paths[i], AggregateDigest(logged[i].commits, Numstat(counted[i].commits)), trend)
  ELSE LET failed == {o \in {"log", "numstat"} : (IF o = "log" THEN logged[i] ELSE counted[i]).status = "failed"}
           told == IF first \in failed THEN first ELSE CHOOSE o \in failed : TRUE
       IN  RepoFailed(paths[i], (IF told = "log" THEN logged[i] ELSE counted[i]).err)

(* Every result is in; the trend of a path may be missing. *)
Builds ==
  /\ pc = "collect" /\ \A i \in DOMAIN paths : Waiting \notin {logged[i], counted[i]}
  /\ pc' = "built"
  /\ \E trends \in [Range(paths) -> TrendRows], first \in [DOMAIN paths -> {"log", "numstat"}] :
       repos' = [i \in DOMAIN paths |-> Built(i, trends[paths[i]], first[i])]
  /\ UNCHANGED <<request, world, paths, logged, counted, tuiVars>>

-----------------------------------------------------------------------------
(* runDigest *)

Prints ==
  /\ pc = "built" /\ ~(request.tui /\ request.terminal)
  /\ pc' = "printed"
  /\ UNCHANGED <<request, world, paths, logged, counted, repos, tuiVars>>

Views ==
  /\ pc = "built" /\ request.tui /\ request.terminal
  /\ pc' = "viewing"
  /\ \E text \in {Shown(Text(repos))} : New(Len(text))
  /\ UNCHANGED <<request, world, paths, logged, counted, repos>>

Scrolls == pc = "viewing" /\ Update /\ UNCHANGED <<request, world, work>>

(* A commit, an amend or a checkout in a repository that git has still to *)
(* look at.                                                                *)
HeadMoves ==
  /\ pc = "collect" /\ moves < MaxMoves
  /\ \E i \in DOMAIN paths, c \in Heads :
       LET r == RepoOf(paths[i])
       IN  /\ r # NoRepo /\ Waiting \in {logged[i], counted[i]}
           /\ head[r] # c /\ head' = [head EXCEPT ![r] = c]
           /\ stays' = [stays EXCEPT ![r] = @ \cap Window(r, head')]
  /\ moves' = moves + 1
  /\ UNCHANGED <<request, work, tuiVars>>

Next ==
  \/ Refuses \/ Starts
  \/ \E i \in DOMAIN paths : LogSince(i) \/ NumstatSince(i) \/ GitFails(i)
  \/ Builds \/ Prints \/ Views \/ Scrolls
  \/ HeadMoves

Spec == Init /\ [][Next]_vars

-----------------------------------------------------------------------------
TypeOK ==
  /\ request \in Requests
  /\ pc \in {"start", "refused", "collect", "built", "printed", "viewing"}
  /\ \A i \in DOMAIN paths : paths[i] \in Range(Abs) \cup {"."}
  /\ DOMAIN logged = DOMAIN paths /\ DOMAIN counted = DOMAIN paths
  /\ \A r \in DOMAIN head : head[r] \in Commits \cup {Unborn} /\ stays[r] \subseteq Window(r, head)
  /\ \A i \in DOMAIN repos : repos[i].path = paths[i]
  /\ moves \in 0 .. MaxMoves
  /\ shown \in {"no", "yes", "quit"} /\ (shown = "no" <=> lines = 0)
  /\ offset \in Nat /\ height \in Nat /\ ready \in BOOLEAN

(* The digest is about the repositories asked for, all of them and in that *)
(* order, and about the current directory only if none was asked for: an   *)
(* entry that is blank never stands for it.                                *)
Asked == IF request.repos # NotSet THEN request.repos ELSE request.config
AskedIsAnswered ==
  pc = "built" =>
    LET named == Given(Asked)
    IN  /\ Asked # <<>> => /\ Len(repos) = Len(named) /\ Len(named) > 0
                          /\ \A i \in DOMAIN repos : repos[i].path = Abs[named[i]]
        /\ Asked = <<>> => Len(repos) = 1 /\ repos[1].path = "."

(* The numbers of the report agree with one another, in the text and in    *)
(* the JSON document: the rows of its tables add up to the totals of the   *)
(* repository, those to the overall ones, and a repository that failed is  *)
(* counted and named as such instead of looking like a quiet one.          *)
RowsIn(text, repo, title) ==
  {text[k][4] : k \in {j \in DOMAIN text : text[j][1] = "row" /\ text[j][2] = repo /\ text[j][3] = title}}
In(text, line) == \E k \in DOMAIN text : text[k] = line
RepoAddsUp(text, i) ==
  LET authors == RowsIn(text, i, "author")
      topics == RowsIn(text, i, "topic")
  IN  /\ In(text, <<"commits", i, SumFunction([a \in authors |-> a.commits])>>)
      /\ In(text, <<"commits", i, SumFunction([t \in topics |-> t.commits])>>)
      /\ In(text, <<"lines", i, [added |-> SumFunction([a \in authors |-> a.lines.added]),
                                 removed |-> SumFunction([a \in authors |-> a.lines.removed])]>>)
Quiet(text, i) == \E k \in DOMAIN text : text[k] \in {<<"nothing", i>>, <<"summary", i>>}
NumbersAddUp ==
  pc = "built" =>
    \E text \in {Text(repos)}, json \in {Json(repos)} :
      LET overall == json.overall
          Failing == {i \in DOMAIN repos : ~json.repos[i].ok}
          Whole == DOMAIN json.repos \ Failing
          Stats(i) == json.repos[i].stats
      IN  /\ \A i \in DOMAIN repos : IF repos[i].ok THEN RepoAddsUp(text, i) ELSE ~Quiet(text, i)
          /\ overall.ok + overall.failed = overall.requested /\ overall.failed = Cardinality(Failing)
          /\ overall.combined.commits = SumFunction([i \in Whole |-> Stats(i).commits])
          /\ overall.combined.added = SumFunction([i \in Whole |-> Stats(i).lines.added])
          /\ overall.combined.removed = SumFunction([i \in Whole |-> Stats(i).lines.removed])
          /\ Len(repos) > 1 =>
               /\ In(text, <<"requested", overall.requested>>) /\ In(text, <<"ok", overall.ok>>)
               /\ In(text, <<"combined commits", overall.combined.commits>>)
               /\ In(text, <<"combined lines", [added |-> overall.combined.added,
                                                removed |-> overall.combined.removed]>>)
               /\ \E names \in {text[k][2] : k \in {j \in DOMAIN text : text[j][1] = "failed"}} :
                    Range(names) = Failing /\ Len(names) = overall.failed

(* The lines of a repository come from one process, its commits from       *)
(* another: however the head moved between them, the commits are those of  *)
(* one moment, the lines are never more than theirs, and those of commits  *)
(* that were there all along are all counted.  A process that failed       *)
(* leaves an error and no digest.                                          *)
LinesMatch ==
  pc = "built" =>
    \A i \in DOMAIN repos :
      IF repos[i].ok
      THEN LET all == LinesOf(logged[i].commits, Numstat(Commits))
               steady == stays[RepoOf(paths[i])]
               least == LinesOf(steady, Numstat(Commits))
               sum == repos[i].digest.lines
           IN  /\ counted[i].status = "ok"
               /\ repos[i].digest.commits = Cardinality(logged[i].commits) /\ steady \subseteq logged[i].commits
               /\ sum.added \in least.added .. all.added
               /\ sum.removed \in least.removed .. all.removed
      ELSE "failed" \in {logged[i].status, counted[i].status}

(* No file is left out of the list for one that was changed less often,    *)
(* and the list is only cut where it has reached its limit.                *)
TopFilesFirst ==
  pc = "built" =>
    \A i \in {j \in DOMAIN repos : repos[j].ok} :
      LET top == repos[i].digest.topFiles
          Times(p) == Cardinality({c \in logged[i].commits : p \in FilesOf(c)})
          touched == UNION {FilesOf(c) : c \in logged[i].commits}
          listed == {top[k].name : k \in DOMAIN top}
      IN  /\ \A k \in DOMAIN top : top[k].commits = Times(top[k].name)
          /\ \A p \in touched \ listed, q \in listed : Times(p) <= Times(q)
          /\ Len(top) = Cardinality(listed)
          /\ listed # touched => Len(top) = TopFilesLimit
          /\ repos[i].digest.filesChanged = Cardinality(touched)

(* The digest answers what was asked, its text, its JSON document and its  *)
(* lists agree with one another and with the commits they come from.       *)
ReportSound == TypeOK /\ AskedIsAnswered /\ NumbersAddUp /\ TopFilesFirst
=============================================================================
