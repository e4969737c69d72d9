----------------------------- MODULE DigestReport ---------------------------
(***************************************************************************)
(* From what git says of a repository to the report of `gitl digest`: the  *)
(* aggregation (internal/gitlog/digest.go, parser.go), the artifact        *)
(* (internal/cli/digest_core.go) and its renderings                        *)
(* (internal/render/digest.go).  A line of the text is a tuple of what it  *)
(* shows.                                                                  *)
(***************************************************************************)
EXTENDS Integers, Sequences, FiniteSets, SequencesExt, FiniteSetsExt

CONSTANTS
  Commits,
  AuthorOf, PrefixOf,  \* the author and the conventional prefix of a commit
  ChangesOf,           \* the files it changes, each with its numstat
  Names,               \* authors, types and paths in the order of their bytes
  TopFilesLimit

NoPrefix == [type |-> "none", capital |-> FALSE]
Binary == -1           \* "-" in a column of numstat

ASSUME CommitsAssumption ==
  /\ DOMAIN AuthorOf = Commits /\ DOMAIN PrefixOf = Commits /\ DOMAIN ChangesOf = Commits
  /\ IsFiniteSet(Commits) /\ \A c \in Commits : IsFiniteSet(ChangesOf[c])
  /\ \A c \in Commits : \A f \in ChangesOf[c] : {f.added, f.removed} \subseteq Nat \cup {Binary}
  /\ TopFilesLimit \in Nat

(* The elements of S in the order R: before the k-th stand k - 1. *)
Arranged(S, R) ==
  [k \in 1 .. Cardinality(S) |-> CHOOSE x \in S : Cardinality({y \in S : <<y, x>> \in R}) = k - 1]

-----------------------------------------------------------------------------
(* ParseNumstat *)

Column(n) == IF n = Binary THEN 0 ELSE n
NoLines == [added |-> 0, removed |-> 0]
Numstat(listed) ==
  [c \in listed |-> [added |-> SumFunction([f \in ChangesOf[c] |-> Column(f.added)]),
                     removed |-> SumFunction([f \in ChangesOf[c] |-> Column(f.removed)])]]

(* AggregateDigest *)

TopicOf(c) == IF PrefixOf[c] = NoPrefix THEN "other" ELSE PrefixOf[c].type
FilesOf(c) == {f.path : f \in ChangesOf[c]}

ASSUME NamesAssumption ==
  /\ Names \in Seq(Range(Names)) /\ IsInjective(Names)
  /\ \A c \in Commits : {AuthorOf[c], TopicOf(c)} \cup FilesOf(c) \subseteq Range(Names)

Precedes(a, b) == \E i, j \in DOMAIN Names : i < j /\ Names[i] = a /\ Names[j] = b

(* Mutant: the comparison is the wrong way round. *)
LeastFirst(a, b) == a.commits < b.commits \/ (a.commits = b.commits /\ Precedes(a.name, b.name))

MostFirst(a, b) == a.commits > b.commits \/ (a.commits = b.commits /\ Precedes(a.name, b.name))
Ranked(rows) == Arranged(rows, {p \in rows \X rows : MostFirst(p[1], p[2])})

LinesOf(commits, stats) ==
  LET Of(c) == IF c \in DOMAIN stats THEN stats[c] ELSE NoLines
  IN  [added |-> SumFunction([c \in commits |-> Of(c).added]),
       removed |-> SumFunction([c \in commits |-> Of(c).removed])]

(* Mutant: the totals are those of the numstat, whatever the log says. *)
TotalOfStats(commits, stats) == LinesOf(DOMAIN stats, stats)

Total(commits, stats) == LinesOf(commits, stats)

ByAuthor(commits, stats) ==
  LET Own(a) == {c \in commits : AuthorOf[c] = a}
  IN  Ranked({[name |-> a, commits |-> Cardinality(Own(a)), lines |-> LinesOf(Own(a), stats)] :
                a \in {AuthorOf[c] : c \in commits}})
ByTopic(commits) ==
  Ranked({[name |-> t, commits |-> Cardinality({c \in commits : TopicOf(c) = t})] :
            t \in {TopicOf(c) : c \in commits}})
AllFiles(commits) ==
  Ranked({[name |-> p, commits |-> Cardinality({c \in commits : p \in FilesOf(c)})] :
            p \in UNION {FilesOf(c) : c \in commits}})
TopFiles(commits) ==
  LET all == AllFiles(commits)
  IN  SubSeq(all, 1, IF Len(all) > TopFilesLimit THEN TopFilesLimit ELSE Len(all))

AggregateDigest(commits, stats) ==
  [commits |-> Cardinality(commits), filesChanged |-> Len(AllFiles(commits)),
   lines |-> Total(commits, stats), byAuthor |-> ByAuthor(commits, stats),
   byTopic |-> ByTopic(commits), topFiles |-> TopFiles(commits)]

-----------------------------------------------------------------------------
(* buildDigestArtifact.  A trend is how many reviews its short list shows, *)
(* an error how many lines git's message has.                              *)

ZeroDigest ==
  [commits |-> 0, filesChanged |-> 0, lines |-> NoLines, byAuthor |-> <<>>, byTopic |-> <<>>, topFiles |-> <<>>]
RepoOK(path, digest, trend) ==
  [path |-> path, ok |-> TRUE, err |-> 0, digest |-> digest, trend |-> trend]
RepoFailed(path, err) ==
  [path |-> path, ok |-> FALSE, err |-> err, digest |-> ZeroDigest, trend |-> 0]

-----------------------------------------------------------------------------
(* digestMarkdownBody, writeRepoDigestBody, writeOverallSummary *)

Blank == <<"blank">>
NumberedLines(n, line) == [i \in 1 .. n |-> <<line, i>>]

Table(repo, title, rows) ==
  <<<<title, repo>>, Blank>> \o
  (IF rows = <<>> THEN <<<<"nothing", repo>>>>
   ELSE <<<<"header", title>>, <<"ruler", title>>>> \o
        [i \in DOMAIN rows |-> <<"row", repo, title, rows[i]>>]) \o
  <<Blank>>

Trend(repo, n) ==
  IF n = 0 THEN <<>>
  ELSE <<<<"trend", repo>>, Blank, <<"reviews", repo>>, <<"high", repo>>, <<"recent", repo>>, Blank,
         <<"header", "recent">>, <<"ruler", "recent">>>> \o NumberedLines(n, "review") \o <<Blank>>

(* Mutant: a repository that failed shows the tables of its empty digest. *)
BodyOfZero(repo, r) ==
  <<<<"summary", repo>>, Blank,
    <<"commits", repo, r.digest.commits>>, <<"files", repo, r.digest.filesChanged>>,
    <<"lines", repo, r.digest.lines>>, Blank>> \o
  Table(repo, "author", r.digest.byAuthor) \o Table(repo, "topic", r.digest.byTopic) \o
  Table(repo, "file", r.digest.topFiles) \o Trend(repo, r.trend)

Body(repo, r) ==
  IF ~r.ok THEN NumberedLines(r.err, "error") \o <<Blank>>
  ELSE <<<<"summary", repo>>, Blank,
         <<"commits", repo, r.digest.commits>>, <<"files", repo, r.digest.filesChanged>>,
         <<"lines", repo, r.digest.lines>>, Blank>> \o
       Table(repo, "author", r.digest.byAuthor) \o Table(repo, "topic", r.digest.byTopic) \o
       Table(repo, "file", r.digest.topFiles) \o Trend(repo, r.trend)

OK(repos) == {i \in DOMAIN repos : repos[i].ok}
Combined(repos) ==
  [commits |-> SumFunction([i \in OK(repos) |-> repos[i].digest.commits]),
   added |-> SumFunction([i \in OK(repos) |-> repos[i].digest.lines.added]),
   removed |-> SumFunction([i \in OK(repos) |-> repos[i].digest.lines.removed])]
FailedOf(repos) ==
  LET failed == DOMAIN repos \ OK(repos)
  IN  Arranged(failed, {p \in failed \X failed : p[1] < p[2]})

OverallSummary(repos) ==
  <<<<"overall">>, Blank,
    <<"requested", Len(repos)>>, <<"ok", Cardinality(OK(repos))>>,
    <<"failed", FailedOf(repos)>>,
    <<"combined commits", Combined(repos).commits>>,
    <<"combined lines", [added |-> Combined(repos).added, removed |-> Combined(repos).removed]>>>>

Text(repos) ==
  IF Len(repos) = 1 THEN <<<<"digest">>, Blank>> \o Body(1, repos[1])
  ELSE <<<<"multi-repo">>, Blank>> \o
       FlattenSeq([i \in DOMAIN repos |-> <<<<"repo", i, repos[i].path>>, Blank>> \o Body(i, repos[i])]) \o
       OverallSummary(repos)

(* strings.TrimRight, strings.Split *)
Shown(text) == SubSeq(text, 1, Max({i \in DOMAIN text : text[i] # Blank}))

-----------------------------------------------------------------------------
(* renderDigestJSON *)

JsonRepo(r) ==
  IF r.ok THEN [path |-> r.path, ok |-> TRUE, stats |-> r.digest] ELSE [path |-> r.path, ok |-> FALSE]

(* Mutant: the files are added where the commits should be. *)
JsonCombinedFiles(repos) ==
  [commits |-> SumFunction([i \in OK(repos) |-> repos[i].digest.filesChanged]),
   added |-> SumFunction([i \in OK(repos) |-> repos[i].digest.lines.added]),
   removed |-> SumFunction([i \in OK(repos) |-> repos[i].digest.lines.removed])]

(* The sums of writeOverallSummary, computed a second time *)
JsonCombined(repos) ==
  [commits |-> SumFunction([i \in OK(repos) |-> repos[i].digest.commits]),
   added |-> SumFunction([i \in OK(repos) |-> repos[i].digest.lines.added]),
   removed |-> SumFunction([i \in OK(repos) |-> repos[i].digest.lines.removed])]

(* Mutant: a repository that failed counts among those that did not. *)
JsonOverallOfAll(repos) ==
  [requested |-> Len(repos), ok |-> Len(repos), failed |-> Len(repos) - Cardinality(OK(repos)),
   combined |-> JsonCombined(repos)]

JsonOverall(repos) ==
  [requested |-> Len(repos), ok |-> Cardinality(OK(repos)),
   failed |-> Len(repos) - Cardinality(OK(repos)), combined |-> JsonCombined(repos)]
Json(repos) == [repos |-> [i \in DOMAIN repos |-> JsonRepo(repos[i])], overall |-> JsonOverall(repos)]
=============================================================================
