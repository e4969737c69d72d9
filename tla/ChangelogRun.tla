---------------------------- MODULE ChangelogRun ----------------------------
(***************************************************************************)
(* `gitl changelog [--ai]` (internal/cli/changelog.go), run several times  *)
(* in one repository that other people commit to and tag, with a cache of  *)
(* raw answers that outlives each run and may forget or spoil an entry.    *)
(*                                                                         *)
(* The call of the provider is ProviderCall; here it is one step.          *)
(***************************************************************************)
EXTENDS ChangelogText, ConfigLayers

CONSTANTS
  Scenarios,     \* files and variables, a repository, the command lines there
  Incoming,      \* commits that may arrive
  Answers,       \* what the model may answer
  Junk,          \* a cached answer that no longer parses
  Estimate,      \* of the cost of a call
  MaxRuns,       \* bound: runs
  MaxMoves       \* bound: commits and tags that arrive

ASSUME BoundsAssumption == MaxRuns \in Nat /\ MaxMoves \in Nat /\ Estimate \in Nat

(* A block that decodes holds a payload: lists of items, each with hashes. *)
IsList(s) == s \in Seq(Range(s))
Items(items) == IsList(items) /\ \A item \in Range(items) : IsList(item.hashes)
ASSUME AnswersAssumption ==
  /\ ~Parses(Junk)
  /\ \A answer \in Answers : IsList(answer) /\
       \A block \in Range(answer) : Accepted(block) =>
         /\ Items(block.payload.breaking) /\ IsFiniteSet(DOMAIN block.payload.categories)
         /\ \A name \in DOMAIN block.payload.categories : Items(block.payload.categories[name])

(* A hash is longer than its short form. *)
Hashed(c) == IsList(c.hash) /\ Len(c.hash) >= ShortLen
ASSUME HashesAssumption ==
  ShortLen \in Nat /\ \A c \in Incoming \cup UNION {Range(s.commits) : s \in Scenarios} : Hashed(c)

(* A layer sets some of the settings; a list of repositories names each by *)
(* a path from the root, or a relative one.                                *)
Layer(sets) ==
  /\ DOMAIN sets \subseteq DOMAIN Unset
  /\ "max_cost_usd" \in DOMAIN sets => sets.max_cost_usd \in Int
  /\ "repos" \in DOMAIN sets => sets.repos \in Seq([at : {"", "/"}, name : STRING])
  /\ "required" \in DOMAIN sets => sets.required \in Seq(STRING)

ASSUME ScenariosAssumption ==
  \A s \in Scenarios :
    /\ s.env.cwd # "" /\ {"personal", s.env.cwd, s.env.root} \ {""} \subseteq DOMAIN s.env.files
    /\ \A f \in DOMAIN s.env.files : Layer(s.env.files[f].sets)
    /\ Layer(s.env.vars)
    /\ \A l \in s.lines : Layer(l.flags) /\ DOMAIN l.flags \subseteq FlagKeys /\ l.range \subseteq Nat
    /\ s.commits \in Seq(Range(s.commits)) /\ s.tags \subseteq 1 .. Len(s.commits)

VARIABLES
  lines,    \* the command lines there are
  env,      \* the files and variables the runs find
  history,  \* the commits of HEAD, oldest first
  tags,     \* how many commits each tag has
  moves,
  store,    \* the cache: key -> answer, and the prompt it answered
  runs,
  pc,
  inv,      \* the command line
  cfg,
  from,     \* the range leaves out so many of the oldest commits
  commits,  \* what git log printed, newest first
  content,  \* the answer in hand
  hit,      \* whether it came from the cache
  asked,    \* requests of this run: endpoint and key
  art,      \* the artifact handed to the renderer
  out,      \* what stdout shows
  exit

repo == <<history, tags, moves>>
run == <<inv, cfg, from, commits>>
result == <<content, hit, asked, art, out, exit>>
vars == <<lines, env, repo, store, runs, pc, run, result>>

NoLine == [ai |-> FALSE, dryRun |-> FALSE, noCache |-> FALSE, range |-> {}, flags |-> << >>]
NoArtifact == Deterministic(<<>>, <<>>)

Init ==
  /\ \E s \in Scenarios : lines = s.lines /\ env = s.env /\ history = s.commits /\ tags = s.tags
  /\ moves = 0 /\ store = << >> /\ runs = 0
  /\ pc = "idle" /\ inv = NoLine
  /\ cfg = Unset /\ from = 0 /\ commits = <<>>
  /\ content = <<>> /\ hit = FALSE /\ asked = <<>>
  /\ art = NoArtifact /\ out = "nothing" /\ exit = "none"

Goes(a, b) == pc = a /\ pc' = b
Ends(a, shows, code) == Goes(a, "idle") /\ out' = shows /\ exit' = code
Fails(a) == Ends(a, "nothing", "1")

-----------------------------------------------------------------------------
(* The repository and the cache *)

CommitArrives ==
  /\ moves < MaxMoves /\ moves' = moves + 1
  /\ \E c \in Incoming \ Range(history) : history' = Append(history, c)
  /\ UNCHANGED <<lines, env, tags, store, runs, pc, run, result>>

TagArrives ==
  /\ moves < MaxMoves /\ moves' = moves + 1 /\ history # <<>>
  /\ tags' = tags \cup {Len(history)} /\ tags' # tags
  /\ UNCHANGED <<lines, env, history, store, runs, pc, run, result>>

Forgets ==
  /\ pc = "idle" /\ \E k \in DOMAIN store : store' = Restrict(store, DOMAIN store \ {k})
  /\ UNCHANGED <<lines, env, repo, runs, pc, run, result>>

(* Another version of gitl, or a remote cache, may have other ideas. *)
Spoils ==
  /\ pc = "idle" /\ \E k \in DOMAIN store : store' = [store EXCEPT ![k].content = Junk]
  /\ UNCHANGED <<lines, env, repo, runs, pc, run, result>>

-----------------------------------------------------------------------------
(* runChangelog *)

Invoke ==
  /\ Goes("idle", "load") /\ runs < MaxRuns /\ runs' = runs + 1
  /\ inv' \in lines
  /\ cfg' = Unset /\ from' = 0 /\ commits' = <<>>
  /\ content' = <<>> /\ hit' = FALSE /\ asked' = <<>>
  /\ art' = NoArtifact /\ out' = "nothing" /\ exit' = "none"
  /\ UNCHANGED <<lines, env, repo, store>>

LoadConfig ==
  /\ Goes("load", "range") /\ Loads(env, inv.flags)
  /\ cfg' = Loaded(env, inv.flags)
  /\ UNCHANGED <<lines, env, repo, store, runs, inv, from, commits, result>>

ConfigRejected ==
  /\ Fails("load") /\ ~Loads(env, inv.flags)
  /\ UNCHANGED <<lines, env, repo, store, runs, run, content, hit, asked, art>>

(* git describe; any failure of it means no tag. *)
ResolveRange ==
  /\ Goes("range", "log")
  /\ from' \in IF inv.range = {} THEN {Max(tags \cup {0}), 0} ELSE inv.range
  /\ UNCHANGED <<lines, env, repo, store, runs, inv, cfg, commits, result>>

(* Mutant: the commits of the range, and the one it starts from. *)
LogInclusive ==
  /\ Goes("log", "changelog") /\ from <= Len(history)
  /\ commits' = Reverse(SubSeq(history, Max({from, 1}), Len(history)))
  /\ UNCHANGED <<lines, env, repo, store, runs, inv, cfg, from, result>>

Log ==
  /\ Goes("log", "changelog") /\ from <= Len(history)
  /\ commits' = Reverse(SubSeq(history, from + 1, Len(history)))
  /\ UNCHANGED <<lines, env, repo, store, runs, inv, cfg, from, result>>

(* An unknown revision, or no commit yet. *)
LogFails ==
  /\ Fails("log")
  /\ UNCHANGED <<lines, env, repo, store, runs, run, content, hit, asked, art>>

AI == inv.ai /\ commits # <<>>

RunsDeterministic ==
  /\ Goes("changelog", "render") /\ (~AI \/ OfflineMode(cfg))
  /\ art' = Deterministic(commits, cfg.required)
  /\ UNCHANGED <<lines, env, repo, store, runs, run, content, hit, asked, out, exit>>

-----------------------------------------------------------------------------
(* runChangelogAI *)

BuildPrompt ==
  /\ Goes("changelog", "lookup") /\ AI /\ ~OfflineMode(cfg)
  /\ cfg.changelog_template # "fails"
  /\ UNCHANGED <<lines, env, repo, store, runs, run, result>>

BuildPromptFails ==
  /\ Fails("changelog") /\ AI /\ ~OfflineMode(cfg)
  /\ cfg.changelog_template = "fails"
  /\ UNCHANGED <<lines, env, repo, store, runs, run, content, hit, asked, art>>

Prompt == <<from, commits>>
UseCache == cfg.cache /\ ~inv.noCache /\ cfg.ttl_hours > 0

(* Mutant: the prompt is known by its range. *)
KeyOfRange == <<cfg.provider, cfg.base_url, cfg.azure, from>>

(* llmCacheKey *)
Key == <<cfg.provider, cfg.base_url, cfg.azure, Prompt>>

LookupHit ==
  /\ Goes("lookup", "render") /\ UseCache /\ Key \in DOMAIN store
  /\ Parses(store[Key].content)
  /\ content' = store[Key].content /\ hit' = TRUE
  /\ art' = AIArtifact(commits, Payload(content'), cfg.required)
  /\ UNCHANGED <<lines, env, repo, store, runs, run, asked, out, exit>>

(* No cache, no entry, one that does not parse, or one that has expired. *)
LookupMiss ==
  /\ Goes("lookup", IF inv.dryRun THEN "estimate" ELSE "guard")
  /\ UNCHANGED <<lines, env, repo, store, runs, run, result>>

PrintDryRun ==
  /\ Ends("estimate", "estimate", "0")
  /\ UNCHANGED <<lines, env, repo, store, runs, run, content, hit, asked, art>>

(* Mutant: the estimate is not compared to anything. *)
GuardWarns ==
  /\ Goes("guard", "call") /\ Constructs(cfg)
  /\ UNCHANGED <<lines, env, repo, store, runs, run, result>>

GuardPasses ==
  /\ Goes("guard", "call") /\ Constructs(cfg) /\ ~ExceedsBudget(cfg, Estimate)
  /\ UNCHANGED <<lines, env, repo, store, runs, run, result>>

(* Too expensive, or a client that cannot be built. *)
GuardFails ==
  /\ Fails("guard") /\ (~Constructs(cfg) \/ ExceedsBudget(cfg, Estimate))
  /\ UNCHANGED <<lines, env, repo, store, runs, run, content, hit, asked, art>>

Asks == asked' = Append(asked, [url |-> Endpoint(cfg), auth |-> Auth(cfg)])

(* CompleteRaw fails, after its retries; never a silent fallback. *)
CallFails ==
  /\ Fails("call") /\ Asks
  /\ UNCHANGED <<lines, env, repo, store, runs, run, content, hit, art>>

CallAnswers ==
  /\ Goes("call", "store") /\ Asks
  /\ \E answer \in Answers :
       /\ Parses(answer) /\ content' = answer
       /\ art' = AIArtifact(commits, Payload(answer), cfg.required)
  /\ UNCHANGED <<lines, env, repo, store, runs, run, hit, out, exit>>

(* No valid block: a warning, and the deterministic changelog. *)
CallAnswersBadly ==
  /\ Goes("call", "render") /\ Asks
  /\ \E answer \in Answers : ~Parses(answer) /\ content' = answer
  /\ art' = Deterministic(commits, cfg.required)
  /\ UNCHANGED <<lines, env, repo, store, runs, run, hit, out, exit>>

(* Put, whose failure is only logged *)
Store ==
  /\ Goes("store", "render")
  /\ \/ /\ UseCache
        /\ store' = [k \in DOMAIN store \cup {Key} |->
             IF k = Key THEN [content |-> content, prompt |-> Prompt] ELSE store[k]]
     \/ UNCHANGED store
  /\ UNCHANGED <<lines, env, repo, runs, run, result>>

(* Mutant: the writer's error is dropped. *)
RenderSilently ==
  /\ pc = "render"
  /\ IF cfg.format \in {"md", "text", "json", ""}
     THEN \E shows \in {"changelog", "part"} : Ends("render", shows, "0")
     ELSE Fails("render")
  /\ UNCHANGED <<lines, env, repo, store, runs, run, content, hit, asked, art>>

(* RenderChangelog; stdout may take nothing of it, or a part. *)
Render ==
  /\ pc = "render"
  /\ IF cfg.format \in {"md", "text", "json", ""}
     THEN Ends("render", "changelog", "0") \/ Ends("render", "part", "1")
     ELSE Fails("render")
  /\ UNCHANGED <<lines, env, repo, store, runs, run, content, hit, asked, art>>

RunStep ==
  \/ LoadConfig \/ ConfigRejected \/ ResolveRange \/ Log \/ LogFails \/ RunsDeterministic
  \/ BuildPrompt \/ BuildPromptFails \/ LookupHit \/ LookupMiss \/ PrintDryRun
  \/ GuardPasses \/ GuardFails \/ CallFails \/ CallAnswers \/ CallAnswersBadly \/ Store \/ Render

Next == Invoke \/ RunStep \/ CommitArrives \/ TagArrives \/ Forgets \/ Spoils
Spec == Init /\ [][Next]_vars

-----------------------------------------------------------------------------
Rendering == pc = "render" \/ out = "changelog"
FromModel == Rendering /\ Parses(content)
Configured == pc \notin {"idle", "load"}
CategoryEntries == UNION {Range(art.categories[name]) : name \in Categories}
ShortsUnique == \A i, j \in DOMAIN history : Short(history[i].hash) = Short(history[j].hash) => i = j

(* The variables have their types; a loaded configuration names its        *)
(* repositories absolutely.                                                *)
TypeOK ==
  /\ tags \subseteq 1 .. Len(history) /\ moves \in 0 .. MaxMoves /\ runs \in 0 .. MaxRuns
  /\ pc \in {"idle", "load", "range", "log", "changelog", "lookup", "estimate", "guard",
             "call", "store", "render"}
  /\ inv \in lines \cup {NoLine} /\ DOMAIN cfg = DOMAIN Unset
  /\ Configured => cfg.provider \in Providers /\ \A i \in DOMAIN cfg.repos : cfg.repos[i].at # ""
  /\ Range(commits) \subseteq Range(history)
  /\ content \in Answers \cup {<<>>, Junk} /\ hit \in BOOLEAN
  /\ DOMAIN art.categories = Categories
  /\ out \in {"nothing", "estimate", "changelog", "part"} /\ exit \in {"none", "0", "1"}
  /\ \A k \in DOMAIN store : store[k].content \in Answers \cup {Junk}

(* The deterministic changelog has each commit of the range that is not a  *)
(* merge in one category, once, and no other commit, although the range is *)
(* found by one git process and read by another while people commit and    *)
(* tag.  A line is known by its short hash, so these must tell commits     *)
(* apart.                                                                  *)
EachCommitOnce ==
  Rendering /\ ~FromModel /\ ShortsUnique =>
    \A i \in DOMAIN history :
      LET c == history[i]
          expected == IF i \in from + 1 .. from + Len(commits) /\ c.type # "Merge" THEN 1 ELSE 0
          Of(name) == {n \in DOMAIN art.categories[name] : art.categories[name][n].hashes = <<Short(c.hash)>>}
      IN  expected = Cardinality(UNION {{name} \X Of(name) : name \in Categories})

(* "No invention": whatever the model answered, each line of the changelog *)
(* has a text, and names commits of the range only, and at least one.      *)
NoInvention ==
  FromModel => \A e \in CategoryEntries \cup Range(art.breaking) :
    /\ e.subject # "blank" /\ e.hashes # <<>>
    /\ \A h \in Range(e.hashes) :
         \E i \in from + 1 .. from + Len(commits) : h = SubSeq(history[i].hash, 1, ShortLen)

(* Nothing else is dropped: an item with a text and a commit of the range  *)
(* is in the section the model put it, in Other if there is no such one.   *)
ItemsKept ==
  FromModel => LET said == Payload(content).categories IN
    \A name \in DOMAIN said : \A item \in Range(said[name]) :
      LET mine == {Short(h) : h \in Range(item.hashes)} \cap {Short(c.hash) : c \in Range(commits)}
      IN  item.subject # "blank" /\ mine # {} =>
            \E e \in Range(art.categories[IF name \in Categories THEN name ELSE "Other"]) :
              e.subject = item.subject /\ Range(e.hashes) = mine

(* The two ways in which a changelog tells what is breaking agree: a line  *)
(* is marked if a commit of its is in the list of breaking changes, and    *)
(* the JSON list names the first category with a line that shares one.     *)
BreakingAgrees ==
  Rendering /\ (FromModel \/ ShortsUnique) =>
    /\ \A e \in CategoryEntries : e.breaking <=> \E b \in Range(art.breaking) : Shares(e, b)
    /\ \A i \in DOMAIN art.breaking :
         LET named == Json(art).breaking_changes[i].category
             sharing == {r \in DOMAIN CategoryOrder :
                           \E e \in Range(art.categories[CategoryOrder[r]]) : Shares(e, art.breaking[i])}
         IN  IF sharing = {} THEN named = "" ELSE named = CategoryOrder[Min(sharing)]

(* Markdown and JSON show the same lines and the same breaking changes,    *)
(* also if the model listed nothing but breaking ones.                     *)
FormatsAgree ==
  Rendering =>
    LET In(name) == Picked(Body(art), {i \in DOMAIN Body(art) : Body(art)[i].section = name})
        broken == Json(art).breaking_changes
    IN  /\ \A name \in Categories : In(name) = Section(name, Json(art).categories[name])
        /\ Len(In("BREAKING CHANGES")) = Len(broken)
        /\ \A i \in DOMAIN broken :
             In("BREAKING CHANGES")[i].hashes = broken[i].hashes /\ In("BREAKING CHANGES")[i].subject = broken[i].subject

(* The policy is checked against what is printed: a required category is   *)
(* reported if and only if the changelog has no section of that name; the  *)
(* list of breaking changes is no category, whatever it is called.         *)
MissingIsMissing ==
  Rendering =>
    /\ \A name \in Range(cfg.required) :
         name \in Range(art.missing) <=>
           name \notin Categories \/ \A l \in Range(Body(art)) : l.section # name
    /\ Range(art.missing) \subseteq Range(cfg.required)

(* A cached answer is shown for the very commits it was asked for.         *)
HitAnswersThis == hit /\ pc = "render" => store[Key].prompt = Prompt

(* A run pays for one call at most, and for none if it is a dry run, has   *)
(* nothing to send, no key, no budget, or an answer already.               *)
SpendsOnce ==
  /\ Len(asked) <= 1
  /\ asked # <<>> =>
       /\ inv.ai /\ ~inv.dryRun /\ ~hit /\ commits # <<>>
       /\ cfg.provider = "ollama" \/
            (cfg.api_key # "" /\ (cfg.max_cost_usd <= 0 \/ Estimate <= cfg.max_cost_usd))

(* An answer that was paid for, or found, is shown, or the write of it     *)
(* failed, and then the run fails: no setting that Load accepts makes the  *)
(* renderer refuse it, and no part of a changelog passes for a whole one.  *)
PaidIsShown ==
  /\ pc = "idle" /\ content # <<>> => out \in {"changelog", "part"}
  /\ exit = "0" => out \in {"changelog", "estimate"}
  /\ exit = "1" => out \in {"nothing", "part"}

(* Every setting is that of the strongest layer which has it: flag,        *)
(* variable, working directory, root of the repository, personal file.     *)
StrongestWins ==
  Configured =>
    LET SetIn(name) == env.files[name].sets
        layers == <<Defaults, SetIn("personal"), IF env.root = "" THEN <<>> ELSE SetIn(env.root),
                    SetIn(env.cwd), env.vars, inv.flags>>
        Strongest(k) == layers[Max({i \in DOMAIN layers : k \in DOMAIN layers[i]})][k]
    IN  \A k \in DOMAIN Defaults :
          CASE k = "provider" -> cfg[k] = IF Strongest(k) = "" THEN "openai" ELSE LowerCase(Strongest(k))
            [] k = "format" -> cfg[k] = LowerCase(Strongest(k))
            [] k = "base_url" -> Strongest(k) # "" => cfg[k] = Strongest(k)
            [] OTHER -> cfg[k] = Strongest(k)

(* The key of a provider goes to the endpoint of that provider, or to one  *)
(* that a layer names; ollama never gets it.                               *)
KeyGoesHome ==
  \A r \in Range(asked) : r.auth # "" =>
    /\ cfg.provider # "ollama"
    /\ \/ cfg.provider \in DOMAIN Home /\ r.url = Home[cfg.provider]
       \/ \E layer \in {env.files[f].sets : f \in DOMAIN env.files} \cup {env.vars, inv.flags} :
            \/ "base_url" \in DOMAIN layer /\ r.url = layer.base_url
            \/ "azure" \in DOMAIN layer /\ r.url = layer.azure

(* The repositories of a digest are found beside the file whose list won.  *)
ReposBeside ==
  Configured => \A i \in DOMAIN cfg.repos :
    LET dir == cfg.repos[i].at
        Lists(d) == "repos" \in DOMAIN env.files[d].sets
    IN  \/ dir = "/"
        \/ dir = env.cwd /\ (Lists(env.cwd) \/ env.root = "" \/ ~Lists(env.root))
        \/ dir = env.root /\ ~Lists(env.cwd) /\ Lists(env.root)

(* The lines of a changelog are the commits of its range, no fewer and no  *)
(* others, whoever sorted them.                                            *)
LinesAreCommits == EachCommitOnce /\ NoInvention /\ ItemsKept

(* Its marks, lists and formats agree with its lines. *)
MarksAgree == BreakingAgrees /\ FormatsAgree /\ MissingIsMissing

(* Money is spent once, for these commits, and what it bought is shown. *)
SpendsAndShows == HitAnswersThis /\ SpendsOnce /\ PaidIsShown

(* The five sources of a setting are merged into the right one. *)
SettingsSound == TypeOK /\ StrongestWins /\ KeyGoesHome /\ ReposBeside
=============================================================================
