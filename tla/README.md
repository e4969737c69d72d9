# A TLA+ verification of gitl

gitl is a command-line tool, written in Go, that reads a git history through the
system `git`, asks a language model for a code review, a changelog or a digest,
and renders the answer. It also runs as an MCP server over stdio and as a
pipeline step whose exit code is a risk gate. This directory holds TLA+ models
of the parts whose correctness depends on ordering, failure or shared state, the
TLC runs that check them, and TLAPS proofs of the properties that matter most.

Paths below are relative to the repository (`src/` in `PROJECT.json`).

## 1. The system

| Component | State it keeps | Operations | What is hard about it |
| --- | --- | --- | --- |
| Digest worker pool (`internal/gitlog/multidigest.go`) | result slice, job channel, one errgroup per repository | `CollectDigests`, `collectOne`, `fillCancelled` | workers write one slice without a lock; cancellation at any moment; two git processes per repository that fail together |
| Response cache (`internal/llmcache`) | files under the user cache directory (L1), an HTTP key-value store (L2) | `Get`, `Put`, backfill, eviction | shared by every gitl process of the user without a lock; TTL by wall clock; crashes between write and rename; unreliable remote |
| MCP server (`internal/mcpserver`) | the frame channel, registered tools | `Serve`, `readFrames`, `dispatch` | a reader goroutine that cannot be interrupted, cancellation against queued frames, malformed and oversized frames, tools that fail or panic |
| Review pipeline (`internal/cli/review.go`, `review_core.go`) | the plan of one review, the cache handle, the terminal | `runReview`, `RunReviewCore` | cache, cost guard, streaming with fallback, rendering, history and gate in a fixed order, any of which can fail |
| LLM client (`internal/llm/client.go`, `anthropic.go`, `gemini.go`) | attempt counter | `Complete`, `CompleteRaw`, retry with backoff | retryable against final errors, cancellation during backoff, overflow of the backoff shift |
| Streaming (`internal/llm/stream.go`) | SSE buffer, terminal gate, UTF-8 tail | `Stream`, `riskBlockGate`, `sanitizingWriter` | a marker or a rune split across chunks, streams that break or end early |
| Risk parsing (`internal/llm/risk.go`) | none | `ParseRisk`, `HeuristicRisk`, `RiskAtLeast` | streamed and buffered output must agree |
| Risk history (`internal/riskhistory`) | an append-only JSONL file | `Append`, `Load`, `Aggregate` | concurrent appends, torn lines, window boundaries |
| PR source (`internal/cli/prresolve.go`, `review.go`) | none | `ResolvePR`, `prSource` | a remote and a head that move while being read |
| Git parsing (`internal/gitlog/parser.go`, `stats.go`, `diffparse.go`, `digest.go`) | none | `ParseLog`, `ParseNumstat`, `SplitDiffSections`, `AggregateDigest` | token framing, boundaries |
| Changelog (`internal/cli/changelog.go`, `internal/gitlog/changelog.go`) | the cache | `runChangelogAI`, `CategorizeCommits` | unparsable answers, cached or fresh |
| Configuration (`internal/config`) | merged values | `Load`, `validate` | layering and the directory relative paths belong to |
| Wait indicator (`internal/cli/waiting.go`) | a spinner goroutine | `start`, `stop` | stopping exactly once, nothing drawn afterwards |
| Digest TUI (`internal/tui`) | scroll offset, window height | `Update`, `View` | resizes between scrolls, keys before the first size |

Three things tie the parts together. The review pipeline calls the cache, the
client and the gate, and writes the history; the MCP server calls the cache and
the client through `RunReviewCore` and does not write the history; the digest
reads what reviews wrote. Every process runs under one context that Ctrl-C
cancels (`signal.NotifyContext` in `cmd/gitl/main.go`), and processes of one
user share files: the cache directory and the history. Nothing takes a lock.

What makes each component correct:

- **Pool**: one writer per slot, every slot filled on return, no git process
  left behind, the reported error is the cause, Ctrl-C ends the collection.
- **Cache**: no torn entry, no answer older than the TTL allows, lookups end,
  corrupt entries heal.
- **MCP server**: one reply per request, in order, none lost at end of input; a
  cancellation ends it; a broken stream is not taken for a disconnect.
- **Review pipeline**: one review on stdout, recorded once, judged by the gate
  on the level that was shown; money only within the budget; it ends.
- **Streaming**: the terminal shows what precedes the risk block, whatever the
  split, and what the buffered path would show.
- **History and digest**: losses bounded by torn writes, trends count each
  review of their repository once and no other.
- **Provider calls**: every attempt the settings allow and no other, the right
  delay before each, a paid answer returned whole and never asked for twice, no
  wait for the provider after Ctrl-C.
- **Wait indicator**: nothing is drawn once `stop` has returned.
- **Review source**: commits and diff are of the same two commits, which the
  pull request had at one moment; files whose header names one path leave the
  machine only if no glob excludes them; an unreachable network cannot outlast
  Ctrl-C.
- **Digest report and TUI**: text, JSON and commits agree, the slice stays in
  bounds, every line can be reached.
- **Changelog**: every line stands for commits of the range; a run pays at most
  once, and what it paid for is shown unless the write of it fails.
- **Configuration**: each value comes from the strongest layer that sets it; a
  key is sent only to the endpoint it belongs to.

## 2. How the modules are put together

| Modules | Composition and abstraction |
| --- | --- |
| `DigestPool` | its cancellation and fairness stand alone; `DigestRun` takes its outcome in one step, `DigestView` its two git processes per repository |
| `LLMCache` | `ReviewRun` and `ChangelogRun` see it as one entry that may be forgotten |
| `MCPServer` | a tool is an action with any outcome; its review is `ReviewRun` with `entry = "mcp"` |
| `Risk`, `ReviewContract`, `ReviewRun` | `ReviewRun` implements `ReviewContract` |
| `ProviderCall`, `WaitIndicator`, `BufferedCall` | the call in detail, the spinner, and both beside each other under one caller |
| `StreamGate`, `StreamPaths` | the gate, and `ParseRisk` on the same answer |
| `DiffShape`, `PRContract`, `ReviewSource` | `DiffShape` holds operators on texts; `ReviewSource` uses them and implements `PRContract` for pull requests |
| `RiskHistory`, `DigestRun` | operators on the log, and the reviews and digests that use it |
| `DigestReport`, `DigestTUI`, `DigestView` | operators on a report, the viewer, and the command that collects, renders and shows; `DigestView` implements `DigestTUI` |
| `ChangelogText`, `ConfigLayers`, `ChangelogRun` | two modules of operators, and the command that needs both |

`*Proofs` modules hold the theorems of the module they are named after;
`DigestProofs` those of `DigestPool`, `DigestRun` and `DigestView`, and
`ChangelogProofs` those of `ChangelogRun` and `ConfigLayers`. `MC*` modules are
instances for TLC.

## 3. The modules

Every definition that models code has an entry under `map` in `PROJECT.json`
that names its lines. Definitions marked *Mutant* in a comment are plausible
bugs of the definition that follows them; they are used in no specification.
`Terminating` is the stutter of a system that has finished.

### DigestPool (`gitlog.CollectDigests`)

`phase` and `next` are the dispatching loop, `wstate` and `job` the workers,
`git` the two subprocesses of the repository a worker is on and `firstErr` what
its errgroup has recorded, `results` the slice. The unbuffered channel is a
rendezvous: `Handoff` moves dispatcher and worker together. The select between
the channel and `ctx.Done()` is two actions enabled at once. A killed git is an
action of its own, so that the error of the sibling killed by the errgroup and
the error that caused it are told apart.

### LLMCache (`internal/llmcache`)

One key, as keys share nothing. A file is `Absent`, `Partial`, `Corrupt` or
whole with an entry; an entry carries the `cachedAt` the file holds and, for the
properties only, when and where it was stored. Every process loops through
`tiered.Get` and, on a miss, `tiered.Put`, with one action per system call
(read, remove, write, rename, GET, PUT) and one per way it can fail. A crash
leaves the temp file; a power loss may also turn the renamed file into bytes
that do not decode, as nothing is fsynced. Temp files that stay behind are not
part of the state: their names are random and nobody reads them. The server may
drop the value, and apply a PUT after its client has given up. Hosts have clocks
off by a constant.

### MCPServer (`internal/mcpserver`)

`sent` is what the client wrote, `nread` how far `readFrames` is, `frames` the
channel of capacity 1, `srv` where `Serve` is, `out` the replies. Lines are
records of what `dispatch` tells apart (blank, malformed, oversized, a message
with or without an id, known and unknown method and tool). The three cases of
`Serve`'s select are actions enabled at once. `HandlerPanics` is the recovery in
`callHandler`.

### ReviewRun, ReviewContract, Risk (`cli.runReview`, `cli.RunReviewCore`)

A process has a configuration (flags, settings, terminal), a program counter
over the pipeline's stages, the answer in hand, and what it has put out,
recorded and spent. The stream's fallback to the buffered path, the retries with
backoff, the order of store and render (which differs between the command and
the tool), the cost guard, the dry run and the gate are all actions, and each
may fail where the code can. Processes share one cache entry. `ReviewContract`
says what a caller may rely on: at most one outcome is shown, it is recorded
once before the exit code, and the code is the gate's for that very level;
`KeepsContract` is the refinement, with the contract's variables computed from
standard output, the records and the exit code.

### StreamGate, StreamPaths (`llm.Client.Stream`, `llm.ParseRisk`)

`text` is the whole answer as bytes of a small alphabet, `got` the part that has
come; each `ReadDelta` takes any number of bytes that does not split a rune, as
decoded JSON cannot. `held`, `passed` and `suppress` are the gate's, `pending`
the writer's, `term` the terminal. `StreamPaths` adds the regular expression and
the stripping of `ParseRisk`, and compares.

### ProviderCall, WaitIndicator, BufferedCall (`llm.retry`, `cli/waiting.go`)

`ProviderCall` is one call: `attempt` is the loop variable of `retry`, `delay`
what `sleepWithBackoff` sleeps, computed in a signed word of `WordBits` bits as
the shift in Go is. `tries` counts the round trips under way or over (`Try` is
`http.Client.Do`, which may find the context done before anything is on the
wire) and `answered` the replies that came whole. A body is a list of choices or
candidates, each a list of typed blocks, so that the three clients differ in
which blocks they take. Classifying an error and choosing the next delay are
part of the action that received the error. `WaitIndicator` is the goroutine of
the spinner: `Frames` it draws, `stopCh`, and `line`, which is what the user
sees. In `BufferedCall` the caller starts both, waits for the call, stops the
spinner and only then reports; a warning of the client may be logged while the
spinner is running.

### DiffShape, PRContract, ReviewSource (`cli/review.go`, `cli/prresolve.go`, `gitlog/diffparse.go`)

`DiffShape` works on texts of symbols: it composes what git prints for a change
and models `SplitDiffSections`, the paths and their quoting, the globs, the
truncation and `DiffStats`. The properties speak of the files and their real
paths; those with an ambiguous header (`Ambiguous`: an unquoted path with ` b/`
in it) may go either way in them (section 4). In `ReviewSource` the staged diff
is such a text, while a diff of commits is the set of commits whose changes it
adds or takes back. Each git or gh process is one step, or is killed
(`Stopped`); `Network` are those that wait for a server, `Own` all others.
Between them the pull request may be force-pushed, names may move, a remote may
be a fork or have a URL that is not recognised, and the clone may be shallow.
`blame` remembers, for the properties only, what went wrong outside gitl.
`PRContract` says that a review is of the base and head at one moment, or
refused.

### DigestReport, DigestTUI, DigestView (`gitlog/digest.go`, `render/digest.go`, `internal/tui`)

`DigestReport` models `ParseNumstat`, `AggregateDigest`, the artifact and which
line of the text, and which number of the JSON document, shows what; the totals
of several repositories are computed twice there, as in the code. `DigestTUI` is
the viewer: offset, height, keys and resizes. `DigestView` is `gitl digest` from
its arguments and configuration to the viewer; log and numstat of one repository
are two steps, between which its head may move.

### ChangelogText, ConfigLayers, ChangelogRun (`cli/changelog.go`, `internal/config`)

`ChangelogText` categorizes commits, accepts or rejects answers and builds the
artifact; a hash is a short sequence whose first `ShortLen` elements are its
short form. `ConfigLayers` puts defaults, files, variables and flags over each
other (`Over`), validates the result and only then completes it; amounts are in
cents. `ChangelogRun` is the command from its range to its output, several times
in one repository that others commit to and tag, over one cache that may forget
or spoil entries. The write of the output may fail, with nothing or a part of it
on stdout.

### RiskHistory, DigestRun (`internal/riskhistory`, `cli.RunDigestCore`)

The log is the sequence of the writes that reached it; a write ends in its line
feed (`line`), without it (`bare`) or in the middle (`cut`), and the next write
is glued to the last two. `Load`, `RepoKey` and `Aggregate` are operators. Keys
are plain strings in one space: an origin that is a path and the root of the
worktree it names have the same key. `SameRepository` says, without keys, which
places are one repository: clones of one URL, by whichever protocol, and a
worktree with the clones made from its path. In `DigestRun` reviews take their
timestamp, then the key, then append, as `recordRiskHistory` does, in any order
among each other and the digest; one that receives Ctrl-C before its key is
logged under the empty key, and counts in no trend of a repository that git can
name. The field `by` of a record is there for the properties only.

## 4. The runs

| Run | What it shows | Bounds, and why they are enough |
| --- | --- | --- |
| `digest_pool` | safety and liveness of the pool | 3 repositories on 2 workers: one worker gets a second job, one job waits; two repositories share a path, so results cannot be told apart by path |
| `cache_shared` | safety, liveness and healing of the cache | 2 processes of one host with TTLs 1 and 2, one with a remote; 3 instants, so that an entry expires for one and then for both; 1 fault, at any point. Several hosts and skewed clocks are beyond this run; the proof covers them |
| `cache_evict_race` | the eviction removes a fresh entry (finding 1) | the same, without faults |
| `mcp_server` | replies, fatal streams, cancellation | 3 lines of 10 kinds: one in the handler, one in the channel, one in the reader's hand, which is all the pipeline holds |
| `review_paths` | all paths, against the contract | 2 processes, 11 pairs of 7 configurations that each take another path; 1 retry; a good and a blank answer with different levels |
| `stream_gate` | the gate, and both outputs | every review of up to 2 pieces followed by a risk block, and every answer of up to 3 pieces, some of them beginnings of markers; every split. The marker is as long as it takes to have a fence, a mismatch inside and an overlap |
| `stream_diverges` | the two outputs differ (finding 2) | the same pieces around a quotation with an odd number of fences |
| `provider_call` | attempts, delays, answers, the spinner | `max_retries` of -1, 1 and 9 in a word of 7 bits, where the shift wraps to a positive delay, a negative one and zero, as it does in 64 bits from attempt 37 on; 5 bodies per provider: none, an error, text in one block and in several |
| `review_source` | what a review is of, and what is sent | staged changes of up to 2 files, in git's order, whose paths and contents look like headers of other files, 5 settings of globs and limits; 7 clones, 5 states of the pull request, 2 moves of the world, so that it can change before and between two of gitl's steps |
| `digest_trends` | losses and trends | 2 reviews in 5 setups: in a worktree and a clone of it by its path, both in one ssh clone (one of them of a low risk, or by a newer gitl), or apart; a digest of the worktree and an https clone; 4 instants and a window of 2, so that a record lies before the window, on each end, on the midpoint or after the digest took its time; 1 torn write; Ctrl-C on any side; a short list of 1, so that its order matters |
| `digest_view` | the report and the viewer | 13 requests for up to 2 repositories, 3 histories, 2 moves of a head; the list of top files is cut at 2 of 4; windows of 1, 6 and 13 lines, below, within and above the length of a report |
| `changelog_ai` | the changelog, its cache and the configuration | 2 runs, as the second may find what the first stored; 1 commit or tag that arrives between any two steps; 7 command lines on 2 histories, 2 in each of 13 environments, each with one disagreement between layers; answers that merge, invent and repeat. Short hashes are unique in the instance; `LinesAreCommits` and the marks say what they need of that (`ShortsUnique`) |

A property that is a conjunction (`CallSound`, `ReportSound`, ...) groups parts
that one run shows together; each part is stated and explained beside it.

Findings, in short (the quotations are in `PROJECT.json`):

1. `diskCache.Get` removes whatever the path names, not what it judged expired:
   another process may have renamed a fresh answer there. It costs a model call.
2. An odd number of fences before the risk block makes `ParseRisk` miss the
   block: the buffered path prints it, the streamed one does not, and both lose
   the model's verdict.

Seen while modelling, and part of the models as the code has it, but without a
run of their own:

- After a cancellation `readFrames` can stay blocked on the channel, whose
  capacity its comment says rules that out (`server.go:88-91`). `EndOfInput`
  states the part that holds.
- `--dry-run` with a warm cache renders the review, records it and may exit with
  2 instead of printing an estimate (`review.go:69`, `:98`).
- Records and digests under an empty repository key (a bare repository without
  an origin, or Ctrl-C) are correlated, although `riskhistory.go:104-106` takes
  them for uncorrelated.
- The log and the diff of a range whose names move in between are of different
  commits, unnoticed (`review.go:218`).
- If rendering fails, a paid answer is neither stored nor shown
  (`review.go:418`).
- Everything between `https://` and the next slash is the host for
  `ParseRemoteURL` (`remote.go:14`), where the ssh patterns drop user and port.
  A clone whose https origin carries a token or a port thus has a key of its
  own, though `riskhistory.go:102` calls the key the same for both forms, and
  its trend leaves out the reviews of the others. `TrendExact` is about origins
  without them (`PlainUrls`).
- `DiffSectionPath` takes the last ` b/` of an unquoted header for the start of
  the path (`diffparse.go:88-90`). Of a path with ` b/` in it only the rest is
  matched against the globs: with `v/**` excluded, the file `v/x b/y` is sent
  all the same, and `w b/v/y`, which no glob excludes, is dropped, although
  `review.go:605-606` speaks of sections whose path matches. `SentIsAllowed`
  leaves such files (`Ambiguous`) open; it requires neither.
- `gh` and `git fetch` run without a timeout: while the network is silent, only
  Ctrl-C ends them (`runner.go:227`, `prresolve.go:71`).
- Keys pressed before the first size is known can move the offset to the end,
  and a later resize then shows an empty page (`tui/model.go:48-51`).
- A repository named twice in `--repos` counts twice in the overall totals.

## 5. Fairness

Liveness is checked under no more than the runtime gives:

- `DigestPool`: goroutines are scheduled, and a killed git exits. That a git
  left alone ends is no assumption of `CancelReturns`; `ReturnsIfGitsEnd` states
  it as its hypothesis (`GitsEnd`). `Returns` is the two together.
- `LLMCache`: code and operating system go on (`Runs`). A remote request ends by
  the client's timeout, which `newRemote` never leaves at zero, so the server
  owes nothing. `CorruptHeals` has the hypothesis that somebody keeps reviewing.
- `MCPServer`: the reader and `Serve` run; a cancelled handler ends, as git and
  the provider run under its context. Strong fairness for two steps: Go's select
  chooses at random among ready cases, so the cancellation is taken although the
  channel is ready as often; and a write proceeds when the pipe has room again
  and again. `CancelStops` excepts a client that has stopped draining stdout,
  where the code does block. `EveryRequestAnswered` has the hypothesis that
  handlers end.
- `ReviewRun`: local steps proceed and the context interrupts requests and
  backoff. `RunEnds` adds, as its hypothesis, the HTTP client's timeout.
- `BufferedCall`: goroutines run, timers fire, a request under a cancelled
  context ends. `CallEnds` adds the client's timeout as its hypothesis.
- `ReviewSource`: gitl goes on, git ends where it reads the local repository
  only, and a killed process is gone, with any helpers it had started. Nothing
  is assumed of `gh` and `git fetch`, which no timeout ends; `SourceEnds` has
  the hypothesis that they do end (`NetworkAnswers`) or that Ctrl-C comes, at
  which `exec.CommandContext` kills them.
- `DigestView`: the program owes nothing, the user does: `ReachesEnd` has the
  hypothesis (`Reading`) that at some point only the next page is asked for, and
  then again and again, in a window of known height.

`StreamGate`, `DigestRun` and `ChangelogRun` are checked for safety only.

## 6. What is proved

The proofs hold for every value of the constants that satisfies the named
assumptions of the modules, which TLC evaluates in the runs.

**DigestProofs**, the pool (any number of repositories, any concurrency). None
of the properties is inductive alone. `SlotInv` says who may write a slot: jobs
below `next` are taken or written, the rest untouched. `PhaseInv` says what the
dispatcher knows in each phase, `ErrorInv` where each git error can come from
(the sibling's death only after a first error was recorded). From these follow
`PoolTypeOK`, `OneWriter`, `CompleteOnReturn` and `RootCause`, hence
`ResultsSound`, `NoOrphanGit`, and the action property `WriteOnce`.

**DigestProofs**, the log and the trends (any reviews, clones, versions, clocks
and torn writes). `HistoryInv` says what each write of the log is: of one
review, with the time and the key that review took, whole unless torn. A record
that `Load` loses is then charged to a torn write, and no two records to the
same one; two records counted together are of reviews whose keys agree, and keys
agree exactly where the places are one repository, as long as no origin of it
has credentials in it; and the place of a repository in the list is the number
of those before it. Each of the three counts is thus a one-to-one map, and from
these follow `LogSound`, `TrendExact` and `NewestShown`, together `TrendSound`.

**DigestProofs**, the viewer (any report, terminal and order of keys and
resizes). Every step of `DigestView` is a step of `DigestTUI` or leaves the
viewer alone; the offset stays within the lines. From these follow
`ViewInBounds` and `NoLineSkipped`.

**DigestProofs**, the numbers of a digest (any commits and columns of numstat,
any repositories, heads that move whenever they like). `ViewInv` says of each of
the two processes of a repository that what it listed includes the commits that
stayed in the window all along, and of each finished digest which two lists it
was made of. `LinesMatch` then compares sums over three finite sets of commits;
`SumMonotone`, that a sum of naturals over more elements is no smaller, rests on
an induction over subsets (`SubsetInduction`), which the well-foundedness of the
strict subset order gives without the induction theorems.

**DigestProofs**, the report (any requests, authors, types and paths, any limit
of the list of files). `NamesAssumption` says that the names have a byte order
without repetition, `RequestsAssumption` that an entry of a list of repositories
is blank or a path. `ReportInv`, on top of `ViewInv`, says that the repositories
of a report are those asked for, each an error or a digest whose tables add up;
a step keeps it because of what the operators compute. The rows of a table by
author or topic partition the commits (`Grouped`), so their counts and lines add
up to the totals (`SumByParts`, `TablesAre`); a strict total order arranges a
set without losing or repeating an element (`ArrangedIs`), as its ranks are a
one-to-one map of a finite set into an interval as large; cutting that list
keeps the rows that were changed most (`TopFilesAre`). Of the text, a line that
is a row, a "nothing" or a summary comes from the body of the repository it
names (`TextIs`, `RowsAre`), which for a failed one has none of them
(`FailedNotQuiet`). With the viewer's invariant for the types, from these
follows `ReportSound`.

**LLMCacheProofs** (any finite set of processes, any hosts, TTLs, clock errors
and faults). The invariant says where entries can be, part by part: on disks, at
the server and under way to it, in the hands of processes. Every entry anywhere
still has the `CachedAt` that its storing host's clock showed (`DatedEntries`);
a temp file that is about to be renamed is whole. Each step moves entries
between those places or makes one now. From this follow `TypeOK`, `NoTornEntry`
and `FreshHit`.

**MCPServerProofs** (any lines, any number of them). `Pipeline` locates every
line between the last one read and the last one handled: blank, in the channel
or in the reader's hand, in order. `Ending` says what a closed channel means,
`Serving` what is owed to the line being handled. From these follow `TypeOK`,
`RepliesInOrder` and `NothingSkipped`, hence `Conversation`; and
`AllAnsweredAtEof`, `FatalSurfaces` and `ReaderEnds`, hence `EndOfInput`.

**StreamGateProofs** (any marker, any answer, any split). While the gate is open
what came is what was passed on followed by what is held, which is the longest
end that may become a marker, and no marker has begun in what was passed on
(`Open`); once it is closed, what was passed on ends where the first marker
begins (`Closed`). From these follow `CutAtMarker` and `Timely`. The terminal is
the sanitizer's: it makes the same of a text in pieces as of the whole
(`SanitizedConcat`, an induction over the second piece), and every piece ends
behind a whole rune (`Boundary`), because deltas do (`Source`) and the gate cuts
only in front of a byte of the marker, which no rune contains
(`RunesAssumption`). Hence nothing waits in the sanitizer and `TerminalSound`
holds.

**ReviewRunProofs** (any number of processes, settings, answers and retries).
How much was paid, and what stdout shows, is known from where a process is:
`LocalInv` says so for one process, as predicates over its configuration, label,
stdout, answer and counters, so that a step is judged by what it makes of them
and nothing else. All that processes share is the cache, which holds no blank
answer (`CacheInv`). From these follow `OneReview` and `SpendsRight`.

**ReviewRunProofs**, the refinement: `Spec => KeepsContract`. What the contract
sees of a process follows from where it is, too (`SeenInv`): from the moment
there is something to store, record or judge, the level on stdout is that of the
answer in hand, and nothing is recorded before the end. One lemma per action of
the contract says which change of stdout, records and exit codes is that action
(`Shows`, `Estimates`, `Records`, `Finishes`) or none (`Hides`); one lemma per
group of pipeline steps maps the step to one of them.

**BufferedCallProofs** (any settings, widths, statuses and bodies). The round
trips are the attempts made, plus one in flight (`Counted`); what was answered
is told by where the call is (`Concluded`). `BackoffValue` says what
`sleepWithBackoff` computes in a word of any width: below `BackoffMax` the shift
cannot wrap (`BackoffAssumption`), and beyond it a wrapped value is still a
multiple of a power of two larger than `BackoffMax`, or not positive
(`PowDivides`). `ReplyWhole` says what the blocks of an answer make when they
are joined: `ConcatWhole` counts the characters before each of them. With these,
`SoundInv` is inductive and gives `CallSound`; `CleanReport` follows from the
actions alone. Both proofs need inductions over the naturals, made from the
well-foundedness of `<` (`SetInduction`), and that a recursion over an interval
has a solution (`Recursion`).

**ReviewSourceProofs** (any history without merges, any clone, names and
remotes, any pushes meanwhile). `SourceInv` says what is known at each step:
which requests can be there (`Phase`), that what GitHub said still holds if
nobody pushed (`Seen`), which objects are at hand (`Probed`) and what git
printed of which commits (`Printed`). What a shallow clone hides of two
histories with a common commit in sight it hides of both, so that the difference
is right or git refuses (`VisibleDifference`). A staged change is never taken
for an empty one: the text git prints of it begins with a header
(`HeaderFirst`), which is an induction over the pieces `FlattenSeq` joins. From
these follow `Outcome`, and `KeepsContract`: each step for a pull request is a
step of `PRContract`.

**ChangelogProofs** (any layers, command lines, histories, answers and number of
runs; whoever commits, tags or meddles with the cache). The first half is about
`ConfigLayers` alone: the value of each setting after the merge is that of the
strongest layer (`MergedValue`), and what validation and completion make of it
(`LoadedValue`); from these follow where a key is sent (`KeyLoaded`) and where
repositories are found (`BaseDir`, `ReposLoaded`). The second is the invariant
of the runs: an entry of the cache lies under the prompt it answered
(`StoreInv`); nothing is asked, found or shown before its place (`PlaceInv`);
and where a run is tells which checks it has passed (`GuardInv`). What was paid
for is then on stdout, or the run failed at its write. From these follow
`SpendsAndShows` and `SettingsSound`. Two flaws of the model came out of the
attempt: an empty provider in a layer means openai, and a repository without
commits cannot be tagged.

**ChangelogProofs**, the lines of a changelog (the same, and any answers whose
blocks decode to lists of items, `AnswersAssumption`; any hashes no shorter than
their short form, `HashesAssumption`). `LinesInv` adds two parts to the
invariant of the runs. `RangeInv`: the commits in hand are a stretch of the
history, last commit first, whoever has committed since, because a history only
grows. `ArtInv`: what is rendered is the artifact of these commits and of this
answer. What such an artifact holds is then a matter of lists, which the model
builds by joining pieces (`Picked`, `FlattenSeq`). The section *Lists* says once
what such a join is made of, by an induction over its length (`SetInduction`,
`SeqUp`); *The artifact* says it of `Deterministic` and of `AIArtifact`: each
line stands for a commit or an item, and each commit or item has its line
(`DeterministicIs`, `Lasting`); and of the renderers, that a section has as many
lines as its list (`SectionIs`, `BodySections`). From these follow
`LinesAreCommits` and `MarksAgree`. The attempt showed what both had left
unsaid. A line is known by its short hash, so "each commit on one line" and the
marks of a changelog made without the model hold only if short hashes tell the
commits of the history apart (`ShortsUnique`). And a required category may be
called like the title of the list of breaking changes: the code reports it as
missing (it is no category) under a section of that very name, so the property
speaks of categories.

Only model-checked: every liveness property, which needs fairness and `ENABLED`;
`PathsAgree`, which is about what a regular expression matches; and
`SentIsAllowed` and `StatsAgree`, which are about the texts of diffs: where
sections begin, which backslashes escape, what a filter leaves. Each of these
would take an induction of its own over the text, from assumptions on the bytes
that paths and lines consist of; the run enumerates texts made to break them.

## 7. What is not modelled

- Commit message suggestions, the log handler, version and completion format
  text or wire commands together; installers and pipeline scripts only move
  files. None has a state or an order to get wrong.
- Of rendering and prompts, everything but which line of a digest or changelog
  shows what, and that they can fail.
- The encoding of requests to providers and the redaction of keys in errors;
  prices and the counting of tokens, of which the models take the verdict;
  `HeuristicRisk`, a classification by keywords, of which they take the level.
- Parsing of git's log records and of remote URLs: the models keep whether they
  are recognised and which repository they name. Paths with line feeds, octal
  escapes in quoted paths, and table cells of several lines are left out.
- `gitl init`, spelling suggestions, and settings no property tells apart.

`PROJECT.json` lists every component with what is left out of it.
