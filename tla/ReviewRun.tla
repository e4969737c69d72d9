------------------------------ MODULE ReviewRun -----------------------------
(***************************************************************************)
(* The review pipeline: `gitl review` (cli.runReview) and the gitl_review  *)
(* tool (cli.RunReviewCore), with the provider's calls and retries         *)
(* (llm.Client.Stream, llm.retry) in between.                              *)
(*                                                                         *)
(* Several processes review the same change with the same model, hence     *)
(* share one cache key: what one stores, another may be served.  The cache *)
(* is LLMCache seen from outside: it may forget, and it may fail.          *)
(***************************************************************************)
EXTENDS Risk, Sequences, FiniteSets

CONSTANTS
  Procs,
  Configs,      \* the flags and settings the processes may run with
  Answers,      \* what the model may answer
  MaxRetries    \* llm.max_retries

AllConfigs ==
  [entry : {"cli", "mcp"}, dryRun : BOOLEAN, cached : BOOLEAN, offline : BOOLEAN,
   stream : BOOLEAN,         \* output.stream on a terminal, no --no-stream, md or text
   overBudget : BOOLEAN,     \* the estimate exceeds cost.max_cost_usd
   failOn : Thresholds,
   history : {"off", "on", "broken"}]   \* broken: the log cannot be written

(* RunReviewCore has none of the CLI's concerns. *)
ASSUME ConfigAssumption ==
  /\ Configs \subseteq [Procs -> AllConfigs]
  /\ \A c \in Configs, p \in Procs : c[p].entry = "mcp" =>
       ~c[p].dryRun /\ ~c[p].stream /\ c[p].failOn = "never" /\ c[p].history = "off"
ASSUME MaxRetriesAssumption == MaxRetries \in Nat

(* A model's answer: its risk level (the model's or the heuristic's), and  *)
(* whether nothing but white space is left without the risk block.         *)
AllAnswers == [level : Levels, blank : BOOLEAN]
ASSUME AnswersAssumption == Answers \subseteq AllAnswers
None == [level |-> "none", blank |-> TRUE]

(* What reaches stdout: streamed tokens, the risk header after them, a     *)
(* rendered artifact, a cost estimate.                                     *)
Piece(kind, level) == [kind |-> kind, level |-> level]

VARIABLES
  conf,       \* the configuration of each process
  pc,
  cancelled,  \* SIGINT or SIGTERM received
  answer,     \* the answer in hand
  hit,        \* whether it came from the cache
  attempt,    \* retry's loop variable
  calls,      \* requests sent to the provider
  out,        \* stdout, or the reply of the tool
  records,    \* levels appended to the risk history
  exit,       \* the exit code
  cache       \* the entry under the shared key

vars == <<conf, pc, cancelled, answer, hit, attempt, calls, out, records, exit, cache>>

Init ==
  /\ conf \in Configs
  /\ pc = [p \in Procs |-> "prepare"]
  /\ cancelled = [p \in Procs |-> FALSE]
  /\ answer = [p \in Procs |-> None]
  /\ hit = [p \in Procs |-> FALSE]
  /\ attempt = [p \in Procs |-> 0]
  /\ calls = [p \in Procs |-> 0]
  /\ out = [p \in Procs |-> <<>>]
  /\ records = [p \in Procs |-> <<>>]
  /\ exit = [p \in Procs |-> "running"]
  /\ cache = None

Move(p, from, to) == pc[p] = from /\ pc' = [pc EXCEPT ![p] = to]
End(p, from, code) == Move(p, from, "done") /\ exit' = [exit EXCEPT ![p] = code]
Error(p, from) == End(p, from, "1")
Show(p, piece) == out' = [out EXCEPT ![p] = Append(@, piece)]
Send(p) == calls' = [calls EXCEPT ![p] = @ + 1]

UseCache(p) == conf[p].cached /\ ~conf[p].offline
WantStream(p) == conf[p].stream /\ ~conf[p].offline /\ ~conf[p].dryRun

-----------------------------------------------------------------------------
(* prepareReview, lookupCache, --dry-run, costGuard, selectProvider *)

Prepare(p) ==
  /\ Move(p, "prepare", "lookup")
  /\ UNCHANGED <<conf, cancelled, answer, hit, attempt, calls, out, records, exit, cache>>

(* Nothing to review, or a broken prompt template. *)
PrepareFails(p) ==
  /\ Error(p, "prepare")
  /\ UNCHANGED <<conf, cancelled, answer, hit, attempt, calls, out, records, cache>>

LookupHit(p) ==
  /\ UseCache(p) /\ cache # None
  /\ Move(p, "lookup", "render")
  /\ answer' = [answer EXCEPT ![p] = cache]
  /\ hit' = [hit EXCEPT ![p] = TRUE]
  /\ UNCHANGED <<conf, cancelled, attempt, calls, out, records, exit, cache>>

(* No cache, no entry, or one that is expired, unreadable or gone. *)
LookupMiss(p) ==
  /\ Move(p, "lookup", IF conf[p].dryRun THEN "estimate" ELSE "guard")
  /\ UNCHANGED <<conf, cancelled, answer, hit, attempt, calls, out, records, exit, cache>>

PrintDryRun(p) ==
  /\ End(p, "estimate", "0")
  /\ Show(p, Piece("estimate", "none"))
  /\ UNCHANGED <<conf, cancelled, answer, hit, attempt, calls, records, cache>>

(* Mutant: streaming starts before the guard is asked. *)
GuardBufferedOnly(p) ==
  /\ conf[p].overBudget => conf[p].offline \/ WantStream(p)
  /\ Move(p, "guard", IF WantStream(p) THEN "stream" ELSE "complete")
  /\ UNCHANGED <<conf, cancelled, answer, hit, attempt, calls, out, records, exit, cache>>

GuardPasses(p) ==
  /\ conf[p].overBudget => conf[p].offline
  /\ Move(p, "guard", IF WantStream(p) THEN "stream" ELSE "complete")
  /\ UNCHANGED <<conf, cancelled, answer, hit, attempt, calls, out, records, exit, cache>>

(* The estimate is over the limit, or the provider misconfigured. *)
GuardFails(p) ==
  /\ ~conf[p].offline
  /\ Error(p, "guard")
  /\ UNCHANGED <<conf, cancelled, answer, hit, attempt, calls, out, records, cache>>

-----------------------------------------------------------------------------
(* Client.Stream: one request, no retry. *)

StreamSend(p) ==
  /\ ~cancelled[p]
  /\ Move(p, "stream", "streaming")
  /\ Send(p)
  /\ UNCHANGED <<conf, cancelled, answer, hit, attempt, out, records, exit, cache>>

StreamToken(p) ==
  /\ pc[p] = "streaming" /\ out[p] = <<>>
  /\ Show(p, Piece("tokens", "none"))
  /\ UNCHANGED <<conf, pc, cancelled, answer, hit, attempt, calls, records, exit, cache>>

(* Mutant: the path returns on its own, without finishReview. *)
StreamEndsUnfinished(p) ==
  /\ End(p, "streaming", "0")
  /\ \E a \in Answers :
       /\ answer' = [answer EXCEPT ![p] = a]
       /\ Show(p, Piece("header", a.level))
  /\ UNCHANGED <<conf, cancelled, hit, attempt, calls, records, cache>>

(* [DONE], EOF or the size limit, with some content; its text is on the    *)
(* terminal already, except for what follows the start of a risk block:    *)
(* nothing of it if the answer begins with one.                            *)
StreamEnds(p) ==
  /\ Move(p, "streaming", "store")
  /\ \E a \in Answers :
       /\ answer' = [answer EXCEPT ![p] = a]
       /\ Show(p, Piece("header", a.level))
  /\ UNCHANGED <<conf, cancelled, hit, attempt, calls, records, exit, cache>>

(* Mutant: any failed stream falls back. *)
StreamFallsBackAlways(p) ==
  /\ pc[p] \in {"stream", "streaming"}
  /\ Move(p, pc[p], "complete")
  /\ UNCHANGED <<conf, cancelled, answer, hit, attempt, calls, out, records, exit, cache>>

(* Not sent, refused, broken off, or ended without content, and nothing    *)
(* written yet: complete is tried instead.                                 *)
StreamFallsBack(p) ==
  /\ pc[p] \in {"stream", "streaming"} /\ out[p] = <<>>
  /\ Move(p, pc[p], "complete")
  /\ UNCHANGED <<conf, cancelled, answer, hit, attempt, calls, out, records, exit, cache>>

StreamFails(p) ==
  /\ out[p] # <<>>
  /\ Error(p, "streaming")
  /\ UNCHANGED <<conf, cancelled, answer, hit, attempt, calls, out, records, cache>>

-----------------------------------------------------------------------------
(* Provider.Complete: llm.retry around one round trip; or the offline      *)
(* provider, which is local and never fails.                               *)

CompleteOffline(p) ==
  /\ conf[p].offline /\ ~cancelled[p]
  /\ Move(p, "complete", IF conf[p].entry = "cli" THEN "render" ELSE "store")
  /\ \E a \in Answers : ~a.blank /\ answer' = [answer EXCEPT ![p] = a]
  /\ UNCHANGED <<conf, cancelled, hit, attempt, calls, out, records, exit, cache>>

RequestSend(p) ==
  /\ ~conf[p].offline /\ ~cancelled[p]
  /\ Move(p, "complete", "waiting")
  /\ Send(p)
  /\ UNCHANGED <<conf, cancelled, answer, hit, attempt, out, records, exit, cache>>

RequestAnswered(p) ==
  /\ Move(p, "waiting", IF conf[p].entry = "cli" THEN "render" ELSE "store")
  /\ \E a \in Answers : answer' = [answer EXCEPT ![p] = a]
  /\ UNCHANGED <<conf, cancelled, hit, attempt, calls, out, records, exit, cache>>

(* Mutant: the last failure is retried, too. *)
RetryOnceMore(p) ==
  /\ ~cancelled[p] /\ attempt[p] <= MaxRetries
  /\ Move(p, "waiting", "backoff")
  /\ attempt' = [attempt EXCEPT ![p] = @ + 1]
  /\ UNCHANGED <<conf, cancelled, answer, hit, calls, out, records, exit, cache>>

(* 429, 5xx or a network error, with attempts left. *)
RequestRetried(p) ==
  /\ ~cancelled[p] /\ attempt[p] < MaxRetries
  /\ Move(p, "waiting", "backoff")
  /\ attempt' = [attempt EXCEPT ![p] = @ + 1]
  /\ UNCHANGED <<conf, cancelled, answer, hit, calls, out, records, exit, cache>>

(* Any other failure, a failure without attempts left, or one while the    *)
(* context is cancelled.                                                   *)
RequestFails(p) ==
  /\ Error(p, "waiting")
  /\ UNCHANGED <<conf, cancelled, answer, hit, attempt, calls, out, records, cache>>

(* The timer of sleepWithBackoff; the request that follows fails at once   *)
(* if the context is cancelled by then.                                    *)
BackoffEnds(p) ==
  /\ Move(p, "backoff", "complete")
  /\ UNCHANGED <<conf, cancelled, answer, hit, attempt, calls, out, records, exit, cache>>

(* Mutant: the request does not carry the context. *)
StopsOnlyBetweenRequests(p) ==
  /\ cancelled[p]
  /\ pc[p] \in {"complete", "backoff"}
  /\ Error(p, pc[p])
  /\ UNCHANGED <<conf, cancelled, answer, hit, attempt, calls, out, records, cache>>

(* The context ends a request, a backoff, or a request before it is sent.  *)
StopsOnCancel(p) ==
  /\ cancelled[p]
  /\ pc[p] \in {"complete", "backoff", "waiting"}
  /\ Error(p, pc[p])
  /\ UNCHANGED <<conf, cancelled, answer, hit, attempt, calls, out, records, cache>>

(* The same for a stream. *)
StreamStopsOnCancel(p) == cancelled[p] /\ (StreamFallsBack(p) \/ StreamFails(p))

(* Mutant: a timeout of zero, which net/http takes for none. *)
NeverTimesOut(p) == FALSE /\ RequestFails(p)

(* http.Client.Timeout, never zero, bounds a request and its whole body.   *)
TimesOut(p) ==
  StreamFallsBack(p) \/ StreamFails(p) \/ RequestRetried(p) \/ RequestFails(p)

-----------------------------------------------------------------------------
(* Render, storeCache, finishReview.  The tool stores before it renders.   *)

AfterRender(p) ==
  IF conf[p].entry = "mcp" THEN "return" ELSE IF hit[p] THEN "record" ELSE "store"

Render(p) ==
  /\ Move(p, "render", AfterRender(p))
  /\ Show(p, Piece("artifact", answer[p].level))
  /\ UNCHANGED <<conf, cancelled, answer, hit, attempt, calls, records, exit, cache>>

(* A broken output template, or stdout is closed. *)
RenderFails(p) ==
  /\ Error(p, "render")
  /\ UNCHANGED <<conf, cancelled, answer, hit, attempt, calls, out, records, cache>>

AfterStore(p) == IF conf[p].entry = "mcp" THEN "render" ELSE "record"

(* Mutant: whatever came back is stored. *)
StoreAny(p) ==
  /\ UseCache(p)
  /\ Move(p, "store", AfterStore(p))
  /\ cache' = answer[p]
  /\ UNCHANGED <<conf, cancelled, answer, hit, attempt, calls, out, records, exit>>

Store(p) ==
  /\ UseCache(p) /\ ~answer[p].blank
  /\ Move(p, "store", AfterStore(p))
  /\ cache' = answer[p]
  /\ UNCHANGED <<conf, cancelled, answer, hit, attempt, calls, out, records, exit>>

(* No cache, a blank answer, or Put failed: never fatal. *)
StoreSkipped(p) ==
  /\ Move(p, "store", AfterStore(p))
  /\ UNCHANGED <<conf, cancelled, answer, hit, attempt, calls, out, records, exit, cache>>

(* recordRiskHistory is best-effort: a broken log changes nothing. *)
RecordRiskHistory(p) ==
  /\ Move(p, "record", "return")
  /\ records' = IF conf[p].history = "on"
                THEN [records EXCEPT ![p] = Append(@, answer[p].level)] ELSE records
  /\ UNCHANGED <<conf, cancelled, answer, hit, attempt, calls, out, exit, cache>>

(* gateFailOn and ExitCode. *)
GateFailOn(p) ==
  /\ End(p, "return", IF RiskAtLeast(answer[p].level, conf[p].failOn) THEN "2" ELSE "0")
  /\ UNCHANGED <<conf, cancelled, answer, hit, attempt, calls, out, records, cache>>

-----------------------------------------------------------------------------
Signal(p) ==
  /\ pc[p] # "done" /\ ~cancelled[p]
  /\ cancelled' = [cancelled EXCEPT ![p] = TRUE]
  /\ UNCHANGED <<conf, pc, answer, hit, attempt, calls, out, records, exit, cache>>

Kill(p) ==
  /\ pc[p] # "done"
  /\ End(p, pc[p], "killed")
  /\ UNCHANGED <<conf, cancelled, answer, hit, attempt, calls, out, records, cache>>

(* The entry expires or is evicted. *)
CacheForgets ==
  /\ cache # None
  /\ cache' = None
  /\ UNCHANGED <<conf, pc, cancelled, answer, hit, attempt, calls, out, records, exit>>

Terminating == (\A p \in Procs : pc[p] = "done") /\ UNCHANGED vars

(* Local steps, and what the context interrupts. *)
Proceeds(p) ==
  \/ Prepare(p) \/ PrepareFails(p) \/ LookupHit(p) \/ LookupMiss(p) \/ PrintDryRun(p)
  \/ GuardPasses(p) \/ GuardFails(p) \/ StreamSend(p) \/ CompleteOffline(p) \/ RequestSend(p)
  \/ BackoffEnds(p) \/ StopsOnCancel(p) \/ StreamStopsOnCancel(p)
  \/ Render(p) \/ RenderFails(p) \/ Store(p) \/ StoreSkipped(p)
  \/ RecordRiskHistory(p) \/ GateFailOn(p)

(* What the provider and the network do. *)
Provider(p) ==
  \/ StreamToken(p) \/ StreamEnds(p) \/ StreamFallsBack(p) \/ StreamFails(p)
  \/ RequestAnswered(p) \/ RequestRetried(p) \/ RequestFails(p)

Next ==
  \/ \E p \in Procs : Proceeds(p) \/ Provider(p) \/ TimesOut(p) \/ Signal(p) \/ Kill(p)
  \/ CacheForgets
  \/ Terminating

Spec == Init /\ [][Next]_vars

(* The program runs; a provider owes nothing. *)
FairSpec == Spec /\ \A p \in Procs : WF_vars(Proceeds(p))

-----------------------------------------------------------------------------
Labels ==
  {"prepare", "lookup", "estimate", "guard", "stream", "streaming", "complete", "waiting",
   "backoff", "render", "store", "record", "return", "done"}

Pieces == [kind : {"tokens", "header", "artifact", "estimate"}, level : Levels \cup {"none"}]

TypeOK ==
  /\ conf \in Configs
  /\ pc \in [Procs -> Labels]
  /\ cancelled \in [Procs -> BOOLEAN]
  /\ answer \in [Procs -> Answers \cup {None}]
  /\ hit \in [Procs -> BOOLEAN]
  /\ attempt \in [Procs -> 0 .. MaxRetries]
  /\ calls \in [Procs -> 0 .. MaxRetries + 2]
  /\ out \in [Procs -> Seq(Pieces)]
  /\ records \in [Procs -> Seq(Levels)]
  /\ exit \in [Procs -> {"running", "0", "1", "2", "killed"}]
  /\ cache \in Answers \cup {None}

(* A terminal shows one review at most: a stream that failed after its     *)
(* first token is not followed by a second, complete review.               *)
OneReview ==
  \A p \in Procs :
    Cardinality({i \in DOMAIN out[p] : out[p][i].kind \in {"tokens", "artifact", "estimate"}}) <= 1

(* Money is spent only within the budget, never by a dry run, by an        *)
(* offline review or by one that is served from the cache, and at most one *)
(* stream and 1 + MaxRetries requests are paid for.                        *)
Spending ==
  \A p \in Procs : calls[p] > 0 =>
    /\ ~conf[p].overBudget /\ ~conf[p].dryRun /\ ~conf[p].offline /\ ~hit[p]
    /\ calls[p] <= (IF WantStream(p) THEN 1 ELSE 0) + 1 + MaxRetries

(* No review served from the cache is empty, whichever path stored it: one *)
(* degenerate answer must not poison all paths for a whole TTL.            *)
HitNeverBlank == \A p \in Procs : hit[p] => ~answer[p].blank

(* Ctrl-C ends a review, even if the provider never answers.               *)
CancelEnds == \A p \in Procs : cancelled[p] ~> pc[p] = "done"

(* So does the client's timeout.                                           *)
Timeouts == \A p \in Procs : WF_vars(TimesOut(p))
RunEnds == Timeouts => \A p \in Procs : <>(pc[p] = "done")

(* The level of the review on stdout, once all of it is there.             *)
LevelShown(p) ==
  IF out[p] = <<>> THEN "nothing"
  ELSE LET piece == out[p][Len(out[p])]
       IN CASE piece.kind = "tokens" -> "nothing"
            [] piece.kind = "estimate" -> "estimate"
            [] OTHER -> piece.level

Contract == INSTANCE ReviewContract WITH
  policy <- [p \in Procs |-> [failOn |-> conf[p].failOn, logs |-> conf[p].history = "on"]],
  shown <- [p \in Procs |-> LevelShown(p)],
  logged <- [p \in Procs |->
               CASE records[p] = <<>> -> "nothing"
                 [] Len(records[p]) = 1 -> records[p][1]
                 [] OTHER -> "twice"],
  code <- exit

(* Every path (cached, streamed, buffered, tool call) implements the       *)
(* contract: one outcome is shown, recorded once if the log works, and the *)
(* exit code is that of the gate for the very level that was shown.        *)
KeepsContract == Contract!Spec

(* The cache and the guard share one purpose: nobody pays without wanting  *)
(* to, and what was paid for once is worth serving again.                  *)
SpendsRight == TypeOK /\ Spending /\ HitNeverBlank

(* A review ends, with or without Ctrl-C. *)
Ends == CancelEnds /\ RunEnds
=============================================================================
