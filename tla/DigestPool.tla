----------------------------- MODULE DigestPool -----------------------------
(***************************************************************************)
(* gitlog.CollectDigests (internal/gitlog/multidigest.go): the worker pool *)
(* that collects one digest per repository.                                *)
(*                                                                         *)
(* The dispatcher (the calling goroutine) hands repository indices over an *)
(* UNBUFFERED channel to a fixed pool of workers, selecting against        *)
(* ctx.Done(); every worker runs collectOne, which starts two git          *)
(* subprocesses under an errgroup and writes results[i].  There is no      *)
(* mutex: the code relies on each results[i] having one writer, on the     *)
(* WaitGroup ordering the workers before fillCancelled and the return, and *)
(* on repository paths never being empty, because an empty Path is how     *)
(* fillCancelled recognises a slot nobody has written.                     *)
(***************************************************************************)
EXTENDS Integers, FiniteSets

CONSTANTS
  NRepos,        \* len(repoPaths); 0 returns before any goroutine starts
  Concurrency,   \* the argument, which may be zero or negative
  Paths,         \* the paths a repository may have
  EmptyPath,     \* the empty string
  PathOf         \* repoPaths as a function of the index

Repos == 1 .. NRepos

ASSUME NReposAssumption == NRepos \in Nat \ {0}
ASSUME ConcurrencyAssumption == Concurrency \in Int
\* cli.normalizeRepoPaths drops the empty entries of both path lists before
\* CollectDigests is called, so no repository path is empty.
ASSUME PathAssumption ==
  /\ PathOf \in [Repos -> Paths]
  /\ \A i \in Repos : PathOf[i] # EmptyPath

(* The clamp of lines 52-57. *)
PoolSize ==
  IF Concurrency <= 0 THEN 1
  ELSE IF Concurrency > NRepos THEN NRepos ELSE Concurrency

Workers == 1 .. PoolSize
Gits == {"log", "numstat"}        \* runner.LogSince and runner.NumstatSince

(* Outcome of one slot: the digest, git missing from PATH, a failing git,  *)
(* the error of a git killed by the errgroup because its sibling failed,   *)
(* or the context's error.                                                 *)
Errors == {"noGit", "gitFailed", "siblingKilled", "cancelled"}
Outcomes == {"none", "digest"} \cup Errors

Unwritten == [path |-> EmptyPath, outcome |-> "none"]    \* the zero RepoResult

VARIABLES
  cancelled,   \* ctx.Done() is closed
  phase,       \* program counter of CollectDigests
  next,        \* loop index of the dispatcher
  wstate,      \* program counter of each worker
  job,         \* the index each worker received last (0 before the first)
  git,         \* state of the two subprocesses of each worker
  firstErr,    \* the error kept by each worker's errgroup
  results      \* the shared slice

poolVars == <<cancelled, phase, next, wstate, job, git, firstErr, results>>

(* A goroutine about to return an error is in the state named by it. *)
GitStates == {"off", "spawned", "running", "exited"} \cup Errors
NoGit == [g \in Gits |-> "off"]

PoolInit ==
  /\ cancelled = FALSE
  /\ phase = "dispatch"
  /\ next = 1
  /\ wstate = [w \in Workers |-> "receive"]
  /\ job = [w \in Workers |-> 0]
  /\ git = [w \in Workers |-> NoGit]
  /\ firstErr = [w \in Workers |-> "none"]
  /\ results = [i \in Repos |-> Unwritten]

(* Ctrl-C or SIGTERM, at any moment. *)
Cancel ==
  /\ ~cancelled
  /\ cancelled' = TRUE
  /\ UNCHANGED <<phase, next, wstate, job, git, firstErr, results>>

-----------------------------------------------------------------------------
(* The dispatcher. *)

(* Mutant: the loop index is shared and not advanced before the next send. *)
HandoffTwice(w) ==
  /\ phase = "dispatch" /\ next <= NRepos
  /\ wstate[w] = "receive"
  /\ wstate' = [wstate EXCEPT ![w] = "start"]
  /\ job' = [job EXCEPT ![w] = next]
  /\ next' \in {next, next + 1}
  /\ UNCHANGED <<cancelled, phase, git, firstErr, results>>

(* case jobs <- i: a rendezvous with a worker blocked on the channel.  Go  *)
(* picks at random among ready cases, so it may win against ctx.Done().    *)
Handoff(w) ==
  /\ phase = "dispatch" /\ next <= NRepos
  /\ wstate[w] = "receive"
  /\ wstate' = [wstate EXCEPT ![w] = "start"]
  /\ job' = [job EXCEPT ![w] = next]
  /\ next' = next + 1
  /\ UNCHANGED <<cancelled, phase, git, firstErr, results>>

(* The loop ends: close(jobs), wg.Wait(). *)
CloseJobs ==
  /\ phase = "dispatch" /\ next > NRepos
  /\ phase' = "wait"
  /\ UNCHANGED <<cancelled, next, wstate, job, git, firstErr, results>>

(* case <-ctx.Done(): close(jobs), wg.Wait(), then fillCancelled. *)
StopDispatching ==
  /\ phase = "dispatch" /\ next <= NRepos /\ cancelled
  /\ phase' = "waitCancelled"
  /\ UNCHANGED <<cancelled, next, wstate, job, git, firstErr, results>>

JobsClosed == phase # "dispatch"
AllDone == \A w \in Workers : wstate[w] = "done"

(* Mutant: wg.Wait() forgotten. *)
ReturnWithoutWait ==
  /\ phase = "wait"
  /\ phase' = "returned"
  /\ UNCHANGED <<cancelled, next, wstate, job, git, firstErr, results>>

Return ==
  /\ phase = "wait" /\ AllDone
  /\ phase' = "returned"
  /\ UNCHANGED <<cancelled, next, wstate, job, git, firstErr, results>>

(* Mutant: the Path check forgotten. *)
FillAll(res) ==
  [i \in Repos |-> [path |-> PathOf[i], outcome |-> "cancelled"]]

(* fillCancelled: every slot whose Path is still empty. *)
FillCancelled(res) ==
  [i \in Repos |-> IF res[i].path = EmptyPath
                   THEN [path |-> PathOf[i], outcome |-> "cancelled"]
                   ELSE res[i]]

ReturnCancelled ==
  /\ phase = "waitCancelled" /\ AllDone
  /\ results' = FillCancelled(results)
  /\ phase' = "returned"
  /\ UNCHANGED <<cancelled, next, wstate, job, git, firstErr>>

-----------------------------------------------------------------------------
(* A worker: for i := range jobs { results[i] = collectOne(...) }. *)

WriteResult(w, outcome) ==
  /\ results' = [results EXCEPT ![job[w]] = [path |-> PathOf[job[w]], outcome |-> outcome]]
  /\ wstate' = [wstate EXCEPT ![w] = "receive"]

(* ctx.Err() is checked before anything is started. *)
CollectCancelled(w) ==
  /\ wstate[w] = "start" /\ cancelled
  /\ WriteResult(w, "cancelled")
  /\ UNCHANGED <<cancelled, phase, next, job, git, firstErr>>

CheckCtx(w) ==
  /\ wstate[w] = "start" /\ ~cancelled
  /\ wstate' = [wstate EXCEPT ![w] = "open"]
  /\ UNCHANGED <<cancelled, phase, next, job, git, firstErr, results>>

(* NewRunner fails: git is not in PATH. *)
CollectNoGit(w) ==
  /\ wstate[w] = "open"
  /\ WriteResult(w, "noGit")
  /\ UNCHANGED <<cancelled, phase, next, job, git, firstErr>>

(* errgroup.WithContext and the two g.Go calls. *)
SpawnGits(w) ==
  /\ wstate[w] = "open"
  /\ wstate' = [wstate EXCEPT ![w] = "git"]
  /\ git' = [git EXCEPT ![w] = [g \in Gits |-> "spawned"]]
  /\ firstErr' = [firstErr EXCEPT ![w] = "none"]
  /\ UNCHANGED <<cancelled, phase, next, job, results>>

(* The errgroup's context: cancelled with its parent, or by the first      *)
(* error the group keeps.                                                  *)
GroupCancelled(w) == cancelled \/ firstErr[w] # "none"

SetGit(w, g, state) ==
  /\ git' = [git EXCEPT ![w][g] = state]
  /\ UNCHANGED <<cancelled, phase, next, wstate, job, firstErr, results>>

(* exec.Cmd refuses to start under a context that is already done. *)
StartGit(w, g) ==
  /\ git[w][g] = "spawned" /\ ~GroupCancelled(w)
  /\ SetGit(w, g, "running")

(* A failing Runner.run reports ctx.Err() when its context is cancelled by *)
(* then, and git's own failure otherwise.                                  *)
RunError(w) ==
  IF cancelled THEN "cancelled"
  ELSE IF firstErr[w] # "none" THEN "siblingKilled" ELSE "gitFailed"

RefuseGit(w, g) ==
  /\ git[w][g] = "spawned" /\ GroupCancelled(w)
  /\ SetGit(w, g, RunError(w))

GitSucceeds(w, g) ==
  /\ git[w][g] = "running"
  /\ SetGit(w, g, "exited")

RunFails(w, g) ==
  /\ git[w][g] = "running"
  /\ SetGit(w, g, RunError(w))

(* Mutant: exec.Command instead of exec.CommandContext. *)
KillNever(w, g) == FALSE /\ RunFails(w, g)

(* exec.CommandContext kills the process once the group is cancelled. *)
KillGit(w, g) == GroupCancelled(w) /\ RunFails(w, g)

(* Mutant: the group keeps the last error. *)
ReportLastError(w, g) ==
  /\ git[w][g] \in Errors
  /\ firstErr' = [firstErr EXCEPT ![w] = git[w][g]]
  /\ git' = [git EXCEPT ![w][g] = "exited"]
  /\ UNCHANGED <<cancelled, phase, next, wstate, job, results>>

(* The goroutine returns its error: errgroup keeps the first one only and  *)
(* cancels the group (sync.Once).                                          *)
ReportError(w, g) ==
  /\ git[w][g] \in Errors
  /\ firstErr' = [firstErr EXCEPT ![w] = IF @ = "none" THEN git[w][g] ELSE @]
  /\ git' = [git EXCEPT ![w][g] = "exited"]
  /\ UNCHANGED <<cancelled, phase, next, wstate, job, results>>

(* Mutant: the worker moves on at the first error instead of waiting. *)
FinishAtFirstError(w) ==
  /\ wstate[w] = "git"
  /\ firstErr[w] # "none" \/ \A g \in Gits : git[w][g] = "exited"
  /\ WriteResult(w, IF firstErr[w] = "none" THEN "digest" ELSE firstErr[w])
  /\ git' = [git EXCEPT ![w] = [g \in Gits |-> IF @[g] = "exited" THEN "off" ELSE @[g]]]
  /\ UNCHANGED <<cancelled, phase, next, job, firstErr>>

(* Mutant: a failed repository is collected again, without bound. *)
FinishOrRetry(w) ==
  /\ wstate[w] = "git"
  /\ \A g \in Gits : git[w][g] = "exited"
  /\ IF firstErr[w] = "none"
     THEN WriteResult(w, "digest")
     ELSE wstate' = [wstate EXCEPT ![w] = "start"] /\ UNCHANGED results
  /\ git' = [git EXCEPT ![w] = NoGit]
  /\ UNCHANGED <<cancelled, phase, next, job, firstErr>>

(* g.Wait() returns: both goroutines have ended. *)
FinishRepo(w) ==
  /\ wstate[w] = "git"
  /\ \A g \in Gits : git[w][g] = "exited"
  /\ WriteResult(w, IF firstErr[w] = "none" THEN "digest" ELSE firstErr[w])
  /\ git' = [git EXCEPT ![w] = NoGit]
  /\ UNCHANGED <<cancelled, phase, next, job, firstErr>>

(* The channel is closed and drained: range ends, wg.Done(). *)
WorkerExits(w) ==
  /\ wstate[w] = "receive" /\ JobsClosed
  /\ wstate' = [wstate EXCEPT ![w] = "done"]
  /\ UNCHANGED <<cancelled, phase, next, job, git, firstErr, results>>

-----------------------------------------------------------------------------
Terminating == phase = "returned" /\ UNCHANGED poolVars

Dispatcher == CloseJobs \/ StopDispatching \/ Return \/ ReturnCancelled

WorkerStep(w) ==
  \/ CollectCancelled(w) \/ CheckCtx(w) \/ CollectNoGit(w) \/ SpawnGits(w)
  \/ FinishRepo(w) \/ WorkerExits(w)

GitGoroutine(w, g) == StartGit(w, g) \/ RefuseGit(w, g) \/ ReportError(w, g)
GitExits(w, g) == GitSucceeds(w, g) \/ RunFails(w, g)

PoolNext ==
  \/ Cancel
  \/ Dispatcher
  \/ \E w \in Workers :
       \/ Handoff(w) \/ WorkerStep(w)
       \/ \E g \in Gits : GitGoroutine(w, g) \/ GitExits(w, g)
  \/ Terminating

PoolSpec == PoolInit /\ [][PoolNext]_poolVars

(* Goroutines are scheduled, and a killed git does exit; nothing says that *)
(* a git left alone ever does.                                             *)
Fairness ==
  /\ WF_poolVars(Dispatcher \/ \E w \in Workers : Handoff(w))
  /\ \A w \in Workers : WF_poolVars(WorkerStep(w))
  /\ \A w \in Workers, g \in Gits : WF_poolVars(GitGoroutine(w, g)) /\ WF_poolVars(KillGit(w, g))

FairSpec == PoolSpec /\ Fairness

-----------------------------------------------------------------------------
PoolTypeOK ==
  /\ cancelled \in BOOLEAN
  /\ phase \in {"dispatch", "wait", "waitCancelled", "returned"}
  /\ next \in 1 .. NRepos + 1
  /\ wstate \in [Workers -> {"receive", "start", "open", "git", "done"}]
  /\ job \in [Workers -> 0 .. NRepos]
  /\ git \in [Workers -> [Gits -> GitStates]]
  /\ firstErr \in [Workers -> {"none"} \cup Errors]
  /\ results \in [Repos -> [path : Paths \cup {EmptyPath}, outcome : Outcomes]]

Busy(w) == wstate[w] \in {"start", "open", "git"}

(* No two workers hold the same repository: results[i] has one writer at a *)
(* time, which is why the code takes no mutex.                             *)
OneWriter ==
  \A v, w \in Workers : v # w /\ Busy(v) /\ Busy(w) => job[v] # job[w]

(* When CollectDigests returns, no worker is left to write the slice and   *)
(* every slot holds a result for the repository at its own index, whatever *)
(* order the workers finished in and wherever a cancellation hit.          *)
CompleteOnReturn ==
  phase = "returned" =>
    /\ AllDone
    /\ \A i \in Repos : results[i].path = PathOf[i] /\ results[i].outcome # "none"

(* No git process outlives the collection of its repository: a worker      *)
(* moves on, and CollectDigests returns, only when both subprocesses have  *)
(* ended, also when the first failure already decided the result.  This is *)
(* what bounds the running processes by 2 x concurrency.                   *)
NoOrphanGit ==
  \A w \in Workers, g \in Gits : git[w][g] # "off" => wstate[w] = "git"

(* A repository is reported with the error that caused the failure: never  *)
(* with the error of the sibling git that the errgroup killed because of   *)
(* it, and with the context's error only if the context was cancelled.     *)
RootCause ==
  \A i \in Repos :
    /\ results[i].outcome # "siblingKilled"
    /\ results[i].outcome = "cancelled" => cancelled

(* A written slot is final: neither another worker nor fillCancelled ever  *)
(* replaces a result, so a digest finished before Ctrl-C survives it.      *)
WriteOnce ==
  [][\A i \in Repos : results[i] # Unwritten => results'[i] = results[i]]_poolVars

(* Ctrl-C always ends the collection, even when git hangs: queued work is  *)
(* dropped or fails fast and running processes are killed.                 *)
CancelReturns == cancelled ~> phase = "returned"

(* Without a cancellation the pool ends if every git process does: no      *)
(* worker and no dispatcher waits for anything else.                       *)
GitsEnd == \A w \in Workers, g \in Gits : WF_poolVars(GitExits(w, g))
ReturnsIfGitsEnd == GitsEnd => <>(phase = "returned")

(* The slots as CollectDigests returns them: one writer each, all of them  *)
(* filled, and failures told by their cause.                               *)
ResultsSound == OneWriter /\ CompleteOnReturn /\ RootCause

(* CollectDigests returns: after Ctrl-C, and if every git process ends.    *)
Returns == CancelReturns /\ ReturnsIfGitsEnd
=============================================================================
