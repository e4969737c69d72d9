--------------------------- MODULE ReviewRunProofs ---------------------------
(***************************************************************************)
(* One review per terminal, and money spent only when it may be, for any   *)
(* number of processes, any settings and any number of retries; and what   *)
(* the review pipeline promises its callers, ReviewContract.               *)
(*                                                                         *)
(* Neither is inductive: how much was paid, and what stdout shows, is      *)
(* known from where a process is.  LocalInv says so for one process; all   *)
(* that the processes share is the cache, which holds no blank answer.     *)
(***************************************************************************)
EXTENDS ReviewRun, FiniteSetTheorems, TLAPS

USE MaxRetriesAssumption

(* Where a process has not shown anything yet, and where it may call.      *)
Silent ==
  {"prepare", "lookup", "estimate", "guard", "stream", "complete", "waiting", "backoff", "render"}
Unpaid == {"prepare", "lookup", "estimate", "guard", "stream"}
Calling == {"stream", "streaming", "complete", "waiting", "backoff"}
Answering == {"store", "render", "record", "return"}

(* c is the configuration of a process, l its label, o its stdout.         *)
ShownInv(c, l, o) ==
  /\ Len(o) <= 1 \/ (Len(o) = 2 /\ o[2].kind = "header")
  /\ l \in Silent => o = <<>>
  /\ l = "store" /\ c.entry = "mcp" => o = <<>>
  /\ l = "streaming" => Len(o) <= 1

(* h says whether the answer a was found, n is the attempt, k the calls.   *)
Streams(c) == c.stream /\ ~c.offline /\ ~c.dryRun
Allowed(c) == ~c.dryRun /\ (c.overBudget => c.offline)
MayCall(c, l, h) ==
  /\ l \in Calling => Allowed(c) /\ ~h
  /\ l = "guard" => ~c.dryRun /\ ~h
  /\ l \in {"prepare", "lookup"} => ~h
  /\ l \in {"stream", "streaming"} => Streams(c)
Tries(c) == IF Streams(c) THEN 1 ELSE 0
CallsInv(c, l, n, k) ==
  /\ l \in Unpaid => n = 0 /\ k = 0
  /\ l = "streaming" => n = 0 /\ k = 1
  /\ l \in {"complete", "backoff"} => k <= Tries(c) + n
  /\ l = "waiting" => k <= Tries(c) + n + 1
  /\ k <= Tries(c) + 1 + MaxRetries
PaidInv(c, h, k) == k > 0 => ~c.overBudget /\ ~c.dryRun /\ ~c.offline /\ ~h
AnswerInv(l, a, h) ==
  /\ l \in Answering => a \in Answers
  /\ h => ~a.blank

LocalInv(p) ==
  /\ ShownInv(conf[p], pc[p], out[p])
  /\ MayCall(conf[p], pc[p], hit[p])
  /\ CallsInv(conf[p], pc[p], attempt[p], calls[p])
  /\ PaidInv(conf[p], hit[p], calls[p])
  /\ AnswerInv(pc[p], answer[p], hit[p])

CacheInv == cache # None => cache \in Answers /\ ~cache.blank

IInv == TypeOK /\ CacheInv /\ \A p \in Procs : LocalInv(p)

-----------------------------------------------------------------------------
(* The settings of a process, and what they exclude.                       *)
LEMMA Settings ==
  ASSUME conf \in Configs, NEW p \in Procs
  PROVE  /\ conf[p] \in AllConfigs
         /\ conf[p].entry = "mcp" => ~conf[p].stream /\ ~conf[p].dryRun
         /\ conf[p].entry \in {"cli", "mcp"}
<1>1. conf \in [Procs -> AllConfigs]
  BY ConfigAssumption
<1>2. conf[p] \in AllConfigs
  BY <1>1
<1>3. conf[p].entry = "mcp" => ~conf[p].stream /\ ~conf[p].dryRun
  BY ConfigAssumption
<1>4. conf[p].entry \in {"cli", "mcp"}
  BY <1>2 DEF AllConfigs
<1> QED
  BY <1>2, <1>3, <1>4

LEMMA InitInv == Init => IInv
<1> SUFFICES ASSUME Init PROVE IInv
  OBVIOUS
<1>1. TypeOK
  BY DEF Init, TypeOK, Labels
<1>2. CacheInv
  BY DEF Init, CacheInv
<1>3. ASSUME NEW p \in Procs PROVE LocalInv(p)
  <2>1. /\ pc[p] = "prepare" /\ out[p] = <<>> /\ hit[p] = FALSE
        /\ attempt[p] = 0 /\ calls[p] = 0
    BY DEF Init
  <2>2. ShownInv(conf[p], pc[p], out[p])
    BY <2>1 DEF ShownInv, Silent
  <2>3. MayCall(conf[p], pc[p], hit[p])
    BY <2>1 DEF MayCall, Calling
  <2>4. CallsInv(conf[p], pc[p], attempt[p], calls[p])
    BY <2>1 DEF CallsInv, Tries
  <2>5. PaidInv(conf[p], hit[p], calls[p])
    BY <2>1 DEF PaidInv
  <2>6. AnswerInv(pc[p], answer[p], hit[p])
    BY <2>1 DEF AnswerInv, Answering
  <2> QED
    BY <2>2, <2>3, <2>4, <2>5, <2>6 DEF LocalInv
<1> QED
  BY <1>1, <1>2, <1>3 DEF IInv

-----------------------------------------------------------------------------
(* A step of a process leaves the others as they are; what it makes of its *)
(* own state decides.                                                      *)
LEMMA OwnStep ==
  ASSUME IInv, TypeOK', CacheInv', NEW p \in Procs, conf' = conf,
         \A q \in Procs \ {p} :
           /\ pc'[q] = pc[q] /\ answer'[q] = answer[q] /\ hit'[q] = hit[q]
           /\ attempt'[q] = attempt[q] /\ calls'[q] = calls[q] /\ out'[q] = out[q],
         LocalInv(p)'
  PROVE  IInv'
<1>1. ASSUME NEW q \in Procs \ {p} PROVE LocalInv(q)'
  BY <1>1 DEF IInv, LocalInv
<1> QED
  BY <1>1 DEF IInv

(* Steps that only move a process on, or write its files.                  *)
LEMMA Relabel ==
  ASSUME IInv, NEW p \in Procs, NEW l \in Labels,
         pc' = [pc EXCEPT ![p] = l],
         UNCHANGED <<conf, answer, hit, attempt, calls, out>>,
         cancelled' \in [Procs -> BOOLEAN], records' \in [Procs -> Seq(Levels)],
         exit' \in [Procs -> {"running", "0", "1", "2", "killed"}],
         cache' \in Answers \cup {None}, CacheInv',
         ShownInv(conf[p], l, out[p]), MayCall(conf[p], l, hit[p]),
         CallsInv(conf[p], l, attempt[p], calls[p]), AnswerInv(l, answer[p], hit[p])
  PROVE  IInv'
<1>1. pc'[p] = l /\ \A q \in Procs \ {p} : pc'[q] = pc[q]
  BY DEF IInv, TypeOK
<1>2. TypeOK'
  BY DEF IInv, TypeOK
<1>3. LocalInv(p)'
  BY <1>1 DEF IInv, LocalInv
<1> QED
  BY <1>1, <1>2, <1>3, OwnStep

LEMMA DoneInv ==
  ASSUME IInv, NEW p \in Procs
  PROVE  /\ ShownInv(conf[p], "done", out[p]) /\ MayCall(conf[p], "done", hit[p])
         /\ CallsInv(conf[p], "done", attempt[p], calls[p])
         /\ AnswerInv("done", answer[p], hit[p])
<1>1. LocalInv(p)
  BY DEF IInv
<1>2. ShownInv(conf[p], "done", out[p])
  BY <1>1 DEF LocalInv, ShownInv, Silent
<1>3. MayCall(conf[p], "done", hit[p])
  BY DEF MayCall, Calling
<1>4. CallsInv(conf[p], "done", attempt[p], calls[p])
  BY <1>1 DEF LocalInv, CallsInv, Unpaid
<1>5. AnswerInv("done", answer[p], hit[p])
  BY <1>1 DEF LocalInv, AnswerInv, Answering
<1> QED
  BY <1>2, <1>3, <1>4, <1>5

(* Whatever ends a process leaves what it did as it was.                   *)
LEMMA EndInv ==
  ASSUME IInv, NEW p \in Procs, NEW code \in {"0", "1", "2", "killed"},
         End(p, pc[p], code),
         UNCHANGED <<conf, cancelled, answer, hit, attempt, calls, out, records, cache>>
  PROVE  IInv'
<1>1. pc' = [pc EXCEPT ![p] = "done"] /\ "done" \in Labels
  BY DEF End, Move, Labels
<1>2. exit' \in [Procs -> {"running", "0", "1", "2", "killed"}]
  BY DEF End, IInv, TypeOK
<1>3. /\ cancelled' \in [Procs -> BOOLEAN] /\ records' \in [Procs -> Seq(Levels)]
      /\ cache' \in Answers \cup {None} /\ CacheInv'
  BY DEF IInv, TypeOK, CacheInv
<1> QED
  BY <1>1, <1>2, <1>3, DoneInv, Relabel

LEMMA EndsInv ==
  ASSUME IInv, NEW p \in Procs,
         \/ PrepareFails(p) \/ GuardFails(p) \/ StreamFails(p) \/ RequestFails(p)
         \/ StopsOnCancel(p) \/ RenderFails(p) \/ GateFailOn(p) \/ Kill(p)
  PROVE  IInv'
<1>1. \E code \in {"0", "1", "2", "killed"} : End(p, pc[p], code)
  BY DEF PrepareFails, GuardFails, StreamFails, RequestFails, StopsOnCancel, RenderFails,
         GateFailOn, Kill, Error, End, Move
<1>2. UNCHANGED <<conf, cancelled, answer, hit, attempt, calls, out, records, cache>>
  BY DEF PrepareFails, GuardFails, StreamFails, RequestFails, StopsOnCancel, RenderFails,
         GateFailOn, Kill
<1> QED
  BY <1>1, <1>2, EndInv

-----------------------------------------------------------------------------
(* From the prompt to the call.                                            *)
LEMMA MovesInv ==
  ASSUME IInv, NEW p \in Procs, NEW l \in Labels, Move(p, pc[p], l),
         UNCHANGED <<conf, cancelled, answer, hit, attempt, calls, out, records, exit, cache>>,
         ShownInv(conf[p], l, out[p]), MayCall(conf[p], l, hit[p]),
         CallsInv(conf[p], l, attempt[p], calls[p]), AnswerInv(l, answer[p], hit[p])
  PROVE  IInv'
<1>1. pc' = [pc EXCEPT ![p] = l]
  BY DEF Move
<1>2. /\ cancelled' \in [Procs -> BOOLEAN] /\ records' \in [Procs -> Seq(Levels)]
      /\ exit' \in [Procs -> {"running", "0", "1", "2", "killed"}]
      /\ cache' \in Answers \cup {None} /\ CacheInv'
  BY DEF IInv, TypeOK, CacheInv
<1> QED
  BY <1>1, <1>2, Relabel

LEMMA PrepareInv ==
  ASSUME IInv, NEW p \in Procs, Prepare(p)
  PROVE  IInv'
<1>1. LocalInv(p) /\ pc[p] = "prepare" /\ Move(p, pc[p], "lookup") /\ "lookup" \in Labels
  BY DEF IInv, Prepare, Move, Labels
<1>2. ShownInv(conf[p], "lookup", out[p])
  BY <1>1 DEF LocalInv, ShownInv, Silent
<1>3. MayCall(conf[p], "lookup", hit[p])
  BY <1>1 DEF LocalInv, MayCall, Calling
<1>4. CallsInv(conf[p], "lookup", attempt[p], calls[p])
  BY <1>1 DEF LocalInv, CallsInv, Unpaid
<1>5. AnswerInv("lookup", answer[p], hit[p])
  BY <1>1 DEF LocalInv, AnswerInv, Answering
<1> QED
  BY <1>1, <1>2, <1>3, <1>4, <1>5, MovesInv DEF Prepare

LEMMA LookupMissInv ==
  ASSUME IInv, NEW p \in Procs, LookupMiss(p)
  PROVE  IInv'
<1> DEFINE l == IF conf[p].dryRun THEN "estimate" ELSE "guard"
<1>1. LocalInv(p) /\ pc[p] = "lookup" /\ Move(p, pc[p], l) /\ l \in Labels
  BY DEF IInv, LookupMiss, Move, Labels
<1>2. ShownInv(conf[p], l, out[p])
  BY <1>1 DEF LocalInv, ShownInv, Silent
<1>3. MayCall(conf[p], l, hit[p])
  BY <1>1 DEF LocalInv, MayCall, Calling
<1>4. CallsInv(conf[p], l, attempt[p], calls[p])
  BY <1>1 DEF LocalInv, CallsInv, Unpaid
<1>5. AnswerInv(l, answer[p], hit[p])
  BY <1>1 DEF LocalInv, AnswerInv, Answering
<1> HIDE DEF l
<1> QED
  BY <1>1, <1>2, <1>3, <1>4, <1>5, MovesInv DEF LookupMiss

LEMMA GuardPassesInv ==
  ASSUME IInv, NEW p \in Procs, GuardPasses(p)
  PROVE  IInv'
<1> DEFINE l == IF WantStream(p) THEN "stream" ELSE "complete"
<1>1. LocalInv(p) /\ pc[p] = "guard" /\ Move(p, pc[p], l) /\ l \in Labels
  BY DEF IInv, GuardPasses, Move, Labels
<1>2. ShownInv(conf[p], l, out[p])
  BY <1>1 DEF LocalInv, ShownInv, Silent
<1>3. MayCall(conf[p], l, hit[p])
  BY <1>1 DEF LocalInv, MayCall, Calling, Allowed, Streams, WantStream, GuardPasses
<1>4. CallsInv(conf[p], l, attempt[p], calls[p])
  <2>1. attempt[p] = 0 /\ calls[p] = 0 /\ Tries(conf[p]) \in {0, 1}
    BY <1>1 DEF LocalInv, CallsInv, Unpaid, Tries
  <2> QED
    BY <2>1 DEF CallsInv
<1>5. AnswerInv(l, answer[p], hit[p])
  BY <1>1 DEF LocalInv, AnswerInv, Answering
<1> HIDE DEF l
<1> QED
  BY <1>1, <1>2, <1>3, <1>4, <1>5, MovesInv DEF GuardPasses

(* A stream that showed nothing counts for the fallback's budget.          *)
LEMMA FallsBackInv ==
  ASSUME IInv, NEW p \in Procs, StreamFallsBack(p)
  PROVE  IInv'
<1>1. /\ LocalInv(p) /\ pc[p] \in {"stream", "streaming"} /\ out[p] = <<>>
      /\ Move(p, pc[p], "complete") /\ "complete" \in Labels
  BY DEF IInv, StreamFallsBack, Labels
<1>2. ShownInv(conf[p], "complete", out[p])
  BY <1>1 DEF ShownInv
<1>3. MayCall(conf[p], "complete", hit[p])
  BY <1>1 DEF LocalInv, MayCall, Calling
<1>4. CallsInv(conf[p], "complete", attempt[p], calls[p])
  <2>1. Streams(conf[p]) /\ Tries(conf[p]) = 1
    BY <1>1 DEF LocalInv, MayCall, Tries
  <2>2. attempt[p] = 0 /\ calls[p] \in {0, 1}
    BY <1>1 DEF LocalInv, CallsInv, Unpaid
  <2> QED
    BY <2>1, <2>2 DEF CallsInv, Unpaid
<1>5. AnswerInv("complete", answer[p], hit[p])
  BY <1>1 DEF LocalInv, AnswerInv, Answering
<1> QED
  BY <1>1, <1>2, <1>3, <1>4, <1>5, MovesInv DEF StreamFallsBack

LEMMA BackoffEndsInv ==
  ASSUME IInv, NEW p \in Procs, BackoffEnds(p)
  PROVE  IInv'
<1>1. LocalInv(p) /\ pc[p] = "backoff" /\ Move(p, pc[p], "complete") /\ "complete" \in Labels
  BY DEF IInv, BackoffEnds, Move, Labels
<1>2. ShownInv(conf[p], "complete", out[p])
  BY <1>1 DEF LocalInv, ShownInv, Silent
<1>3. MayCall(conf[p], "complete", hit[p])
  BY <1>1 DEF LocalInv, MayCall, Calling
<1>4. CallsInv(conf[p], "complete", attempt[p], calls[p])
  BY <1>1 DEF LocalInv, CallsInv, Unpaid
<1>5. AnswerInv("complete", answer[p], hit[p])
  BY <1>1 DEF LocalInv, AnswerInv, Answering
<1> QED
  BY <1>1, <1>2, <1>3, <1>4, <1>5, MovesInv DEF BackoffEnds

-----------------------------------------------------------------------------
(* After the answer.                                                       *)
LEMMA AfterStoreInv ==
  ASSUME IInv, NEW p \in Procs, pc[p] = "store"
  PROVE  /\ AfterStore(p) \in Labels
         /\ ShownInv(conf[p], AfterStore(p), out[p]) /\ MayCall(conf[p], AfterStore(p), hit[p])
         /\ CallsInv(conf[p], AfterStore(p), attempt[p], calls[p])
         /\ AnswerInv(AfterStore(p), answer[p], hit[p])
<1>1. LocalInv(p) /\ AfterStore(p) \in Labels
  BY DEF IInv, AfterStore, Labels
<1>2. ShownInv(conf[p], AfterStore(p), out[p])
  BY <1>1 DEF LocalInv, ShownInv, Silent, AfterStore
<1>3. MayCall(conf[p], AfterStore(p), hit[p])
  BY DEF MayCall, Calling, AfterStore
<1>4. CallsInv(conf[p], AfterStore(p), attempt[p], calls[p])
  BY <1>1 DEF LocalInv, CallsInv, Unpaid, AfterStore
<1>5. AnswerInv(AfterStore(p), answer[p], hit[p])
  BY <1>1 DEF LocalInv, AnswerInv, Answering, AfterStore
<1> QED
  BY <1>1, <1>2, <1>3, <1>4, <1>5

LEMMA StoresInv ==
  ASSUME IInv, NEW p \in Procs, Store(p) \/ StoreSkipped(p)
  PROVE  IInv'
<1>1. /\ pc[p] = "store" /\ pc' = [pc EXCEPT ![p] = AfterStore(p)]
      /\ UNCHANGED <<conf, cancelled, answer, hit, attempt, calls, out, records, exit>>
  BY DEF Store, StoreSkipped, Move
<1>2. LocalInv(p) /\ answer[p] \in Answers
  BY <1>1 DEF IInv, LocalInv, AnswerInv, Answering
<1>3. cache' \in Answers \cup {None} /\ CacheInv'
  <2>1. CASE Store(p)
    BY <2>1, <1>2 DEF Store, CacheInv
  <2>2. CASE StoreSkipped(p)
    BY <2>2 DEF StoreSkipped, IInv, TypeOK, CacheInv
  <2> QED
    BY <2>1, <2>2
<1>4. /\ cancelled' \in [Procs -> BOOLEAN] /\ records' \in [Procs -> Seq(Levels)]
      /\ exit' \in [Procs -> {"running", "0", "1", "2", "killed"}]
  BY <1>1 DEF IInv, TypeOK
<1> QED
  BY <1>1, <1>3, <1>4, AfterStoreInv, Relabel

LEMMA RecordInv ==
  ASSUME IInv, NEW p \in Procs, RecordRiskHistory(p)
  PROVE  IInv'
<1>1. /\ LocalInv(p) /\ pc[p] = "record" /\ pc' = [pc EXCEPT ![p] = "return"] /\ "return" \in Labels
      /\ UNCHANGED <<conf, cancelled, answer, hit, attempt, calls, out, exit, cache>>
  BY DEF IInv, RecordRiskHistory, Move, Labels
<1>2. answer[p] \in Answers /\ answer[p].level \in Levels
  BY <1>1, AnswersAssumption DEF LocalInv, AnswerInv, Answering, AllAnswers
<1>3. records' \in [Procs -> Seq(Levels)]
  BY <1>2 DEF RecordRiskHistory, IInv, TypeOK
<1>4. /\ cancelled' \in [Procs -> BOOLEAN] /\ cache' \in Answers \cup {None} /\ CacheInv'
      /\ exit' \in [Procs -> {"running", "0", "1", "2", "killed"}]
  BY <1>1 DEF IInv, TypeOK, CacheInv
<1>5. ShownInv(conf[p], "return", out[p])
  BY <1>1 DEF LocalInv, ShownInv, Silent
<1>6. MayCall(conf[p], "return", hit[p])
  BY DEF MayCall, Calling
<1>7. CallsInv(conf[p], "return", attempt[p], calls[p])
  BY <1>1 DEF LocalInv, CallsInv, Unpaid
<1>8. AnswerInv("return", answer[p], hit[p])
  BY <1>1, <1>2 DEF LocalInv, AnswerInv
<1> QED
  BY <1>1, <1>3, <1>4, <1>5, <1>6, <1>7, <1>8, Relabel

-----------------------------------------------------------------------------
(* Steps that ask, answer or show.                                         *)
LEMMA LookupHitInv ==
  ASSUME IInv, NEW p \in Procs, LookupHit(p)
  PROVE  IInv'
<1>1. /\ LocalInv(p) /\ pc[p] = "lookup" /\ cache \in Answers /\ ~cache.blank
      /\ out[p] = <<>> /\ calls[p] = 0 /\ attempt[p] = 0
  BY DEF IInv, LookupHit, Move, CacheInv, LocalInv, ShownInv, Silent, CallsInv, Unpaid
<1>2. TypeOK' /\ CacheInv'
  BY <1>1 DEF IInv, TypeOK, CacheInv, LookupHit, Move, Labels
<1>3. /\ pc'[p] = "render" /\ answer'[p] = cache /\ hit'[p] = TRUE
      /\ UNCHANGED <<conf, attempt, calls, out>>
      /\ \A q \in Procs \ {p} : pc'[q] = pc[q] /\ answer'[q] = answer[q] /\ hit'[q] = hit[q]
  BY DEF IInv, TypeOK, LookupHit, Move
<1>4. ShownInv(conf[p], "render", <<>>)
  BY DEF ShownInv
<1>5. MayCall(conf[p], "render", TRUE)
  BY DEF MayCall, Calling
<1>6. CallsInv(conf[p], "render", 0, 0)
  BY DEF CallsInv, Tries
<1>7. PaidInv(conf[p], TRUE, 0)
  BY DEF PaidInv
<1>8. AnswerInv("render", cache, TRUE)
  BY <1>1 DEF AnswerInv
<1>9. LocalInv(p)'
  BY <1>1, <1>3, <1>4, <1>5, <1>6, <1>7, <1>8 DEF LocalInv
<1> QED
  BY <1>2, <1>3, <1>9, OwnStep

LEMMA PrintDryRunInv ==
  ASSUME IInv, NEW p \in Procs, PrintDryRun(p)
  PROVE  IInv'
<1>1. LocalInv(p) /\ pc[p] = "estimate" /\ out[p] = <<>>
  BY DEF IInv, PrintDryRun, End, Move, LocalInv, ShownInv, Silent
<1>2. Piece("estimate", "none") \in Pieces /\ out \in [Procs -> Seq(Pieces)]
  BY DEF Piece, Pieces, IInv, TypeOK
<1>3. out' \in [Procs -> Seq(Pieces)] /\ out'[p] = <<Piece("estimate", "none")>>
  BY <1>1, <1>2 DEF PrintDryRun, Show
<1>4. TypeOK' /\ CacheInv'
  BY <1>3 DEF IInv, TypeOK, CacheInv, PrintDryRun, End, Move, Labels
<1>5. /\ pc'[p] = "done" /\ UNCHANGED <<conf, answer, hit, attempt, calls>>
      /\ \A q \in Procs \ {p} : pc'[q] = pc[q] /\ out'[q] = out[q]
  BY DEF IInv, TypeOK, PrintDryRun, End, Move, Show
<1>6. ShownInv(conf[p], "done", out'[p])
  BY <1>3 DEF ShownInv, Silent
<1>7. LocalInv(p)'
  BY <1>1, <1>5, <1>6, DoneInv DEF LocalInv
<1> QED
  BY <1>4, <1>5, <1>7, OwnStep

(* What a request costs, before a stream and before every attempt.         *)
LEMMA StreamSendInv ==
  ASSUME IInv, NEW p \in Procs, StreamSend(p)
  PROVE  IInv'
<1>1. LocalInv(p) /\ pc[p] = "stream" /\ attempt[p] = 0 /\ calls[p] = 0 /\ out[p] = <<>>
  BY DEF IInv, StreamSend, Move, LocalInv, CallsInv, Unpaid, ShownInv, Silent
<1>2. /\ pc'[p] = "streaming" /\ calls'[p] = 1
      /\ UNCHANGED <<conf, answer, hit, attempt, out>>
      /\ \A q \in Procs \ {p} : pc'[q] = pc[q] /\ calls'[q] = calls[q]
  BY <1>1 DEF IInv, TypeOK, StreamSend, Move, Send
<1>3. TypeOK' /\ CacheInv'
  BY <1>1 DEF IInv, TypeOK, CacheInv, StreamSend, Move, Send, Labels
<1>4. Streams(conf[p]) /\ Allowed(conf[p]) /\ ~hit[p] /\ Tries(conf[p]) = 1
  BY <1>1 DEF LocalInv, MayCall, Calling, Tries
<1>5. MayCall(conf[p], "streaming", hit[p])
  BY <1>4 DEF MayCall
<1>6. CallsInv(conf[p], "streaming", 0, 1)
  BY <1>4 DEF CallsInv, Unpaid
<1>7. PaidInv(conf[p], hit[p], 1)
  BY <1>4 DEF PaidInv, Streams, Allowed
<1>8. ShownInv(conf[p], "streaming", <<>>)
  BY DEF ShownInv
<1>9. AnswerInv("streaming", answer[p], hit[p])
  BY <1>4 DEF AnswerInv, Answering
<1>10. LocalInv(p)'
  BY <1>1, <1>2, <1>5, <1>6, <1>7, <1>8, <1>9 DEF LocalInv
<1> QED
  BY <1>2, <1>3, <1>10, OwnStep

LEMMA RequestSendInv ==
  ASSUME IInv, NEW p \in Procs, RequestSend(p)
  PROVE  IInv'
<1>1. /\ LocalInv(p) /\ pc[p] = "complete" /\ out[p] = <<>> /\ ~conf[p].offline
      /\ attempt[p] \in 0 .. MaxRetries /\ calls[p] \in 0 .. MaxRetries + 2
  BY DEF IInv, TypeOK, RequestSend, Move, LocalInv, ShownInv, Silent
<1>2. Tries(conf[p]) \in {0, 1} /\ calls[p] <= Tries(conf[p]) + attempt[p]
  BY <1>1 DEF LocalInv, CallsInv, Tries
<1>3. /\ pc'[p] = "waiting" /\ calls'[p] = calls[p] + 1
      /\ UNCHANGED <<conf, answer, hit, attempt, out>>
      /\ \A q \in Procs \ {p} : pc'[q] = pc[q] /\ calls'[q] = calls[q]
  BY DEF IInv, TypeOK, RequestSend, Move, Send
<1>4. TypeOK' /\ CacheInv'
  <2>1. calls[p] + 1 \in 0 .. MaxRetries + 2
    BY <1>1, <1>2
  <2> QED
    BY <2>1 DEF IInv, TypeOK, CacheInv, RequestSend, Move, Send, Labels
<1>5. Allowed(conf[p]) /\ ~hit[p]
  BY <1>1 DEF LocalInv, MayCall, Calling
<1>6. MayCall(conf[p], "waiting", hit[p])
  BY <1>5 DEF MayCall
<1>7. CallsInv(conf[p], "waiting", attempt[p], calls[p] + 1)
  BY <1>1, <1>2 DEF CallsInv, Unpaid
<1>8. PaidInv(conf[p], hit[p], calls[p] + 1)
  BY <1>1, <1>5 DEF PaidInv, Allowed
<1>9. ShownInv(conf[p], "waiting", <<>>)
  BY DEF ShownInv
<1>10. AnswerInv("waiting", answer[p], hit[p])
  BY <1>5 DEF AnswerInv, Answering
<1>11. LocalInv(p)'
  BY <1>1, <1>3, <1>6, <1>7, <1>8, <1>9, <1>10 DEF LocalInv
<1> QED
  BY <1>3, <1>4, <1>11, OwnStep

LEMMA RequestRetriedInv ==
  ASSUME IInv, NEW p \in Procs, RequestRetried(p)
  PROVE  IInv'
<1>1. /\ LocalInv(p) /\ pc[p] = "waiting" /\ out[p] = <<>>
      /\ attempt[p] \in 0 .. MaxRetries - 1 /\ calls[p] \in 0 .. MaxRetries + 2
  BY DEF IInv, TypeOK, RequestRetried, Move, LocalInv, ShownInv, Silent
<1>2. Tries(conf[p]) \in {0, 1} /\ calls[p] <= Tries(conf[p]) + attempt[p] + 1
  BY <1>1 DEF LocalInv, CallsInv, Tries
<1>3. /\ pc'[p] = "backoff" /\ attempt'[p] = attempt[p] + 1
      /\ UNCHANGED <<conf, answer, hit, calls, out>>
      /\ \A q \in Procs \ {p} : pc'[q] = pc[q] /\ attempt'[q] = attempt[q]
  BY DEF IInv, TypeOK, RequestRetried, Move
<1>4. TypeOK' /\ CacheInv'
  BY <1>1 DEF IInv, TypeOK, CacheInv, RequestRetried, Move, Labels
<1>5. Allowed(conf[p]) /\ ~hit[p]
  BY <1>1 DEF LocalInv, MayCall, Calling
<1>6. MayCall(conf[p], "backoff", hit[p])
  BY <1>5 DEF MayCall
<1>7. CallsInv(conf[p], "backoff", attempt[p] + 1, calls[p])
  BY <1>1, <1>2 DEF CallsInv, Unpaid
<1>8. ShownInv(conf[p], "backoff", <<>>) /\ AnswerInv("backoff", answer[p], hit[p])
  BY <1>5 DEF ShownInv, AnswerInv, Answering
<1>9. LocalInv(p)'
  BY <1>1, <1>3, <1>6, <1>7, <1>8 DEF LocalInv
<1> QED
  BY <1>3, <1>4, <1>9, OwnStep

(* An answer, of the provider or of the offline heuristic.                 *)
LEMMA AnsweredInv ==
  ASSUME IInv, NEW p \in Procs, CompleteOffline(p) \/ RequestAnswered(p)
  PROVE  IInv'
<1> DEFINE l == IF conf[p].entry = "cli" THEN "render" ELSE "store"
<1>1. /\ LocalInv(p) /\ pc[p] \in {"complete", "waiting"} /\ out[p] = <<>>
      /\ Move(p, pc[p], l) /\ l \in {"render", "store"}
      /\ UNCHANGED <<conf, cancelled, hit, attempt, calls, out, records, exit, cache>>
  BY DEF IInv, CompleteOffline, RequestAnswered, Move, LocalInv, ShownInv, Silent
<1>2. PICK a \in Answers : answer' = [answer EXCEPT ![p] = a]
  BY DEF CompleteOffline, RequestAnswered
<1> HIDE DEF l
<1>3. /\ pc'[p] = l /\ answer'[p] = a
      /\ \A q \in Procs \ {p} : pc'[q] = pc[q] /\ answer'[q] = answer[q]
  BY <1>1, <1>2 DEF IInv, TypeOK, Move
<1>4. TypeOK' /\ CacheInv'
  BY <1>1, <1>2 DEF IInv, TypeOK, CacheInv, Move, Labels
<1>5. ~hit[p]
  BY <1>1 DEF LocalInv, MayCall, Calling
<1>6. MayCall(conf[p], l, hit[p])
  BY <1>1 DEF MayCall, Calling
<1>7. CallsInv(conf[p], l, attempt[p], calls[p])
  BY <1>1 DEF LocalInv, CallsInv, Unpaid
<1>8. ShownInv(conf[p], l, <<>>) /\ AnswerInv(l, a, hit[p])
  BY <1>5 DEF ShownInv, AnswerInv
<1>9. LocalInv(p)'
  BY <1>1, <1>3, <1>6, <1>7, <1>8 DEF LocalInv
<1> QED
  BY <1>1, <1>3, <1>4, <1>9, OwnStep

(* What is written to stdout.                                              *)
LEMMA ShowTyped ==
  ASSUME IInv, NEW p \in Procs, NEW piece \in Pieces, Show(p, piece)
  PROVE  /\ out' \in [Procs -> Seq(Pieces)]
         /\ out'[p] = Append(out[p], piece)
         /\ \A q \in Procs \ {p} : out'[q] = out[q]
         /\ out[p] \in Seq(Pieces)
BY DEF IInv, TypeOK, Show

LEMMA StreamTokenInv ==
  ASSUME IInv, NEW p \in Procs, StreamToken(p)
  PROVE  IInv'
<1>1. LocalInv(p) /\ pc[p] = "streaming" /\ out[p] = <<>> /\ Piece("tokens", "none") \in Pieces
  BY DEF IInv, StreamToken, Piece, Pieces
<1>2. /\ out' \in [Procs -> Seq(Pieces)] /\ out'[p] = <<Piece("tokens", "none")>>
      /\ \A q \in Procs \ {p} : out'[q] = out[q]
  BY <1>1, ShowTyped DEF StreamToken
<1>3. TypeOK' /\ CacheInv'
  BY <1>2 DEF IInv, TypeOK, CacheInv, StreamToken
<1>4. ShownInv(conf[p], "streaming", out'[p])
  BY <1>2 DEF ShownInv, Silent
<1>5. LocalInv(p)'
  BY <1>1, <1>4 DEF LocalInv, StreamToken
<1> QED
  BY <1>2, <1>3, <1>5, OwnStep DEF StreamToken

LEMMA StreamEndsInv ==
  ASSUME IInv, NEW p \in Procs, StreamEnds(p)
  PROVE  IInv'
<1>1. /\ LocalInv(p) /\ pc[p] = "streaming" /\ Move(p, "streaming", "store")
      /\ UNCHANGED <<conf, cancelled, hit, attempt, calls, records, exit, cache>>
  BY DEF IInv, StreamEnds, Move
<1>2. PICK a \in Answers : answer' = [answer EXCEPT ![p] = a] /\ Show(p, Piece("header", a.level))
  BY DEF StreamEnds
<1>3. Piece("header", a.level) \in Pieces /\ Piece("header", a.level).kind = "header"
  BY AnswersAssumption DEF Piece, Pieces, AllAnswers
<1>4. /\ out' \in [Procs -> Seq(Pieces)] /\ out'[p] = Append(out[p], Piece("header", a.level))
      /\ out[p] \in Seq(Pieces) /\ Len(out[p]) <= 1
      /\ \A q \in Procs \ {p} : out'[q] = out[q]
  BY <1>1, <1>2, <1>3, ShowTyped DEF LocalInv, ShownInv
<1>5. /\ pc'[p] = "store" /\ answer'[p] = a
      /\ \A q \in Procs \ {p} : pc'[q] = pc[q] /\ answer'[q] = answer[q]
  BY <1>1, <1>2 DEF IInv, TypeOK, Move
<1>6. TypeOK' /\ CacheInv'
  BY <1>1, <1>2, <1>4 DEF IInv, TypeOK, CacheInv, Move, Labels
<1>7. ~hit[p] /\ conf[p].stream
  BY <1>1 DEF LocalInv, MayCall, Calling, Streams
<1>8. conf[p].entry # "mcp"
  BY <1>7, Settings DEF IInv, TypeOK
<1>9. ShownInv(conf[p], "store", out'[p])
  <2>1. /\ out'[p] \in Seq(Pieces) /\ Len(out'[p]) = Len(out[p]) + 1
        /\ Len(out[p]) \in Nat /\ out'[p][Len(out[p]) + 1] = Piece("header", a.level)
    BY <1>3, <1>4
  <2>2. Len(out'[p]) <= 1 \/ (Len(out'[p]) = 2 /\ out'[p][2].kind = "header")
    BY <1>3, <1>4, <2>1
  <2> QED
    BY <1>8, <2>2 DEF ShownInv, Silent
<1>10. MayCall(conf[p], "store", hit[p]) /\ AnswerInv("store", a, hit[p])
  BY <1>7 DEF MayCall, Calling, AnswerInv
<1>11. CallsInv(conf[p], "store", attempt[p], calls[p])
  BY <1>1 DEF LocalInv, CallsInv, Unpaid
<1>12. LocalInv(p)'
  BY <1>1, <1>5, <1>9, <1>10, <1>11 DEF LocalInv
<1> QED
  BY <1>1, <1>4, <1>5, <1>6, <1>12, OwnStep

LEMMA RenderInv ==
  ASSUME IInv, NEW p \in Procs, Render(p)
  PROVE  IInv'
<1> DEFINE piece == Piece("artifact", answer[p].level)
<1>1. /\ LocalInv(p) /\ pc[p] = "render" /\ out[p] = <<>> /\ Move(p, "render", AfterRender(p))
      /\ UNCHANGED <<conf, cancelled, answer, hit, attempt, calls, records, exit, cache>>
  BY DEF IInv, Render, Move, LocalInv, ShownInv, Silent
<1>2. answer[p] \in Answers
  BY <1>1 DEF LocalInv, AnswerInv, Answering
<1>3. piece \in Pieces
  BY <1>2, AnswersAssumption DEF Piece, Pieces, AllAnswers
<1>4. Show(p, piece)
  BY DEF Render
<1> HIDE DEF piece
<1>5. /\ out' \in [Procs -> Seq(Pieces)] /\ out'[p] = <<piece>>
      /\ \A q \in Procs \ {p} : out'[q] = out[q]
  BY <1>1, <1>3, <1>4, ShowTyped
<1>6. /\ AfterRender(p) \in {"return", "record", "store"}
      /\ AfterRender(p) = "store" => conf[p].entry # "mcp"
  BY DEF AfterRender
<1>7. pc'[p] = AfterRender(p) /\ \A q \in Procs \ {p} : pc'[q] = pc[q]
  BY <1>1 DEF IInv, TypeOK, Move
<1>8. TypeOK' /\ CacheInv'
  BY <1>1, <1>5, <1>6 DEF IInv, TypeOK, CacheInv, Move, Labels
<1>9. ShownInv(conf[p], AfterRender(p), out'[p])
  BY <1>5, <1>6 DEF ShownInv, Silent
<1>10. MayCall(conf[p], AfterRender(p), hit[p])
  BY <1>6 DEF MayCall, Calling
<1>11. CallsInv(conf[p], AfterRender(p), attempt[p], calls[p])
  BY <1>1, <1>6 DEF LocalInv, CallsInv, Unpaid
<1>12. AnswerInv(AfterRender(p), answer[p], hit[p])
  BY <1>1, <1>2 DEF LocalInv, AnswerInv
<1>13. LocalInv(p)'
  BY <1>1, <1>7, <1>9, <1>10, <1>11, <1>12 DEF LocalInv
<1> QED
  BY <1>1, <1>5, <1>7, <1>8, <1>13, OwnStep

-----------------------------------------------------------------------------
(* The world: signals, and a cache that forgets.                           *)
LEMMA WorldInv ==
  ASSUME IInv, (\E p \in Procs : Signal(p)) \/ CacheForgets \/ UNCHANGED vars
  PROVE  IInv'
<1>1. UNCHANGED <<conf, pc, answer, hit, attempt, calls, out>>
  BY DEF Signal, CacheForgets, vars
<1>2. TypeOK'
  BY DEF IInv, TypeOK, Signal, CacheForgets, vars
<1>3. CacheInv'
  BY DEF IInv, CacheInv, Signal, CacheForgets, vars
<1>4. ASSUME NEW q \in Procs PROVE LocalInv(q)'
  BY <1>1 DEF IInv, LocalInv
<1> QED
  BY <1>2, <1>3, <1>4 DEF IInv

LEMMA ProceedsInv ==
  ASSUME IInv, NEW p \in Procs, Proceeds(p)
  PROVE  IInv'
<1>1. CASE Prepare(p) \/ LookupMiss(p) \/ GuardPasses(p) \/ BackoffEnds(p)
  BY <1>1, PrepareInv, LookupMissInv, GuardPassesInv, BackoffEndsInv
<1>2. CASE LookupHit(p) \/ PrintDryRun(p) \/ Render(p)
  BY <1>2, LookupHitInv, PrintDryRunInv, RenderInv
<1>3. CASE StreamSend(p) \/ RequestSend(p) \/ CompleteOffline(p)
  BY <1>3, StreamSendInv, RequestSendInv, AnsweredInv
<1>4. CASE Store(p) \/ StoreSkipped(p) \/ RecordRiskHistory(p)
  BY <1>4, StoresInv, RecordInv
<1>5. CASE StreamStopsOnCancel(p)
  BY <1>5, FallsBackInv, EndsInv DEF StreamStopsOnCancel
<1>6. CASE PrepareFails(p) \/ GuardFails(p) \/ StopsOnCancel(p) \/ RenderFails(p) \/ GateFailOn(p)
  BY <1>6, EndsInv
<1> QED
  BY <1>1, <1>2, <1>3, <1>4, <1>5, <1>6 DEF Proceeds

LEMMA ProviderInv ==
  ASSUME IInv, NEW p \in Procs, Provider(p) \/ TimesOut(p)
  PROVE  IInv'
<1>1. CASE StreamToken(p) \/ StreamEnds(p) \/ StreamFallsBack(p)
  BY <1>1, StreamTokenInv, StreamEndsInv, FallsBackInv
<1>2. CASE RequestAnswered(p) \/ RequestRetried(p)
  BY <1>2, AnsweredInv, RequestRetriedInv
<1>3. CASE StreamFails(p) \/ RequestFails(p)
  BY <1>3, EndsInv
<1> QED
  BY <1>1, <1>2, <1>3 DEF Provider, TimesOut

LEMMA NextInv == IInv /\ [Next]_vars => IInv'
<1> SUFFICES ASSUME IInv, [Next]_vars PROVE IInv'
  OBVIOUS
<1>1. ASSUME NEW p \in Procs, Proceeds(p) \/ Provider(p) \/ TimesOut(p) PROVE IInv'
  BY <1>1, ProceedsInv, ProviderInv
<1>2. ASSUME NEW p \in Procs, Kill(p) PROVE IInv'
  BY <1>2, EndsInv
<1>3. CASE (\E p \in Procs : Signal(p)) \/ CacheForgets \/ UNCHANGED vars
  BY <1>3, WorldInv
<1> QED
  BY <1>1, <1>2, <1>3 DEF Next, Terminating

-----------------------------------------------------------------------------
LEMMA Invariance == Spec => []IInv
BY InitInv, NextInv, PTL DEF Spec

(* A terminal never shows a second review after the start of a first one,  *)
(* and never an estimate beside one.                                       *)
THEOREM OneReviewHolds == Spec => []OneReview
<1>1. IInv => OneReview
  <2> SUFFICES ASSUME IInv, NEW p \in Procs
               PROVE  Cardinality({i \in DOMAIN out[p] :
                        out[p][i].kind \in {"tokens", "artifact", "estimate"}}) <= 1
    BY DEF OneReview
  <2> DEFINE S == {i \in DOMAIN out[p] : out[p][i].kind \in {"tokens", "artifact", "estimate"}}
  <2>1. out[p] \in Seq(Pieces) /\ DOMAIN out[p] = 1 .. Len(out[p]) /\ Len(out[p]) \in Nat
    BY DEF IInv, TypeOK
  <2>2. Len(out[p]) <= 1 \/ (Len(out[p]) = 2 /\ out[p][2].kind = "header")
    BY DEF IInv, LocalInv, ShownInv
  <2>3. S \subseteq {1}
    BY <2>1, <2>2
  <2>4. IsFiniteSet({1}) /\ Cardinality({1}) = 1
    BY FS_Singleton
  <2>5. Cardinality(S) <= 1
    BY <2>3, <2>4, FS_Subset
  <2> QED
    BY <2>5
<1> QED
  BY <1>1, Invariance, PTL

(* Whatever the settings, the answers and the failures: no call without a  *)
(* budget, none for a dry run, an offline review or a cached one, never    *)
(* more than a stream and 1 + MaxRetries requests; and no blank answer is  *)
(* ever served again.                                                      *)
THEOREM SpendsRightHolds == Spec => []SpendsRight
<1>1. IInv => SpendsRight
  <2> SUFFICES ASSUME IInv PROVE SpendsRight
    OBVIOUS
  <2>1. TypeOK
    BY DEF IInv
  <2>2. HitNeverBlank
    BY DEF IInv, LocalInv, AnswerInv, HitNeverBlank
  <2>3. ASSUME NEW p \in Procs, calls[p] > 0
        PROVE  /\ ~conf[p].overBudget /\ ~conf[p].dryRun /\ ~conf[p].offline /\ ~hit[p]
               /\ calls[p] <= (IF WantStream(p) THEN 1 ELSE 0) + 1 + MaxRetries
    <3>1. ~conf[p].overBudget /\ ~conf[p].dryRun /\ ~conf[p].offline /\ ~hit[p]
      BY <2>3 DEF IInv, LocalInv, PaidInv
    <3>2. calls[p] <= Tries(conf[p]) + 1 + MaxRetries
      BY DEF IInv, LocalInv, CallsInv
    <3>3. Tries(conf[p]) = IF WantStream(p) THEN 1 ELSE 0
      BY DEF Tries, Streams, WantStream
    <3> QED
      BY <3>1, <3>2, <3>3
  <2> QED
    BY <2>1, <2>2, <2>3 DEF SpendsRight, Spending
<1> QED
  BY <1>1, Invariance, PTL

-----------------------------------------------------------------------------
(* ReviewRun implements ReviewContract: every step of the pipeline, on     *)
(* whichever path, is a step of the contract or none of its business.      *)
(*                                                                         *)
(* What the contract sees of a process follows from where the process is:  *)
(* once there is an answer to render, store, record or judge, the level on *)
(* stdout is that of the answer in hand.                                   *)

(* The level a reader of stdout o knows. *)
LevelIn(o) ==
  IF o = <<>> THEN "nothing"
  ELSE LET piece == o[Len(o)]
       IN CASE piece.kind = "tokens" -> "nothing"
            [] piece.kind = "estimate" -> "estimate"
            [] OTHER -> piece.level

(* r are the records of a process with configuration c, label l, answer a, *)
(* stdout o; e is its exit code.                                           *)
Rendered(c, l) == l \in {"record", "return"} \/ (l = "store" /\ c.entry = "cli")
SeenInv(c, l, a, o, r, e) ==
  /\ l # "done" => e = "running"
  /\ l = "streaming" => LevelIn(o) = "nothing"
  /\ Rendered(c, l) => LevelIn(o) = a.level
  /\ l \notin {"return", "done"} => r = <<>>
  /\ l = "return" => r = IF c.history = "on" THEN <<a.level>> ELSE <<>>

Seen(p) == SeenInv(conf[p], pc[p], answer[p], out[p], records[p], exit[p])
RInv == IInv /\ \A p \in Procs : Seen(p)

-----------------------------------------------------------------------------
LEMMA SeenInit == Init => RInv
<1> SUFFICES ASSUME Init PROVE RInv
  OBVIOUS
<1>1. ASSUME NEW p \in Procs PROVE Seen(p)
  <2>1. pc[p] = "prepare" /\ records[p] = <<>> /\ exit[p] = "running"
    BY DEF Init
  <2> QED
    BY <2>1 DEF Seen, SeenInv, Rendered
<1> QED
  BY <1>1, InitInv DEF RInv

LEMMA LevelInSilent ==
  ASSUME IInv, NEW p \in Procs, pc[p] \in Silent
  PROVE  out[p] = <<>> /\ LevelIn(out[p]) = "nothing"
BY DEF IInv, LocalInv, ShownInv, LevelIn

(* A step of p that appends a piece to stdout.                             *)
LEMMA LevelAppended ==
  ASSUME NEW o \in Seq(Pieces), NEW piece \in Pieces
  PROVE  /\ piece.kind \in {"header", "artifact"} => LevelIn(Append(o, piece)) = piece.level
         /\ piece.kind = "tokens" => LevelIn(Append(o, piece)) = "nothing"
         /\ piece.kind = "estimate" => LevelIn(Append(o, piece)) = "estimate"
<1>1. /\ Append(o, piece) # <<>>
      /\ Append(o, piece)[Len(Append(o, piece))] = piece
  OBVIOUS
<1> HIDE DEF Pieces
<1> QED
  BY <1>1 DEF LevelIn

(* The others see nothing of a step of p.                                  *)
LEMMA OthersSeen ==
  ASSUME RInv, IInv', NEW p \in Procs, conf' = conf,
         \A q \in Procs \ {p} :
           /\ pc'[q] = pc[q] /\ answer'[q] = answer[q] /\ out'[q] = out[q]
           /\ records'[q] = records[q] /\ exit'[q] = exit[q],
         Seen(p)'
  PROVE  RInv'
<1>1. ASSUME NEW q \in Procs \ {p} PROVE Seen(q)'
  BY <1>1 DEF RInv, Seen
<1> QED
  BY <1>1 DEF RInv

-----------------------------------------------------------------------------
(* Steps that neither show, nor record, nor end anything.                  *)
LEMMA HiddenSeen ==
  ASSUME RInv, IInv', NEW p \in Procs,
         \/ Prepare(p) \/ LookupHit(p) \/ LookupMiss(p) \/ GuardPasses(p) \/ StreamSend(p)
         \/ StreamFallsBack(p) \/ CompleteOffline(p) \/ RequestSend(p) \/ RequestAnswered(p)
         \/ RequestRetried(p) \/ BackoffEnds(p)
  PROVE  RInv' /\ UNCHANGED <<conf, out, records, exit>>
<1>1. UNCHANGED <<conf, out, records, exit>>
  BY DEF Prepare, LookupHit, LookupMiss, GuardPasses, StreamSend, StreamFallsBack,
         CompleteOffline, RequestSend, RequestAnswered, RequestRetried, BackoffEnds
<1>2. \A q \in Procs \ {p} : pc'[q] = pc[q] /\ answer'[q] = answer[q]
  BY DEF RInv, IInv, TypeOK, Prepare, LookupHit, LookupMiss, GuardPasses, StreamSend,
         StreamFallsBack, CompleteOffline, RequestSend, RequestAnswered, RequestRetried,
         BackoffEnds, Move
<1>3. /\ pc[p] \notin {"return", "done"}
      /\ pc'[p] \in {"lookup", "render", "estimate", "guard", "stream", "streaming", "complete",
                     "waiting", "backoff"} \/ (pc'[p] = "store" /\ conf[p].entry # "cli")
      /\ pc'[p] = "streaming" => pc[p] = "stream"
  BY DEF RInv, IInv, TypeOK, Prepare, LookupHit, LookupMiss, GuardPasses, StreamSend,
         StreamFallsBack, CompleteOffline, RequestSend, RequestAnswered, RequestRetried,
         BackoffEnds, Move
<1>4. records[p] = <<>> /\ exit[p] = "running"
  BY <1>3 DEF RInv, Seen, SeenInv
<1>5. pc'[p] = "streaming" => LevelIn(out[p]) = "nothing"
  BY <1>3, LevelInSilent DEF RInv, Silent
<1>6. ~Rendered(conf[p], pc'[p])
  BY <1>3 DEF Rendered
<1>7. Seen(p)'
  BY <1>1, <1>3, <1>4, <1>5, <1>6 DEF Seen, SeenInv
<1> QED
  BY <1>1, <1>2, <1>7, OthersSeen

LEMMA StoresSeen ==
  ASSUME RInv, IInv', NEW p \in Procs, Store(p) \/ StoreSkipped(p)
  PROVE  RInv' /\ UNCHANGED <<conf, out, records, exit>>
<1>1. UNCHANGED <<conf, answer, out, records, exit>>
  BY DEF Store, StoreSkipped
<1>2. /\ pc[p] = "store" /\ pc'[p] = AfterStore(p)
      /\ \A q \in Procs \ {p} : pc'[q] = pc[q]
  BY DEF RInv, IInv, TypeOK, Store, StoreSkipped, Move
<1>3. conf[p].entry \in {"cli", "mcp"}
  BY Settings DEF RInv, IInv, TypeOK
<1>4. SeenInv(conf[p], "store", answer[p], out[p], records[p], exit[p])
  BY <1>2 DEF RInv, Seen
<1>5. SeenInv(conf[p], AfterStore(p), answer[p], out[p], records[p], exit[p])
  BY <1>3, <1>4 DEF SeenInv, Rendered, AfterStore
<1>6. Seen(p)'
  BY <1>1, <1>2, <1>5 DEF Seen
<1> QED
  BY <1>1, <1>2, <1>6, OthersSeen

(* Tokens alone are no review yet.                                         *)
LEMMA TokenSeen ==
  ASSUME RInv, IInv', NEW p \in Procs, StreamToken(p)
  PROVE  /\ RInv' /\ UNCHANGED <<conf, records, exit>>
         /\ \A q \in Procs : LevelIn(out'[q]) = LevelIn(out[q])
<1>1. Piece("tokens", "none") \in Pieces /\ Piece("tokens", "none").kind = "tokens"
  BY DEF Piece, Pieces
<1>2. /\ out'[p] = Append(out[p], Piece("tokens", "none")) /\ out[p] \in Seq(Pieces)
      /\ \A q \in Procs \ {p} : out'[q] = out[q]
  BY <1>1, ShowTyped DEF RInv, StreamToken
<1>3. LevelIn(out'[p]) = "nothing"
  BY <1>1, <1>2, LevelAppended
<1>4. pc[p] = "streaming" /\ UNCHANGED <<conf, pc, answer, records, exit>>
  BY DEF StreamToken
<1>5. SeenInv(conf[p], "streaming", answer[p], out[p], records[p], exit[p])
  BY <1>4 DEF RInv, Seen
<1>6. SeenInv(conf[p], "streaming", answer[p], out'[p], records[p], exit[p])
  BY <1>3, <1>5 DEF SeenInv, Rendered
<1>7. Seen(p)'
  BY <1>4, <1>6 DEF Seen
<1>8. LevelIn(out[p]) = "nothing"
  BY <1>5 DEF SeenInv
<1> QED
  BY <1>2, <1>3, <1>4, <1>7, <1>8, OthersSeen

-----------------------------------------------------------------------------
(* The steps of the contract, told by what a step does to stdout, to the   *)
(* records and to the exit codes.                                          *)
LEMMA Level == ASSUME NEW p PROVE LevelShown(p) = LevelIn(out[p])
BY DEF LevelShown, LevelIn

LEMMA Single == ASSUME NEW x PROVE <<x>> # <<>> /\ Len(<<x>>) = 1 /\ <<x>>[1] = x
OBVIOUS

LEMMA SamePolicy ==
  ASSUME conf' = conf
  PROVE  UNCHANGED [q \in Procs |-> [failOn |-> conf[q].failOn, logs |-> conf[q].history = "on"]]
OBVIOUS

LEMMA SameRecords ==
  ASSUME records' = records
  PROVE  UNCHANGED [q \in Procs |->
                      CASE records[q] = <<>> -> "nothing"
                        [] Len(records[q]) = 1 -> records[q][1]
                        [] OTHER -> "twice"]
OBVIOUS

LEMMA SameRisk ==
  /\ Contract!Levels = Levels /\ Contract!Thresholds = Thresholds
  /\ \A level, threshold : Contract!RiskAtLeast(level, threshold) = RiskAtLeast(level, threshold)
BY DEF Contract!Levels, Contract!Thresholds, Contract!Rank, Contract!RiskAtLeast,
       Levels, Thresholds, Rank, RiskAtLeast

LEMMA Shows ==
  ASSUME NEW p \in Procs, NEW level \in Levels, UNCHANGED <<conf, records, exit>>,
         exit[p] = "running", LevelIn(out[p]) = "nothing", LevelIn(out'[p]) = level,
         \A q \in Procs \ {p} : out'[q] = out[q]
  PROVE  Contract!Next
<1>1. \A q \in Procs : LevelShown(q) = LevelIn(out[q]) /\ LevelShown(q)' = LevelIn(out'[q])
  BY Level DEF LevelShown, LevelIn
<1>2. [q \in Procs |-> LevelShown(q)]' = [[q \in Procs |-> LevelShown(q)] EXCEPT ![p] = level]
  BY <1>1
<1>3. /\ [q \in Procs |-> LevelShown(q)][p] = "nothing"
      /\ \E known \in Levels : [q \in Procs |-> LevelShown(q)]' =
                              [[q \in Procs |-> LevelShown(q)] EXCEPT ![p] = known]
  BY <1>1, <1>2
<1>4. Contract!Show(p)
  BY <1>3, SameRisk, SamePolicy, SameRecords DEF Contract!Show
<1> QED
  BY <1>4 DEF Contract!Next

LEMMA Estimates ==
  ASSUME NEW p \in Procs, UNCHANGED <<conf, records>>,
         exit[p] = "running", LevelIn(out[p]) = "nothing", LevelIn(out'[p]) = "estimate",
         exit' = [exit EXCEPT ![p] = "0"],
         \A q \in Procs \ {p} : out'[q] = out[q]
  PROVE  Contract!Next
<1>1. \A q \in Procs : LevelShown(q) = LevelIn(out[q]) /\ LevelShown(q)' = LevelIn(out'[q])
  BY Level DEF LevelShown, LevelIn
<1>2. [q \in Procs |-> LevelShown(q)]' = [[q \in Procs |-> LevelShown(q)] EXCEPT ![p] = "estimate"]
  BY <1>1
<1>3. Contract!Estimate(p)
  BY <1>1, <1>2 DEF Contract!Estimate
<1> QED
  BY <1>3 DEF Contract!Next

(* An end of p with this code, be it of success, of failure or a kill.     *)
LEMMA Finishes ==
  ASSUME NEW p \in Procs, NEW code, UNCHANGED <<conf, out, records>>,
         exit[p] = "running", exit' = [exit EXCEPT ![p] = code],
         \/ code = "killed"
         \/ code = "1" /\ LevelIn(out[p]) = "nothing"
         \/ /\ LevelIn(out[p]) \in Levels
            /\ conf[p].history = "on" => records[p] = <<LevelIn(out[p])>>
            /\ code = IF RiskAtLeast(LevelIn(out[p]), conf[p].failOn) THEN "2" ELSE "0"
  PROVE  Contract!Next
<1>1. LevelShown(p) = LevelIn(out[p])
  BY Level
<1>2. Contract!Finish(p, code)
  BY DEF Contract!Finish, LevelShown
<1>3. CASE code = "killed"
  BY <1>2, <1>3 DEF Contract!Killed, Contract!Next
<1>4. CASE code = "1" /\ LevelIn(out[p]) = "nothing"
  BY <1>1, <1>2, <1>4 DEF Contract!Fail, Contract!Next
<1>5. CASE /\ LevelIn(out[p]) \in Levels
           /\ conf[p].history = "on" => records[p] = <<LevelIn(out[p])>>
           /\ code = IF RiskAtLeast(LevelIn(out[p]), conf[p].failOn) THEN "2" ELSE "0"
  <2>1. ASSUME conf[p].history = "on"
        PROVE  records[p] # <<>> /\ Len(records[p]) = 1 /\ records[p][1] = LevelIn(out[p])
    BY <1>5, <2>1, Single
  <2>2. Contract!Succeed(p)
    BY <1>1, <1>2, <1>5, <2>1, SameRisk DEF Contract!Succeed
  <2> QED
    BY <2>2 DEF Contract!Next
<1> QED
  BY <1>3, <1>4, <1>5

LEMMA Records ==
  ASSUME NEW p \in Procs, UNCHANGED <<conf, out, exit>>, records \in [Procs -> Seq(Levels)],
         exit[p] = "running", LevelIn(out[p]) \in Levels, conf[p].history = "on",
         records[p] = <<>>, records' = [records EXCEPT ![p] = <<LevelIn(out[p])>>]
  PROVE  Contract!Next
<1>1. LevelShown(p) = LevelIn(out[p])
  BY Level
<1>2. records'[p] = <<LevelIn(out[p])>> /\ \A q \in Procs \ {p} : records'[q] = records[q]
  OBVIOUS
<1>3. [q \in Procs |-> LevelShown(q)]' = [q \in Procs |-> LevelShown(q)]
  BY DEF LevelShown
<1> DEFINE Logged(r) ==
             CASE r = <<>> -> "nothing" [] Len(r) = 1 -> r[1] [] OTHER -> "twice"
<1>4. Logged(records[p]) = "nothing" /\ Logged(records'[p]) = LevelIn(out[p])
  BY <1>2, Single
<1> HIDE DEF Logged
<1>5. [q \in Procs |-> Logged(records'[q])]
      = [[q \in Procs |-> Logged(records[q])] EXCEPT ![p] = LevelIn(out[p])]
  BY <1>2, <1>4
<1>6. [q \in Procs |-> LevelShown(q)][p] = LevelIn(out[p])
  BY <1>1
<1> DEFINE logged == [q \in Procs |-> Logged(records[q])]
<1>7. logged' = [logged EXCEPT ![p] = [q \in Procs |-> LevelShown(q)][p]] /\ logged[p] = "nothing"
  BY <1>4, <1>5, <1>6
<1>8. Contract!Record(p)
  BY <1>3, <1>6, <1>7, SameRisk, SamePolicy DEF Contract!Record, Logged
<1> QED
  BY <1>8 DEF Contract!Next

LEMMA Hides ==
  ASSUME UNCHANGED <<conf, records, exit>>,
         \A q \in Procs : LevelIn(out'[q]) = LevelIn(out[q])
  PROVE  UNCHANGED Contract!vars
<1>1. \A q \in Procs : LevelShown(q) = LevelIn(out[q]) /\ LevelShown(q)' = LevelIn(out'[q])
  BY Level DEF LevelShown, LevelIn
<1>2. [q \in Procs |-> LevelShown(q)]' = [q \in Procs |-> LevelShown(q)]
  BY <1>1
<1> QED
  BY <1>2 DEF Contract!vars

-----------------------------------------------------------------------------
(* Each step of the pipeline, as the contract sees it.                     *)
LEMMA Ended ==
  ASSUME RInv, IInv', NEW p \in Procs, NEW code, End(p, pc[p], code),
         UNCHANGED <<conf, answer, records>>, \A q \in Procs \ {p} : out'[q] = out[q]
  PROVE  RInv' /\ exit' = [exit EXCEPT ![p] = code]
<1>1. /\ pc'[p] = "done" /\ exit' = [exit EXCEPT ![p] = code]
      /\ \A q \in Procs \ {p} : pc'[q] = pc[q] /\ exit'[q] = exit[q]
  BY DEF RInv, IInv, TypeOK, End, Move
<1>2. Seen(p)'
  BY <1>1 DEF Seen, SeenInv, Rendered
<1> QED
  BY <1>1, <1>2, OthersSeen

LEMMA Running ==
  ASSUME RInv, NEW p \in Procs, pc[p] # "done"
  PROVE  exit[p] = "running"
BY DEF RInv, Seen, SeenInv

LEMMA FailsKept ==
  ASSUME RInv, IInv', NEW p \in Procs,
         \/ PrepareFails(p) \/ GuardFails(p) \/ StreamFails(p) \/ RequestFails(p)
         \/ StopsOnCancel(p) \/ RenderFails(p)
  PROVE  RInv' /\ Contract!Next
<1>1. /\ End(p, pc[p], "1") /\ UNCHANGED <<conf, answer, out, records>>
      /\ pc[p] \in Silent \cup {"streaming"} /\ pc[p] # "done"
  BY DEF PrepareFails, GuardFails, StreamFails, RequestFails, StopsOnCancel, RenderFails,
         Error, End, Move, Silent
<1>2. LevelIn(out[p]) = "nothing"
  <2>1. CASE pc[p] = "streaming"
    BY <2>1 DEF RInv, Seen, SeenInv
  <2> QED
    BY <1>1, <2>1, LevelInSilent DEF RInv
<1>3. RInv' /\ exit' = [exit EXCEPT ![p] = "1"]
  BY <1>1, Ended
<1> QED
  BY <1>1, <1>2, <1>3, Running, Finishes

LEMMA KillKept ==
  ASSUME RInv, IInv', NEW p \in Procs, Kill(p)
  PROVE  RInv' /\ Contract!Next
<1>1. End(p, pc[p], "killed") /\ UNCHANGED <<conf, answer, out, records>> /\ pc[p] # "done"
  BY DEF Kill
<1>2. RInv' /\ exit' = [exit EXCEPT ![p] = "killed"]
  BY <1>1, Ended
<1> QED
  BY <1>1, <1>2, Running, Finishes

(* The gate judges the level that was shown, after it was recorded.        *)
LEMMA GateKept ==
  ASSUME RInv, IInv', NEW p \in Procs, GateFailOn(p)
  PROVE  RInv' /\ Contract!Next
<1> DEFINE code == IF RiskAtLeast(answer[p].level, conf[p].failOn) THEN "2" ELSE "0"
<1>1. /\ pc[p] = "return" /\ End(p, pc[p], code)
      /\ UNCHANGED <<conf, answer, out, records>>
  BY DEF GateFailOn, End, Move
<1> HIDE DEF code
<1>2. RInv' /\ exit' = [exit EXCEPT ![p] = code]
  BY <1>1, Ended
<1>3. SeenInv(conf[p], "return", answer[p], out[p], records[p], exit[p])
  BY <1>1 DEF RInv, Seen
<1>4. /\ LevelIn(out[p]) = answer[p].level
      /\ conf[p].history = "on" => records[p] = <<LevelIn(out[p])>>
  BY <1>3 DEF SeenInv, Rendered
<1>5. answer[p].level \in Levels
  BY <1>1, AnswersAssumption DEF RInv, IInv, LocalInv, AnswerInv, Answering, AllAnswers
<1>6. code = IF RiskAtLeast(LevelIn(out[p]), conf[p].failOn) THEN "2" ELSE "0"
  BY <1>4 DEF code
<1> QED
  BY <1>1, <1>2, <1>4, <1>5, <1>6, Running, Finishes

LEMMA EstimateKept ==
  ASSUME RInv, IInv', NEW p \in Procs, PrintDryRun(p)
  PROVE  RInv' /\ Contract!Next
<1> DEFINE piece == Piece("estimate", "none")
<1>1. piece \in Pieces /\ piece.kind = "estimate"
  BY DEF Piece, Pieces
<1>2. /\ pc[p] = "estimate" /\ End(p, pc[p], "0") /\ Show(p, piece)
      /\ UNCHANGED <<conf, answer, records>>
  BY DEF PrintDryRun, End, Move
<1> HIDE DEF piece
<1>3. /\ out'[p] = Append(out[p], piece) /\ out[p] \in Seq(Pieces)
      /\ \A q \in Procs \ {p} : out'[q] = out[q]
  BY <1>1, <1>2, ShowTyped DEF RInv
<1>4. LevelIn(out'[p]) = "estimate"
  BY <1>1, <1>3, LevelAppended
<1>5. LevelIn(out[p]) = "nothing"
  BY <1>2, LevelInSilent DEF RInv, Silent
<1>6. RInv' /\ exit' = [exit EXCEPT ![p] = "0"]
  BY <1>2, <1>3, Ended
<1> QED
  BY <1>2, <1>3, <1>4, <1>5, <1>6, Running, Estimates

LEMMA RecordKept ==
  ASSUME RInv, IInv', NEW p \in Procs, RecordRiskHistory(p)
  PROVE  RInv' /\ (Contract!Next \/ UNCHANGED Contract!vars)
<1>1. pc[p] = "record" /\ UNCHANGED <<conf, answer, out, exit>>
  BY DEF RecordRiskHistory, Move
<1>2. /\ pc'[p] = "return" /\ records \in [Procs -> Seq(Levels)]
      /\ \A q \in Procs \ {p} : pc'[q] = pc[q] /\ records'[q] = records[q]
  BY DEF RInv, IInv, TypeOK, RecordRiskHistory, Move
<1>3. SeenInv(conf[p], "record", answer[p], out[p], records[p], exit[p])
  BY <1>1 DEF RInv, Seen
<1>4. LevelIn(out[p]) = answer[p].level /\ records[p] = <<>> /\ exit[p] = "running"
  BY <1>3 DEF SeenInv, Rendered
<1>5. answer[p].level \in Levels
  BY <1>1, AnswersAssumption DEF RInv, IInv, LocalInv, AnswerInv, Answering, AllAnswers
<1>6. records' = IF conf[p].history = "on"
                 THEN [records EXCEPT ![p] = <<LevelIn(out[p])>>] ELSE records
  <2>1. Append(records[p], answer[p].level) = <<answer[p].level>>
    BY <1>4
  <2> QED
    BY <1>4, <2>1 DEF RecordRiskHistory
<1>7. records'[p] = IF conf[p].history = "on" THEN <<answer[p].level>> ELSE <<>>
  BY <1>2, <1>4, <1>6
<1>8. SeenInv(conf[p], "return", answer[p], out[p], records'[p], exit[p])
  BY <1>4, <1>7 DEF SeenInv, Rendered
<1>9. RInv'
  <2>1. Seen(p)'
    BY <1>1, <1>2, <1>8 DEF Seen
  <2> QED
    BY <1>1, <1>2, <2>1, OthersSeen
<1>10. CASE conf[p].history = "on"
  <2>1. Contract!Next
    BY <1>1, <1>2, <1>4, <1>5, <1>6, <1>10, Records
  <2> QED
    BY <1>9, <2>1
<1>11. CASE conf[p].history # "on"
  <2>1. UNCHANGED Contract!vars
    BY <1>1, <1>6, <1>11, Hides
  <2> QED
    BY <1>9, <2>1
<1> QED
  BY <1>10, <1>11

(* A streamed answer is there once its header is.                          *)
LEMMA StreamEndsKept ==
  ASSUME RInv, IInv', NEW p \in Procs, StreamEnds(p)
  PROVE  RInv' /\ Contract!Next
<1>1. /\ pc[p] = "streaming" /\ Move(p, "streaming", "store")
      /\ UNCHANGED <<conf, records, exit>>
  BY DEF StreamEnds, Move
<1>2. PICK a \in Answers : answer' = [answer EXCEPT ![p] = a] /\ Show(p, Piece("header", a.level))
  BY DEF StreamEnds
<1>3. a.level \in Levels
  BY AnswersAssumption DEF AllAnswers
<1> DEFINE piece == Piece("header", a.level)
<1>4. piece \in Pieces /\ piece.kind = "header" /\ piece.level = a.level
  BY <1>3 DEF Piece, Pieces
<1>5. Show(p, piece)
  BY <1>2
<1> HIDE DEF piece
<1>6. /\ out'[p] = Append(out[p], piece) /\ out[p] \in Seq(Pieces)
      /\ \A q \in Procs \ {p} : out'[q] = out[q]
  BY <1>4, <1>5, ShowTyped DEF RInv
<1>7. LevelIn(out'[p]) = a.level
  BY <1>4, <1>6, LevelAppended
<1>8. /\ pc'[p] = "store" /\ answer'[p] = a
      /\ \A q \in Procs \ {p} : pc'[q] = pc[q] /\ answer'[q] = answer[q]
  BY <1>1, <1>2 DEF RInv, IInv, TypeOK, Move
<1>9. LevelIn(out[p]) = "nothing" /\ records[p] = <<>> /\ exit[p] = "running"
  BY <1>1 DEF RInv, Seen, SeenInv
<1>10. SeenInv(conf[p], "store", a, out'[p], records[p], exit[p])
  BY <1>7, <1>9 DEF SeenInv, Rendered
<1>11. RInv'
  <2>1. Seen(p)'
    BY <1>1, <1>8, <1>10 DEF Seen
  <2> QED
    BY <1>1, <1>6, <1>8, <2>1, OthersSeen
<1> QED
  BY <1>1, <1>3, <1>6, <1>7, <1>9, <1>11, Shows

LEMMA RenderKept ==
  ASSUME RInv, IInv', NEW p \in Procs, Render(p)
  PROVE  RInv' /\ Contract!Next
<1> DEFINE piece == Piece("artifact", answer[p].level)
<1>1. /\ pc[p] = "render" /\ Move(p, "render", AfterRender(p)) /\ Show(p, piece)
      /\ UNCHANGED <<conf, answer, records, exit>>
  BY DEF Render, Move
<1>2. answer[p].level \in Levels
  BY <1>1, AnswersAssumption DEF RInv, IInv, LocalInv, AnswerInv, Answering, AllAnswers
<1>3. piece \in Pieces /\ piece.kind = "artifact" /\ piece.level = answer[p].level
  BY <1>2 DEF Piece, Pieces
<1> HIDE DEF piece
<1>4. /\ out'[p] = Append(out[p], piece) /\ out[p] \in Seq(Pieces)
      /\ \A q \in Procs \ {p} : out'[q] = out[q]
  BY <1>1, <1>3, ShowTyped DEF RInv
<1>5. LevelIn(out'[p]) = answer[p].level
  BY <1>3, <1>4, LevelAppended
<1>6. pc'[p] = AfterRender(p) /\ \A q \in Procs \ {p} : pc'[q] = pc[q]
  BY <1>1 DEF RInv, IInv, TypeOK, Move
<1>7. records[p] = <<>> /\ exit[p] = "running"
  BY <1>1 DEF RInv, Seen, SeenInv
<1>8. LevelIn(out[p]) = "nothing"
  BY <1>1, LevelInSilent DEF RInv, Silent
<1>9. /\ AfterRender(p) \in {"return", "record", "store"}
      /\ AfterRender(p) = "return" => conf[p].history # "on"
  <2>1. conf[p].entry = "mcp" => conf[p].history = "off"
    BY ConfigAssumption DEF RInv, IInv, TypeOK
  <2> QED
    BY <2>1 DEF AfterRender
<1>10. SeenInv(conf[p], AfterRender(p), answer[p], out'[p], records[p], exit[p])
  BY <1>5, <1>7, <1>9 DEF SeenInv, Rendered
<1>11. RInv'
  <2>1. Seen(p)'
    BY <1>1, <1>6, <1>10 DEF Seen
  <2> QED
    BY <1>1, <1>4, <1>6, <2>1, OthersSeen
<1> QED
  BY <1>1, <1>2, <1>4, <1>5, <1>7, <1>8, <1>11, Shows

-----------------------------------------------------------------------------
LEMMA InitKept == Init => Contract!Init
<1> SUFFICES ASSUME Init PROVE Contract!Init
  OBVIOUS
<1>1. conf \in [Procs -> AllConfigs]
  BY ConfigAssumption DEF Init
<1>2. [q \in Procs |-> [failOn |-> conf[q].failOn, logs |-> conf[q].history = "on"]]
      \in [Procs -> [failOn : Contract!Thresholds, logs : BOOLEAN]]
  BY <1>1, SameRisk DEF AllConfigs
<1>3. \A q \in Procs : out[q] = <<>> /\ records[q] = <<>> /\ LevelShown(q) = "nothing"
  BY DEF Init, LevelShown
<1> QED
  BY <1>2, <1>3 DEF Contract!Init, Init

LEMMA WorldKept ==
  ASSUME RInv, IInv', (\E p \in Procs : Signal(p)) \/ CacheForgets \/ UNCHANGED vars
  PROVE  RInv' /\ UNCHANGED Contract!vars
<1>1. UNCHANGED <<conf, pc, answer, out, records, exit>>
  BY DEF Signal, CacheForgets, vars
<1>2. RInv'
  BY <1>1 DEF RInv, Seen
<1> QED
  BY <1>1, <1>2, Hides

LEMMA StepKept ==
  ASSUME RInv, IInv', NEW p \in Procs, Proceeds(p) \/ Provider(p) \/ TimesOut(p) \/ Kill(p)
  PROVE  RInv' /\ (Contract!Next \/ UNCHANGED Contract!vars)
<1>1. CASE \/ Prepare(p) \/ LookupHit(p) \/ LookupMiss(p) \/ GuardPasses(p) \/ StreamSend(p)
           \/ StreamFallsBack(p) \/ CompleteOffline(p) \/ RequestSend(p) \/ RequestAnswered(p)
           \/ RequestRetried(p) \/ BackoffEnds(p)
  BY <1>1, HiddenSeen, Hides
<1>2. CASE Store(p) \/ StoreSkipped(p)
  BY <1>2, StoresSeen, Hides
<1>3. CASE StreamToken(p)
  BY <1>3, TokenSeen, Hides
<1>4. CASE \/ PrepareFails(p) \/ GuardFails(p) \/ StreamFails(p) \/ RequestFails(p)
           \/ StopsOnCancel(p) \/ RenderFails(p)
  BY <1>4, FailsKept
<1>5. CASE PrintDryRun(p) \/ StreamEnds(p) \/ Render(p)
  BY <1>5, EstimateKept, StreamEndsKept, RenderKept
<1>6. CASE RecordRiskHistory(p) \/ GateFailOn(p) \/ Kill(p)
  BY <1>6, RecordKept, GateKept, KillKept
<1> QED
  BY <1>1, <1>2, <1>3, <1>4, <1>5, <1>6 DEF Proceeds, Provider, TimesOut, StreamStopsOnCancel

LEMMA NextKept ==
  RInv /\ [Next]_vars => RInv' /\ [Contract!Next]_(Contract!vars)
<1> SUFFICES ASSUME RInv, [Next]_vars PROVE RInv' /\ [Contract!Next]_(Contract!vars)
  OBVIOUS
<1>1. IInv'
  BY NextInv DEF RInv
<1>2. ASSUME NEW p \in Procs, Proceeds(p) \/ Provider(p) \/ TimesOut(p) \/ Kill(p)
      PROVE  RInv' /\ [Contract!Next]_(Contract!vars)
  BY <1>1, <1>2, StepKept
<1>3. CASE (\E p \in Procs : Signal(p)) \/ CacheForgets \/ UNCHANGED vars
  BY <1>1, <1>3, WorldKept
<1> QED
  BY <1>2, <1>3 DEF Next, Terminating

(* Cached, streamed, buffered or called as a tool, interrupted, retried or *)
(* killed: a review shows one outcome, records it before it ends if its    *)
(* log works, and exits as the gate judges the level that was shown.       *)
THEOREM KeepsContractHolds == Spec => KeepsContract
<1>1. Spec => []RInv
  BY SeenInit, NextKept, PTL DEF Spec
<1> QED
  BY <1>1, InitKept, NextKept, PTL DEF Spec, KeepsContract, Contract!Spec
=============================================================================
