---------------------------- MODULE MCReviewRun -----------------------------
(* Instances of ReviewRun.  Each configuration departs from the default in *)
(* a way that changes the path; two processes run any two of them, one     *)
(* after the other or interleaved.                                         *)
EXTENDS ReviewRun

CONSTANTS p1, p2

Default ==
  [entry |-> "cli", dryRun |-> FALSE, cached |-> TRUE, offline |-> FALSE, stream |-> FALSE,
   overBudget |-> FALSE, failOn |-> "medium", history |-> "on"]
Streamed == [Default EXCEPT !.stream = TRUE]
Tool == [Default EXCEPT !.entry = "mcp", !.failOn = "never", !.history = "off"]

Paths ==
  <<Streamed, Tool, Default, [Streamed EXCEPT !.overBudget = TRUE], [Default EXCEPT !.dryRun = TRUE],
    [Default EXCEPT !.offline = TRUE, !.history = "broken"], [Streamed EXCEPT !.cached = FALSE]>>

(* The first process fills the cache, by one path or another; which of two *)
(* that fill it does so first does not matter, and the last two paths,     *)
(* which share nothing with another process, run beside one of them only.  *)
Pairs ==
  {[p \in Procs |-> Paths[IF p = p1 THEN i ELSE j]] :
     <<i, j>> \in {ij \in (1 .. 2) \X (1 .. 7) : ij[1] <= ij[2] /\ (ij[2] > 5 => ij[1] = 1)}}

Answer(level, blank) == [level |-> level, blank |-> blank]
TwoAnswers == {Answer("low", FALSE), Answer("high", TRUE)}
=============================================================================
