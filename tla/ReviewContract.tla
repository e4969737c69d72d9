--------------------------- MODULE ReviewContract ---------------------------
(***************************************************************************)
(* What one `gitl review`, or one gitl_review call, promises to whoever    *)
(* runs it, without how it gets its answer (cache, stream, retries): one   *)
(* outcome is shown, then the review is recorded in the risk history, then *)
(* the exit code says whether it failed (1), tripped the --fail-on gate    *)
(* (2) or neither (0), judged on the very risk level that was shown.       *)
(***************************************************************************)
EXTENDS Risk

CONSTANTS Procs

VARIABLES
  policy,  \* the gate's threshold, and whether a record must be written
  shown,   \* "nothing", "estimate" (--dry-run) or the level of the review
  logged,  \* "nothing" or the level recorded
  code     \* "running", "0", "1", "2" or "killed"

vars == <<policy, shown, logged, code>>

Init ==
  /\ policy \in [Procs -> [failOn : Thresholds, logs : BOOLEAN]]
  /\ shown = [p \in Procs |-> "nothing"]
  /\ logged = [p \in Procs |-> "nothing"]
  /\ code = [p \in Procs |-> "running"]

Show(p) ==
  /\ code[p] = "running" /\ shown[p] = "nothing"
  /\ \E level \in Levels : shown' = [shown EXCEPT ![p] = level]
  /\ UNCHANGED <<policy, logged, code>>

Estimate(p) ==
  /\ code[p] = "running" /\ shown[p] = "nothing"
  /\ shown' = [shown EXCEPT ![p] = "estimate"]
  /\ code' = [code EXCEPT ![p] = "0"]
  /\ UNCHANGED <<policy, logged>>

Record(p) ==
  /\ code[p] = "running" /\ shown[p] \in Levels /\ logged[p] = "nothing"
  /\ policy[p].logs
  /\ logged' = [logged EXCEPT ![p] = shown[p]]
  /\ UNCHANGED <<policy, shown, code>>

Finish(p, c) == code' = [code EXCEPT ![p] = c] /\ UNCHANGED <<policy, shown, logged>>

Succeed(p) ==
  /\ code[p] = "running" /\ shown[p] \in Levels
  /\ policy[p].logs => logged[p] = shown[p]
  /\ Finish(p, IF RiskAtLeast(shown[p], policy[p].failOn) THEN "2" ELSE "0")

(* An error is reported instead of a review, never after one.              *)
Fail(p) == code[p] = "running" /\ shown[p] = "nothing" /\ Finish(p, "1")

Killed(p) == code[p] = "running" /\ Finish(p, "killed")

Next == \E p \in Procs : Show(p) \/ Estimate(p) \/ Record(p) \/ Succeed(p) \/ Fail(p) \/ Killed(p)

Spec == Init /\ [][Next]_vars
=============================================================================
