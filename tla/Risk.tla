-------------------------------- MODULE Risk --------------------------------
(***************************************************************************)
(* Risk levels and the --fail-on gate's comparison (internal/llm/risk.go). *)
(***************************************************************************)
EXTENDS Naturals

Rank == [never |-> 0, low |-> 1, medium |-> 2, high |-> 3]
Thresholds == DOMAIN Rank
Levels == Thresholds \ {"never"}

RiskAtLeast(level, threshold) == threshold # "never" /\ Rank[level] >= Rank[threshold]
=============================================================================
