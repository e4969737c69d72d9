----------------------------- MODULE MCLLMCache -----------------------------
(* An instance of LLMCache: two processes of one user whose configs differ *)
(* in ttl_hours, one of them with a remote cache.                          *)
EXTENDS LLMCache

CONSTANTS p1, p2, h1

SharedHost == [p \in Procs |-> h1]
DifferentTTLs == [p \in Procs |-> IF p = p1 THEN 1 ELSE 2]
NoSkew == [h \in Hosts |-> 0]
=============================================================================
