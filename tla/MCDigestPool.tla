---------------------------- MODULE MCDigestPool ----------------------------
(* Model-checking instance of DigestPool: three repositories, two workers, *)
(* so that a worker serves several repositories and one waits.  Two of the *)
(* repositories are the same path, which --repos a,b,a allows.             *)
EXTENDS DigestPool

CONSTANTS a, b
MCPathOf == [i \in Repos |-> IF i = 2 THEN b ELSE a]
=============================================================================
