---------------------------- MODULE MCDigestRun -----------------------------
EXTENDS DigestRun

CONSTANTS v1, v2, ssh, https, local, copy, bare, app

(* Two clones of a hosted repository, a worktree without an origin and a   *)
(* clone of that by its path, and a bare repository, which git cannot name.*)
PlacesMC == {ssh, https, local, copy, bare}
UrlsMC == (ssh :> [form |-> "ssh", repo |-> app])
          @@ (https :> [form |-> "https", user |-> NoUser, repo |-> app])
          @@ (local :> NoOrigin) @@ (copy :> [form |-> "raw", repo |-> local]) @@ (bare :> NoOrigin)
RootsMC == [p \in PlacesMC |-> IF p = bare THEN NoRoot ELSE p]

(* Two reviews that count together or not: in the worktree and its copy,   *)
(* both in the ssh clone, one of them low or by a newer gitl, or apart.     *)
Setup(p1, p2, level2, version2) ==
  [place |-> (v1 :> p1) @@ (v2 :> p2),
   level |-> (v1 :> "high") @@ (v2 :> level2),
   version |-> (v1 :> 1) @@ (v2 :> version2)]
SetupsMC == {Setup(local, copy, "high", 1), Setup(ssh, ssh, "low", 1),
             Setup(ssh, ssh, "high", 2), Setup(copy, ssh, "high", 1), Setup(bare, ssh, "high", 1)}

(* The digest reads the worktree and the https clone. *)
ClonePaths == <<local, https>>
=============================================================================
