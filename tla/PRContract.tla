----------------------------- MODULE PRContract -----------------------------
(***************************************************************************)
(* What `gitl review pr/N` promises: a review of the pull request as it    *)
(* was at one moment of the run, its own commits and the diff GitHub       *)
(* shows, or an error.                                                     *)
(***************************************************************************)
CONSTANTS
  Commits,
  Anc       \* the ancestors of a commit and itself

VARIABLES
  server,   \* the tips of the pull request's base and head now
  view,     \* those the review is about
  outcome

vars == <<server, view, outcome>>

Unseen == [base |-> "unseen", head |-> "unseen"]
Pending == [status |-> "pending"]
Refused == [status |-> "refused"]
ReviewOf(base, head) ==
  [status |-> "ok", commits |-> Anc[head] \ Anc[base],
   diff |-> [added |-> Anc[head] \ Anc[base], reverted |-> {}]]

Init ==
  /\ server \in [base : Commits, head : Commits]
  /\ view = Unseen /\ outcome = Pending

Moves == server' \in [base : Commits, head : Commits] /\ UNCHANGED <<view, outcome>>
Look == view = Unseen /\ view' = server /\ UNCHANGED <<server, outcome>>
Deliver ==
  /\ view # Unseen /\ outcome = Pending
  /\ outcome' = ReviewOf(view.base, view.head)
  /\ UNCHANGED <<server, view>>
Refuse == outcome = Pending /\ outcome' = Refused /\ UNCHANGED <<server, view>>

Next == Moves \/ Look \/ Deliver \/ Refuse
Spec == Init /\ [][Next]_vars
=============================================================================
