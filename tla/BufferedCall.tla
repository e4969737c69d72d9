---------------------------- MODULE BufferedCall ----------------------------
(***************************************************************************)
(* A buffered call as `gitl review` and `gitl changelog --ai` make it: the *)
(* wait indicator is started, the provider called, the indicator stopped,  *)
(* and only then is the answer rendered or the error reported.             *)
(***************************************************************************)
EXTENDS ProviderCall, WaitIndicator

VARIABLE main   \* where the caller is

vars == <<callVars, waitVars, main>>

Init == CallInit /\ WaitInit /\ main = "start"

(* ind.start, which offline mode skips; no request is made then. *)
Begins ==
  /\ main = "start" /\ main' = "calling"
  /\ Start /\ CallStarts

Calls == main = "calling" /\ CallNext /\ UNCHANGED <<waitVars, main>>

(* The warning of finishWithRisk that the answer has no risk block goes to *)
(* stderr while the spinner is still running; it ends the line.            *)
Warns ==
  /\ main = "calling" /\ call = "ok"
  /\ line' = Erased
  /\ UNCHANGED <<callVars, main, isTTY, spinner, stopCh, frame>>

Stops ==
  /\ main = "calling" /\ Ended
  /\ main' = "joining"
  /\ CloseStop /\ UNCHANGED callVars

Joins ==
  /\ main = "joining" /\ main' = "reporting"
  /\ Erase /\ UNCHANGED callVars

Reports == main = "reporting" /\ main' = "done" /\ UNCHANGED <<callVars, waitVars>>

Spins == Spin /\ UNCHANGED <<callVars, main>>
Interrupts == main = "calling" /\ Cancel /\ UNCHANGED <<waitVars, main>>

Next == Begins \/ Calls \/ Warns \/ Stops \/ Joins \/ Reports \/ Spins \/ Interrupts
Spec == Init /\ [][Next]_vars

(* What this process does on its own: its goroutines run, timers fire, a   *)
(* select takes a case that stays ready, and a request ends when the       *)
(* context is done.                                                        *)
Local ==
  /\ WF_vars(Begins) /\ WF_vars(Stops) /\ WF_vars(Joins) /\ WF_vars(Reports)
  /\ WF_vars((FirstFrame \/ SeesStop) /\ UNCHANGED <<callVars, main>>)
  /\ WF_vars(main = "calling" /\ Own /\ UNCHANGED <<waitVars, main>>)
  /\ WF_vars(main = "calling" /\ Aborts /\ UNCHANGED <<waitVars, main>>)

FairSpec == Spec /\ Local

-----------------------------------------------------------------------------
TypeOK ==
  /\ provider \in Providers /\ maxRetries \in Nat
  /\ call \in {"idle", "ready", "flying", "backoff", "ok", "failed"}
  /\ attempt \in 0 .. maxRetries /\ tries \in attempt .. attempt + 1
  /\ delay \in 0 .. BackoffMax /\ cancelled \in BOOLEAN
  /\ body \in AllBodies /\ text \in Seq(UNION {Range(t) : t \in Texts})
  /\ failure \in {"none", "network", "busy", "rejected", "read", "empty", "cancelled"}
  /\ isTTY \in BOOLEAN /\ spinner \in {"none", "born", "spinning", "exited"}
  /\ stopCh \in {"open", "closed"} /\ frame \in Frames /\ line \in Frames \cup {Erased}
  /\ main \in {"start", "calling", "joining", "reporting", "done"}

(* When the answer is rendered or the error printed, the line of the       *)
(* spinner is erased and nobody draws on it any more, in whatever order    *)
(* stop, the first frame and the ticks came.                               *)
CleanReport ==
  main \in {"reporting", "done"} => line = Erased /\ spinner \in {"none", "exited"}

(* Ctrl-C ends the call, whatever the provider does. *)
CancelEnds == cancelled ~> main = "done"

(* The client's timeout, which the constructors never leave at zero, ends  *)
(* every request; then every call ends.                                    *)
Timeouts == WF_vars(main = "calling" /\ Flight /\ UNCHANGED <<waitVars, main>>)
CallEnds == Timeouts => <>(main = "done")

(* The arithmetic of the retries and the handling of what comes back.      *)
CallSound == TypeOK /\ BackoffExact /\ GivesUp /\ AnswerKept /\ AnswerWhole

(* A call ends, with or without Ctrl-C. *)
Ends == CancelEnds /\ CallEnds
=============================================================================
