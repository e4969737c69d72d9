---------------------------- MODULE WaitIndicator ---------------------------
(***************************************************************************)
(* The spinner of a buffered call (internal/cli/waiting.go): start leaves  *)
(* a goroutine behind that draws a frame, and then one at every tick; stop *)
(* closes stopCh, waits for doneCh and erases the line.                    *)
(***************************************************************************)
EXTENDS Integers

Frames == 0 .. 3
Erased == -1

VARIABLES
  isTTY,
  spinner,   \* the goroutine
  stopCh,    \* "open" or "closed"
  frame,     \* i
  line       \* what the last line of stderr shows

waitVars == <<isTTY, spinner, stopCh, frame, line>>

WaitInit ==
  /\ isTTY \in BOOLEAN
  /\ spinner = "none" /\ stopCh = "open" /\ frame = 0 /\ line = Erased

-----------------------------------------------------------------------------
(* start, stop *)

Start ==
  /\ spinner' = IF isTTY THEN "born" ELSE "none"
  /\ UNCHANGED <<isTTY, stopCh, frame, line>>

(* Mutant: stop returns without closing stopCh. *)
LeavesOpen == UNCHANGED waitVars

CloseStop ==
  /\ stopCh' = IF spinner = "none" THEN stopCh ELSE "closed"
  /\ UNCHANGED <<isTTY, spinner, frame, line>>

(* Mutant: stop does not wait for the goroutine. *)
EraseAtOnce ==
  /\ line' = Erased
  /\ UNCHANGED <<isTTY, spinner, stopCh, frame>>

(* <-wi.doneCh, and the erase sequence *)
Erase ==
  /\ spinner \in {"none", "exited"}
  /\ line' = Erased
  /\ UNCHANGED <<isTTY, spinner, stopCh, frame>>

-----------------------------------------------------------------------------
(* The goroutine.  It may be scheduled for the first time after stopCh is  *)
(* closed, and a tick that is due may be taken before the closed channel.  *)

FirstFrame ==
  /\ spinner = "born" /\ spinner' = "spinning"
  /\ line' = frame
  /\ UNCHANGED <<isTTY, stopCh, frame>>

Tick ==
  /\ spinner = "spinning"
  /\ frame' = (frame + 1) % 4
  /\ line' = frame'
  /\ UNCHANGED <<isTTY, spinner, stopCh>>

SeesStop ==
  /\ spinner = "spinning" /\ stopCh = "closed"
  /\ spinner' = "exited"
  /\ UNCHANGED <<isTTY, stopCh, frame, line>>

Spin == FirstFrame \/ Tick \/ SeesStop
=============================================================================
