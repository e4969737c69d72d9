------------------------------ MODULE DigestTUI -----------------------------
(***************************************************************************)
(* The viewer of `gitl digest --tui` (internal/tui): the report is cut     *)
(* into lines once, keys and resizes move a window over them.  Of the      *)
(* lines the model keeps how many there are.                               *)
(***************************************************************************)
EXTENDS Integers

CONSTANT Heights   \* of a terminal

ASSUME HeightsAssumption == Heights \subseteq Nat

VARIABLES
  shown,    \* "no", "yes", or "quit"
  lines,    \* how many there are
  offset,
  height,   \* of the window, a line for the footer and its line feed apart
  ready     \* the size of the terminal is known

tuiVars == <<shown, lines, offset, height, ready>>

TUIInit == shown = "no" /\ lines = 0 /\ offset = 0 /\ height = 0 /\ ready = FALSE

New(n) ==
  /\ shown = "no" /\ shown' = "yes"
  /\ n \in Nat /\ lines' = n
  /\ UNCHANGED <<offset, height, ready>>

Moves(to) == shown = "yes" /\ offset' = to /\ UNCHANGED <<shown, lines, height, ready>>

(* Mutant: a tiny terminal has a negative height. *)
ResizeUnclamped(terminal) ==
  /\ shown = "yes"
  /\ height' = terminal - 2 /\ ready' = TRUE
  /\ UNCHANGED <<shown, lines, offset>>

(* A size may come at any time, keys may come before the first. *)
Resize(terminal) ==
  /\ shown = "yes"
  /\ height' = IF terminal < 2 THEN 0 ELSE terminal - 2
  /\ ready' = TRUE
  /\ UNCHANGED <<shown, lines, offset>>

Up == Moves(IF offset > 0 THEN offset - 1 ELSE offset)

(* Mutant: the height of the window is forgotten. *)
DownToTheLast == Moves(IF offset < lines THEN offset + 1 ELSE offset)

Down == Moves(IF offset + height < lines THEN offset + 1 ELSE offset)

PageUp == Moves(IF offset < height THEN 0 ELSE offset - height)

(* The first line of a window that ends with the report. *)
LastPage == IF height > lines THEN 0 ELSE lines - height

(* Mutant: a page is as high as the terminal. *)
PageDownByTerminal ==
  Moves(IF offset + height + 2 + height > lines THEN LastPage ELSE offset + height + 2)

(* Mutant: only whole pages are turned. *)
PageDownIfWhole == Moves(IF offset + height + height > lines THEN offset ELSE offset + height)

PageDown == Moves(IF offset + height + height > lines THEN LastPage ELSE offset + height)

(* q, Ctrl-C, or the context of the command is done *)
Quit == shown = "yes" /\ shown' = "quit" /\ UNCHANGED <<lines, offset, height, ready>>

Update ==
  \/ \E terminal \in Heights : Resize(terminal)
  \/ Up \/ Down \/ PageUp \/ PageDown
  \/ Quit

TUINext == Update \/ \E n \in Nat : New(n)
TUISpec == TUIInit /\ [][TUINext]_tuiVars

(* View *)
End == IF offset + height > lines THEN lines ELSE offset + height

-----------------------------------------------------------------------------
(* View never slices out of bounds, in whatever order keys and resizes     *)
(* came, a key before the first size and a terminal of two lines or less   *)
(* among them.                                                             *)
ViewInBounds == ready => 0 <= offset /\ offset <= End /\ End <= lines

(* A key that moves the window on skips no line and leaves no blank space  *)
(* below the last, and one that moves it back skips no line either.        *)
Moved(less, more) == shown = "yes" /\ height > 0 /\ less < more
Forward == offset' <= offset + height /\ offset' + height <= lines
Backward == offset <= offset' + height
NoLineSkipped ==
  [][/\ Moved(offset, offset') => Forward
     /\ Moved(offset', offset) => Backward]_tuiVars

(* Whoever keeps turning pages, and has a window to read them in, comes to *)
(* the end of the report, wherever keys and resizes had left the window.   *)
Reading ==
  /\ <>[][PageDown]_tuiVars /\ WF_tuiVars(PageDown)
  /\ <>[](shown = "yes" => ready /\ height > 0)
ReachesEnd == Reading => [](shown = "yes" => <>(shown = "quit" \/ End = lines))
=============================================================================
