---------------------------- MODULE ScreenMirror ----------------------------
(***************************************************************************)
(* What the terminal stream promises (docs/terminal-streaming.md:5): the   *)
(* page shows whole pictures that the terminal had, each sent when the one *)
(* before was consumed, and never a mixture of two.                        *)
(***************************************************************************)
CONSTANT Nothing      \* no picture

VARIABLES
  screen,       \* the terminal's picture
  sent,         \* the picture on its way to the page, or Nothing
  shown         \* the picture the page shows, or Nothing

vars == <<screen, sent, shown>>

Init == screen # Nothing /\ sent = Nothing /\ shown = Nothing

Draw == screen' # screen /\ screen' # Nothing /\ UNCHANGED <<sent, shown>>
Send == sent = Nothing /\ sent' = screen /\ UNCHANGED <<screen, shown>>
Show == sent # Nothing /\ shown' = sent /\ sent' = Nothing /\ UNCHANGED screen

\* The connection breaks, or the page stops to listen; a new page starts
\* with nothing.
Lose == sent' = Nothing /\ shown' \in {shown, Nothing} /\ UNCHANGED screen

Next == Draw \/ Send \/ Show \/ Lose
Spec == Init /\ [][Next]_vars
=============================================================================
