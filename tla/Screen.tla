------------------------------- MODULE Screen -------------------------------
(***************************************************************************)
(* What the activity manager promises to an activity: the activity changes *)
(* its state, asks for a repaint, and some time later a frame appears that *)
(* shows the state it asked for, or a later one, in all of its parts.      *)
(* Nothing is said of tasks, locks or notifications: RenderSync shows that *)
(* the two-task protocol of ActivityManager.cpp implements this.           *)
(***************************************************************************)
EXTENDS Naturals

VARIABLES
  ver,      \* version of what the current activity would draw
  wanted,   \* newest version a repaint was asked for, 0 if there is none
  shown     \* version that every part of the panel shows, at least

vars == <<ver, wanted, shown>>

Init == ver = 0 /\ wanted = 0 /\ shown = 0

\* The activity changes a field that render() reads.
Change == ver' = ver + 1 /\ UNCHANGED <<wanted, shown>>

\* Another activity takes the screen: what the old one asked for is moot.
Switch == ver' = ver + 1 /\ wanted' = 0 /\ UNCHANGED shown

\* The screen loses its activity.
Leave == wanted' = 0 /\ UNCHANGED <<ver, shown>>

\* requestUpdate(), in any of its forms.
Ask == wanted' = ver /\ UNCHANGED <<ver, shown>>

\* A frame: it may lack the latest changes, or show them in part, but takes
\* back nothing that the panel showed.
Paint == shown' \in shown..ver /\ UNCHANGED <<ver, wanted>>

\* A repaint that was asked for and has not been seen yet.
Due == wanted > shown

\* The frame that was asked for.
Serve == Due /\ Paint /\ shown' >= wanted

Next == Change \/ Switch \/ Leave \/ Ask \/ Paint

Spec == Init /\ [][Next]_vars /\ WF_vars(Serve)
=============================================================================
