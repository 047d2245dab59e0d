------------------------------ MODULE MC_Teleop ------------------------------
(***************************************************************************)
(* The tracker with the threads around it, and the full-body window on its *)
(* own: a behaviour works one of the two and leaves the other unchanged.   *)
(***************************************************************************)
EXTENDS TeleopTracker, PoseWindow

VARIABLE side  \* "tracker" or "window"

teleop_vars == <<side, vars, window_vars>>

TeleopInit == side \in {"tracker", "window"} /\ Init /\ WindowInit

TrackerSide(step) == side = "tracker" /\ step /\ UNCHANGED <<side, window_vars>>
WindowSide        == side = "window" /\ WindowNext /\ UNCHANGED <<side, vars>>

TeleopNext == TrackerSide(Next) \/ WindowSide

\* The fairness of TeleopTracker!Spec.
TeleopSpec ==
  TeleopInit /\ [][TeleopNext]_teleop_vars /\ WF_teleop_vars(TrackerSide(Tracker))

engage_ages_mc  == {0, 30, 200}
arrival_ages_mc == {0, 10}

=============================================================================
