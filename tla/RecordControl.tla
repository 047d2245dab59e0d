---------------------------- MODULE RecordControl ----------------------------
(***************************************************************************)
(* The recording gestures' decision table (record_control.hpp): pure       *)
(* functions of the recorder's state, the button and its number of taps.   *)
(***************************************************************************)

RecordState  == {"Idle", "Recording", "AwaitingLabel", "Unknown"}
Label        == {"LabelSuccess", "LabelFail", "LabelPartial"}
RecordAction == {"None", "Start", "Stop"} \cup Label

label(taps) == CASE taps = 1 -> "LabelSuccess" [] taps = 2 -> "LabelFail" [] OTHER -> "LabelPartial"

record_decide(state, button, taps) ==
  CASE button = "B" /\ taps = 1 /\ state # "Recording" -> "Start"
    [] button = "B" /\ taps = 2 /\ state = "Recording" -> "Stop"
    [] button = "A" /\ state = "AwaitingLabel"         -> label(taps)
    [] OTHER                                           -> "None"

\* What the collector will be in after the action.
record_next_state_Relabels(current, action) ==  \* mutant: a label leaves the episode open
  CASE action = "Start" -> "Recording" [] action = "Stop" -> "AwaitingLabel" [] OTHER -> current
record_next_state(current, action) ==
  CASE action = "Start"   -> "Recording"
    [] action = "Stop"    -> "AwaitingLabel"
    [] action \in Label   -> "Idle"
    [] action = "None"    -> current

=============================================================================
