----------------------------- MODULE InputHandler -----------------------------
(***************************************************************************)
(* The operator's path (input_handler.cpp): the headset's watchdog         *)
(* (pico_vr_reader.cpp), the 500 Hz tick that turns a controller sample    *)
(* into the e-stop, the selected mode, recording taps and one movement     *)
(* command, the recording commander behind the taps, and disarm() from     *)
(* the control thread.                                                     *)
(*                                                                         *)
(* mode_index_ is an atomic that the tick reads and writes several times;  *)
(* each access is a step (ipc), and disarm() may come between any two.     *)
(* The stick, the triggers and the navigation command do not outlive a     *)
(* tick: they are chosen where they are read.                              *)
(***************************************************************************)
EXTENDS Integers, FiniteSets, TapDetector, RecordControl

CONSTANTS
  Face,             \* the face buttons
  Chords,           \* the sets of them the operator may hold
  SingleHoldTicks,  \* kSingleHoldTicks
  HardHoldTicks,    \* kHardHoldTicks
  EstopHoldTicks,   \* kEstopHoldTicks
  BasicModeMax,     \* kBasicModeMax
  CrouchModes,      \* kCrouchFirst..kCrouchLast
  FullModeMax       \* kFullModeMax

ASSUME InputAssumption ==
  /\ Face = {"A", "B", "X", "Y"} /\ Chords \subseteq SUBSET Face
  /\ SingleHoldTicks \in Nat \ {0} /\ EstopHoldTicks \in Nat \ {0}
  /\ HardHoldTicks \in Nat /\ SingleHoldTicks < HardHoldTicks
  /\ BasicModeMax \in Nat \ {0} /\ FullModeMax \in Nat /\ BasicModeMax < FullModeMax
  /\ \E first, last \in (BasicModeMax + 1)..FullModeMax : CrouchModes = first..last

IDLE == 0
NoSample == {"none"}  \* an empty buffer; no set of face buttons
ModeDefault == -1
HeightSeed  == 8   \* tenths of a metre

VARIABLES
  \* ── the headset
  ctrl_buf,                 \* the last controller sample's buttons, or none
  ctrl_stale,               \* it is older than stale_ms
  wpc,                      \* where the watchdog stands
  \* ── the input thread
  ipc,                      \* where the tick stands
  gesture,                  \* the single-button gesture of this tick
  crouch_low,               \* mode_index_ >= kCrouchFirst, read earlier
  mode_index_, height_,
  a_press_, x_press_, y_press_, y_hold_, a_tap_, b_tap_,
  estop_hold_ticks_, estop_,
  movement_buf,
  assumed_,                 \* RecordCommander: the mirror of the collector
  \* ── history
  combo_seen,               \* two buttons were down since all were up
  y_alone_ticks,            \* ticks Y has been alone; Spent after a hard step
  last_was_stop             \* the last record command sent was a stop

watchdog == <<ctrl_buf, ctrl_stale, wpc>>
holds    == <<a_press_, x_press_, y_press_, y_hold_, a_tap_, b_tap_, estop_hold_ticks_, estop_>>
recorder == <<assumed_, last_was_stop>>
history  == <<combo_seen, y_alone_ticks>>
vars     == <<watchdog, ipc, gesture, crouch_low, mode_index_, height_, holds,
              movement_buf, recorder, history>>

HoldTrigger == [ticks : 0..HardHoldTicks, fired : BOOLEAN]
released_trigger == [ticks |-> 0, fired |-> FALSE]
Spent == HardHoldTicks + 1

TypeOK ==
  /\ ctrl_buf \in Chords \cup {NoSample} /\ ctrl_stale \in BOOLEAN /\ wpc \in {"check", "clear"}
  /\ ipc \in {"sample", "test", "step", "low", "high", "publish"}
  /\ gesture \in {"none", "escape", "up_basic", "up_full", "down"} /\ crouch_low \in BOOLEAN
  /\ mode_index_ \in -1..FullModeMax /\ height_ \in {ModeDefault, HeightSeed}
  /\ {a_press_, x_press_, y_press_, y_hold_} \subseteq HoldTrigger
  /\ {a_tap_, b_tap_} \subseteq Detector
  /\ estop_hold_ticks_ \in 0..EstopHoldTicks /\ estop_ \in BOOLEAN
  /\ movement_buf \in [mode : -1..FullModeMax, height : {ModeDefault, HeightSeed},
                       by : {"nobody", "stick", "nav"}]
  /\ assumed_ \in RecordState /\ last_was_stop \in BOOLEAN
  /\ combo_seen \in BOOLEAN /\ y_alone_ticks \in 0..Spent

Init ==
  /\ ctrl_buf = NoSample /\ ctrl_stale = FALSE /\ wpc = "check"
  /\ ipc = "sample" /\ gesture = "none" /\ crouch_low = FALSE
  /\ mode_index_ = IDLE /\ height_ = ModeDefault
  /\ a_press_ = released_trigger /\ x_press_ = released_trigger
  /\ y_press_ = released_trigger /\ y_hold_ = released_trigger
  /\ a_tap_ = idle /\ b_tap_ = idle
  /\ estop_hold_ticks_ = 0 /\ estop_ = FALSE
  /\ movement_buf = [mode |-> IDLE, height |-> ModeDefault, by |-> "nobody"]
  /\ assumed_ = "Idle" /\ last_was_stop = FALSE
  /\ combo_seen = FALSE /\ y_alone_ticks = 0

-----------------------------------------------------------------------------
(* The headset.  A tick takes one snapshot of ctrl_buf, at its first step: *)
(* what happens to the buffer later in the tick is seen by the next one,   *)
(* so that the headset's steps are taken between two ticks.                *)

between_ticks == ipc = "sample"

input_thread == <<ipc, gesture, crouch_low, mode_index_, height_, holds, movement_buf,
                  recorder, history>>

\* on_controller_update, from the SDK's thread.
CtrlSample ==
  /\ between_ticks
  /\ \E chord \in Chords : ctrl_buf' = chord
  /\ ctrl_stale' = FALSE
  /\ UNCHANGED <<wpc, input_thread>>

CtrlAges ==
  /\ between_ticks /\ ctrl_buf # NoSample /\ ~ctrl_stale
  /\ ctrl_stale' = TRUE
  /\ UNCHANGED <<ctrl_buf, wpc, input_thread>>

\* watchdog_loop: the age is checked, and the buffer cleared, in two steps.
WatchdogChecks ==
  /\ between_ticks /\ wpc = "check" /\ ctrl_buf # NoSample /\ ctrl_stale
  /\ wpc' = "clear"
  /\ UNCHANGED <<ctrl_buf, ctrl_stale, input_thread>>

WatchdogClears ==
  /\ between_ticks /\ wpc = "clear"
  /\ wpc' = "check" /\ ctrl_buf' = NoSample /\ ctrl_stale' = FALSE
  /\ UNCHANGED input_thread

-----------------------------------------------------------------------------
(* The tick                                                                *)

\* HoldTrigger::tick: fires once when held alone long enough.
held_Refires(h, alone_now, threshold) ==  \* mutant: fires again while held
  IF alone_now THEN [ticks |-> (h.ticks + 1) % threshold, fired |-> FALSE] ELSE released_trigger
held(h, alone_now, threshold) ==
  CASE ~alone_now            -> released_trigger
    [] alone_now /\ h.fired  -> h
    [] OTHER                 -> [ticks |-> h.ticks + 1, fired |-> h.ticks + 1 >= threshold]

fires(h, alone_now, threshold) == alone_now /\ ~h.fired /\ h.ticks + 1 >= threshold

is_alone(b) == ctrl_buf = {b}

\* RecordCommander::on_tap for one reported gesture.
on_tap(button, taps) ==
  LET action == record_decide(assumed_, button, taps)
  IN  /\ last_was_stop' = IF action = "None" THEN last_was_stop ELSE action = "Stop"
      /\ assumed_' = record_next_state(assumed_, action)

\* A press of either button voids the other's taps: no tick reports both.
others(b) == ctrl_buf \ {b} # {}

emit_taps ==
  LET a == event(a_tap_, "A" \in ctrl_buf, others("A"))
      b == event(b_tap_, "B" \in ctrl_buf, others("B"))
  IN  CASE a > 0 -> on_tap("A", a)
        [] a = 0 /\ b > 0 -> on_tap("B", b)
        [] OTHER -> UNCHANGED recorder

\* The e-stop: all four buttons held.
estop_tick_NeedsRelease ==  \* mutant: the counter is reset by every combo
  /\ estop_hold_ticks_' = IF Cardinality(ctrl_buf) >= 2 THEN 0 ELSE estop_hold_ticks_
  /\ UNCHANGED estop_
estop_tick ==
  IF ctrl_buf = Face
  THEN /\ estop_hold_ticks_' = IF estop_hold_ticks_ < EstopHoldTicks
                               THEN estop_hold_ticks_ + 1 ELSE estop_hold_ticks_
       /\ estop_' = (estop_ \/ estop_hold_ticks_ + 1 >= EstopHoldTicks)
  ELSE estop_hold_ticks_' = 0 /\ UNCHANGED estop_

\* What this tick's buttons ask of the mode.  Two of them never fire together:
\* only one button is alone, and Y's two thresholds differ.
asks(trigger_held) ==
  CASE fires(a_press_, is_alone("A") /\ ~trigger_held, SingleHoldTicks) -> "escape"
    [] fires(y_press_, is_alone("Y"), SingleHoldTicks) -> "up_basic"
    [] fires(y_hold_, is_alone("Y"), HardHoldTicks) -> "up_full"
    [] fires(x_press_, is_alone("X"), SingleHoldTicks) -> "down"
    [] OTHER -> "none"

SampleSeen ==
  /\ ipc = "sample" /\ ctrl_buf # NoSample
  /\ estop_tick
  /\ \E trigger_held \in BOOLEAN :
       /\ a_press_' = held(a_press_, is_alone("A") /\ ~trigger_held, SingleHoldTicks)
       /\ gesture' = asks(trigger_held)
  /\ y_press_' = held(y_press_, is_alone("Y"), SingleHoldTicks)
  /\ y_hold_'  = held(y_hold_, is_alone("Y"), HardHoldTicks)
  /\ x_press_' = held(x_press_, is_alone("X"), SingleHoldTicks)
  /\ emit_taps
  /\ a_tap_' = after(a_tap_, "A" \in ctrl_buf, others("A"))
  /\ b_tap_' = after(b_tap_, "B" \in ctrl_buf, others("B"))
  /\ mode_index_' = IF gesture' = "escape" THEN IDLE ELSE mode_index_
  /\ combo_seen' = (Cardinality(ctrl_buf) >= 2 \/ (combo_seen /\ ctrl_buf # {}))
  /\ y_alone_ticks' = CASE ~is_alone("Y") -> 0
                        [] is_alone("Y") /\ y_alone_ticks >= HardHoldTicks -> y_alone_ticks
                        [] OTHER -> y_alone_ticks + 1
  /\ ipc' = IF gesture' \in {"up_basic", "up_full", "down"} THEN "test" ELSE "low"
  /\ UNCHANGED <<watchdog, crouch_low, height_, movement_buf>>

\* The link is lost: stand still, keep the selected mode and the hold counters.
SampleLost_Keeps ==  \* mutant: the last command stands
  /\ ipc = "sample" /\ ctrl_buf = NoSample
  /\ a_tap_' = idle /\ b_tap_' = idle /\ combo_seen' = FALSE
  /\ UNCHANGED <<watchdog, ipc, gesture, crouch_low, mode_index_, height_, a_press_, x_press_,
                 y_press_, y_hold_, estop_hold_ticks_, estop_, movement_buf, recorder, y_alone_ticks>>
SampleLost ==
  /\ ipc = "sample" /\ ctrl_buf = NoSample
  /\ a_tap_' = idle /\ b_tap_' = idle /\ combo_seen' = FALSE
  /\ movement_buf' = [mode |-> IDLE, height |-> ModeDefault, by |-> "nobody"]
  /\ UNCHANGED <<watchdog, ipc, gesture, crouch_low, mode_index_, height_, a_press_, x_press_,
                 y_press_, y_hold_, estop_hold_ticks_, estop_, recorder, y_alone_ticks>>

\* The guard on mode_index_, before ...
ModeTest ==
  /\ ipc = "test"
  /\ ipc' = IF \/ gesture = "up_basic" /\ mode_index_ < BasicModeMax
               \/ gesture = "up_full" /\ mode_index_ < FullModeMax
               \/ gesture = "down" /\ mode_index_ > 0
            THEN "step" ELSE "low"
  /\ UNCHANGED <<watchdog, gesture, crouch_low, mode_index_, height_, holds, movement_buf,
                 recorder, history>>

\* ... its increment or decrement.
ModeStep ==
  /\ ipc = "step"
  /\ mode_index_' = IF gesture = "down" THEN mode_index_ - 1 ELSE mode_index_ + 1
  /\ y_alone_ticks' = IF gesture = "up_full" THEN Spent ELSE y_alone_ticks
  /\ ipc' = "low"
  /\ UNCHANGED <<watchdog, gesture, crouch_low, height_, holds, movement_buf, recorder,
                 combo_seen>>

\* The crouch band: two reads of mode_index_, then the height follows.
CrouchLow ==
  /\ ipc = "low"
  /\ crouch_low' = (\E c \in CrouchModes : mode_index_ >= c)
  /\ ipc' = "high"
  /\ UNCHANGED <<watchdog, gesture, mode_index_, height_, holds, movement_buf, recorder, history>>

CrouchHigh_Keeps ==  \* mutant: the height survives the crouch
  /\ ipc = "high"
  /\ height_' = IF crouch_low /\ \E c \in CrouchModes : mode_index_ <= c
                THEN HeightSeed ELSE height_
  /\ crouch_low' = FALSE /\ ipc' = "publish"
  /\ UNCHANGED <<watchdog, gesture, mode_index_, holds, movement_buf, recorder, history>>
CrouchHigh ==
  /\ ipc = "high"
  /\ height_' = IF crouch_low /\ \E c \in CrouchModes : mode_index_ <= c
                THEN HeightSeed ELSE ModeDefault
  /\ crouch_low' = FALSE /\ ipc' = "publish"
  /\ UNCHANGED <<watchdog, gesture, mode_index_, holds, movement_buf, recorder, history>>

\* One movement command: the stick drives the selected mode; a neutral stick
\* stands still unless a fresh navigation command of the origin drives.
Publish ==
  /\ ipc = "publish"
  /\ \/ movement_buf' = [mode |-> mode_index_, height |-> height_, by |-> "stick"]
     \/ movement_buf' = [mode |-> IDLE, height |-> height_, by |-> "nobody"]
     \/ \E m \in IDLE..BasicModeMax :
          movement_buf' = [mode |-> m, height |-> ModeDefault, by |-> "nav"]
  /\ gesture' = "none" /\ ipc' = "sample"
  /\ UNCHANGED <<watchdog, crouch_low, mode_index_, height_, holds, recorder, history>>

Tick == SampleSeen \/ SampleLost \/ ModeTest \/ ModeStep \/ CrouchLow \/ CrouchHigh \/ Publish

\* disarm(), from the control thread: the origin is re-entered.
Disarm ==
  /\ mode_index_' = IDLE
  /\ UNCHANGED <<watchdog, ipc, gesture, crouch_low, height_, holds, movement_buf, recorder,
                 history>>

Next == CtrlSample \/ CtrlAges \/ WatchdogChecks \/ WatchdogClears \/ Tick \/ Disarm

\* The two loops run on threads of their own; a sample grows old, and the
\* watchdog finds it stale, unless another one arrives, and none has to.
\* Strong fairness, because a tick disables what happens between ticks.
SampleAges   == ctrl_buf # NoSample /\ (CtrlSample \/ CtrlAges)
StaleIsFound == ctrl_stale /\ (CtrlSample \/ WatchdogChecks)

Spec ==
  /\ Init /\ [][Next]_vars
  /\ WF_vars(Tick) /\ SF_vars(SampleAges)
  /\ SF_vars(StaleIsFound) /\ SF_vars(WatchdogClears)

-----------------------------------------------------------------------------
(* Properties                                                              *)

\* The command the tick about to run sends.
tap_action ==
  IF ipc # "sample" \/ ctrl_buf = NoSample THEN "None"
  ELSE LET a == event(a_tap_, "A" \in ctrl_buf, others("A"))
           b == event(b_tap_, "B" \in ctrl_buf, others("B"))
       IN  CASE a > 0 -> record_decide(assumed_, "A", a)
             [] a = 0 /\ b > 0 -> record_decide(assumed_, "B", b)
             [] OTHER -> "None"

(* No tap is counted out of a chord before all buttons were released       *)
(* (tap_detector.hpp:14-15): on the way into an e-stop, or out of it, no   *)
(* recording starts and no episode is labelled.                            *)
TapsHaveNoCombo ==
  [][combo_seen => tap_action = "None" /\ a_tap_'.count = 0 /\ b_tap_'.count = 0]_vars

(* "Standing modes force -1" (input_handler.cpp:28-29): whatever disarm()  *)
(* does between the reads, the stick never drives a crouch without its     *)
(* height, nor a standing gait with a crouch's.                            *)
HeightMatchesMode ==
  movement_buf.by = "stick" =>
    /\ movement_buf.mode \in CrouchModes => movement_buf.height = HeightSeed
    /\ movement_buf.mode \notin CrouchModes \cup {IDLE} => movement_buf.height = ModeDefault

(* A mode beyond the basic range costs one full hold of Y each, released   *)
(* in between (input_handler.cpp:12-17), also when disarm() has sent the   *)
(* mode back to IDLE in the middle of the hold or of the step.             *)
HardStepsAreHeld ==
  [][mode_index_' > mode_index_ /\ mode_index_' > BasicModeMax
       => y_alone_ticks = HardHoldTicks]_vars

(* A label is sent once, for an episode that was stopped and not started   *)
(* over: the local mirror never runs ahead of the commands                 *)
(* (record_control.hpp:17-26, record_commander.cpp:41-56).                 *)
LabelsFollowStops == tap_action \in Label => last_was_stop

(* All four buttons kept down raise the e-stop, whatever was held, tapped  *)
(* or chorded on the way in (input_handler.cpp:92-103).                    *)
EstopAnswers == (<>[](ctrl_buf = Face)) => <>estop_

(* A headset that falls silent leaves the robot standing, navigation       *)
(* included: "nothing may drive the robot without it"                      *)
(* (input_handler.hpp:31-32, input_handler.cpp:244-249).                   *)
SilenceStops ==
  <>[](ctrl_buf = NoSample \/ ctrl_stale) =>
    <>[](movement_buf = [mode |-> IDLE, height |-> ModeDefault, by |-> "nobody"])

=============================================================================
