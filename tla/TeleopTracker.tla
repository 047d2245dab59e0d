---------------------------- MODULE TeleopTracker ----------------------------
(***************************************************************************)
(* The 50 Hz teleop tracker (teleop_tracker.cpp): two hold gestures that   *)
(* engage two exclusive flavors, upper-body (B, through a calibration that *)
(* waits for a body sample) and full-body (A), with the control thread     *)
(* that reads the claim and writes the mode both gestures are gated on.    *)
(*                                                                         *)
(* A gesture reads the mode first and acts after: the control thread may   *)
(* store another mode in between, so the gate and the act are two steps    *)
(* (tpc).  The control thread decides, stores the mode, and asks for the   *)
(* reset in three (apc).  Poses are data: a buffer holds one or none.      *)
(***************************************************************************)
EXTENDS Integers, ArbiterModes

CONSTANT HoldTicks  \* kCalibHoldTicks

ASSUME HoldAssumption == HoldTicks \in Nat \ {0}

VARIABLES
  \* ── the tracker thread
  tpc,                                      \* where the loop stands in its tick
  calibrated, fullbody_engaged,             \* the two flavors' claims
  calibrate_request, reset_request,
  calib_hold_ticks, calib_gesture_latched,  \* B
  fb_hold_ticks, fb_gesture_latched,        \* A
  vr3point_buf, smpl_window_buf,            \* a target is published
  \* ── the control thread
  apc,                                      \* where update_arbiter stands
  mode,                                     \* ControlArbiter::mode_
  next_mode,                                \* what step_mode is about to store
  \* ── the headset and the input handler
  body_buf,                                 \* its sample: none, seen by the loop, new
  body_stale,                               \* the sample is older than kFullBodyStaleMs
  button,                                   \* the face button held alone
  armed                                     \* InputHandler::mode() is not IDLE

claims   == <<calibrated, fullbody_engaged>>
gestures == <<calib_hold_ticks, calib_gesture_latched, fb_hold_ticks, fb_gesture_latched>>
targets  == <<vr3point_buf, smpl_window_buf>>
arbiter  == <<apc, mode, next_mode>>
headset  == <<body_buf, body_stale, button, armed>>
vars     == <<tpc, claims, calibrate_request, reset_request, gestures, targets,
              arbiter, headset>>

TypeOK ==
  /\ tpc \in {"reset", "b_gate", "b_act", "a_gate", "a_act", "sample"}
  /\ calibrated \in BOOLEAN /\ fullbody_engaged \in BOOLEAN
  /\ calibrate_request \in BOOLEAN /\ reset_request \in BOOLEAN
  /\ calib_hold_ticks \in 0..HoldTicks /\ calib_gesture_latched \in BOOLEAN
  /\ fb_hold_ticks \in 0..HoldTicks /\ fb_gesture_latched \in BOOLEAN
  /\ vr3point_buf \in BOOLEAN /\ smpl_window_buf \in BOOLEAN
  /\ apc \in {"decide", "store", "claim"} /\ mode \in Mode /\ next_mode \in Mode
  /\ body_buf \in {"none", "seen", "new"} /\ body_stale \in BOOLEAN
  /\ button \in {"none", "A", "B"} /\ armed \in BOOLEAN

Init ==
  /\ tpc = "reset" /\ calibrated = FALSE /\ fullbody_engaged = FALSE
  /\ calibrate_request = FALSE /\ reset_request = FALSE
  /\ calib_hold_ticks = 0 /\ calib_gesture_latched = FALSE
  /\ fb_hold_ticks = 0 /\ fb_gesture_latched = FALSE
  /\ vr3point_buf = FALSE /\ smpl_window_buf = FALSE
  /\ apc = "decide" /\ mode = kNormal /\ next_mode = kNormal
  /\ body_buf = "none" /\ body_stale = FALSE /\ button = "none" /\ armed = FALSE

-----------------------------------------------------------------------------
(* The tracker thread                                                      *)

\* Let go of the full-body flavor.
disengage_fullbody_Keeps ==  \* mutant: the window stays published
  /\ fullbody_engaged' = FALSE
  /\ UNCHANGED smpl_window_buf
disengage_fullbody == fullbody_engaged' = FALSE /\ smpl_window_buf' = FALSE

\* Top of the tick.  A pending calibration request is not part of the reset.
ServeReset ==
  /\ tpc = "reset"
  /\ tpc' = "b_gate"
  /\ reset_request' = FALSE
  /\ IF reset_request
     THEN /\ calibrated' = FALSE /\ vr3point_buf' = FALSE
          /\ \/ fullbody_engaged /\ disengage_fullbody
             \/ ~fullbody_engaged /\ UNCHANGED <<fullbody_engaged, smpl_window_buf>>
     ELSE UNCHANGED <<claims, targets>>
  /\ UNCHANGED <<calibrate_request, gestures, arbiter, headset>>

\* The mode under which both gestures are ignored.
stream_holds_VlaOnly == mode = kVla  \* mutant: the recovery forgotten
stream_holds == mode \in StreamModes

\* A hold: the count of a button kept down, frozen once it has fired.
held_for_NoLatch(held, ticks, latched) == IF held THEN ticks + 1 ELSE 0  \* mutant
held_for(held, ticks, latched) ==
  CASE ~held           -> 0
    [] held /\ latched -> ticks
    [] OTHER           -> ticks + 1

fires(held, ticks, latched) == held /\ ~latched /\ ticks + 1 >= HoldTicks

\* check_calibration_gesture: the gate ...
BGate ==
  /\ tpc = "b_gate"
  /\ IF stream_holds \/ fullbody_engaged
     THEN /\ calib_hold_ticks' = 0 /\ calib_gesture_latched' = FALSE
          /\ tpc' = "a_gate"
     ELSE tpc' = "b_act" /\ UNCHANGED <<calib_hold_ticks, calib_gesture_latched>>
  /\ UNCHANGED <<claims, calibrate_request, reset_request, fb_hold_ticks,
                 fb_gesture_latched, targets, arbiter, headset>>

\* ... and the hold: teleop off at once, or on with the next body sample.
BAct ==
  /\ tpc = "b_act"
  /\ tpc' = "a_gate"
  /\ LET fire == fires(button = "B", calib_hold_ticks, calib_gesture_latched)
     IN  /\ calib_gesture_latched' = (button = "B" /\ (calib_gesture_latched \/ fire))
         /\ calib_hold_ticks' = held_for(button = "B", calib_hold_ticks, calib_gesture_latched)
         /\ calibrate_request' = (calibrate_request \/ (fire /\ ~calibrated))
         /\ calibrated' = (calibrated /\ ~fire)
         /\ vr3point_buf' = (vr3point_buf /\ ~(fire /\ calibrated))
  /\ UNCHANGED <<fullbody_engaged, reset_request, fb_hold_ticks, fb_gesture_latched,
                 smpl_window_buf, arbiter, headset>>

\* check_fullbody_gesture: the gate ...
AGate ==
  /\ tpc = "a_gate"
  /\ IF stream_holds \/ calibrated
     THEN /\ fb_hold_ticks' = 0 /\ fb_gesture_latched' = FALSE
          /\ tpc' = "sample"
     ELSE tpc' = "a_act" /\ UNCHANGED <<fb_hold_ticks, fb_gesture_latched>>
  /\ UNCHANGED <<claims, calibrate_request, reset_request, calib_hold_ticks,
                 calib_gesture_latched, targets, arbiter, headset>>

\* ... and the hold: off, or on from IDLE with a body sample at hand.
AAct ==
  /\ tpc = "a_act"
  /\ tpc' = "sample"
  /\ fb_hold_ticks' = held_for(button = "A", fb_hold_ticks, fb_gesture_latched)
  /\ LET fire == fires(button = "A", fb_hold_ticks, fb_gesture_latched)
     IN  /\ fb_gesture_latched' = (button = "A" /\ (fb_gesture_latched \/ fire))
         /\ \/ fire /\ fullbody_engaged /\ disengage_fullbody
            \/ /\ fire /\ ~fullbody_engaged /\ ~armed /\ body_buf # "none"
               /\ fullbody_engaged' = TRUE /\ UNCHANGED smpl_window_buf
            \/ /\ ~fire \/ (~fullbody_engaged /\ (armed \/ body_buf = "none"))
               /\ UNCHANGED <<fullbody_engaged, smpl_window_buf>>
  /\ UNCHANGED <<calibrated, calibrate_request, reset_request, calib_hold_ticks,
                 calib_gesture_latched, vr3point_buf, arbiter, headset>>

\* process, once per new sample: capture what was requested, publish a target.
process ==
  IF body_buf = "new"
  THEN /\ calibrated' = (calibrated \/ calibrate_request)
       /\ calibrate_request' = FALSE
       /\ vr3point_buf' = (vr3point_buf \/ calibrated')
  ELSE /\ vr3point_buf' = (vr3point_buf /\ body_buf # "none")
       /\ UNCHANGED <<calibrated, calibrate_request>>

\* process_fullbody, once per tick while engaged, unless the body is stale.
fullbody_tick_Freezes ==  \* mutant: a dropout freezes the window
  /\ smpl_window_buf' = (smpl_window_buf \/ fullbody_engaged)
  /\ UNCHANGED fullbody_engaged
fullbody_tick ==
  CASE ~fullbody_engaged -> UNCHANGED <<fullbody_engaged, smpl_window_buf>>
    [] fullbody_engaged /\ (body_buf = "none" \/ body_stale) -> disengage_fullbody
    [] OTHER -> smpl_window_buf' = TRUE /\ UNCHANGED fullbody_engaged

\* The rest of the tick, on one snapshot of body_buf.
Sample ==
  /\ tpc = "sample"
  /\ tpc' = "reset"
  /\ process
  /\ fullbody_tick
  /\ body_buf' = IF body_buf = "new" THEN "seen" ELSE body_buf
  /\ UNCHANGED <<reset_request, gestures, arbiter, body_stale, button, armed>>

Tracker == ServeReset \/ BGate \/ BAct \/ AGate \/ AAct \/ Sample

-----------------------------------------------------------------------------
(* The control thread, as far as it reads the claim and writes the mode.   *)
(* The stream and the recovery are free: WholeBodyController details them. *)

ArbiterDecide ==
  /\ apc = "decide"
  /\ \E vla_fresh, vla_alive, recovery_done \in BOOLEAN :
       /\ vla_fresh => vla_alive
       /\ next_mode' = decide(mode, vla_fresh, vla_alive,
                              calibrated \/ fullbody_engaged, recovery_done)
  /\ apc' = "store"
  /\ UNCHANGED <<tpc, claims, calibrate_request, reset_request, gestures, targets,
                 mode, headset>>

ArbiterStore ==
  /\ apc = "store"
  /\ mode' = next_mode
  /\ apc' = IF next_mode = kVla /\ mode # kVla THEN "claim" ELSE "decide"
  /\ UNCHANGED <<tpc, claims, calibrate_request, reset_request, gestures, targets,
                 next_mode, headset>>

\* The stream's claim resets the tracker.
ArbiterClaim_Silent ==  \* mutant: no reset
  /\ apc = "claim"
  /\ apc' = "decide"
  /\ UNCHANGED <<tpc, claims, calibrate_request, reset_request, gestures, targets,
                 mode, next_mode, headset>>
ArbiterClaim ==
  /\ apc = "claim"
  /\ reset_request' = TRUE
  /\ apc' = "decide"
  /\ UNCHANGED <<tpc, claims, calibrate_request, gestures, targets, mode, next_mode,
                 headset>>

-----------------------------------------------------------------------------
(* The headset and the input handler                                       *)

thread_state == <<tpc, claims, calibrate_request, reset_request, gestures, targets,
                  arbiter>>

\* A body sample arrives; the reader holds the last one through dropouts.
BodySample ==
  /\ body_buf' = "new" /\ body_stale' = FALSE
  /\ UNCHANGED <<thread_state, button, armed>>

BodyAges ==
  /\ body_buf # "none" /\ ~body_stale
  /\ body_stale' = TRUE
  /\ UNCHANGED <<thread_state, body_buf, button, armed>>

\* A, B or neither held alone; a lost link reads as neither.
OperatorPresses ==
  /\ button' \in {"none", "A", "B"} \ {button}
  /\ UNCHANGED <<thread_state, body_buf, body_stale, armed>>

InputModeChanges ==
  /\ armed' = ~armed
  /\ UNCHANGED <<thread_state, body_buf, body_stale, button>>

Next ==
  \/ Tracker
  \/ ArbiterDecide \/ ArbiterStore \/ ArbiterClaim
  \/ BodySample \/ BodyAges \/ OperatorPresses \/ InputModeChanges

\* The tracker's loop runs on its own thread; nothing else is assumed.
Spec == Init /\ [][Next]_vars /\ WF_vars(Tracker)

-----------------------------------------------------------------------------
(* Properties                                                              *)

\* A session of the stream, or the recovery after it, with its reset served.
SettledSession == mode \in StreamModes /\ apc # "claim" /\ ~reset_request

(* The full-body flavor never survives into a VLA session or its recovery  *)
(* (whole_body_controller.cpp:479-483): whatever the tracker had read when *)
(* the stream claimed, the reset that follows takes the claim back.        *)
FullbodyNotHidden == SettledSession => ~fullbody_engaged

(* No B hold of a session asks for a calibration (teleop_tracker.cpp:138-  *)
(* 148): the gesture that passed its gate before the claim has acted by    *)
(* the time the reset is served.                                           *)
NoRequestInSession ==
  [][SettledSession => (calibrate_request' => calibrate_request)]_vars

(* Between two ticks a target is published exactly while its flavor is     *)
(* engaged: "consumers key off has data" (teleop_tracker.hpp:31-35), the   *)
(* arbiter keys off the claim, and the two never disagree for longer than  *)
(* a tick, through resets, toggles, dropouts and first samples.            *)
TargetsFollowClaims ==
  tpc = "reset" => /\ vr3point_buf = calibrated
                   /\ smpl_window_buf = fullbody_engaged

(* "A body-stream dropout here DISENGAGES" (teleop_tracker.hpp:41-44): a   *)
(* full-body session does not outlive a body stream that stays away.       *)
DropoutLetsGo == (fullbody_engaged /\ body_stale) ~> (~fullbody_engaged \/ ~body_stale)

(* "No hidden armed teleop can form" (teleop_tracker.cpp:138-140) taken at *)
(* its word.  The code keeps it for the full-body flavor only: a request   *)
(* made before the claim survives the reset and is captured in the session.*)
NoHiddenTeleop == SettledSession => ~calibrated

=============================================================================
