------------------------ MODULE WholeBodyController ------------------------
(***************************************************************************)
(* The 50 Hz control loop (whole_body_controller.cpp) with the planner     *)
(* thread it reseeds (planner_inference.cpp) and, at their interfaces, the *)
(* threads that feed both: LowState, the VLA stream, the teleop tracker,   *)
(* the input handler and the main thread.                                  *)
(*                                                                         *)
(* Each thread takes small steps: a step ends wherever the code publishes  *)
(* something another thread of the model reads (cpc and ppc are the two    *)
(* program counters).  Token values and the crossfade counter live in      *)
(* ControlArbiter, joint data nowhere.                                     *)
(*                                                                         *)
(* A plan carries its history: "born" is the reseed the planner had last   *)
(* honoured when it published the plan, "root" the reseed whose measured   *)
(* pose the plan's context descends from, "motion" what commanded it.      *)
(***************************************************************************)
EXTENDS Integers, ArbiterModes

CONSTANTS
  GraceTicks,          \* kStateGraceTicks
  InitTicks,           \* kInitTicks
  RecoveryBlendTicks,  \* ControlArbiter::kRecoveryBlendTicks
  Motions,             \* what may be commanded: "idle" and any of "stick", "nav"
  Flavors,             \* teleop: "off" and any of "upper", "full"
  MaxLosses,           \* bound: LowState losses
  MaxSessions,         \* bound: times the VLA stream starts
  MaxFailures,         \* bound: failed inferences and over-speed ticks
  NoPlan               \* an empty plan buffer, an empty playback

Plan == [born : Nat, root : Nat, motion : Motions]

ASSUME TickAssumption   == /\ GraceTicks \in Nat /\ InitTicks \in Nat \ {0}
                           /\ RecoveryBlendTicks \in Nat \ {0}
ASSUME InputAssumption  == /\ "idle" \in Motions /\ Motions \subseteq {"idle", "stick", "nav"}
                           /\ "off" \in Flavors /\ Flavors \subseteq {"off", "upper", "full"}
ASSUME BoundAssumption  == /\ MaxLosses \in Nat /\ MaxSessions \in Nat
                           /\ MaxFailures \in Nat
ASSUME NoPlanAssumption == NoPlan \notin Plan

VARIABLES
  \* ── the control loop
  wstate,               \* state_
  cpc,                  \* where the loop stands in its tick
  prev_mode,            \* update_arbiter's "cur"
  missing,              \* state_missing_ticks_, counted up to MissingCap
  init_ticks,           \* init_ticks_
  base_ramp_from,       \* base_ramp_from_: which command the base ramp starts at
  reseed_ticket,        \* state_reseed_ticket_
  reinit_ticket,        \* reinit_ticket_
  reinit_ticket_issued, \* reinit_ticket_issued_
  playback,             \* playback_motion_
  plan_seen,            \* last_plan_stamp_ is the timestamp of plan_buf
  last_smpl,            \* last_smpl_present_
  cmd,                  \* motor_command_buf, by what computed it
  mode,                 \* ControlArbiter::mode_
  recovery_blend_tick,  \* ControlArbiter::recovery_blend_tick_
  \* ── the planner thread
  ppc,                  \* where the loop stands in its iteration
  initialized,          \* initialized_
  reinit_req,           \* the loop's local copy of reinit_requested_
  reinit_requested,     \* reinit_requested_
  reinit_done,          \* reinit_done_
  plan_buf,             \* motion_50hz_buf
  last_motion,          \* last_movement_state_
  own_root,             \* root of motion_seq_, the planner's own last output
  inflight,             \* the plan being inferred
  \* ── what the other threads publish
  lowstate,             \* unitree_state_buf holds a sample
  vla,                  \* age class of the last stream token
  tracker,              \* TeleopTracker: the engaged flavor
  reset_request,        \* TeleopTracker::reset_request_
  armed,                \* InputHandler::mode_index_ # 0
  movement,             \* movement_buf
  estop,                \* InputHandler::estop_
  stop,                 \* WholeBodyController::stop_
  \* ── what is left of the bounds
  losses, sessions, failures,
  \* ── history: tickets of the last reset after a loss, after a recovery
  loss_ticket, exit_ticket

control    == <<wstate, cpc, prev_mode, missing, init_ticks, base_ramp_from>>
tickets    == <<reseed_ticket, reinit_ticket, reinit_ticket_issued>>
timeline   == <<playback, plan_seen>>
arbiter    == <<mode, recovery_blend_tick>>
planner    == <<ppc, initialized, reinit_req, reinit_done, plan_buf, last_motion,
                own_root, inflight>>
inputs     == <<lowstate, vla, tracker, reset_request, armed, movement, estop, stop>>
bounds     == <<losses, sessions, failures>>
history    == <<loss_ticket, exit_ticket>>

vars == <<control, tickets, timeline, last_smpl, cmd, arbiter, planner,
          reinit_requested, inputs, bounds, history>>

\* The count matters only up to the tick after the grace window.
MissingCap == GraceTicks + 2

WState    == {"INIT", "WAIT_FOR_CONTROL", "CONTROL", "ESTOP"}
Command   == {"none", "init", "policy", "base", "damping"}
ControlPc == {"gate", "reseed", "dispatch", "arbitrate", "effects", "path", "stopped"}
PlannerPc == {"top", "init", "ack", "gate", "infer"}

TypeOK ==
  /\ wstate \in WState /\ cpc \in ControlPc /\ prev_mode \in Mode
  /\ missing \in 0..MissingCap /\ init_ticks \in Nat
  /\ base_ramp_from \in Command /\ cmd \in Command
  /\ reseed_ticket \in Nat /\ reinit_ticket \in Nat /\ reinit_ticket_issued \in BOOLEAN
  /\ playback \in Plan \cup {NoPlan} /\ plan_seen \in BOOLEAN /\ last_smpl \in BOOLEAN
  /\ mode \in Mode /\ recovery_blend_tick \in 0..RecoveryBlendTicks
  /\ ppc \in PlannerPc /\ initialized \in BOOLEAN
  /\ reinit_req \in Nat /\ reinit_requested \in Nat /\ reinit_done \in Nat
  /\ plan_buf \in Plan \cup {NoPlan} /\ inflight \in Plan
  /\ last_motion \in Motions /\ own_root \in Nat
  /\ lowstate \in BOOLEAN /\ vla \in {"fresh", "alive", "stale"}
  /\ tracker \in Flavors /\ reset_request \in BOOLEAN
  /\ armed \in BOOLEAN /\ movement \in Motions
  /\ estop \in BOOLEAN /\ stop \in BOOLEAN
  /\ losses \in 0..MaxLosses /\ sessions \in 0..MaxSessions /\ failures \in 0..MaxFailures
  /\ loss_ticket \in Nat /\ exit_ticket \in Nat

\* GearsonicInference::start waits for a first LowState sample and starts the
\* planner before the controller.
Init ==
  /\ wstate = "INIT" /\ cpc = "gate" /\ prev_mode = kNormal
  /\ missing = 0 /\ init_ticks = 0 /\ base_ramp_from = "none" /\ cmd = "none"
  /\ reseed_ticket = 0 /\ reinit_ticket = 0 /\ reinit_ticket_issued = FALSE
  /\ playback = NoPlan /\ plan_seen = FALSE /\ last_smpl = FALSE
  /\ mode = kNormal /\ recovery_blend_tick = 0
  /\ ppc = "top" /\ initialized = FALSE
  /\ reinit_req = 0 /\ reinit_requested = 0 /\ reinit_done = 0
  /\ plan_buf = NoPlan /\ last_motion = "idle" /\ own_root = 0
  /\ inflight = [born |-> 0, root |-> 0, motion |-> "idle"]
  /\ lowstate = TRUE /\ vla = "stale" /\ tracker = "off" /\ reset_request = FALSE
  /\ armed = FALSE /\ movement = "idle" /\ estop = FALSE /\ stop = FALSE
  /\ losses = MaxLosses /\ sessions = MaxSessions /\ failures = MaxFailures
  /\ loss_ticket = 0 /\ exit_ticket = 0

-----------------------------------------------------------------------------
(* The control loop: gates                                                 *)

\* A step that may fail without saying so: an inference, a joint over speed.
fails    == failures > 0 /\ failures' = failures - 1
succeeds == UNCHANGED failures

LoopExit ==
  /\ cpc = "gate" /\ stop
  /\ cpc' = "stopped"
  /\ UNCHANGED <<wstate, prev_mode, missing, init_ticks, base_ramp_from, tickets,
                 timeline, last_smpl, cmd, arbiter, planner, reinit_requested,
                 inputs, bounds, history>>

\* WholeBodyController::stop, after the join.
PublishDampingOnStop ==
  /\ cpc = "stopped" /\ cmd # "damping"
  /\ cmd' = "damping"
  /\ UNCHANGED <<control, tickets, timeline, last_smpl, arbiter, planner,
                 reinit_requested, inputs, bounds, history>>

EstopGate_Silent ==  \* mutant: the state without the command
  /\ cpc = "gate" /\ ~stop /\ estop
  /\ wstate' = "ESTOP"
  /\ UNCHANGED <<cpc, prev_mode, missing, init_ticks, base_ramp_from, tickets, cmd,
                 timeline, last_smpl, arbiter, planner, reinit_requested,
                 inputs, bounds, history>>

EstopGate ==
  /\ cpc = "gate" /\ ~stop /\ estop
  /\ wstate' = "ESTOP"
  /\ cmd' = "damping"
  /\ UNCHANGED <<cpc, prev_mode, missing, init_ticks, base_ramp_from, tickets,
                 timeline, last_smpl, arbiter, planner, reinit_requested,
                 inputs, bounds, history>>

\* LowState missing: silent through the grace window (the writer repeats the
\* last command), then the base hold, ramping from the command of that moment.
missing_tick_Late ==  \* mutant: one silent tick too many
  /\ missing' = IF missing < MissingCap THEN missing + 1 ELSE missing
  /\ base_ramp_from' = IF missing = GraceTicks /\ cmd # "none" THEN cmd ELSE base_ramp_from
  /\ cmd' = IF missing > GraceTicks THEN "base" ELSE cmd
  /\ UNCHANGED <<wstate, cpc, prev_mode, init_ticks, tickets, timeline, last_smpl,
                 arbiter, planner, reinit_requested, inputs, bounds, history>>

missing_tick ==
  /\ missing' = IF missing < MissingCap THEN missing + 1 ELSE missing
  /\ base_ramp_from' = IF missing = GraceTicks /\ cmd # "none" THEN cmd ELSE base_ramp_from
  /\ cmd' = IF missing' > GraceTicks THEN "base" ELSE cmd
  /\ UNCHANGED <<wstate, cpc, prev_mode, init_ticks, tickets, timeline, last_smpl,
                 arbiter, planner, reinit_requested, inputs, bounds, history>>

MissingGate_First ==  \* mutant: asked before the e-stop
  cpc = "gate" /\ ~stop /\ ~lowstate /\ missing_tick
MissingGate == cpc = "gate" /\ ~stop /\ ~estop /\ ~lowstate /\ missing_tick

\* Forget the motion being played and that its plan was seen.
forget_timeline_Keeps == UNCHANGED playback /\ plan_seen' = FALSE  \* mutant
forget_timeline == playback' = NoPlan /\ plan_seen' = FALSE

\* LowState present.  After a long loss in CONTROL the frozen playback is
\* dropped first; the planner is asked in the next step.
PresentGate ==
  /\ cpc = "gate" /\ ~stop /\ ~estop /\ lowstate
  /\ missing' = 0
  /\ IF missing > GraceTicks /\ wstate = "CONTROL"
     THEN cpc' = "reseed" /\ forget_timeline
     ELSE cpc' = "dispatch" /\ UNCHANGED timeline
  /\ UNCHANGED <<wstate, prev_mode, init_ticks, base_ramp_from, tickets, last_smpl,
                 cmd, arbiter, planner, reinit_requested, inputs, bounds, history>>

\* disarm() and request_reinit() of the origin re-entry.
RequestReseed ==
  /\ cpc = "reseed"
  /\ cpc' = "dispatch"
  /\ armed' = FALSE
  /\ reinit_requested' = reinit_requested + 1
  /\ reseed_ticket' = reinit_requested'
  /\ loss_ticket' = reinit_requested'
  /\ UNCHANGED <<wstate, prev_mode, missing, init_ticks, base_ramp_from, reinit_ticket,
                 reinit_ticket_issued, timeline, last_smpl, cmd, arbiter, planner,
                 lowstate, vla, tracker, reset_request, movement, estop, stop,
                 bounds, exit_ticket>>

TickInit ==
  /\ cpc = "dispatch" /\ wstate = "INIT"
  /\ cpc' = "gate"
  /\ IF lowstate
     THEN /\ cmd' = "init"
          /\ init_ticks' = init_ticks + 1
          /\ wstate' = IF init_ticks' >= InitTicks THEN "WAIT_FOR_CONTROL" ELSE wstate
     ELSE UNCHANGED <<cmd, init_ticks, wstate>>
  /\ UNCHANGED <<prev_mode, missing, base_ramp_from, tickets, timeline, last_smpl,
                 arbiter, planner, reinit_requested, inputs, bounds, history>>

\* operator_start_ or auto_start_ may or may not be set yet.
TickWait ==
  /\ cpc = "dispatch" /\ wstate = "WAIT_FOR_CONTROL"
  /\ cpc' = "gate"
  /\ wstate' \in {"WAIT_FOR_CONTROL", "CONTROL"}
  /\ UNCHANGED <<prev_mode, missing, init_ticks, base_ramp_from, tickets, timeline,
                 last_smpl, cmd, arbiter, planner, reinit_requested, inputs, bounds, history>>

-----------------------------------------------------------------------------
(* The control loop: a CONTROL tick                                        *)

\* The reseed asked for after a loss is still outstanding.
awaits_reseed_Never == FALSE  \* mutant
awaits_reseed == reinit_done < reseed_ticket

\* gather_robot_state and the wait for the reseed after a loss.
TickControl ==
  /\ cpc = "dispatch" /\ wstate = "CONTROL"
  /\ \/ /\ ~lowstate                           \* cleared since the gate
        /\ cpc' = "gate" /\ UNCHANGED <<reseed_ticket, failures>>
     \/ /\ lowstate /\ fails                   \* a joint over kMaxJointVel
        /\ cpc' = "gate" /\ UNCHANGED reseed_ticket
     \/ /\ lowstate /\ succeeds
        /\ IF awaits_reseed
           THEN cpc' = "gate" /\ UNCHANGED reseed_ticket
           ELSE cpc' = "arbitrate" /\ reseed_ticket' = 0
  /\ UNCHANGED <<wstate, prev_mode, missing, init_ticks, base_ramp_from, reinit_ticket,
                 reinit_ticket_issued, timeline, last_smpl, cmd, arbiter, planner,
                 reinit_requested, inputs, losses, sessions, history>>

recovery_blend_done_Late == recovery_blend_tick > RecoveryBlendTicks  \* mutant
recovery_blend_done == recovery_blend_tick >= RecoveryBlendTicks

\* The recovery's own request is out and acknowledged.
recovery_done_NoFlag == reinit_done >= reinit_ticket                          \* mutant
recovery_done_NoAck  == reinit_ticket_issued                                  \* mutant
recovery_done_Next   == reinit_ticket_issued /\ reinit_done > reinit_ticket   \* mutant
recovery_done == reinit_ticket_issued /\ reinit_done >= reinit_ticket

\* update_arbiter up to the store of the mode: the one instant at which the
\* stream's age, the tracker's claim and the planner's acknowledgement decide.
Arbitrate ==
  /\ cpc = "arbitrate"
  /\ LET next == decide(mode, vla = "fresh", vla # "stale", tracker # "off",
                        recovery_done)
     IN  /\ mode' = next
         /\ recovery_blend_tick' = IF mode # next /\ next = kRecovering
                                   THEN 0 ELSE recovery_blend_tick
         /\ cpc' = IF next = mode THEN "path" ELSE "effects"
  /\ prev_mode' = mode
  /\ UNCHANGED <<wstate, missing, init_ticks, base_ramp_from, tickets, timeline,
                 last_smpl, cmd, planner, reinit_requested, inputs, bounds, history>>

\* update_arbiter after the store: what a transition does to other modules.
EffectsVla ==
  /\ cpc = "effects" /\ mode = kVla
  /\ reset_request' = TRUE
  /\ cpc' = "path"
  /\ UNCHANGED <<wstate, prev_mode, missing, init_ticks, base_ramp_from, tickets,
                 timeline, last_smpl, cmd, arbiter, planner, reinit_requested,
                 lowstate, vla, tracker, armed, movement, estop, stop, bounds, history>>

EffectsRecovering ==
  /\ cpc = "effects" /\ mode = kRecovering
  /\ reinit_ticket_issued' = FALSE
  /\ cpc' = "path"
  /\ UNCHANGED <<wstate, prev_mode, missing, init_ticks, base_ramp_from, reseed_ticket,
                 reinit_ticket, timeline, last_smpl, cmd, arbiter, planner,
                 reinit_requested, inputs, bounds, history>>

\* Back at the origin after a recovery: forget the timeline, drop to IDLE.
EffectsOrigin ==
  /\ cpc = "effects" /\ mode = kNormal /\ prev_mode = kRecovering
  /\ forget_timeline
  /\ armed' = FALSE
  /\ exit_ticket' = reinit_ticket
  /\ cpc' = "path"
  /\ UNCHANGED <<wstate, prev_mode, missing, init_ticks, base_ramp_from, tickets,
                 last_smpl, cmd, arbiter, planner, reinit_requested, lowstate, vla,
                 tracker, reset_request, movement, estop, stop, bounds, loss_ticket>>

\* Teleop on or off: nothing but a log line.
EffectsTeleop ==
  /\ cpc = "effects"
  /\ mode = kTeleop \/ (mode = kNormal /\ prev_mode # kRecovering)
  /\ cpc' = "path"
  /\ UNCHANGED <<wstate, prev_mode, missing, init_ticks, base_ramp_from, tickets,
                 timeline, last_smpl, cmd, arbiter, planner, reinit_requested,
                 inputs, bounds, history>>

\* Decode a token into a command, or fail and leave the last command.
decode == \/ succeeds /\ cmd' = "policy"
          \/ fails /\ UNCHANGED cmd

\* tick_vla.
PathVla ==
  /\ cpc = "path" /\ mode = kVla
  /\ decode
  /\ cpc' = "gate"
  /\ UNCHANGED <<wstate, prev_mode, missing, init_ticks, base_ramp_from, tickets,
                 timeline, last_smpl, arbiter, planner, reinit_requested, inputs,
                 losses, sessions, history>>

\* tick_recovery: one standing-blend tick, then at most one reseed request.
PathRecovery ==
  /\ cpc = "path" /\ mode = kRecovering
  /\ recovery_blend_tick' = IF recovery_blend_done THEN recovery_blend_tick
                            ELSE recovery_blend_tick + 1
  /\ IF recovery_blend_done' /\ ~reinit_ticket_issued
     THEN /\ reinit_requested' = reinit_requested + 1
          /\ reinit_ticket' = reinit_requested'
          /\ reinit_ticket_issued' = TRUE
     ELSE UNCHANGED <<reinit_requested, reinit_ticket, reinit_ticket_issued>>
  /\ decode
  /\ cpc' = "gate"
  /\ UNCHANGED <<wstate, prev_mode, missing, init_ticks, base_ramp_from, reseed_ticket,
                 timeline, last_smpl, mode, planner, inputs, losses, sessions, history>>

Lesser(a, b) == IF a < b THEN a ELSE b

\* A blend plays frames of both plans: it is as old as the older of the two.
blended(old, new) == [born   |-> Lesser(old.born, new.born),
                      root   |-> Lesser(old.root, new.root),
                      motion |-> new.motion]

\* advance_playback: a plan not seen yet is adopted wholesale into an empty
\* playback and blended into a running one, unless the cursor outran it.
advance_playback ==
  IF plan_buf # NoPlan /\ ~plan_seen
  THEN /\ plan_seen' = TRUE
       /\ \/ playback = NoPlan /\ playback' = plan_buf
          \/ playback # NoPlan /\ playback' \in {blended(playback, plan_buf), playback}
  ELSE UNCHANGED timeline

\* No motion to track yet.
PathNoMotion ==
  /\ cpc = "path" /\ mode \in {kNormal, kTeleop} /\ playback = NoPlan
  /\ advance_playback
  /\ cpc' = "gate"
  /\ UNCHANGED <<wstate, prev_mode, missing, init_ticks, base_ramp_from, tickets,
                 last_smpl, cmd, arbiter, planner, reinit_requested, inputs, bounds, history>>

\* Encoder and decoder.  Either full-body edge disarms locomotion first; a
\* failed inference ends the tick before the playback advances.
PathEncoder ==
  /\ cpc = "path" /\ mode \in {kNormal, kTeleop} /\ playback # NoPlan
  /\ last_smpl' = (tracker = "full")
  /\ armed' = (armed /\ last_smpl' = last_smpl)
  /\ \/ succeeds /\ cmd' = "policy" /\ advance_playback
     \/ fails /\ UNCHANGED <<cmd, timeline>>
  /\ cpc' = "gate"
  /\ UNCHANGED <<wstate, prev_mode, missing, init_ticks, base_ramp_from, tickets,
                 arbiter, planner, reinit_requested, lowstate, vla, tracker,
                 reset_request, movement, estop, stop, losses, sessions, history>>

Controller ==
  \/ LoopExit \/ EstopGate \/ MissingGate \/ PresentGate \/ RequestReseed
  \/ TickInit \/ TickWait \/ TickControl
  \/ Arbitrate \/ EffectsVla \/ EffectsRecovering \/ EffectsOrigin \/ EffectsTeleop
  \/ PathVla \/ PathRecovery \/ PathNoMotion \/ PathEncoder

-----------------------------------------------------------------------------
(* The planner thread                                                      *)

controller == <<control, tickets, timeline, last_smpl, cmd, arbiter>>

\* Top of the loop: read the request; a new one drops the published motion.
PlannerTop ==
  /\ ppc = "top"
  /\ reinit_req' = reinit_requested
  /\ IF reinit_requested # reinit_done /\ initialized
     THEN plan_buf' = NoPlan /\ initialized' = FALSE
     ELSE UNCHANGED <<plan_buf, initialized>>
  /\ ppc' = IF initialized' THEN "gate" ELSE "init"
  /\ UNCHANGED <<controller, reinit_done, reinit_requested, last_motion, own_root,
                 inflight, inputs, bounds, history>>

\* A publication: a new timestamp, so the controller has not seen it.
publish(plan) == /\ plan_buf' = plan
                 /\ plan_seen' = FALSE
                 /\ own_root' = plan.root

\* initialize_once: needs a robot state; an IDLE plan from the measured pose.
PlannerInit ==
  /\ ppc = "init"
  /\ \/ /\ lowstate /\ succeeds
        /\ publish([born |-> reinit_req, root |-> reinit_req, motion |-> "idle"])
        /\ last_motion' = "idle" /\ initialized' = TRUE
        /\ ppc' = "ack"
     \/ /\ \/ ~lowstate /\ UNCHANGED failures
           \/ lowstate /\ fails
        /\ ppc' = "top"
        /\ UNCHANGED <<plan_buf, plan_seen, own_root, last_motion, initialized>>
  /\ UNCHANGED <<control, tickets, playback, last_smpl, cmd, arbiter, reinit_req,
                 reinit_done, reinit_requested, inflight, inputs, losses, sessions, history>>

PlannerAck_Forgotten ==  \* mutant: nobody is told
  /\ ppc = "ack"
  /\ ppc' = "top"
  /\ UNCHANGED <<controller, initialized, reinit_req, reinit_done, plan_buf, last_motion,
                 own_root, inflight, reinit_requested, inputs, bounds, history>>

PlannerAck ==
  /\ ppc = "ack"
  /\ reinit_done' = reinit_req
  /\ ppc' = "top"
  /\ UNCHANGED <<controller, initialized, reinit_req, plan_buf, last_motion, own_root,
                 inflight, reinit_requested, inputs, bounds, history>>

\* need_replan: always when the commanded motion changed, otherwise as facing,
\* height, speed and the interval have it.  The context comes from the
\* controller's playback when it has one, else from the planner's last output.
PlannerGate ==
  /\ ppc = "gate"
  /\ \/ /\ last_motion' = movement
        /\ inflight' = [born   |-> reinit_done,
                        root   |-> IF playback # NoPlan THEN playback.root ELSE own_root,
                        motion |-> movement]
        /\ ppc' = "infer"
     \/ /\ movement = last_motion
        /\ ppc' = "top"
        /\ UNCHANGED <<last_motion, inflight>>
  /\ UNCHANGED <<controller, initialized, reinit_req, reinit_done, plan_buf, own_root,
                 reinit_requested, inputs, bounds, history>>

\* run_and_publish of a replan; its failure is not looked at.
PlannerInfer ==
  /\ ppc = "infer"
  /\ \/ succeeds /\ publish(inflight)
     \/ fails /\ UNCHANGED <<plan_buf, plan_seen, own_root>>
  /\ ppc' = "top"
  /\ UNCHANGED <<control, tickets, playback, last_smpl, cmd, arbiter, initialized,
                 reinit_req, reinit_done, last_motion, inflight, reinit_requested,
                 inputs, losses, sessions, history>>

Planner == PlannerTop \/ PlannerInit \/ PlannerAck \/ PlannerGate \/ PlannerInfer

-----------------------------------------------------------------------------
(* The other threads, at their interfaces                                  *)

\* The reader's watchdog clears a stale LowState (unitree_state_reader.cpp).
LowStateLost ==
  /\ lowstate /\ losses > 0
  /\ lowstate' = FALSE /\ losses' = losses - 1
  /\ UNCHANGED <<controller, planner, reinit_requested, vla, tracker, reset_request,
                 armed, movement, estop, stop, sessions, failures, history>>

LowStateBack ==
  /\ ~lowstate
  /\ lowstate' = TRUE
  /\ UNCHANGED <<controller, planner, reinit_requested, vla, tracker, reset_request,
                 armed, movement, estop, stop, bounds, history>>

\* Tokens start, keep coming or grow old (VlaTokenReceiver::latent_buf).
StreamToken ==
  /\ vla # "fresh"
  /\ sessions' = IF vla = "stale" THEN sessions - 1 ELSE sessions
  /\ vla = "stale" => sessions > 0
  /\ vla' = "fresh"
  /\ UNCHANGED <<controller, planner, reinit_requested, lowstate, tracker, reset_request,
                 armed, movement, estop, stop, losses, failures, history>>

StreamAges ==
  /\ vla # "stale"
  /\ vla' = IF vla = "fresh" THEN "alive" ELSE "stale"
  /\ UNCHANGED <<controller, planner, reinit_requested, lowstate, tracker, reset_request,
                 armed, movement, estop, stop, bounds, history>>

\* The tracker engages and lets go when its gestures and the body stream say
\* so, which TeleopTracker details; the full-body flavor only from IDLE.
TrackerToggle ==
  /\ tracker' \in Flavors \ {tracker}
  /\ tracker' = "full" => ~armed
  /\ UNCHANGED <<controller, planner, reinit_requested, lowstate, vla, reset_request,
                 armed, movement, estop, stop, bounds, history>>

TrackerReset ==
  /\ reset_request
  /\ reset_request' = FALSE /\ tracker' = "off"
  /\ UNCHANGED <<controller, planner, reinit_requested, lowstate, vla, armed, movement,
                 estop, stop, bounds, history>>

\* The operator selects a locomotion mode, or drops back to IDLE.
OperatorSelects ==
  /\ "stick" \in Motions
  /\ armed' = ~armed
  /\ UNCHANGED <<controller, planner, reinit_requested, lowstate, vla, tracker,
                 reset_request, movement, estop, stop, bounds, history>>

\* The stick drives only an armed mode, navigation only the origin.
InputPublishes ==
  /\ movement' \in Motions \ {movement}
  /\ movement' = "stick" => armed
  /\ movement' = "nav" => mode = kNormal
  /\ UNCHANGED <<controller, planner, reinit_requested, lowstate, vla, tracker,
                 reset_request, armed, estop, stop, bounds, history>>

OperatorEstop ==
  /\ ~estop /\ estop' = TRUE
  /\ UNCHANGED <<controller, planner, reinit_requested, lowstate, vla, tracker,
                 reset_request, armed, movement, stop, bounds, history>>

MainStop ==
  /\ ~stop /\ stop' = TRUE
  /\ UNCHANGED <<controller, planner, reinit_requested, lowstate, vla, tracker,
                 reset_request, armed, movement, estop, bounds, history>>

Environment ==
  \/ LowStateLost \/ LowStateBack \/ StreamToken \/ StreamAges
  \/ TrackerToggle \/ TrackerReset \/ OperatorSelects \/ InputPublishes
  \/ OperatorEstop \/ MainStop

Next == Controller \/ Planner \/ PublishDampingOnStop \/ Environment

\* The loops run forever on their own threads, the main thread joins, the robot
\* keeps publishing LowState once a loss is over.  Nothing is assumed of the
\* operator, of the stream or of the tracker.
Fairness == /\ WF_vars(Controller)
            /\ WF_vars(Planner)
            /\ WF_vars(PublishDampingOnStop)
            /\ WF_vars(LowStateBack)

Spec == Init /\ [][Next]_vars
FairSpec == Spec /\ Fairness

-----------------------------------------------------------------------------
(* Properties                                                              *)

(* After a LowState loss that outlasted the grace window, nothing the      *)
(* playback holds descends from before the loss: not the frozen timeline,  *)
(* not a plan that was in the buffer or being inferred, not a replan whose *)
(* context was sampled from either (whole_body_controller.cpp:243-250,     *)
(* :385-401 against planner_inference.cpp:383-393, :422-438).              *)
NoPreLossMotion == playback # NoPlan => playback.root >= loss_ticket

(* After a VLA session the playback starts from a plan the planner         *)
(* published after the reseed that ended the recovery, never from one it   *)
(* published before (whole_body_controller.cpp:498-513, :542-545).         *)
NoPreExitPlan == playback # NoPlan => playback.born >= exit_ticket

(* From the end of a long loss until the planner has acknowledged its      *)
(* reseed the robot holds the base pose: no path publishes a policy        *)
(* command meanwhile, whatever the stream, the tracker or further losses   *)
(* do (whole_body_controller.cpp:243-250, 382-404).                        *)
HoldsUntilReseeded == reinit_done < loss_ticket => cmd \in {"base", "damping"}

(* Beyond the grace window the command is the base hold, never a stale     *)
(* walking target and never damping, unless the e-stop or the shutdown     *)
(* has put damping there (the policy note at :22-42).                      *)
LossPolicy ==
  /\ missing > GraceTicks /\ cpc = "gate" => cmd \in {"base", "damping"}
  /\ cmd = "damping" => wstate = "ESTOP" \/ cpc = "stopped"

(* A recovery ends only after its own standing blend has run and the       *)
(* planner has acknowledged a reseed asked for after it: a counter, a flag *)
(* or a ticket left by an earlier recovery never lets it out early.        *)
RecoveryIsEarned ==
  [][mode = kRecovering /\ mode' = kNormal =>
       /\ recovery_blend_tick = RecoveryBlendTicks
       /\ reinit_ticket > exit_ticket /\ reinit_done >= reinit_ticket]_vars

(* Once the loop has seen the e-stop it never leaves it and the command    *)
(* stays damping (whole_body_controller.cpp:350-359).                      *)
EstopIsTerminal == [][wstate = "ESTOP" => wstate' = "ESTOP" /\ cmd' = "damping"]_vars

(* "Never the frozen pre-VLA timeline" (whole_body_controller.hpp:84-85,   *)
(* planner_inference.hpp:45-50) taken at its word: after a recovery no     *)
(* plan in playback descends from before its reseed.  The code does not    *)
(* keep it, see NoPreExitPlan for what it keeps.                           *)
NoPreExitMotion == playback # NoPlan => playback.root >= exit_ticket

(* "A mode the operator armed mid-session must not start walking the       *)
(* moment the planner is back in charge" (whole_body_controller.cpp:       *)
(* 298-303): the tick that sees the full-body flavor released tracks no    *)
(* plan the operator's stick commanded meanwhile.                          *)
ReleaseDoesNotWalk ==
  [][last_smpl /\ ~last_smpl' /\ armed /\ cmd' = "policy"
       => playback.motion # "stick"]_vars

(* A pressed e-stop ends in damping for good, whatever the loop was doing. *)
EstopDamps == estop ~> [](cmd = "damping")

(* A recovery always finds its way out.                                    *)
RecoveryEnds == mode = kRecovering ~> (mode = kNormal \/ estop \/ stop)

(* The hold after a long loss always ends.                                 *)
HoldEnds == reseed_ticket # 0 ~> (reseed_ticket = 0 \/ estop \/ stop)

=============================================================================
