---------------------------- MODULE HandControl ----------------------------
(***************************************************************************)
(* One tick of HandCommandWriter::loop (100 Hz) for one motor of a Dex3    *)
(* hand: who commands the finger, the squeeze of an axis held at its end,  *)
(* and the guard that bounds what a blocked finger is asked for.           *)
(*                                                                         *)
(* The motors of both hands go through the same code side by side and do   *)
(* not look at each other; this one closes upwards from Open.  What a tick *)
(* reads (the arbiter's mode, the tracker's calibration, the headset's     *)
(* axis, the measured finger) is chosen anew at every tick: each buffer is *)
(* read once per tick and other threads fill it at their own pace.         *)
(*                                                                         *)
(* Angles are steps of about 0.13 rad, torques are in steps of kp: the     *)
(* production kp and kp_hold are equal.                                    *)
(***************************************************************************)
EXTENDS Integers, FiniteSetsExt

CONSTANTS
  Close, Fist, LimitLo, LimitHi,  \* angles; the open pose is 0
  Axes,         \* positions of the axis, as the angle it maps to; Close is its end
  VlaTargets,   \* joint angles of the token stream, limits not respected
  Measured,     \* angles a finger may be measured at
  DwellTicks, RampTicks,   \* HoldSqueeze
  FistTicks,               \* kFistReleaseDelay
  Reach,                   \* e_max = tau_max / kp
  StallErr, StallOffset, StallTicks  \* the stall detector

ASSUME HandAssumption ==
  /\ {Close, Fist, LimitLo, LimitHi} \subseteq Int /\ LimitLo <= 0 /\ Fist <= LimitHi
  /\ Axes \cup VlaTargets \cup Measured \subseteq Int
  /\ {DwellTicks, RampTicks, FistTicks, Reach, StallErr, StallOffset, StallTicks}
       \subseteq Nat \ {0}
(* The axis moves between open and close, and the contact a latched finger *)
(* keeps is lighter than the clamp (stall_offset against tau_max / kp).    *)
ASSUME AxisAssumption  == \A a \in Axes : a <= Close
ASSUME ReachAssumption == StallOffset <= Reach

VARIABLES
  hand_estop,     \* InputHandler's latch
  hand_calib,     \* [was, age]: calibration last tick, ticks since it engaged
  vla_target,     \* the token stream's last target; {} before the first
  held,           \* HoldSqueeze::held_s, in ticks
  guard,          \* [stall, latched]
  hand_cmd,       \* last_cmd_buf
  finger,         \* history: the fresh measurement of the last tick, {} without
  axis_run,       \* history: ticks in a row the operator drove with the axis at its end
  blocked_run     \* history: ticks in a row the finger stood still away from its target

hand_vars == <<hand_estop, hand_calib, vla_target, held, guard, hand_cmd, finger,
               axis_run, blocked_run>>

no_guard == [stall |-> 0, latched |-> FALSE]
squeezed_longest == DwellTicks + RampTicks

HandInit ==
  /\ hand_estop = FALSE
  /\ hand_calib = [was |-> FALSE, age |-> 0]
  /\ vla_target = {}
  /\ held = 0
  /\ guard = no_guard
  /\ hand_cmd = [q |-> 0, enabled |-> FALSE, source |-> "none"]
  /\ finger = {}
  /\ axis_run = 0 /\ blocked_run = 0

clamp(x, lo, hi) == IF x < lo THEN lo ELSE IF x > hi THEN hi ELSE x
magnitude(x) == IF x < 0 THEN -x ELSE x
sign(x) == clamp(x, -1, 1)

-----------------------------------------------------------------------------
(* Who commands the finger                                                 *)

calib_next(calibrated) ==
  [was |-> calibrated,
   age |-> IF calibrated /\ hand_calib.was THEN Min({hand_calib.age + 1, FistTicks}) ELSE 0]

hold_fist(calibrated) == ~calibrated \/ calib_next(calibrated).age < FistTicks

(* The branches of the loop, highest priority first; axis = {} is an empty *)
(* controller buffer.                                                      *)
hand_source(mode, calibrated, axis) ==
  CASE hand_estop -> "stop"
    [] ~hand_estop /\ mode \in {"kVla", "kRecovering"} /\ vla_target # {} -> "vla"
    [] OTHER -> IF hold_fist(calibrated) THEN "fist" ELSE IF axis # {} THEN "axes" ELSE "open"

(* HoldSqueeze::update, and the reset of every other branch.               *)
held_next_KeptByVla(source, axis) ==
  CASE source = "axes" -> IF axis = {Close} THEN Min({held + 1, squeezed_longest}) ELSE 0
    [] source = "vla" -> held
    [] OTHER -> 0

held_next(source, axis) ==
  IF source = "axes" /\ axis = {Close} THEN Min({held + 1, squeezed_longest}) ELSE 0

squeeze(ticks) == clamp(ticks - DwellTicks, 0, RampTicks)

the(singleton) == CHOOSE x \in singleton : TRUE

(* hand_command_from_axes: open to close with the axis, close to fist with *)
(* the squeeze.                                                            *)
target(source, axis) ==
  CASE source = "vla"  -> clamp(the(vla_target), LimitLo, LimitHi)
    [] source = "fist" -> Fist
    [] source = "axes" -> the(axis) + (squeeze(held_next(source, axis)) * (Fist - Close)) \div RampTicks
    [] OTHER -> 0

-----------------------------------------------------------------------------
(* HandGuard::apply                                                        *)

stands_away(e, moving) == magnitude(e) > StallErr /\ ~moving

guarded_next(e, moving, hot) ==
  LET stall == IF stands_away(e, moving) THEN Min({guard.stall + 1, StallTicks}) ELSE 0
      set   == guard.latched \/ hot \/ stall >= StallTicks
  IN  [stall |-> stall, latched |-> set /\ (hot \/ magnitude(e) > StallErr)]

(* The command within reach of the measured finger, then within the joint. *)
within_reach_Desired(q_meas, e, latched) ==
  clamp(q_meas + (IF latched THEN StallOffset * sign(e) ELSE e), LimitLo, LimitHi)

within_reach(q_meas, e, latched) ==
  clamp(q_meas + (IF latched THEN StallOffset * sign(e) ELSE clamp(e, -Reach, Reach)),
        LimitLo, LimitHi)

-----------------------------------------------------------------------------
(* One tick: meas is {} when the hand's stream is stale, else a set of one *)
(* [q, moving, hot].                                                       *)
HandTick(mode, calibrated, axis, meas) ==
  LET source  == hand_source(mode, calibrated, axis)
      q_des   == target(source, axis)
      checked == source # "stop" /\ meas # {}
      m       == the(meas)
      g       == guarded_next(q_des - m.q, m.moving, m.hot)
  IN  /\ hand_calib' = calib_next(calibrated)
      /\ held' = held_next(source, axis)
      /\ guard' = IF checked THEN g ELSE IF source = "stop" THEN guard ELSE no_guard
      /\ hand_cmd' = [q |-> IF checked THEN within_reach(m.q, q_des - m.q, g.latched) ELSE q_des,
                      enabled |-> source # "stop", source |-> source]
      /\ finger' = IF checked THEN {m.q} ELSE {}
      /\ axis_run' = IF source = "axes" /\ axis = {Close}
                     THEN Min({axis_run + 1, squeezed_longest}) ELSE 0
      /\ blocked_run' = IF checked /\ stands_away(q_des - m.q, m.moving)
                        THEN Min({blocked_run + 1, StallTicks}) ELSE 0
      /\ UNCHANGED <<hand_estop, vla_target>>

Reading == [q : Measured, moving : BOOLEAN, hot : BOOLEAN]
buffers_of(values) == {{}} \cup {{v} : v \in values}

HandTicks ==
  \E mode \in {"kPlanner", "kVla", "kRecovering"}, calibrated \in BOOLEAN,
     axis \in buffers_of(Axes), meas \in buffers_of(Reading) :
    HandTick(mode, calibrated, axis, meas)

VlaHandTarget ==
  /\ \E q \in VlaTargets : vla_target' = {q}
  /\ UNCHANGED <<hand_estop, hand_calib, held, guard, hand_cmd, finger, axis_run, blocked_run>>

HandEstop ==
  /\ hand_estop' = TRUE
  /\ UNCHANGED <<hand_calib, vla_target, held, guard, hand_cmd, finger, axis_run, blocked_run>>

HandNext == HandTicks \/ VlaHandTarget \/ HandEstop

HandSpec == HandInit /\ [][HandNext]_hand_vars

-----------------------------------------------------------------------------
(* The fingers go past the close pose only when the operator has driven    *)
(* them with the axis at its end for the whole dwell, without a break: a   *)
(* squeeze begun before the stream took the hands, before a fist or before *)
(* a lost link does not carry on after it (hand_command.hpp:79-97 and the  *)
(* resets of hand_command_writer.cpp:162-202).                             *)
SqueezeIsHeld ==
  hand_cmd.source = "axes" /\ hand_cmd.q > Close /\ finger = {} =>
    axis_run > DwellTicks

(* With a measured finger inside its limits the firmware is never asked    *)
(* for more than tau_max, and a finger that has been blocked for           *)
(* stall_time_s is asked for the light contact torque only, whoever        *)
(* commanded it meanwhile (hand_guard.hpp:14-25).                          *)
TorqueBounded ==
  \A q \in finger :
    LimitLo <= q /\ q <= LimitHi =>
      /\ magnitude(hand_cmd.q - q) <= Reach
      /\ blocked_run >= StallTicks => magnitude(hand_cmd.q - q) <= StallOffset

=============================================================================
