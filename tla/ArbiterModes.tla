---------------------------- MODULE ArbiterModes ----------------------------
(***************************************************************************)
(* The control modes of include/control/control_arbiter.hpp and its pure   *)
(* transition function, kept free of state so that the stage itself        *)
(* (ControlArbiter), the control loop (WholeBodyController) and the        *)
(* readers of mode() (TeleopTracker) share one definition.                 *)
(***************************************************************************)

kNormal     == "kNormal"      \* the origin: the planner drives the encoder
kTeleop     == "kTeleop"      \* the operator holds the robot
kVla        == "kVla"         \* the external token stream holds the robot
kRecovering == "kRecovering"  \* the stream was lost: stand, then reseed

Mode == {kNormal, kTeleop, kVla, kRecovering}

\* Modes in which B and A are ignored and teleop may not be armed.
StreamModes == {kVla, kRecovering}

decide(current, vla_fresh, vla_alive, calibrated, recovery_done) ==
  CASE current = kNormal     -> IF vla_fresh THEN kVla
                                ELSE IF calibrated THEN kTeleop ELSE kNormal
    [] current = kTeleop     -> IF calibrated THEN kTeleop ELSE kNormal
    [] current = kVla        -> IF vla_alive THEN kVla ELSE kRecovering
    [] current = kRecovering -> IF recovery_done THEN kNormal ELSE kRecovering

=============================================================================
