----------------------- MODULE MC_WholeBodyController -----------------------
(***************************************************************************)
(* Sets of inputs for the runs of WholeBodyController: each run opens the  *)
(* inputs its question is about.                                           *)
(***************************************************************************)
EXTENDS WholeBodyController

MCIdleOnly == {"idle"}
MCStick    == {"idle", "stick"}
MCMotions  == {"idle", "stick", "nav"}
MCOffOnly  == {"off"}
MCFull     == {"off", "full"}

\* The operator walks or teleoperates, and what the loops hold still shows it.
works == armed \/ movement # "idle" \/ tracker # "off" \/ mode = kTeleop \/ last_smpl
shows == \/ last_motion = "stick" \/ inflight.motion = "stick"
         \/ \E plan \in {plan_buf, playback} : plan # NoPlan /\ plan.motion = "stick"

\* An operator who works before anything else happens: losses, sessions,
\* failures, the e-stop and the stop come once nothing is left of that.  Only
\* such steps of the environment are ruled out, none of a loop.
OperatorLeavesFirst ==
  works' \/ shows' =>
    /\ losses' = MaxLosses /\ sessions' = MaxSessions /\ failures' = MaxFailures
    /\ ~estop' /\ ~stop'

=============================================================================
