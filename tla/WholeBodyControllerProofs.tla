--------------------- MODULE WholeBodyControllerProofs ---------------------
(***************************************************************************)
(* Theorems about the control loop and the planner it reseeds, for every   *)
(* length of the windows, every set of inputs and any number of losses,    *)
(* sessions and failures.                                                  *)
(***************************************************************************)
EXTENDS WholeBodyController, TLAPS

\* Plans are records, never the empty buffer.
LEMMA PlanFields ==
  \A p \in Plan : /\ p # NoPlan
                   /\ p.born \in Nat /\ p.root \in Nat /\ p.motion \in Motions
  BY NoPlanAssumption DEF Plan

LEMMA PlanMade ==
  \A b, r \in Nat, m \in Motions : [born |-> b, root |-> r, motion |-> m] \in Plan
  BY DEF Plan

\* The two halves of TypeOK: the provers treat flags and numbers apart.
FlagsOK ==
  /\ reinit_ticket_issued \in BOOLEAN /\ plan_seen \in BOOLEAN /\ last_smpl \in BOOLEAN
  /\ initialized \in BOOLEAN /\ lowstate \in BOOLEAN /\ reset_request \in BOOLEAN
  /\ armed \in BOOLEAN /\ estop \in BOOLEAN /\ stop \in BOOLEAN

ValuesOK ==
  /\ wstate \in WState /\ cpc \in ControlPc /\ prev_mode \in Mode
  /\ missing \in 0..MissingCap /\ init_ticks \in Nat
  /\ base_ramp_from \in Command /\ cmd \in Command
  /\ reseed_ticket \in Nat /\ reinit_ticket \in Nat
  /\ playback \in Plan \cup {NoPlan}
  /\ mode \in Mode /\ recovery_blend_tick \in 0..RecoveryBlendTicks
  /\ ppc \in PlannerPc
  /\ reinit_req \in Nat /\ reinit_requested \in Nat /\ reinit_done \in Nat
  /\ plan_buf \in Plan \cup {NoPlan} /\ inflight \in Plan
  /\ last_motion \in Motions /\ own_root \in Nat
  /\ vla \in {"fresh", "alive", "stale"} /\ tracker \in Flavors /\ movement \in Motions
  /\ losses \in 0..MaxLosses /\ sessions \in 0..MaxSessions /\ failures \in 0..MaxFailures
  /\ loss_ticket \in Nat /\ exit_ticket \in Nat

LEMMA TypeHalves == TypeOK <=> FlagsOK /\ ValuesOK
  BY DEF TypeOK, FlagsOK, ValuesOK

\* Acknowledgements trail requests, and every ticket was once issued.
TicketOrder ==
  /\ reinit_done <= reinit_req /\ reinit_req <= reinit_requested
  /\ reinit_ticket <= reinit_requested /\ exit_ticket <= reinit_ticket
  /\ exit_ticket <= reinit_done
  /\ loss_ticket <= reinit_requested
  /\ cpc = "effects" /\ mode = kNormal /\ prev_mode = kRecovering
       => reinit_ticket <= reinit_done

\* What the planner has published is as young as its last acknowledgement; a
\* plan not acknowledged yet is as young as the request it answers.
PlannerState ==
  /\ ppc = "init" => ~initialized
  /\ ppc \in {"ack", "gate", "infer"} => initialized
  /\ ppc \in {"gate", "infer"} => reinit_req = reinit_done
  /\ ppc = "infer" => inflight.born = reinit_done
  /\ ppc = "ack" => /\ plan_buf # NoPlan
                    /\ plan_buf.root = reinit_req /\ own_root = reinit_req
  /\ plan_buf # NoPlan => plan_buf.born = IF ppc = "ack" THEN reinit_req ELSE reinit_done

\* Until the reseed of the last loss is acknowledged the controller waits for
\* it and tracks nothing; from then on whatever can reach the playback
\* descends from that reseed.
LossState ==
  /\ reinit_done < loss_ticket => reseed_ticket = loss_ticket /\ playback = NoPlan
  /\ reinit_done >= loss_ticket =>
       /\ own_root >= loss_ticket
       /\ plan_buf # NoPlan => plan_buf.root >= loss_ticket
       /\ ppc = "infer" => inflight.root >= loss_ticket

\* Where the loop may stand while it waits, and what the robot does then.
HoldState ==
  /\ cpc \in {"arbitrate", "effects", "path"} => reseed_ticket = 0
  /\ reseed_ticket # 0 => cmd \in {"base", "damping"}
  /\ cpc \in {"arbitrate", "effects", "path", "reseed"} => wstate = "CONTROL"
  /\ cpc = "reseed" => playback = NoPlan /\ cmd = "base"
  /\ reseed_ticket # 0 => wstate \in {"CONTROL", "ESTOP"}
  /\ cpc \notin {"gate", "stopped"} => missing = 0
  /\ wstate = "ESTOP" => estop /\ cpc \in {"gate", "stopped"} /\ cmd = "damping"

\* A request issued in a recovery was issued after its standing blend.
RecoveryState ==
  mode = kRecovering /\ cpc # "effects" /\ reinit_ticket_issued =>
    recovery_blend_tick = RecoveryBlendTicks /\ reinit_ticket > exit_ticket

IInv ==
  /\ ValuesOK /\ NoPreLossMotion /\ NoPreExitPlan /\ HoldsUntilReseeded /\ LossPolicy
  /\ TicketOrder /\ PlannerState /\ LossState /\ HoldState /\ RecoveryState


\* The program starts in a state that satisfies the invariant.
LEMMA InitIInv == Init => IInv
  BY TickAssumption, InputAssumption, BoundAssumption, PlanFields, PlanMade
     DEF Init, IInv, ValuesOK, NoPreLossMotion, NoPreExitPlan, HoldsUntilReseeded,
         LossPolicy, TicketOrder, PlannerState, LossState, HoldState, RecoveryState,
         WState, ControlPc, PlannerPc, Command, MissingCap, Mode,
         kNormal, kTeleop, kVla, kRecovering

\* The gates, the first two states and the shutdown keep it.
LEMMA GateIInv ==
  ASSUME IInv,
         \/ LoopExit \/ EstopGate \/ MissingGate \/ PresentGate \/ RequestReseed
         \/ TickInit \/ TickWait \/ TickControl \/ PublishDampingOnStop
  PROVE  IInv'
<1> USE TickAssumption, InputAssumption, BoundAssumption, PlanFields
    DEF IInv, ValuesOK, NoPreLossMotion, NoPreExitPlan, HoldsUntilReseeded, LossPolicy,
        TicketOrder, PlannerState, LossState, HoldState, RecoveryState,
        WState, ControlPc, PlannerPc, Command, MissingCap, Mode,
        kNormal, kTeleop, kVla, kRecovering,
        control, tickets, timeline, arbiter, planner, controller, inputs, bounds, history
<1>1. CASE LoopExit
  BY <1>1 DEF LoopExit
<1>2. CASE EstopGate
  BY <1>2 DEF EstopGate
<1>3. CASE MissingGate
  BY <1>3 DEF MissingGate, missing_tick
<1>4. CASE PresentGate
  BY <1>4 DEF PresentGate, forget_timeline
<1>5. CASE RequestReseed
  BY <1>5 DEF RequestReseed
<1>6. CASE TickInit
  BY <1>6 DEF TickInit
<1>7. CASE TickWait
  BY <1>7 DEF TickWait
<1>8. CASE TickControl
  BY <1>8 DEF TickControl, awaits_reseed, fails, succeeds
<1>9. CASE PublishDampingOnStop
  BY <1>9 DEF PublishDampingOnStop
<1> QED BY <1>1, <1>2, <1>3, <1>4, <1>5, <1>6, <1>7, <1>8, <1>9

\* A CONTROL tick keeps it.
LEMMA TickIInv ==
  ASSUME IInv,
         \/ Arbitrate \/ EffectsVla \/ EffectsRecovering \/ EffectsOrigin
         \/ EffectsTeleop \/ PathVla \/ PathRecovery \/ PathNoMotion \/ PathEncoder
  PROVE  IInv'
<1> USE TickAssumption, InputAssumption, BoundAssumption, PlanFields
    DEF IInv, ValuesOK, NoPreLossMotion, NoPreExitPlan, HoldsUntilReseeded, LossPolicy,
        TicketOrder, PlannerState, LossState, HoldState, RecoveryState,
        WState, ControlPc, PlannerPc, Command, MissingCap, Mode,
        kNormal, kTeleop, kVla, kRecovering,
        control, tickets, timeline, arbiter, planner, controller, inputs, bounds, history
<1>1. CASE Arbitrate
  BY <1>1 DEF Arbitrate, decide, recovery_done
<1>2. CASE EffectsVla
  BY <1>2 DEF EffectsVla
<1>3. CASE EffectsRecovering
  BY <1>3 DEF EffectsRecovering
<1>4. CASE EffectsOrigin
  BY <1>4 DEF EffectsOrigin, forget_timeline
<1>5. CASE EffectsTeleop
  BY <1>5 DEF EffectsTeleop
<1>6. CASE PathVla
  BY <1>6 DEF PathVla, decode, fails, succeeds
<1>7. CASE PathRecovery
  BY <1>7 DEF PathRecovery, decode, fails, succeeds, recovery_blend_done
<1>8. CASE PathNoMotion
  BY <1>8 DEF PathNoMotion, advance_playback
<1>9. CASE PathEncoder
  BY <1>9, PlanMade DEF PathEncoder, advance_playback, blended, Lesser, fails, succeeds
<1> QED BY <1>1, <1>2, <1>3, <1>4, <1>5, <1>6, <1>7, <1>8, <1>9

\* The planner keeps it.
LEMMA PlannerIInv ==
  ASSUME IInv,
         \/ PlannerTop \/ PlannerInit \/ PlannerAck \/ PlannerGate \/ PlannerInfer
  PROVE  IInv'
<1> USE TickAssumption, InputAssumption, BoundAssumption, PlanFields
    DEF IInv, ValuesOK, NoPreLossMotion, NoPreExitPlan, HoldsUntilReseeded, LossPolicy,
        TicketOrder, PlannerState, LossState, HoldState, RecoveryState,
        WState, ControlPc, PlannerPc, Command, MissingCap, Mode,
        kNormal, kTeleop, kVla, kRecovering,
        control, tickets, timeline, arbiter, planner, controller, inputs, bounds, history
<1>1. CASE PlannerTop
  BY <1>1 DEF PlannerTop
<1>2. CASE PlannerInit
  BY <1>2, PlanMade DEF PlannerInit, publish, fails, succeeds
<1>3. CASE PlannerAck
  BY <1>3 DEF PlannerAck
<1>4. CASE PlannerGate
  BY <1>4, PlanMade DEF PlannerGate
<1>5. CASE PlannerInfer
  BY <1>5 DEF PlannerInfer, publish, fails, succeeds
<1> QED BY <1>1, <1>2, <1>3, <1>4, <1>5

\* The other threads keep it.
LEMMA EnvironmentIInv ==
  ASSUME IInv,
         \/ LowStateLost \/ LowStateBack \/ StreamToken \/ StreamAges
         \/ TrackerToggle \/ TrackerReset \/ OperatorSelects \/ InputPublishes
         \/ OperatorEstop \/ MainStop
  PROVE  IInv'
<1> USE TickAssumption, InputAssumption, BoundAssumption, PlanFields
    DEF IInv, ValuesOK, NoPreLossMotion, NoPreExitPlan, HoldsUntilReseeded, LossPolicy,
        TicketOrder, PlannerState, LossState, HoldState, RecoveryState,
        WState, ControlPc, PlannerPc, Command, MissingCap, Mode,
        kNormal, kTeleop, kVla, kRecovering,
        control, tickets, timeline, arbiter, planner, controller, inputs, bounds, history
<1>1. CASE LowStateLost
  BY <1>1 DEF LowStateLost
<1>2. CASE LowStateBack
  BY <1>2 DEF LowStateBack
<1>3. CASE StreamToken
  BY <1>3 DEF StreamToken
<1>4. CASE StreamAges
  BY <1>4 DEF StreamAges
<1>5. CASE TrackerToggle
  BY <1>5 DEF TrackerToggle
<1>6. CASE TrackerReset
  BY <1>6 DEF TrackerReset
<1>7. CASE OperatorSelects
  BY <1>7 DEF OperatorSelects
<1>8. CASE InputPublishes
  BY <1>8 DEF InputPublishes
<1>9. CASE OperatorEstop
  BY <1>9 DEF OperatorEstop
<1>10. CASE MainStop
  BY <1>10 DEF MainStop
<1> QED BY <1>1, <1>2, <1>3, <1>4, <1>5, <1>6, <1>7, <1>8, <1>9, <1>10

-----------------------------------------------------------------------------
\* Flags stay flags.
LEMMA InitFlags == Init => FlagsOK
  BY DEF Init, FlagsOK

LEMMA NextFlags == FlagsOK /\ [Next]_vars => FlagsOK'
<1> SUFFICES ASSUME FlagsOK, [Next]_vars PROVE FlagsOK'
  OBVIOUS
<1> USE DEF FlagsOK, control, tickets, timeline, arbiter, planner, controller, inputs,
            bounds, history
<1>1. CASE Controller
  <2>1. CASE LoopExit \/ EstopGate \/ MissingGate
    BY <2>1 DEF LoopExit, EstopGate, MissingGate, missing_tick
  <2>2. CASE PresentGate \/ RequestReseed
    BY <2>2 DEF PresentGate, forget_timeline, RequestReseed
  <2>3. CASE TickInit \/ TickWait \/ TickControl
    BY <2>3 DEF TickInit, TickWait, TickControl
  <2>4. CASE Arbitrate \/ EffectsVla \/ EffectsRecovering
    BY <2>4 DEF Arbitrate, EffectsVla, EffectsRecovering
  <2>5. CASE EffectsOrigin \/ EffectsTeleop
    BY <2>5 DEF EffectsOrigin, EffectsTeleop, forget_timeline
  <2>6. CASE PathVla \/ PathRecovery
    BY <2>6 DEF PathVla, PathRecovery
  <2>7. CASE PathNoMotion \/ PathEncoder
    BY <2>7 DEF PathNoMotion, PathEncoder, advance_playback
  <2> QED BY <1>1, <2>1, <2>2, <2>3, <2>4, <2>5, <2>6, <2>7 DEF Controller
<1>2. CASE Planner
  <2>1. CASE PlannerTop
    BY <2>1 DEF PlannerTop
  <2>2. CASE PlannerInit
    BY <2>2 DEF PlannerInit, publish
  <2>3. CASE PlannerAck \/ PlannerGate
    BY <2>3 DEF PlannerAck, PlannerGate
  <2>4. CASE PlannerInfer
    BY <2>4 DEF PlannerInfer, publish
  <2> QED BY <1>2, <2>1, <2>2, <2>3, <2>4 DEF Planner
<1>3. CASE PublishDampingOnStop
  BY <1>3 DEF PublishDampingOnStop
<1>4. CASE Environment
  <2>1. CASE LowStateLost \/ LowStateBack
    BY <2>1 DEF LowStateLost, LowStateBack
  <2>2. CASE StreamToken \/ StreamAges
    BY <2>2 DEF StreamToken, StreamAges
  <2>3. CASE TrackerToggle \/ TrackerReset
    BY <2>3 DEF TrackerToggle, TrackerReset
  <2>4. CASE OperatorSelects \/ InputPublishes
    BY <2>4 DEF OperatorSelects, InputPublishes
  <2>5. CASE OperatorEstop \/ MainStop
    BY <2>5 DEF OperatorEstop, MainStop
  <2> QED BY <1>4, <2>1, <2>2, <2>3, <2>4, <2>5 DEF Environment
<1>5. CASE UNCHANGED vars
  BY <1>5 DEF vars
<1> QED BY <1>1, <1>2, <1>3, <1>4, <1>5 DEF Next

-----------------------------------------------------------------------------
\* Every step of every thread keeps the invariant.
LEMMA NextIInv == IInv /\ [Next]_vars => IInv'
<1> SUFFICES ASSUME IInv, [Next]_vars PROVE IInv'
  OBVIOUS
<1>1. CASE Controller
  BY <1>1, GateIInv, TickIInv DEF Controller
<1>2. CASE Planner
  BY <1>2, PlannerIInv DEF Planner
<1>3. CASE PublishDampingOnStop
  BY <1>3, GateIInv
<1>4. CASE Environment
  BY <1>4, EnvironmentIInv DEF Environment
<1>5. CASE UNCHANGED vars
  BY <1>5 DEF vars, IInv, ValuesOK, NoPreLossMotion, NoPreExitPlan, HoldsUntilReseeded,
              LossPolicy, TicketOrder, PlannerState, LossState, HoldState, RecoveryState,
              control, tickets, timeline, arbiter, planner, inputs, bounds, history
<1> QED BY <1>1, <1>2, <1>3, <1>4, <1>5 DEF Next

\* The strengthened invariant of the program, which carries the safety
\* invariants below.
THEOREM ProgramInvariant == Spec => []IInv
<1> QED BY InitIInv, NextIInv, PTL DEF Spec

\* Every variable keeps its type: tickets only count up from zero, what the
\* playback and the plan buffer hold is a plan or nothing.
THEOREM ProgramTypeOK == Spec => []TypeOK
<1>1. Spec => []FlagsOK
  BY InitFlags, NextFlags, PTL DEF Spec
<1>2. IInv => ValuesOK
  BY DEF IInv
<1> QED BY <1>1, <1>2, ProgramInvariant, TypeHalves, PTL

\* After a long LowState loss nothing from before it is ever tracked, for any
\* number and timing of losses, replans and failures
\* (whole_body_controller.cpp:243-250, 382-404).
THEOREM LossForgetsTimeline == Spec => []NoPreLossMotion
<1>1. IInv => NoPreLossMotion
  BY DEF IInv
<1> QED BY <1>1, ProgramInvariant, PTL

\* After a recovery no plan published before its reseed is ever tracked
\* (whole_body_controller.cpp:498-513).
THEOREM ExitForgetsPlans == Spec => []NoPreExitPlan
<1>1. IInv => NoPreExitPlan
  BY DEF IInv
<1> QED BY <1>1, ProgramInvariant, PTL

\* Until the reseed of a long loss is acknowledged the command is the base
\* hold or damping (whole_body_controller.cpp:243-250).
THEOREM LossHolds == Spec => []HoldsUntilReseeded
<1>1. IInv => HoldsUntilReseeded
  BY DEF IInv
<1> QED BY <1>1, ProgramInvariant, PTL

\* Beyond the grace window the command is the base hold, and damping appears
\* only for the e-stop and the shutdown (whole_body_controller.cpp:22-42).
THEOREM LossPolicyKept == Spec => []LossPolicy
<1>1. IInv => LossPolicy
  BY DEF IInv
<1> QED BY <1>1, ProgramInvariant, PTL

\* A recovery ends only after its own blend and an acknowledgement of its own
\* request: stale counters, flags and tickets of earlier sessions do not count
\* (control_arbiter.hpp:70-115, whole_body_controller.cpp:461-548).
THEOREM RecoveriesAreEarned == Spec => RecoveryIsEarned
<1> DEFINE Earned ==
      mode = kRecovering /\ mode' = kNormal =>
        /\ recovery_blend_tick = RecoveryBlendTicks
        /\ reinit_ticket > exit_ticket /\ reinit_done >= reinit_ticket
<1>1. IInv /\ [Next]_vars => [Earned]_vars
  <2> SUFFICES ASSUME IInv, [Next]_vars PROVE [Earned]_vars
    OBVIOUS
  <2> USE DEF kNormal, kTeleop, kVla, kRecovering
  <2>1. CASE Arbitrate
    BY <2>1 DEF Arbitrate, decide, recovery_done, IInv, RecoveryState
  <2>2. CASE Next /\ ~Arbitrate
    <3>1. mode' = mode
      BY <2>2 DEF Next, Controller, Planner, Environment, missing_tick, LoopExit,
                  EstopGate,
                  MissingGate, PresentGate, RequestReseed, TickInit, TickWait,
                  TickControl, Arbitrate, EffectsVla, EffectsRecovering, EffectsOrigin,
                  EffectsTeleop, PathVla, PathRecovery, PathNoMotion, PathEncoder,
                  PublishDampingOnStop,
                  PlannerTop, PlannerInit, PlannerAck, PlannerGate, PlannerInfer,
                  LowStateLost, LowStateBack, StreamToken, StreamAges, TrackerToggle,
                  TrackerReset, OperatorSelects, InputPublishes, OperatorEstop, MainStop,
                  control, tickets, timeline, arbiter, controller
    <3> QED BY <3>1
  <2>3. CASE UNCHANGED vars
    BY <2>3
  <2> QED BY <2>1, <2>2, <2>3
<1>2. Spec => [][Earned]_vars
  BY <1>1, ProgramInvariant, PTL DEF Spec
<1> QED BY <1>2 DEF RecoveryIsEarned

\* Once the loop has seen the e-stop it never leaves damping
\* (whole_body_controller.cpp:350-359).
THEOREM EstopIsForGood == Spec => EstopIsTerminal
<1> DEFINE Terminal == wstate = "ESTOP" => wstate' = "ESTOP" /\ cmd' = "damping"
<1>1. IInv /\ [Next]_vars => [Terminal]_vars
  <2> SUFFICES ASSUME IInv, [Next]_vars, wstate = "ESTOP"
               PROVE  wstate' = "ESTOP" /\ cmd' = "damping"
    OBVIOUS
  <2>1. estop /\ cpc \in {"gate", "stopped"} /\ cmd = "damping"
    BY DEF IInv, HoldState
  <2> USE <2>1 DEF control, tickets, timeline, arbiter, planner, controller, inputs,
                   bounds, history
  <2>2. CASE Controller
    BY <2>2 DEF Controller, missing_tick, forget_timeline, LoopExit, EstopGate,
                MissingGate, PresentGate,
                RequestReseed, TickInit, TickWait, TickControl, Arbitrate, EffectsVla,
                EffectsRecovering, EffectsOrigin, EffectsTeleop, PathVla, PathRecovery,
                PathNoMotion, PathEncoder
  <2>3. CASE Planner
    BY <2>3 DEF Planner, PlannerTop, PlannerInit, PlannerAck, PlannerGate, PlannerInfer
  <2>4. CASE PublishDampingOnStop
    BY <2>4 DEF PublishDampingOnStop
  <2>5. CASE Environment
    BY <2>5 DEF Environment, LowStateLost, LowStateBack, StreamToken, StreamAges,
                TrackerToggle, TrackerReset, OperatorSelects, InputPublishes,
                OperatorEstop, MainStop
  <2>6. CASE UNCHANGED vars
    BY <2>6 DEF vars
  <2> QED BY <2>2, <2>3, <2>4, <2>5, <2>6 DEF Next
<1>2. Spec => [][Terminal]_vars
  BY <1>1, ProgramInvariant, PTL DEF Spec
<1> QED BY <1>2 DEF EstopIsTerminal

=============================================================================
