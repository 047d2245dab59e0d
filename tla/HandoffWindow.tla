--------------------------- MODULE HandoffWindow ---------------------------
(***************************************************************************)
(* The crossfade of ControlArbiter seen over a whole window: where it      *)
(* started, what it slides to, and how far each tick moves.  The weights   *)
(* compound (each tick blends from the last OUTPUT, not from the token the *)
(* window started at), so the largest step and the landing point are facts *)
(* about a run of ticks.  They are promised for steady targets: the new    *)
(* source repeats one token through its window, as                         *)
(* test/test_arbiter_probe.cpp:105-165 drives it.  A behaviour is steady   *)
(* from its first tick to its last or never asked to be: the others are    *)
(* the behaviours of ControlArbiter itself.                                *)
(***************************************************************************)
EXTENDS ControlArbiter

VARIABLES
  steady,  \* whether the sources of this behaviour repeat a token through a window
  window   \* history: the first blended tick of the latest window, when steady

windowVars == <<vars, steady, window>>

WindowInit ==
  /\ Init
  /\ steady \in BOOLEAN
  /\ window = [from |-> SafeStandingToken, to |-> SafeStandingToken]

in_window == 0 < handoff_blend_ticks /\ handoff_blend_ticks < HandoffBlendTicks

SteadySelect(token) ==
  /\ steady
  /\ mode # kRecovering /\ in_window => token = window.to
  /\ select_token(token)
  /\ window' = IF mode # kRecovering /\ handoff_blend_ticks = HandoffBlendTicks
               THEN [from |-> held_token, to |-> token] ELSE window

FreeSelect(token) == ~steady /\ select_token(token) /\ UNCHANGED window

WindowNext ==
  /\ \/ (StepMode \/ arm_handoff \/ skip_select) /\ UNCHANGED window
     \/ \E token \in Tokens : SteadySelect(token) \/ FreeSelect(token)
  /\ UNCHANGED steady

WindowSpec == WindowInit /\ [][WindowNext]_windowVars

-----------------------------------------------------------------------------
(* A slide never moves the commanded token by more than a quarter of the   *)
(* gap it was armed to cross (one unit of rounding aside): the compounding *)
(* of the weights does not pile the motion up at either end of the window. *)
QuarterStep ==
  [][(/\ steady /\ source' \in {"encoder", "stream"}
      /\ handoff_blend_ticks' < handoff_blend_ticks) =>
       4 * Distance(held_token', held_token)
         <= Distance(window'.to, window'.from) + 4]_windowVars

(* When a window closes with no interruption the slide has landed: the     *)
(* pass-through that follows continues from the target within rounding, so *)
(* closing the window is not a step of its own.                            *)
LandsOnTarget ==
  [][(/\ steady /\ source' \in {"encoder", "stream"} /\ source' = source
      /\ handoff_blend_ticks = 1 /\ handoff_blend_ticks' = 0) =>
       Distance(held_token', window.to) <= 1]_windowVars

=============================================================================
