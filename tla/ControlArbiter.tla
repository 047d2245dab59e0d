--------------------------- MODULE ControlArbiter ---------------------------
(***************************************************************************)
(* The arbitration stage on the token path (control_arbiter.hpp): the mode *)
(* and the two token blends.  The stage has one caller, the 50 Hz control  *)
(* tick, which calls step_mode once, may call arm_handoff, and then calls  *)
(* select_token at most once (the tick can return early); "phase" is where *)
(* that tick stands.                                                       *)
(*                                                                         *)
(* A token is one coordinate of the 64-dimensional latent: the blends act  *)
(* on each coordinate alone.  float arithmetic becomes integer arithmetic, *)
(* so a blend is exact up to one unit per tick.                            *)
(***************************************************************************)
EXTENDS Integers, ArbiterModes

CONSTANTS
  Tokens,              \* the coordinates an encoder or a stream may produce
  SafeStandingToken,   \* kVlaSafeStandingToken
  RecoveryBlendTicks,  \* kRecoveryBlendTicks
  HandoffBlendTicks    \* kHandoffBlendTicks

ASSUME TokensAssumption == Tokens \subseteq Int /\ SafeStandingToken \in Int
ASSUME BlendAssumption  == /\ RecoveryBlendTicks \in Nat \ {0}
                           /\ HandoffBlendTicks \in Nat \ {0}

VARIABLES
  mode,                 \* mode_
  held_token,           \* held_token_: the last commanded token
  recovery_blend_tick,  \* recovery_blend_tick_
  handoff_blend_ticks,  \* handoff_blend_ticks_
  phase,                \* where the caller's tick stands
  source                \* history: what produced the last commanded token

vars == <<mode, held_token, recovery_blend_tick, handoff_blend_ticks, phase, source>>

Source == {"none", "encoder", "stream", "standing"}

\* What select_token passes on in mode m.
source_of(m) == CASE m = kVla        -> "stream"
                  [] m = kRecovering -> "standing"
                  [] OTHER           -> "encoder"

TypeOK ==
  /\ mode \in Mode
  /\ held_token \in Int
  /\ recovery_blend_tick \in 0..RecoveryBlendTicks
  /\ handoff_blend_ticks \in 0..HandoffBlendTicks
  /\ phase \in {"decide", "select"}
  /\ source \in Source

Init ==
  /\ mode = kNormal
  /\ held_token = SafeStandingToken
  /\ recovery_blend_tick = 0
  /\ handoff_blend_ticks = 0
  /\ phase = "decide"
  /\ source = "none"

-----------------------------------------------------------------------------
(* Weighted mean of two tokens: weight n - k of n on "from", k of n on "to". *)
blend(from, to, k, n) == ((n - k) * from + k * to) \div n

\* The transitions that put a fresh token source in charge arm the crossfade.
arms_handoff(cur, next) == \/ cur = kRecovering /\ next = kNormal
                           \/ cur # kVla /\ next = kVla

recovery_blend_done == recovery_blend_tick >= RecoveryBlendTicks

\* The counter of the standing blend restarts with every recovery.
restarted_blend_Never(next) == recovery_blend_tick  \* mutant
restarted_blend(next) == IF mode # kRecovering /\ next = kRecovering
                         THEN 0 ELSE recovery_blend_tick

\* step_mode(): decide, then arm what the transition needs.
step_mode(vla_fresh, vla_alive, calibrated, recovery_done) ==
  LET next == decide(mode, vla_fresh, vla_alive, calibrated, recovery_done) IN
  /\ mode' = next
  /\ recovery_blend_tick' = restarted_blend(next)
  /\ handoff_blend_ticks' = IF arms_handoff(mode, next)
                            THEN HandoffBlendTicks ELSE handoff_blend_ticks

\* A token younger than the claim threshold is also within the hold time; a
\* recovery reports done only after its blend has landed and a ticket was
\* issued (whole_body_controller.cpp:468, :542).
StepMode ==
  /\ phase = "decide"
  /\ \E vla_fresh, vla_alive, calibrated, recovery_done \in BOOLEAN :
       /\ vla_fresh => vla_alive
       /\ recovery_done => recovery_blend_done
       /\ step_mode(vla_fresh, vla_alive, calibrated, recovery_done)
  /\ phase' = "select"
  /\ UNCHANGED <<held_token, source>>

\* The controller saw a teleop buffer appear or vanish; that part of the tick
\* runs in the encoder's modes only.
arm_handoff ==
  /\ phase = "select"
  /\ mode \in {kNormal, kTeleop}
  /\ handoff_blend_ticks' = HandoffBlendTicks
  /\ UNCHANGED <<mode, held_token, recovery_blend_tick, phase, source>>

\* The token of a crossfade with n ticks left: the weight of the source is zero
\* on the first and grows by one part per tick.
slide_Early(token, n) ==    \* mutant: the weight starts at one part
  blend(held_token, token, HandoffBlendTicks - n + 1, HandoffBlendTicks)
slide_Swapped(token, n) ==  \* mutant: from the source to the held token
  blend(token, held_token, HandoffBlendTicks - n, HandoffBlendTicks)
slide_Steady(token, n) ==   \* mutant: one part of the remaining gap per tick
  blend(held_token, token, 1, HandoffBlendTicks)
slide(token, n) ==
  blend(held_token, token, HandoffBlendTicks - n, HandoffBlendTicks)

\* One output of a crossfaded source (the encoder's and the stream's branch).
crossfade(token) ==
  /\ held_token' = IF handoff_blend_ticks > 0
                   THEN slide(token, handoff_blend_ticks) ELSE token
  /\ handoff_blend_ticks' = IF handoff_blend_ticks > 0
                            THEN handoff_blend_ticks - 1 ELSE 0
  /\ UNCHANGED recovery_blend_tick

\* One output of the standing blend.
standing_blend ==
  LET t == IF recovery_blend_tick < RecoveryBlendTicks
           THEN recovery_blend_tick + 1 ELSE recovery_blend_tick
  IN  /\ recovery_blend_tick' = t
      /\ held_token' = blend(held_token, SafeStandingToken, t, RecoveryBlendTicks)
      /\ UNCHANGED handoff_blend_ticks

select_token(token) ==
  /\ phase = "select"
  /\ IF mode = kRecovering THEN standing_blend ELSE crossfade(token)
  /\ source' = source_of(mode)
  /\ phase' = "decide"
  /\ UNCHANGED mode

\* The tick ends before select_token: no motion to track yet, an encoder
\* failure, or no stream token (the recovery always selects).
skip_select ==
  /\ phase = "select"
  /\ mode # kRecovering
  /\ phase' = "decide"
  /\ UNCHANGED <<mode, held_token, recovery_blend_tick, handoff_blend_ticks, source>>

Next ==
  \/ StepMode
  \/ arm_handoff
  \/ \E token \in Tokens : select_token(token)
  \/ skip_select

Spec == Init /\ [][Next]_vars

-----------------------------------------------------------------------------
(* Properties                                                              *)

Distance(a, b) == IF a > b THEN a - b ELSE b - a

(* The blend of the source that is to speak next is at its start for as    *)
(* long as another source spoke last: the crossfade of an encoder or a     *)
(* stream holds its full count, the standing blend its zero.  The          *)
(* strengthening that NoStepOnSourceChange is proved from.                 *)
BlendArmed ==
  source \notin {"none", source_of(mode)} =>
    IF mode = kRecovering THEN recovery_blend_tick = 0
                          ELSE handoff_blend_ticks = HandoffBlendTicks

(* Whenever the recovery may reseed the planner (recovery_blend_done), the *)
(* commanded token is the verified safe standing token itself: no leftover *)
(* of an earlier recovery's counter may report a blend that never ran.     *)
RecoveryLands ==
  mode = kRecovering /\ recovery_blend_done => held_token = SafeStandingToken

(* A change of token source never steps the commanded token: the first     *)
(* output of the new source equals the last output of the old one (the     *)
(* crossfade's weight starts at zero), and the standing blend moves by at  *)
(* most one part in RecoveryBlendTicks.  Covers claims, recovery exits and *)
(* claims right after an exit, with ticks that end early in between.       *)
NoStepOnSourceChange ==
  [][source # "none" /\ source' # source =>
       IF source' = "standing"
       THEN Distance(held_token', held_token) * RecoveryBlendTicks
              <= Distance(SafeStandingToken, held_token) + RecoveryBlendTicks
       ELSE held_token' = held_token]_vars

=============================================================================
