-------------------------- MODULE MC_ControlArbiter --------------------------
(***************************************************************************)
(* The stage with its production blend lengths: every mix of claims,      *)
(* losses, recoveries, re-arming and early ends of ticks, with tokens that *)
(* change every tick and with tokens that are steady through a window.     *)
(***************************************************************************)
EXTENDS HandoffWindow

MCTokens == {0, 100}

=============================================================================
