------------------------------ MODULE MC_Reseed ------------------------------
(***************************************************************************)
(* The control loop with losses, sessions and failures, and with the whole *)
(* operator.                                                               *)
(***************************************************************************)
EXTENDS MC_WholeBodyController

VARIABLE attended  \* the half of the inputs a behaviour is about

\* Every input at once is too much.  A behaviour has either no operator (IDLE,
\* no teleop) and every loss, session and failure, or every input of the
\* operator, one session and nothing lost or failed.
EitherNext ==
  /\ Next
  /\ IF attended
     THEN UNCHANGED <<losses, failures>> /\ sessions' >= MaxSessions - 1
     ELSE movement' = "idle" /\ tracker' = "off" /\ ~armed'
  /\ UNCHANGED attended

EitherSpec == Init /\ attended \in BOOLEAN /\ [][EitherNext]_<<vars, attended>>

=============================================================================
