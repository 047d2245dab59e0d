---------------------------- MODULE MotorHealth ----------------------------
(***************************************************************************)
(* MotorHealthRules for the joint of a body motor and for a temperature    *)
(* sensor, which do not look at each other, stepped at 20 Hz by            *)
(* MotorHealthMonitor::loop with the latest snapshots.                     *)
(*                                                                         *)
(* A tick reads the body state and the last command, each of which may be  *)
(* absent: the body buffer is cleared when LowState stops, and there is no *)
(* command before the controller's first one.  Without a body state        *)
(* nothing is judged and every timer stands: such a tick stutters.         *)
(* Torques are abstracted to what the rule tells apart.                    *)
(***************************************************************************)
EXTENDS Integers, FiniteSetsExt

CONSTANTS
  warn_c, critical_c,       \* the two limits of the sensor
  Temps, Positions, Cmds,   \* what is measured and commanded
  frozen_cmd_move,          \* travel of the command that makes a still joint suspect
  FrozenTicks, UnrespTicks  \* frozen_time_s and unresp_time_s

ASSUME HealthAssumption ==
  /\ warn_c \in Int /\ critical_c \in Int /\ warn_c <= critical_c
  /\ Temps \subseteq Int /\ Positions \subseteq Int /\ Cmds \subseteq Int
  /\ frozen_cmd_move \in Nat /\ FrozenTicks \in Nat \ {0} /\ UnrespTicks \in Nat \ {0}

hysteresis == 5

Torque == {"little",    \* no more than unresp_tau_min is asked for
           "missing",   \* asked for and not produced
           "produced"}

VARIABLES
  \* ── the sensor
  level,    \* its temp level: 0 ok, 1 warning, 2 emergency
  line,     \* history: the last line about it, [raised, at]
  \* ── the joint
  track,    \* BodyTrack: q_last is {} before the first snapshot
  still,    \* history: [ticks, start, moved] of the measurement that repeats
  missing   \* history: snapshots in a row that missed the torque asked for

sensor_vars == <<level, line>>
joint_vars  == <<track, still, missing>>

moving == [ticks |-> 0, start |-> {}, moved |-> FALSE]

HealthInit ==
  /\ level = 0 /\ line = {}
  /\ track = [q_last |-> {}, frozen_s |-> 0, cmd_at_freeze_start |-> 0, frozen |-> FALSE,
              unresp_s |-> 0, unresp |-> FALSE]
  /\ still = moving
  /\ missing = 0

apart(a, b) == IF a < b THEN b - a ELSE a - b
value(singleton) == CHOOSE x \in singleton : TRUE

-----------------------------------------------------------------------------
(* temp_transition                                                         *)
temp_transition_Eager(l, temp) ==
  IF temp >= critical_c THEN 2 ELSE IF temp >= warn_c THEN 1 ELSE 0

temp_transition(l, temp) ==
  IF temp >= critical_c THEN 2
  ELSE IF temp >= warn_c THEN IF l = 2 /\ temp >= critical_c - hysteresis THEN 2 ELSE 1
  ELSE IF temp < warn_c - hysteresis THEN 0
  ELSE l

(* NOT RESPONDING: the timer and the flag after a snapshot.                *)
unresponsive(t, cmd, torque) ==
  LET ran == IF cmd # {} /\ torque = "missing" THEN Min({t.unresp_s + 1, UnrespTicks}) ELSE 0
  IN  [t EXCEPT !.unresp_s = ran,
                !.unresp = IF t.unresp THEN cmd = {} \/ torque # "produced"
                                       ELSE cmd # {} /\ ran >= UnrespTicks]

(* STATE FROZEN: the same after the joint is compared with its last        *)
(* position.                                                               *)
stopped_reporting_NeverRestarts(t, q, cmd) ==
  LET same == t.q_last = {q}
      ran  == IF same THEN Min({t.frozen_s + 1, FrozenTicks}) ELSE t.frozen_s
      from == IF same /\ t.frozen_s = 0 /\ cmd # {} THEN value(cmd) ELSE t.cmd_at_freeze_start
      gone == cmd # {} /\ apart(value(cmd), from) > frozen_cmd_move
  IN  [t EXCEPT !.frozen_s = ran, !.cmd_at_freeze_start = from, !.q_last = {q},
                !.frozen = IF t.frozen THEN same
                                       ELSE t.q_last # {} /\ ran >= FrozenTicks /\ gone]

stopped_reporting(t, q, cmd) ==
  LET same == t.q_last = {q}
      ran  == IF same THEN Min({t.frozen_s + 1, FrozenTicks}) ELSE 0
      from == IF same /\ t.frozen_s = 0 /\ cmd # {} THEN value(cmd) ELSE t.cmd_at_freeze_start
      gone == cmd # {} /\ apart(value(cmd), from) > frozen_cmd_move
  IN  [t EXCEPT !.frozen_s = ran, !.cmd_at_freeze_start = from, !.q_last = {q},
                !.frozen = IF t.frozen THEN same ELSE ran >= FrozenTicks /\ gone]

-----------------------------------------------------------------------------
(* step_body_motor, for a sensor and for the joint.                        *)
SensorTick ==
  \E temp \in Temps :
    LET next == temp_transition(level, temp)
    IN  /\ level' = next
        /\ line' = IF next = level THEN line ELSE {[raised |-> next > level, at |-> temp]}

JointTick ==
  \E q \in Positions, torque \in Torque, cmd \in {{}} \cup {{c} : c \in Cmds} :
    LET run == IF track.q_last # {q} THEN moving
               ELSE IF still.ticks = 0 THEN [ticks |-> 1, start |-> cmd, moved |-> FALSE]
               ELSE [still EXCEPT !.ticks = Min({@ + 1, FrozenTicks})]
    IN  /\ track' = stopped_reporting(unresponsive(track, cmd, torque), q, cmd)
        /\ still' = [run EXCEPT !.moved = @ \/ \E s \in run.start, c \in cmd :
                                                 apart(c, s) > frozen_cmd_move]
        /\ missing' = IF cmd # {} /\ torque = "missing"
                      THEN Min({missing + 1, UnrespTicks}) ELSE 0

SensorSpec == HealthInit /\ [][SensorTick]_sensor_vars
JointSpec  == HealthInit /\ [][JointTick]_joint_vars

-----------------------------------------------------------------------------
(* A temperature that hovers at a limit does not make the log flicker: a   *)
(* line that goes the other way than the last one is at least the          *)
(* hysteresis away from it (motor_health_rules.hpp:37 "Clears 5C below     *)
(* warn", for both limits).                                                *)
NoChatter ==
  [][\A old \in line, new \in line' :
       old.raised # new.raised => apart(old.at, new.at) >= hysteresis]_sensor_vars

(* An alarm names what happened: STATE FROZEN stands only while the joint  *)
(* reports one value, for frozen_time_s, and the command went away from    *)
(* where it was when the joint stopped; NOT RESPONDING comes only after    *)
(* unresp_time_s of missing torque without a break                         *)
(* (motor_health_rules.hpp:38-49).  A joint that stopped before the first  *)
(* command is left out: cmd_at_freeze_start is then an older value.        *)
AlarmsAreReal ==
  /\ track.frozen => still.ticks >= FrozenTicks /\ (still.start # {} => still.moved)
  /\ track.unresp_s >= UnrespTicks => track.unresp /\ missing >= UnrespTicks

=============================================================================
