-------------------------- MODULE MotorHealthProofs --------------------------
(***************************************************************************)
(* Theorems of MotorHealth, for all limits, times and measurements.        *)
(***************************************************************************)
EXTENDS MotorHealth, TLAPS

(* A minimum of two integers.                                              *)
LEMMA MinOfTwo ==
  ASSUME NEW a \in Int, NEW b \in Int
  PROVE  Min({a, b}) = IF a <= b THEN a ELSE b
<1> DEFINE least == IF a <= b THEN a ELSE b
           P(x) == \A y \in {a, b} : x <= y
<1>1. least \in {a, b} /\ P(least)
  OBVIOUS
<1>2. \A x \in {a, b} : P(x) => x = least
  OBVIOUS
<1>3. (CHOOSE x \in {a, b} : P(x)) = least
  <2> HIDE DEF P, least
  <2> QED BY <1>1, <1>2
<1> QED BY <1>3 DEF Min

(* What a buffer of one value holds.                                       *)
LEMMA ValueOne == ASSUME NEW x PROVE value({x}) = x
  BY DEF value

-----------------------------------------------------------------------------
(* The sensor                                                              *)

Line == [raised : BOOLEAN, at : Temps]

(* What the last line says about the level: raised to it at or above its   *)
(* limit, or lowered to it further than the hysteresis below the limit     *)
(* above it.                                                               *)
SaysLevel(l) ==
  /\ l.raised  => \/ level = 1 /\ l.at >= warn_c
                  \/ level = 2 /\ l.at >= critical_c
  /\ ~l.raised => \/ level = 0 /\ l.at < warn_c - hysteresis
                  \/ level = 1 /\ l.at < critical_c - hysteresis

SensorInv ==
  /\ level \in 0..2
  /\ \/ line = {} /\ level = 0
     \/ \E l \in Line : line = {l} /\ SaysLevel(l)

(* A transition: where it goes, and how far the temperature is from the    *)
(* limits it crossed.                                                      *)
LEMMA Transitions ==
  ASSUME NEW l \in 0..2, NEW temp \in Int
  PROVE  LET next == temp_transition(l, temp)
         IN  /\ next \in 0..2
             /\ next > l => \/ next = 1 /\ temp >= warn_c
                            \/ next = 2 /\ temp >= critical_c
             /\ next < l => \/ next = 0 /\ temp < warn_c - hysteresis
                            \/ next = 1 /\ temp < critical_c - hysteresis
  BY HealthAssumption DEF temp_transition, hysteresis

(* A tick keeps the invariant, and two lines that disagree are apart.      *)
LEMMA SensorStep ==
  ASSUME SensorInv, SensorTick
  PROVE  /\ SensorInv'
         /\ \A old \in line, new \in line' :
              old.raised # new.raised => apart(old.at, new.at) >= hysteresis
<1>1. /\ warn_c \in Int /\ critical_c \in Int /\ warn_c <= critical_c /\ Temps \subseteq Int
      /\ hysteresis = 5
  BY HealthAssumption DEF hysteresis
<1>2. PICK temp \in Temps :
        /\ level' = temp_transition(level, temp)
        /\ line' = IF level' = level THEN line
                   ELSE {[raised |-> level' > level, at |-> temp]}
  BY DEF SensorTick
<1>3. level \in 0..2 /\ temp \in Int
  BY <1>1, <1>2 DEF SensorInv
<1>4. /\ level' \in 0..2
      /\ level' > level => \/ level' = 1 /\ temp >= warn_c
                           \/ level' = 2 /\ temp >= critical_c
      /\ level' < level => \/ level' = 0 /\ temp < warn_c - hysteresis
                           \/ level' = 1 /\ temp < critical_c - hysteresis
  BY <1>2, <1>3, Transitions
<1>5. CASE level' = level
  <2>1. line' = line
    BY <1>2, <1>5
  <2>2. SensorInv'
    BY <1>5, <2>1 DEF SensorInv, SaysLevel
  <2>3. \A old \in line, new \in line' : old = new
    BY <2>1 DEF SensorInv
  <2> QED BY <2>2, <2>3
<1>6. CASE level' # level
  <2> DEFINE new == [raised |-> level' > level, at |-> temp]
  <2>1. new \in Line /\ line' = {new}
    BY <1>2, <1>6 DEF Line
  <2>2. new.at = temp /\ (new.raised <=> level' > level)
    OBVIOUS
  <2> HIDE DEF new
  <2>3. /\ new.raised  => \/ level' = 1 /\ temp >= warn_c
                          \/ level' = 2 /\ temp >= critical_c
        /\ ~new.raised => \/ level' = 0 /\ temp < warn_c - hysteresis
                          \/ level' = 1 /\ temp < critical_c - hysteresis
    <3>1. level' \in Int /\ level \in Int
      BY <1>3, <1>4
    <3>2. ~(level' > level) => level' < level
      BY <1>6, <3>1
    <3> QED BY <1>4, <2>2, <3>2
  <2>4. SensorInv'
    <3>1. PICK l \in Line : l = new
      BY <2>1
    <3>2. line' = {l} /\ SaysLevel(l)'
      BY <2>1, <2>3, <2>2, <3>1 DEF SaysLevel
    <3> QED BY <1>4, <3>2 DEF SensorInv
  <2>5. ASSUME NEW old \in line, old.raised # new.raised
        PROVE  apart(old.at, new.at) >= hysteresis
    <3>1. old \in Line /\ SaysLevel(old)
      BY <2>5 DEF SensorInv
    <3>2. old.at \in Int /\ old.raised \in BOOLEAN /\ new.raised \in BOOLEAN
      BY <1>1, <2>1, <3>1 DEF Line
    <3>3. CASE new.raised
      <4>1. ~old.raised
        BY <2>5, <3>2, <3>3
      <4>2. \/ level = 0 /\ old.at < warn_c - hysteresis
            \/ level = 1 /\ old.at < critical_c - hysteresis
        BY <3>1, <4>1 DEF SaysLevel
      <4>3. temp - old.at >= hysteresis
        BY <1>1, <1>3, <1>4, <2>3, <2>2, <3>2, <3>3, <4>2
      <4> QED BY <1>1, <1>3, <2>2, <3>2, <4>3 DEF apart
    <3>4. CASE ~new.raised
      <4>1. old.raised
        BY <2>5, <3>2, <3>4
      <4>2. \/ level = 1 /\ old.at >= warn_c
            \/ level = 2 /\ old.at >= critical_c
        BY <3>1, <4>1 DEF SaysLevel
      <4>3. level' < level
        BY <1>3, <1>4, <1>6, <2>2, <3>4
      <4>4. old.at - temp >= hysteresis
        BY <1>1, <1>3, <1>4, <3>2, <4>2, <4>3
      <4> QED BY <1>1, <1>3, <2>2, <3>2, <4>4 DEF apart
    <3> QED BY <3>3, <3>4
  <2> QED BY <2>1, <2>4, <2>5
<1> QED BY <1>5, <1>6

(* A temperature that hovers at a limit does not make the log flicker      *)
(* (temp_transition).                                                      *)
THEOREM NoChatterHolds == SensorSpec => NoChatter
<1>1. HealthInit => SensorInv
  BY DEF HealthInit, SensorInv
<1>2. SensorInv /\ [SensorTick]_sensor_vars => SensorInv'
  <2>1. SensorInv /\ UNCHANGED sensor_vars => SensorInv'
    BY DEF SensorInv, SaysLevel, sensor_vars
  <2> QED BY <2>1, SensorStep
<1>3. SensorInv /\ [SensorTick]_sensor_vars =>
        [\A old \in line, new \in line' :
           old.raised # new.raised => apart(old.at, new.at) >= hysteresis]_sensor_vars
  BY SensorStep
<1> QED BY <1>1, <1>2, <1>3, PTL DEF SensorSpec, NoChatter

-----------------------------------------------------------------------------
(* The joint                                                               *)

Track == [q_last : SUBSET Positions, frozen_s : 0..FrozenTicks, cmd_at_freeze_start : Int,
          frozen : BOOLEAN, unresp_s : 0..UnrespTicks, unresp : BOOLEAN]
Still == [ticks : 0..FrozenTicks, start : SUBSET Cmds, moved : BOOLEAN]

(* The rules' timers and the histories run together, and the rules         *)
(* remember the command the joint stopped at.                              *)
JointInv ==
  /\ track \in Track /\ still \in Still /\ missing = track.unresp_s
  /\ still.ticks = track.frozen_s
  /\ \A s \in still.start : track.cmd_at_freeze_start = s
  /\ AlarmsAreReal

(* The timer of the torque and its flag.                                   *)
LEMMA UnresponsiveStep ==
  ASSUME NEW t \in Track, NEW cmd, NEW torque \in Torque,
         t.unresp_s >= UnrespTicks => t.unresp
  PROVE  LET u == unresponsive(t, cmd, torque)
         IN  /\ u \in Track /\ u.q_last = t.q_last /\ u.frozen_s = t.frozen_s
             /\ u.cmd_at_freeze_start = t.cmd_at_freeze_start /\ u.frozen = t.frozen
             /\ u.unresp_s = IF cmd # {} /\ torque = "missing"
                             THEN Min({t.unresp_s + 1, UnrespTicks}) ELSE 0
             /\ u.unresp_s >= UnrespTicks => u.unresp
<1> DEFINE ran == IF cmd # {} /\ torque = "missing"
                  THEN Min({t.unresp_s + 1, UnrespTicks}) ELSE 0
           on  == IF t.unresp THEN cmd = {} \/ torque # "produced"
                              ELSE cmd # {} /\ ran >= UnrespTicks
           u   == [t EXCEPT !.unresp_s = ran, !.unresp = on]
<1>1. UnrespTicks \in Nat \ {0}
  BY HealthAssumption
<1>2. ran \in 0..UnrespTicks
  <2>1. t.unresp_s \in 0..UnrespTicks
    BY DEF Track
  <2>2. t.unresp_s + 1 \in Int /\ t.unresp_s + 1 >= 0
    BY <1>1, <2>1
  <2> QED BY <1>1, <2>2, MinOfTwo
<1>3. on \in BOOLEAN
  OBVIOUS
<1>4. ran >= UnrespTicks => on
  <2>1. ran >= UnrespTicks => cmd # {} /\ torque = "missing"
    BY <1>1
  <2> QED BY <2>1
<1>5. unresponsive(t, cmd, torque) = u
  BY DEF unresponsive
<1> HIDE DEF ran, on
<1>6. /\ u \in Track /\ u.q_last = t.q_last /\ u.frozen_s = t.frozen_s
      /\ u.cmd_at_freeze_start = t.cmd_at_freeze_start /\ u.frozen = t.frozen
      /\ u.unresp_s = ran /\ u.unresp = on
  BY <1>2, <1>3 DEF Track
<1> HIDE DEF u
<1>7. u.unresp_s >= UnrespTicks => u.unresp
  BY <1>4, <1>6
<1> QED BY <1>5, <1>6, <1>7 DEF ran

(* A snapshot keeps the invariant.                                         *)
LEMMA JointStep ==
  ASSUME JointInv, JointTick
  PROVE  JointInv'
<1>1. /\ FrozenTicks \in Nat \ {0} /\ UnrespTicks \in Nat \ {0}
      /\ Cmds \subseteq Int /\ Positions \subseteq Int
  BY HealthAssumption
<1>2. /\ track \in Track /\ still \in Still /\ missing = track.unresp_s
      /\ still.ticks = track.frozen_s
      /\ \A s \in still.start : track.cmd_at_freeze_start = s
      /\ track.frozen => still.ticks >= FrozenTicks /\ (still.start # {} => still.moved)
      /\ track.unresp_s >= UnrespTicks => track.unresp
  BY DEF JointInv, AlarmsAreReal
<1>3. PICK q \in Positions, torque \in Torque, cmd \in {{}} \cup {{c} : c \in Cmds} :
        LET run == IF track.q_last # {q} THEN moving
                   ELSE IF still.ticks = 0 THEN [ticks |-> 1, start |-> cmd, moved |-> FALSE]
                   ELSE [still EXCEPT !.ticks = Min({@ + 1, FrozenTicks})]
        IN  /\ track' = stopped_reporting(unresponsive(track, cmd, torque), q, cmd)
            /\ still' = [run EXCEPT !.moved = @ \/ \E s \in run.start, c \in cmd :
                                                     apart(c, s) > frozen_cmd_move]
            /\ missing' = IF cmd # {} /\ torque = "missing"
                          THEN Min({missing + 1, UnrespTicks}) ELSE 0
  BY DEF JointTick
<1>4. cmd = {} \/ \E c \in Cmds : cmd = {c} /\ value(cmd) = c
  BY <1>3, ValueOne
<1> DEFINE u    == unresponsive(track, cmd, torque)
           same == track.q_last = {q}
           run  == IF ~same THEN moving
                   ELSE IF still.ticks = 0 THEN [ticks |-> 1, start |-> cmd, moved |-> FALSE]
                   ELSE [still EXCEPT !.ticks = Min({@ + 1, FrozenTicks})]
           ran  == IF same THEN Min({track.frozen_s + 1, FrozenTicks}) ELSE 0
           from == IF same /\ track.frozen_s = 0 /\ cmd # {} THEN value(cmd)
                                                            ELSE track.cmd_at_freeze_start
           gone == cmd # {} /\ apart(value(cmd), from) > frozen_cmd_move
           on   == IF track.frozen THEN same ELSE ran >= FrozenTicks /\ gone
           far  == \E s \in run.start, c \in cmd : apart(c, s) > frozen_cmd_move
<1>5. /\ u \in Track /\ u.q_last = track.q_last /\ u.frozen_s = track.frozen_s
      /\ u.cmd_at_freeze_start = track.cmd_at_freeze_start /\ u.frozen = track.frozen
      /\ u.unresp_s = missing'
      /\ u.unresp_s >= UnrespTicks => u.unresp
  BY <1>2, <1>3, UnresponsiveStep
<1>6. /\ track' = [u EXCEPT !.frozen_s = ran, !.cmd_at_freeze_start = from,
                            !.q_last = {q}, !.frozen = on]
      /\ still' = [run EXCEPT !.moved = run.moved \/ far]
  <2> HIDE DEF u
  <2>1. track' = stopped_reporting(u, q, cmd)
    BY <1>3 DEF u
  <2> QED BY <1>3, <1>5, <2>1 DEF stopped_reporting
<1>7. track.frozen_s \in 0..FrozenTicks /\ track.cmd_at_freeze_start \in Int
  BY <1>2 DEF Track
<1>8. /\ ran \in 0..FrozenTicks
      /\ same /\ track.frozen_s = 0 => ran = 1
  <2>1. track.frozen_s + 1 \in Int /\ FrozenTicks \in Int
    BY <1>1, <1>7
  <2>2. Min({track.frozen_s + 1, FrozenTicks})
          = IF track.frozen_s + 1 <= FrozenTicks THEN track.frozen_s + 1 ELSE FrozenTicks
    BY <2>1, MinOfTwo
  <2> QED BY <1>1, <1>7, <2>2
<1>9. from \in Int
  BY <1>1, <1>4, <1>7
<1>10. run \in Still /\ run.ticks = ran
  <2>1. CASE ~same
    BY <1>1, <2>1 DEF moving, Still
  <2>2. CASE same /\ still.ticks = 0
    <3>1. cmd \in SUBSET Cmds
      BY <1>4
    <3> QED BY <1>1, <1>2, <1>8, <2>2, <3>1 DEF Still
  <2>3. CASE same /\ still.ticks # 0
    <3>1. run = [still EXCEPT !.ticks = ran]
      BY <1>2, <2>3
    <3> HIDE DEF run, ran
    <3> QED BY <1>2, <1>8, <3>1 DEF Still
  <2> QED BY <2>1, <2>2, <2>3
<1>11. \A s \in run.start : from = s
  <2>1. CASE ~same
    BY <2>1 DEF moving
  <2>2. CASE same /\ still.ticks = 0
    BY <1>2, <1>4, <2>2
  <2>3. CASE same /\ still.ticks # 0
    <3>1. run.start = still.start /\ from = track.cmd_at_freeze_start
      BY <1>2, <2>3 DEF Still
    <3> QED BY <1>2, <3>1
  <2> QED BY <2>1, <2>2, <2>3
<1>12. on => ran >= FrozenTicks /\ (run.start # {} => run.moved \/ far)
  <2>1. CASE track.frozen
    <3>1. on => same /\ still.ticks = FrozenTicks /\ still.ticks # 0
      BY <1>1, <1>2, <1>7, <2>1
    <3>2. on => ran = FrozenTicks
      <4>1. track.frozen_s + 1 \in Int /\ FrozenTicks \in Int
        BY <1>1, <1>7
      <4>2. on => ~(track.frozen_s + 1 <= FrozenTicks)
        BY <1>1, <1>2, <3>1
      <4> QED BY <3>1, <4>1, <4>2, MinOfTwo
    <3>3. on => run.start = still.start /\ run.moved = still.moved
      BY <1>2, <3>1 DEF Still
    <3> QED BY <1>1, <1>2, <2>1, <3>2, <3>3
  <2>2. CASE ~track.frozen
    <3>1. on => ran >= FrozenTicks /\ gone
      BY <2>2
    <3>2. ASSUME on, run.start # {}
          PROVE  far
      <4>1. PICK c \in Cmds : cmd = {c} /\ value(cmd) = c
        BY <1>4, <3>1, <3>2
      <4>2. PICK s \in run.start : from = s
        BY <1>11, <3>2
      <4>3. apart(c, s) > frozen_cmd_move
        BY <3>1, <3>2, <4>1, <4>2
      <4> QED BY <4>1, <4>3
    <3> QED BY <3>1, <3>2
  <2> QED BY <2>1, <2>2
<1>13. on \in BOOLEAN /\ far \in BOOLEAN /\ {q} \in SUBSET Positions
  BY <1>2 DEF Track
<1> HIDE DEF u, same, run, ran, from, gone, on, far
<1>14. /\ track' \in Track /\ track'.frozen_s = ran /\ track'.cmd_at_freeze_start = from
       /\ track'.frozen = on /\ track'.unresp_s = u.unresp_s /\ track'.unresp = u.unresp
  BY <1>5, <1>6, <1>8, <1>9, <1>13 DEF Track
<1>15. /\ still'.ticks = ran /\ still'.start = run.start
       /\ still'.moved = (run.moved \/ far)
  BY <1>6, <1>10 DEF Still
<1>16. still' \in Still
  <2>1. run.moved \/ far \in BOOLEAN
    BY <1>10, <1>13 DEF Still
  <2> QED BY <1>6, <1>10, <2>1 DEF Still
<1>17. AlarmsAreReal'
  <2>1. track'.frozen => still'.ticks >= FrozenTicks /\ (still'.start # {} => still'.moved)
    BY <1>12, <1>14, <1>15
  <2>2. track'.unresp_s >= UnrespTicks => track'.unresp /\ missing' >= UnrespTicks
    BY <1>5, <1>14
  <2> QED BY <2>1, <2>2 DEF AlarmsAreReal
<1> QED BY <1>5, <1>11, <1>14, <1>15, <1>16, <1>17 DEF JointInv

(* An alarm names what happened (step_body_motor).                         *)
THEOREM AlarmsHold == JointSpec => []AlarmsAreReal
<1>1. HealthInit => JointInv
  <2> SUFFICES ASSUME HealthInit PROVE JointInv
    OBVIOUS
  <2>1. FrozenTicks \in Nat \ {0} /\ UnrespTicks \in Nat \ {0}
    BY HealthAssumption
  <2>2. /\ track = [q_last |-> {}, frozen_s |-> 0, cmd_at_freeze_start |-> 0, frozen |-> FALSE,
                    unresp_s |-> 0, unresp |-> FALSE]
        /\ still = [ticks |-> 0, start |-> {}, moved |-> FALSE] /\ missing = 0
    BY DEF HealthInit, moving
  <2>3. track \in Track /\ still \in Still
    BY <2>1, <2>2 DEF Track, Still
  <2> QED BY <2>1, <2>2, <2>3 DEF JointInv, AlarmsAreReal
<1>2. JointInv /\ [JointTick]_joint_vars => JointInv'
  <2>1. JointInv /\ UNCHANGED joint_vars => JointInv'
    BY DEF JointInv, AlarmsAreReal, joint_vars
  <2> QED BY <2>1, JointStep
<1>3. JointInv => AlarmsAreReal
  BY DEF JointInv
<1> QED BY <1>1, <1>2, <1>3, PTL DEF JointSpec

=============================================================================
