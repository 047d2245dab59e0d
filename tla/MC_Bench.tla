------------------------------ MODULE MC_Bench ------------------------------
(***************************************************************************)
(* The components whose questions are their own, side by side: a behaviour *)
(* works one of them and leaves the others in their initial state.         *)
(***************************************************************************)
EXTENDS TapGestures, HandControl, MotorHealth, PlaybackTimeline, StateTrace

VARIABLE bench  \* the component this behaviour works

all_vars == <<bench, tap_vars, hand_vars, sensor_vars, joint_vars, playback_vars, trace_vars>>

BenchInit ==
  /\ bench \in {"taps", "hand", "sensor", "joint", "playback", "trace"}
  /\ TapInit /\ HandInit /\ HealthInit /\ PlaybackInit /\ TraceInit

\* A step of one component leaves the bench and the rest alone.
rules     == <<tap_vars, hand_vars, sensor_vars, joint_vars>>
timelines == <<playback_vars, trace_vars>>

TapBench == /\ bench = "taps" /\ TapTick
            /\ UNCHANGED <<bench, hand_vars, sensor_vars, joint_vars, timelines>>
HandBench == /\ bench = "hand" /\ HandNext
             /\ UNCHANGED <<bench, tap_vars, sensor_vars, joint_vars, timelines>>
SensorBench == /\ bench = "sensor" /\ SensorTick
               /\ UNCHANGED <<bench, tap_vars, hand_vars, joint_vars, timelines>>
JointBench == /\ bench = "joint" /\ JointTick
              /\ UNCHANGED <<bench, tap_vars, hand_vars, sensor_vars, timelines>>
PlaybackBench(step) == /\ bench = "playback" /\ step
                       /\ UNCHANGED <<bench, rules, trace_vars>>
TraceBench(step) == /\ bench = "trace" /\ step
                    /\ UNCHANGED <<bench, rules, playback_vars>>

BenchNext == \/ TapBench \/ HandBench \/ SensorBench \/ JointBench
             \/ PlaybackBench(PlaybackNext) \/ TraceBench(TraceNext)

\* The fairness of PlaybackSpec and TraceSpec.
Fairness == /\ WF_all_vars(PlaybackBench(PlaybackTick))
            /\ WF_all_vars(PlaybackBench(PlannerReplans \/ PlannerPublishes))
            /\ WF_all_vars(TraceBench(Writer))

BenchSpec == BenchInit /\ [][BenchNext]_all_vars /\ Fairness

axes_mc     == {4, 8}
vla_mc      == {5, 20}
measured_mc == {0, 6, 18}
temps_mc    == 104..118

=============================================================================
