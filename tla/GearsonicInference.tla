------------------------ MODULE GearsonicInference ------------------------
(***************************************************************************)
(* The life of the process: GearsonicInference::start brings the modules   *)
(* up in order, main polls for a quit, stop() takes them down; meanwhile   *)
(* the control loop fills the command buffer and the 500 Hz writer repeats *)
(* it on rt/lowcmd.  Loops may end in an exception, the process may die    *)
(* at any step, and a new run finds the engine files as they were left.    *)
(*                                                                         *)
(* A command is "pose" (any joint target) or "damping"; what the pose is,  *)
(* and when the controller computes one, is WholeBodyController's subject. *)
(***************************************************************************)
EXTENDS EngineCache, Sequences

CONSTANT ReleaseAttempts  \* how often ensure_exclusive_lowcmd tries (5)

ASSUME ReleaseAssumption == ReleaseAttempts \in Nat \ {0}

VARIABLES
  phase,              \* where main() is
  at,                 \* the next stage of start() or of stop()
  result,             \* what start() returned
  live,               \* the threads and subscriptions that are up
  started,            \* the *_started_ flags
  quit_,              \* request_quit()
  estop,              \* InputHandler's latch
  state_buf,          \* unitree_state_buf holds a sample
  motor_command_buf,  \* the controller's last command
  wire,               \* the last message on rt/lowcmd
  fresh,              \* history: the buffer was filled since that message
  builtin,            \* the robot's own motion service
  attempts            \* ReleaseMode calls made so far

process_vars == <<phase, at, result, live, started, quit_, estop, state_buf, attempts>>
wire_vars == <<motor_command_buf, wire, fresh>>
vars == <<process_vars, wire_vars, builtin, cache_vars>>

StartOrder ==
  <<"tee", "config", "vr", "robot", "hand_state", "health", "vla", "nav_rx", "record_ctl",
    "state_wait", "planner", "writer", "hand_writer", "token_pub", "trace", "control">>

StopOrder ==
  <<"control", "control_engines", "trace", "token_pub", "hand_writer", "writer", "health",
    "hand_state", "planner", "planner_engine", "record_ctl", "nav_rx", "vla", "inputs",
    "robot", "vr", "tee">>

Optional == {"tee", "record_ctl", "trace"}   \* start() goes on without them
CannotFail == {"health"}
NoRollback == {"config", "vr"}               \* start() returns without stop()
EngineStages == {"planner", "control"}
Plain == {"tee", "vr", "robot", "hand_state", "health", "vla", "nav_rx", "record_ctl",
          "hand_writer", "token_pub", "trace"}

Modules == (Plain \ {"vr"}) \cup {"pico", "input", "tracker", "planner", "writer", "control"}
Flags == (Plain \ {"tee"}) \cup {"planner", "writer", "control"}

Phases == {"off", "starting", "up", "stopping", "exited"}
Commands == {"none", "pose", "damping"}

TypeOK ==
  /\ CacheTypeOK
  /\ phase \in Phases
  /\ at \in 1 .. Len(StopOrder) + 1
  /\ result \in {"none", "ok", "failed"}
  /\ live \subseteq Modules
  /\ started \subseteq Flags
  /\ {quit_, estop, state_buf, fresh} \subseteq BOOLEAN
  /\ motor_command_buf \in Commands
  /\ wire \in [cmd : Commands, machine : BOOLEAN]
  /\ builtin \in {"publishing", "released", "unreachable"}
  /\ attempts \in 0 .. ReleaseAttempts

NewProcess ==
  /\ phase = "off"
  /\ at = 1
  /\ result = "none"
  /\ live = {}
  /\ started = {}
  /\ quit_ = FALSE
  /\ estop = FALSE
  /\ state_buf = FALSE
  /\ attempts = 0

Init ==
  /\ CacheInit
  /\ NewProcess
  /\ motor_command_buf = "none"
  /\ wire = [cmd |-> "none", machine |-> FALSE]
  /\ fresh = FALSE
  /\ builtin \in {"publishing", "released", "unreachable"}

-----------------------------------------------------------------------------
(* start()                                                                 *)

stage == StartOrder[at]
starting(s) == phase = "starting" /\ stage = s

Launch ==
  /\ phase = "off"
  /\ phase' = "starting"
  /\ UNCHANGED <<at, result, live, started, quit_, estop, state_buf, attempts,
                 wire_vars, builtin, cache_vars>>

(* One flag covers the headset reader and the two loops that feed on it.   *)
threads_of(s) == IF s = "vr" THEN {"pico", "input", "tracker"} ELSE {s}

comes_up_Unflagged(s) ==
  /\ live' = live \cup threads_of(s)
  /\ started' = started \cup ({s} \cap (Flags \ {"hand_writer"}))

comes_up(s) ==
  /\ live' = live \cup threads_of(s)
  /\ started' = started \cup ({s} \cap Flags)

next_stage ==
  /\ at' = at + 1
  /\ UNCHANGED <<phase, result>>

(* start() returns false: after stop(), or at once.                        *)
roll_back ==
  /\ phase' = "stopping" /\ at' = 1
  /\ result' = "failed"

give_up ==
  /\ phase' = "exited"
  /\ result' = "failed"
  /\ UNCHANGED at

(* When its second subscription throws, the robot reader keeps the first.  *)
keeps_subscription(s) == IF s = "robot" THEN {live, live \cup {"robot"}} ELSE {live}

StartStage ==
  /\ phase = "starting"
  /\ stage \in Plain
  /\ \/ comes_up(stage) /\ next_stage
     \/ stage \in Optional /\ next_stage /\ UNCHANGED <<live, started>>
     \/ /\ stage \notin Optional \cup CannotFail
        /\ IF stage \in NoRollback THEN give_up ELSE roll_back
        /\ live' \in keeps_subscription(stage)
        /\ UNCHANGED started
  /\ UNCHANGED <<quit_, estop, state_buf, attempts, wire_vars, builtin, cache_vars>>

LoadConfig ==
  /\ starting("config")
  /\ next_stage \/ give_up
  /\ UNCHANGED <<live, started, quit_, estop, state_buf, attempts,
                 wire_vars, builtin, cache_vars>>

(* The one place of start() that polls quit_: between two looks at the     *)
(* buffer, 200 ms apart.                                                   *)
WaitForState_Deaf ==
  /\ starting("state_wait")
  /\ state_buf /\ next_stage
  /\ UNCHANGED <<live, started, quit_, estop, state_buf, attempts,
                 wire_vars, builtin, cache_vars>>

WaitForState ==
  /\ starting("state_wait")
  /\ \/ state_buf /\ next_stage
     \/ ~state_buf /\ quit_ /\ roll_back
  /\ UNCHANGED <<live, started, quit_, estop, state_buf, attempts,
                 wire_vars, builtin, cache_vars>>

(* The planner needs one engine; the controller its encoder, then its      *)
(* decoder.  The thread starts when the last one is ready.                 *)
engine_wanted ==
  CASE starting("planner") -> "planner"
    [] starting("control") /\ job.engine # "decoder" -> "encoder"
    [] OTHER -> "decoder"

BeginEngine ==
  /\ phase = "starting" /\ stage \in EngineStages
  /\ job.step = "idle"
  /\ BringUp(engine_wanted)
  /\ UNCHANGED <<trt, gpu, process_vars, wire_vars, builtin>>

EngineWork == EngineStep /\ UNCHANGED <<process_vars, wire_vars, builtin>>

EngineReady ==
  /\ phase = "starting" /\ stage \in EngineStages
  /\ job.step = "ready"
  /\ IF job.engine = "encoder"
     THEN BringUp("decoder") /\ UNCHANGED <<phase, at, result, live, started>>
     ELSE /\ go("idle")
          /\ comes_up(stage)
          /\ IF stage = "control"
             THEN phase' = "up" /\ at' = 1 /\ result' = "ok"
             ELSE next_stage
  /\ UNCHANGED <<trt, gpu, quit_, estop, state_buf, attempts, wire_vars, builtin>>

(* PlannerInference::start and WholeBodyController::start return false and *)
(* leave what is on the GPU: their flag is not set, so stop() skips them.  *)
EngineFailed ==
  /\ phase = "starting" /\ stage \in EngineStages
  /\ job.step = "failed"
  /\ go("idle")
  /\ roll_back
  /\ UNCHANGED <<trt, gpu, live, started, quit_, estop, state_buf, attempts,
                 wire_vars, builtin>>

(* ensure_exclusive_lowcmd: the first CheckMode either cannot reach the    *)
(* switcher (a simulator: nothing publishes), or finds no service, or      *)
(* finds one, which is asked up to ReleaseAttempts times to let go.        *)
ReleaseMode ==
  /\ starting("writer")
  /\ builtin = "publishing"
  /\ attempts < ReleaseAttempts
  /\ attempts' = attempts + 1
  /\ builtin' \in {"publishing", "released"}
  /\ UNCHANGED <<phase, at, result, live, started, quit_, estop, state_buf,
                 wire_vars, cache_vars>>

exclusive == builtin # "publishing"

StartWriter ==
  /\ starting("writer")
  /\ \/ exclusive /\ comes_up("writer") /\ next_stage
     \/ /\ ~exclusive /\ attempts = ReleaseAttempts
        /\ roll_back
        /\ UNCHANGED <<live, started>>
  /\ UNCHANGED <<quit_, estop, state_buf, attempts, wire_vars, builtin, cache_vars>>

Start ==
  \/ Launch \/ StartStage \/ LoadConfig \/ WaitForState \/ BeginEngine \/ EngineWork
  \/ EngineReady \/ EngineFailed \/ ReleaseMode \/ StartWriter

-----------------------------------------------------------------------------
(* main and stop()                                                         *)

MainLoop ==
  /\ phase = "up"
  /\ quit_
  /\ phase' = "stopping"
  /\ UNCHANGED <<at, result, live, started, quit_, estop, state_buf, attempts,
                 wire_vars, builtin, cache_vars>>

stopping(s) == phase = "stopping" /\ at <= Len(StopOrder) /\ StopOrder[at] = s

goes_down(s) ==
  /\ live' = live \ threads_of(s)
  /\ started' = started \ {s}
  /\ next_stage

SkipStopped(s, flag) ==
  /\ stopping(s) /\ flag \notin started
  /\ next_stage
  /\ UNCHANGED <<live, started, quit_, estop, state_buf, attempts, wire_vars, builtin, cache_vars>>

(* WholeBodyController::stop joins the loop, then puts damping in the      *)
(* buffer, then releases its engines.                                      *)
StopControl_ReleasesFirst ==
  /\ stopping("control") /\ "control" \in started
  /\ gpu' = released({"encoder", "decoder"})
  /\ next_stage
  /\ UNCHANGED <<live, started, trt, job, quit_, estop, state_buf, attempts, wire_vars, builtin>>

StopControl ==
  /\ stopping("control") /\ "control" \in started
  /\ live' = live \ {"control"}
  /\ next_stage
  /\ UNCHANGED <<started, quit_, estop, state_buf, attempts, wire_vars, builtin, cache_vars>>

FlushControl ==
  /\ stopping("control_engines") /\ "control" \in started
  /\ motor_command_buf' = "damping" /\ fresh' = TRUE
  /\ gpu' = released({"encoder", "decoder"})
  /\ goes_down("control")
  /\ UNCHANGED <<quit_, estop, state_buf, attempts, wire, builtin, trt, job>>

(* UnitreeCommandWriter::stop joins the 500 Hz loop, then sends its own    *)
(* burst of damping.                                                       *)
publish(cmd) ==
  /\ wire' = [cmd |-> cmd, machine |-> state_buf]
  /\ fresh' = FALSE

StopWriter_NoBurst ==
  /\ stopping("writer") /\ "writer" \in started
  /\ goes_down("writer")
  /\ UNCHANGED <<wire_vars, quit_, estop, state_buf, attempts, builtin, cache_vars>>

StopWriter ==
  /\ stopping("writer") /\ "writer" \in started
  /\ goes_down("writer")
  /\ publish("damping")
  /\ UNCHANGED <<motor_command_buf, quit_, estop, state_buf, attempts, builtin, cache_vars>>

StopPlanner ==
  /\ stopping("planner") /\ "planner" \in started
  /\ live' = live \ {"planner"}
  /\ next_stage
  /\ UNCHANGED <<started, quit_, estop, state_buf, attempts, wire_vars, builtin, cache_vars>>

DestroyPlannerEngine ==
  /\ stopping("planner_engine") /\ "planner" \in started
  /\ gpu' = released({"planner"})
  /\ goes_down("planner")
  /\ UNCHANGED <<trt, job, quit_, estop, state_buf, attempts, wire_vars, builtin>>

(* The two input loops stop before the robot reader, the headset after it. *)
StopInputs ==
  /\ stopping("inputs") /\ "vr" \in started
  /\ live' = live \ {"input", "tracker"}
  /\ next_stage
  /\ UNCHANGED <<started, quit_, estop, state_buf, attempts, wire_vars, builtin, cache_vars>>

StopStage ==
  /\ \E s \in (Plain \ {"tee"}) : stopping(s) /\ s \in started /\ goes_down(s)
  /\ UNCHANGED <<quit_, estop, state_buf, attempts, wire_vars, builtin, cache_vars>>

(* ConsoleTee::stop is safe when it never started; then stop() returns and *)
(* main with it.                                                           *)
StopTee ==
  /\ stopping("tee")
  /\ live' = live \ {"tee"}
  /\ phase' = "exited"
  /\ UNCHANGED <<at, result, started, quit_, estop, state_buf, attempts,
                 wire_vars, builtin, cache_vars>>

flag_of(s) ==
  CASE s = "control_engines" -> "control" [] s = "planner_engine" -> "planner"
    [] s = "inputs" -> "vr" [] OTHER -> s

Stop ==
  \/ StopControl \/ FlushControl \/ StopWriter \/ StopPlanner \/ DestroyPlannerEngine
  \/ StopInputs \/ StopStage \/ StopTee
  \/ phase = "stopping" /\ StopOrder[at] # "tee" /\ SkipStopped(StopOrder[at], flag_of(StopOrder[at]))

-----------------------------------------------------------------------------
(* The threads                                                             *)

(* on_lowstate_update stores a sample whose checksum holds; the watchdog   *)
(* clears one that went stale.                                             *)
LowState ==
  /\ "robot" \in live
  /\ state_buf' = TRUE
  /\ UNCHANGED <<phase, at, result, live, started, quit_, estop, attempts,
                 wire_vars, builtin, cache_vars>>

LowStateStale ==
  /\ "robot" \in live /\ state_buf
  /\ state_buf' = FALSE
  /\ UNCHANGED <<phase, at, result, live, started, quit_, estop, attempts,
                 wire_vars, builtin, cache_vars>>

(* One tick of the control loop: damping under the e-stop; otherwise a     *)
(* joint target, or nothing (the grace after a loss, a failed inference).  *)
ControlTick_EstopOnce ==
  /\ "control" \in live
  /\ motor_command_buf' = IF estop /\ motor_command_buf # "pose" THEN "damping" ELSE "pose"
  /\ fresh' = TRUE
  /\ UNCHANGED <<wire, process_vars, builtin, cache_vars>>

ControlTick ==
  /\ "control" \in live
  /\ motor_command_buf' = IF estop THEN "damping" ELSE "pose"
  /\ fresh' = TRUE
  /\ UNCHANGED <<wire, process_vars, builtin, cache_vars>>

(* An exception leaves the loop, and the process goes on without it.       *)
LoopDies ==
  /\ \E t \in {"control", "planner"} \cap live : live' = live \ {t}
  /\ UNCHANGED <<phase, at, result, started, quit_, estop, state_buf, attempts,
                 wire_vars, builtin, cache_vars>>

WriterTick ==
  /\ "writer" \in live
  /\ motor_command_buf # "none"
  /\ publish(motor_command_buf)
  /\ UNCHANGED <<motor_command_buf, process_vars, builtin, cache_vars>>

EstopLatches ==
  /\ "input" \in live
  /\ estop' = TRUE
  /\ UNCHANGED <<phase, at, result, live, started, quit_, state_buf, attempts,
                 wire_vars, builtin, cache_vars>>

QuitSignal ==
  /\ phase \notin {"off", "exited"}
  /\ quit_' = TRUE
  /\ UNCHANGED <<phase, at, result, live, started, estop, state_buf, attempts,
                 wire_vars, builtin, cache_vars>>

Threads ==
  LowState \/ LowStateStale \/ ControlTick \/ LoopDies \/ WriterTick \/ EstopLatches \/ QuitSignal

(* SIGKILL, a crash, an exception that escapes start() (a mistyped key of  *)
(* config.yaml).  No code runs: the last message stays the last.           *)
ProcessDies ==
  /\ phase \notin {"off", "exited"}
  /\ phase' = "exited" /\ result' = "none"
  /\ live' = {} /\ started' = {}
  /\ at' = 1
  /\ CacheDies
  /\ UNCHANGED <<quit_, estop, state_buf, attempts, wire_vars, builtin>>

(* The operator tries again, perhaps with other models on disk.            *)
NextRun ==
  /\ phase = "exited"
  /\ phase' = "off" /\ at' = 1 /\ result' = "none"
  /\ live' = {} /\ started' = {}
  /\ quit_' = FALSE /\ estop' = FALSE /\ state_buf' = FALSE /\ attempts' = 0
  /\ motor_command_buf' = "none"
  /\ wire' = [cmd |-> "none", machine |-> FALSE] /\ fresh' = FALSE
  /\ builtin' \in {"publishing", "released", "unreachable"}
  /\ gpu' = [e \in Engines |-> EmptyEngine]
  /\ job' = [engine |-> "planner", step |-> "idle"]
  /\ \/ UNCHANGED trt
     \/ trt' = models_replaced

Next == Start \/ MainLoop \/ Stop \/ Threads \/ ProcessDies \/ NextRun

Spec == Init /\ [][Next]_vars

(* Every stage returns (TensorRT, DDS and the joins do), and the two loops *)
(* keep their period while their thread lives.                             *)
FairSpec ==
  /\ Spec
  /\ WF_vars(Start)
  /\ WF_vars(MainLoop)
  /\ WF_vars(Stop)
  /\ WF_vars(ControlTick)
  /\ WF_vars(WriterTick)

-----------------------------------------------------------------------------
(* After stop() the robot was last told to damp, if it was told anything:  *)
(* also when start() failed half way, the control loop had died, or stop() *)
(* met a writer that still had a pose to repeat (safety contract 1,        *)
(* gearsonic_inference.hpp:25).                                            *)
StopEndsDamped ==
  phase = "exited" =>
    /\ result = "ok" => wire.cmd = "damping"
    /\ result = "failed" => wire.cmd # "pose"

(* No loop runs inference on an engine that is not fully up: neither one   *)
(* whose bring-up stopped half way, nor one that stop() has released while *)
(* the loop that uses it was not yet joined (WholeBodyController::stop,    *)
(* PlannerInference::stop).                                                *)
usable(e) == gpu[e].engine # "none" /\ gpu[e].buffers = "all"

LoopsHaveEngines ==
  /\ "planner" \in live => usable("planner")
  /\ "control" \in live => usable("encoder") /\ usable("decoder")

(* stop() leaves no thread, subscription or engine of a run that had come  *)
(* up: start's flags and stop's order cover each other, whichever optional *)
(* stages were missing and whichever loop had died.  After a start() that  *)
(* failed only the console mirror (no stop() was made) or half of the      *)
(* robot reader's subscriptions (its flag was not set yet) are still up.   *)
NothingHeld == live = {} /\ \A e \in Engines : gpu[e] = EmptyEngine

StopLeavesNothing ==
  phase = "exited" =>
    /\ result = "ok" => NothingHeld
    /\ result = "failed" => live \subseteq {"tee", "robot"}

(* A quit ends the process from wherever it stood, also from a start() on  *)
(* a robot that never speaks.                                              *)
QuitEnds == quit_ ~> phase = "exited"

(* The e-stop reaches the motors while the two loops live, whatever was in *)
(* the buffer (input_handler.cpp:95-103, whole_body_controller.cpp:351,    *)
(* the writer's 500 Hz loop).                                              *)
EstopReachesMotors ==
  (estop /\ {"control", "writer"} \subseteq live) ~>
    (wire.cmd = "damping" \/ "control" \notin live)

(* "the 500Hz writer repeats the last command, so a transient blip doesn't *)
(* disturb the robot" (whole_body_controller.cpp:25-26): with nothing new  *)
(* in the buffer, what goes out is what went out before.                   *)
WriterRepeats == [][WriterTick /\ ~fresh => wire' = wire]_vars

=============================================================================
