---------------------- MODULE GearsonicInferenceProofs ----------------------
(***************************************************************************)
(* Theorems of GearsonicInference, for any number of attempts, runs,       *)
(* deaths and disk faults: no loop runs without its engines, and, where a  *)
(* new file can be opened, no engine of an old model is loaded.            *)
(***************************************************************************)
EXTENDS GearsonicInference, TLAPS

(* Where some stages stand in start() and stop().                          *)
LEMMA Stages ==
  /\ Len(StartOrder) = 16 /\ Len(StopOrder) = 17
  /\ \A i \in 1..16 : /\ StartOrder[i] = "planner" <=> i = 11
                      /\ StartOrder[i] = "control" <=> i = 16
                      /\ StartOrder[i] = "writer" <=> i = 12
                      /\ StartOrder[i] = "config" <=> i = 2
                      /\ StartOrder[i] = "vr" <=> i = 3
  /\ \A i \in 1..17 : /\ StopOrder[i] = "control" <=> i = 1
                      /\ StopOrder[i] = "control_engines" <=> i = 2
                      /\ StopOrder[i] = "writer" <=> i = 6
                      /\ StopOrder[i] = "planner" <=> i = 9
                      /\ StopOrder[i] = "planner_engine" <=> i = 10
                      /\ StopOrder[i] = "tee" <=> i = 17
<1>1. Len(StartOrder) = 16 /\ Len(StopOrder) = 17
  BY DEF StartOrder, StopOrder
<1>2. \A i \in 1..16 : /\ StartOrder[i] = "planner" <=> i = 11
                       /\ StartOrder[i] = "control" <=> i = 16
                       /\ StartOrder[i] = "writer" <=> i = 12
                       /\ StartOrder[i] = "config" <=> i = 2
                       /\ StartOrder[i] = "vr" <=> i = 3
  BY DEF StartOrder
<1>3. \A i \in 1..17 : /\ StopOrder[i] = "control" <=> i = 1
                       /\ StopOrder[i] = "control_engines" <=> i = 2
                       /\ StopOrder[i] = "writer" <=> i = 6
                       /\ StopOrder[i] = "planner" <=> i = 9
                       /\ StopOrder[i] = "planner_engine" <=> i = 10
                       /\ StopOrder[i] = "tee" <=> i = 17
  BY DEF StopOrder
<1> QED BY <1>1, <1>2, <1>3

-----------------------------------------------------------------------------
(* Engines are of today's model                                            *)

(* Where every file can be opened, one that is about to be loaded either   *)
(* passed the comparison or was written by this very conversion.           *)
Opens == "open" \notin DiskFaults

CurrentInv ==
  /\ CacheTypeOK
  /\ Opens => /\ EngineIsCurrent
              /\ job.step \in {"write_hash", "write_engine", "load"} =>
                   trt[job.engine] # "stale"

(* Before anything is brought up there is no engine.                       *)
LEMMA CurrentAtStart == CacheInit => CurrentInv
  BY DEF CacheInit, CurrentInv, CacheTypeOK, EngineIsCurrent, EmptyEngine, EngineStates,
         FileStates, Steps, Engines

(* A step of a conversion or of the loading.                               *)
LEMMA CurrentWork ==
  ASSUME CurrentInv, EngineStep
  PROVE  CurrentInv'
<1>1. /\ trt \in [Engines -> FileStates] /\ gpu \in [Engines -> EngineStates]
      /\ job \in [engine : Engines, step : Steps] /\ job.engine \in Engines
      /\ Opens => \A e \in Engines : gpu[e].engine # "stale"
  BY DEF CurrentInv, CacheTypeOK, EngineIsCurrent
<1>2. CASE CheckHash
  BY <1>1, <1>2 DEF CurrentInv, CacheTypeOK, EngineIsCurrent, CheckHash, go, hash_matches, file,
                    Steps
<1>3. CASE BuildEngine
  BY <1>1, <1>3 DEF CurrentInv, CacheTypeOK, EngineIsCurrent, BuildEngine, go, Steps
<1>4. CASE OpenFile
  <2>1. /\ UNCHANGED gpu
        /\ \/ trt' = [trt EXCEPT ![job.engine] = "short"]
              /\ job' = [job EXCEPT !.step = "write_hash"]
           \/ ~Opens /\ UNCHANGED trt /\ job' = [job EXCEPT !.step = "load"]
    BY <1>4 DEF OpenFile, put, go, Opens
  <2> QED BY <1>1, <2>1 DEF CurrentInv, CacheTypeOK, EngineIsCurrent, Steps, FileStates
<1>5. CASE WriteHash
  <2>1. /\ Opens => trt[job.engine] # "stale"
        /\ UNCHANGED gpu
        /\ \/ trt' = [trt EXCEPT ![job.engine] = "torn"]
              /\ job' = [job EXCEPT !.step = "write_engine"]
           \/ UNCHANGED trt /\ job' = [job EXCEPT !.step = "load"]
    BY <1>5 DEF CurrentInv, WriteHash, put, go
  <2> QED BY <1>1, <2>1 DEF CurrentInv, CacheTypeOK, EngineIsCurrent, Steps, FileStates
<1>6. CASE WriteEngine
  <2>1. /\ Opens => trt[job.engine] # "stale"
        /\ UNCHANGED gpu
        /\ trt' = [trt EXCEPT ![job.engine] = "whole"] \/ UNCHANGED trt
        /\ job' = [job EXCEPT !.step = "load"]
    BY <1>6 DEF CurrentInv, WriteEngine, put, go
  <2> QED BY <1>1, <2>1 DEF CurrentInv, CacheTypeOK, EngineIsCurrent, Steps, FileStates
<1>7. CASE LoadEngine
  <2>1. PICK state \in EngineStates :
          gpu' = [gpu EXCEPT ![job.engine] = state] /\ (Opens => state.engine # "stale")
    BY <1>1, <1>7 DEF CurrentInv, LoadEngine, set_engine, file, EmptyEngine, EngineStates
  <2>2. /\ UNCHANGED trt
        /\ \E s \in {"buffers", "failed"} : job' = [job EXCEPT !.step = s]
    BY <1>7 DEF LoadEngine, go
  <2> QED BY <1>1, <2>1, <2>2 DEF CurrentInv, CacheTypeOK, EngineIsCurrent, Steps
<1>8. CASE InitInputs
  <2>1. PICK b \in {"all", "part"} :
          gpu' = [gpu EXCEPT ![job.engine] = [gpu[job.engine] EXCEPT !.buffers = b]]
    BY <1>8 DEF InitInputs, set_engine
  <2>2. /\ UNCHANGED trt
        /\ \E s \in {"validate", "failed"} : job' = [job EXCEPT !.step = s]
    BY <1>8 DEF InitInputs, go
  <2>3. gpu[job.engine] \in EngineStates
    BY <1>1
  <2> DEFINE state == [gpu[job.engine] EXCEPT !.buffers = b]
  <2>4. state \in EngineStates /\ (Opens => state.engine # "stale")
    BY <1>1, <2>3 DEF EngineStates
  <2> HIDE DEF state
  <2>5. gpu' = [gpu EXCEPT ![job.engine] = state]
    BY <2>1 DEF state
  <2> QED BY <1>1, <2>2, <2>4, <2>5 DEF CurrentInv, CacheTypeOK, EngineIsCurrent, Steps
<1>9. CASE ValidatePlanner \/ ValidateObsDict
  BY <1>1, <1>9 DEF CurrentInv, CacheTypeOK, EngineIsCurrent, ValidatePlanner,
                    ValidateObsDict, validates, go, Steps
<1> QED BY <1>2, <1>3, <1>4, <1>5, <1>6, <1>7, <1>8, <1>9 DEF EngineStep

(* Beginning with an engine, ending with it, giving engines back.          *)
LEMMA CurrentHandling ==
  ASSUME CurrentInv, UNCHANGED trt,
         \/ UNCHANGED gpu
         \/ \E engines \in SUBSET Engines : gpu' = released(engines)
         \/ gpu' = [e \in Engines |-> EmptyEngine],
         \/ UNCHANGED job
         \/ \E e \in Engines : BringUp(e)
         \/ job' = [job EXCEPT !.step = "idle"]
  PROVE  CurrentInv'
<1>1. /\ gpu \in [Engines -> EngineStates] /\ job \in [engine : Engines, step : Steps]
      /\ Opens => \A e \in Engines : gpu[e].engine # "stale"
  BY DEF CurrentInv, CacheTypeOK, EngineIsCurrent
<1>2. EmptyEngine \in EngineStates /\ EmptyEngine.engine # "stale"
  BY DEF EmptyEngine, EngineStates
<1>3. /\ gpu' \in [Engines -> EngineStates]
      /\ Opens => \A e \in Engines : gpu'[e].engine # "stale"
  <2>1. CASE UNCHANGED gpu
    BY <1>1, <2>1
  <2>2. CASE \E engines \in SUBSET Engines : gpu' = released(engines)
    BY <1>1, <1>2, <2>2 DEF released
  <2>3. CASE gpu' = [e \in Engines |-> EmptyEngine]
    BY <1>2, <2>3
  <2> QED BY <2>1, <2>2, <2>3
<1>4. /\ job' \in [engine : Engines, step : Steps]
      /\ job' = job \/ job'.step \in {"hash", "idle"}
  BY <1>1 DEF BringUp, Steps
<1> QED BY <1>3, <1>4 DEF CurrentInv, CacheTypeOK, EngineIsCurrent

(* What the rest of a run does to the cache.                               *)
Handling ==
  /\ UNCHANGED trt
  /\ \/ UNCHANGED gpu
     \/ \E engines \in SUBSET Engines : gpu' = released(engines)
     \/ gpu' = [e \in Engines |-> EmptyEngine]
  /\ \/ UNCHANGED job
     \/ \E e \in Engines : BringUp(e)
     \/ job' = [job EXCEPT !.step = "idle"]

LEMMA StepsHandle ==
  ASSUME Next, ~EngineWork, ~NextRun
  PROVE  Handling
<1>1. CASE UNCHANGED cache_vars
  BY <1>1 DEF Handling, cache_vars
<1>2. CASE BeginEngine
  <2>1. engine_wanted \in Engines
    BY DEF engine_wanted, Engines
  <2> QED BY <1>2, <2>1 DEF BeginEngine, Handling
<1>3. CASE EngineReady
  BY <1>3 DEF EngineReady, Handling, go, Engines
<1>4. CASE EngineFailed
  BY <1>4 DEF EngineFailed, Handling, go
<1>5. CASE FlushControl
  <2>1. gpu' = released({"encoder", "decoder"}) /\ UNCHANGED <<trt, job>>
    BY <1>5 DEF FlushControl
  <2>2. {"encoder", "decoder"} \in SUBSET Engines
    BY DEF Engines
  <2> QED BY <2>1, <2>2 DEF Handling
<1>6. CASE DestroyPlannerEngine
  <2>1. gpu' = released({"planner"}) /\ UNCHANGED <<trt, job>>
    BY <1>6 DEF DestroyPlannerEngine
  <2>2. {"planner"} \in SUBSET Engines
    BY DEF Engines
  <2> QED BY <2>1, <2>2 DEF Handling
<1>7. CASE ProcessDies
  BY <1>7 DEF ProcessDies, CacheDies, Handling
<1>8. Start => \/ UNCHANGED cache_vars \/ EngineWork \/ BeginEngine \/ EngineReady
               \/ EngineFailed
  BY DEF Start, Launch, StartStage, LoadConfig, WaitForState, ReleaseMode, StartWriter
<1>9. Stop => UNCHANGED cache_vars \/ FlushControl \/ DestroyPlannerEngine
  BY DEF Stop, StopControl, StopWriter, StopPlanner, StopInputs, StopStage, StopTee, SkipStopped
<1>10. MainLoop \/ Threads => UNCHANGED cache_vars
  BY DEF MainLoop, Threads, LowState, LowStateStale, ControlTick, LoopDies, WriterTick,
         EstopLatches, QuitSignal
<1> QED BY <1>1, <1>2, <1>3, <1>4, <1>5, <1>6, <1>7, <1>8, <1>9, <1>10 DEF Next

LEMMA CurrentInvariant == Spec => []CurrentInv
<1>1. Init => CurrentInv
  BY CurrentAtStart DEF Init
<1>2. ASSUME CurrentInv, [Next]_vars PROVE CurrentInv'
  <2>1. CASE EngineWork
    BY <1>2, <2>1, CurrentWork DEF EngineWork
  <2>2. CASE NextRun
    <3>1. /\ gpu' = [e \in Engines |-> EmptyEngine]
          /\ job' = [engine |-> "planner", step |-> "idle"]
          /\ trt' = trt \/ trt' = models_replaced
      BY <2>2 DEF NextRun
    <3>2. models_replaced \in [Engines -> FileStates]
      BY <1>2 DEF CurrentInv, CacheTypeOK, models_replaced, FileStates
    <3> QED BY <1>2, <3>1, <3>2 DEF CurrentInv, CacheTypeOK, EngineIsCurrent, EmptyEngine,
                                    EngineStates, Steps, Engines
  <2>3. CASE UNCHANGED vars
    BY <1>2, <2>3, CurrentHandling DEF vars, cache_vars
  <2>4. CASE Next /\ ~EngineWork /\ ~NextRun
    BY <1>2, <2>4, StepsHandle, CurrentHandling DEF Handling
  <2> QED BY <1>2, <2>1, <2>2, <2>3, <2>4
<1> QED BY <1>1, <1>2, PTL DEF Spec

(* Where a file can always be opened, an engine in use was built from the  *)
(* model beside it, across any crashes, full disks and replaced models     *)
(* (ConvertONNXToTRT).                                                     *)
THEOREM EnginesAreCurrent ==
  ASSUME "open" \notin DiskFaults
  PROVE  Spec => []EngineIsCurrent
<1>1. CurrentInv => EngineIsCurrent
  BY DEF CurrentInv, Opens
<1> QED BY <1>1, CurrentInvariant, PTL

-----------------------------------------------------------------------------
(* Loops have their engines                                                *)

(* Which loops may live where, in start() and in stop().                   *)
OrderInv ==
  /\ phase = "off" => at = 1 /\ live = {}
  /\ phase = "up" => at = 1
  /\ phase = "starting" => /\ at \in 1..16 /\ "control" \notin live
                           /\ at <= 11 => "planner" \notin live
  /\ phase = "stopping" => /\ at \in 1..17
                           /\ at > 1 => "control" \notin live
                           /\ at > 9 => "planner" \notin live
  /\ \A t \in {"control", "planner"} : t \in live => t \in started

(* What is being brought up belongs to the stage of start(), and the       *)
(* decoder comes after an encoder that is ready.                           *)
JobInv ==
  /\ job.step # "idle" => /\ phase = "starting"
                          /\ \/ at = 11 /\ job.engine = "planner"
                             \/ at = 16 /\ job.engine \in {"encoder", "decoder"}
  /\ phase \in {"off", "starting"} /\ job.step = "idle" => job.engine = "planner"
  /\ job.step = "buffers" => gpu[job.engine].engine # "none"
  /\ job.step \in {"validate", "ready"} => usable(job.engine)
  /\ job.step # "idle" /\ job.engine = "decoder" => usable("encoder")

LifeInv == OrderInv /\ JobInv /\ LoopsHaveEngines

core == <<phase, at, live, started, gpu, job>>

LEMMA LifeAtStart == Init => LifeInv
  BY DEF Init, NewProcess, CacheInit, LifeInv, OrderInv, JobInv, LoopsHaveEngines, usable

LEMMA LifeQuiet == LifeInv /\ UNCHANGED core => LifeInv'
  BY DEF core, LifeInv, OrderInv, JobInv, LoopsHaveEngines, usable

(* One step of a bring-up: the engine it changes is no living loop's.      *)
LEMMA LifeWork ==
  ASSUME CacheTypeOK, LifeInv, EngineWork
  PROVE  LifeInv'
<1>1. /\ gpu \in [Engines -> EngineStates] /\ job \in [engine : Engines, step : Steps]
      /\ {"planner", "encoder", "decoder"} = Engines /\ job.engine \in Engines
  BY DEF CacheTypeOK, Engines
<1>2. EngineStep /\ UNCHANGED <<phase, at, live, started>>
  BY DEF EngineWork, process_vars
<1>3. /\ job.step \notin {"idle", "ready", "failed"}
      /\ job'.engine = job.engine /\ job'.step # "idle"
      /\ \A e \in Engines : e # job.engine => gpu'[e] = gpu[e]
      /\ job'.step = "buffers" => gpu'[job.engine].engine # "none"
      /\ job'.step \in {"validate", "ready"} =>
           gpu'[job.engine].engine # "none" /\ gpu'[job.engine].buffers = "all"
  <2>1. CASE CheckHash \/ BuildEngine \/ OpenFile \/ WriteHash \/ WriteEngine
    BY <1>1, <2>1 DEF CheckHash, BuildEngine, OpenFile, WriteHash, WriteEngine, go
  <2>2. CASE LoadEngine
    BY <1>1, <2>2 DEF LoadEngine, go, set_engine
  <2>3. CASE InitInputs
    <3>1. gpu[job.engine] \in EngineStates /\ gpu[job.engine].engine # "none"
      BY <1>1, <2>3 DEF LifeInv, JobInv, InitInputs
    <3>2. PICK b \in {"all", "part"}, step \in {"validate", "failed"} :
            /\ gpu' = [gpu EXCEPT ![job.engine] = [gpu[job.engine] EXCEPT !.buffers = b]]
            /\ job' = [job EXCEPT !.step = step]
            /\ step = "validate" => b = "all"
      BY <2>3 DEF InitInputs, go, set_engine
    <3> DEFINE state == [gpu[job.engine] EXCEPT !.buffers = b]
    <3>3. state.engine # "none" /\ state.buffers = b
      BY <3>1 DEF EngineStates
    <3> HIDE DEF state
    <3>4. gpu' = [gpu EXCEPT ![job.engine] = state]
      BY <3>2 DEF state
    <3>5. job.step = "buffers"
      BY <2>3 DEF InitInputs
    <3> QED BY <1>1, <3>2, <3>3, <3>4, <3>5
  <2>4. CASE ValidatePlanner \/ ValidateObsDict
    BY <1>1, <2>4 DEF ValidatePlanner, ValidateObsDict, validates, go, LifeInv, JobInv, usable
  <2> QED BY <1>2, <2>1, <2>2, <2>3, <2>4 DEF EngineStep
<1>4. /\ phase = "starting" /\ "control" \notin live
      /\ job.engine = "planner" => "planner" \notin live
      /\ job.engine = "decoder" => usable("encoder")
  BY <1>3 DEF LifeInv, OrderInv, JobInv
<1>5. OrderInv'
  BY <1>2 DEF LifeInv, OrderInv
<1>6. JobInv'
  BY <1>1, <1>2, <1>3, <1>4 DEF LifeInv, JobInv, usable
<1>7. LoopsHaveEngines'
  BY <1>1, <1>2, <1>3, <1>4 DEF LifeInv, LoopsHaveEngines, usable
<1> QED BY <1>5, <1>6, <1>7 DEF LifeInv

(* A stage of start() without an engine: on to the next one, or out.       *)
LEMMA LifePlainStage ==
  ASSUME LifeInv, phase = "starting", at \in 1..16, at \notin {11, 16},
         live' \cap {"control", "planner"} = live \cap {"control", "planner"},
         started \subseteq started', UNCHANGED <<gpu, job>>,
         \/ phase' = "starting" /\ at' = at + 1
         \/ phase' = "exited"
         \/ phase' = "stopping" /\ at' = 1
  PROVE  LifeInv'
<1>1. job.step = "idle" /\ job.engine = "planner"
  BY DEF LifeInv, JobInv
<1>2. OrderInv'
  <2>1. phase' = "starting" => at' \in 1..16 /\ (at' <= 11 => at <= 11)
    OBVIOUS
  <2> QED BY <2>1 DEF LifeInv, OrderInv
<1>3. JobInv' /\ LoopsHaveEngines'
  BY <1>1 DEF LifeInv, JobInv, LoopsHaveEngines, usable
<1> QED BY <1>2, <1>3 DEF LifeInv

(* The steps of start().                                                   *)
LEMMA LifeStart ==
  ASSUME CacheTypeOK, LifeInv, Start, ~EngineWork
  PROVE  LifeInv'
<1>1. /\ gpu \in [Engines -> EngineStates] /\ job \in [engine : Engines, step : Steps]
      /\ {"planner", "encoder", "decoder"} = Engines
  BY DEF CacheTypeOK, Engines
<1>2. \A i \in 1..16 : /\ StartOrder[i] = "planner" <=> i = 11
                       /\ StartOrder[i] = "control" <=> i = 16
  BY Stages
<1>3. CASE Launch
  BY <1>3 DEF Launch, cache_vars, LifeInv, OrderInv, JobInv, LoopsHaveEngines, usable
<1>4. CASE StartStage
  <2>1. /\ phase = "starting" /\ at \in 1..16 /\ at \notin {11, 16}
        /\ stage \notin {"planner", "control"}
    BY <1>2, <1>4 DEF StartStage, stage, Plain, LifeInv, OrderInv
  <2>2. /\ live' \cap {"control", "planner"} = live \cap {"control", "planner"}
        /\ started \subseteq started' /\ UNCHANGED <<gpu, job>>
    BY <1>4, <2>1 DEF StartStage, comes_up, threads_of, keeps_subscription, cache_vars
  <2>3. \/ phase' = "starting" /\ at' = at + 1
        \/ phase' = "exited"
        \/ phase' = "stopping" /\ at' = 1
    BY <1>4, <2>1 DEF StartStage, next_stage, give_up, roll_back
  <2> QED BY <2>1, <2>2, <2>3, LifePlainStage
<1>5. CASE LoadConfig \/ WaitForState
  <2>1. /\ phase = "starting" /\ at \in 1..16 /\ at \notin {11, 16}
    BY <1>2, <1>5 DEF LoadConfig, WaitForState, starting, stage, LifeInv, OrderInv
  <2>2. UNCHANGED <<live, started, gpu, job>>
    BY <1>5 DEF LoadConfig, WaitForState, cache_vars
  <2>3. \/ phase' = "starting" /\ at' = at + 1
        \/ phase' = "exited"
        \/ phase' = "stopping" /\ at' = 1
    BY <1>5, <2>1 DEF LoadConfig, WaitForState, next_stage, give_up, roll_back
  <2> QED BY <2>1, <2>2, <2>3, LifePlainStage
<1>6. CASE BeginEngine
  <2>1. /\ phase = "starting" /\ at \in {11, 16} /\ job.step = "idle" /\ job.engine = "planner"
        /\ stage = "planner" <=> at = 11
    BY <1>2, <1>6 DEF BeginEngine, EngineStages, stage, LifeInv, OrderInv, JobInv
  <2>2. /\ UNCHANGED <<phase, at, live, started, gpu>>
        /\ job' = [engine |-> engine_wanted, step |-> "hash"]
    BY <1>6 DEF BeginEngine, BringUp, process_vars
  <2>3. engine_wanted = IF at = 11 THEN "planner" ELSE "encoder"
    <3>1. stage = "planner" \/ stage = "control"
      BY <1>6 DEF BeginEngine, EngineStages
    <3>2. CASE stage = "planner"
      BY <2>1, <3>2 DEF engine_wanted, starting
    <3>3. CASE stage = "control"
      <4>1. starting("control") /\ job.engine # "decoder" /\ ~starting("planner")
        BY <2>1, <3>3 DEF starting
      <4>2. engine_wanted = "encoder"
        BY <4>1 DEF engine_wanted
      <4> QED BY <2>1, <3>3, <4>2
    <3> QED BY <3>1, <3>2, <3>3
  <2> QED BY <2>1, <2>2, <2>3 DEF LifeInv, OrderInv, JobInv, LoopsHaveEngines, usable
<1>7. CASE EngineReady
  <2>1. /\ phase = "starting" /\ usable(job.engine) /\ job.step = "ready"
        /\ \/ at = 11 /\ job.engine = "planner" /\ stage = "planner"
           \/ at = 16 /\ job.engine \in {"encoder", "decoder"} /\ stage = "control"
        /\ job.engine = "decoder" => usable("encoder")
    BY <1>2, <1>7 DEF EngineReady, EngineStages, stage, LifeInv, OrderInv, JobInv
  <2>2. CASE job.engine = "encoder"
    BY <1>7, <2>1, <2>2 DEF EngineReady, BringUp, LifeInv, OrderInv, JobInv, LoopsHaveEngines,
                            usable
  <2>3. CASE job.engine = "planner"
    <3>1. /\ live' = live \cup {"planner"} /\ started' = started \cup {"planner"}
          /\ at' = 12 /\ UNCHANGED <<phase, gpu>> /\ job' = [job EXCEPT !.step = "idle"]
      BY <1>7, <2>1, <2>3 DEF EngineReady, go, comes_up, threads_of, Flags, next_stage
    <3> QED BY <1>1, <2>1, <2>3, <3>1 DEF LifeInv, OrderInv, JobInv, LoopsHaveEngines, usable
  <2>4. CASE job.engine = "decoder"
    <3>1. /\ live' = live \cup {"control"} /\ started' = started \cup {"control"}
          /\ at' = 1 /\ phase' = "up" /\ UNCHANGED gpu /\ job' = [job EXCEPT !.step = "idle"]
      BY <1>7, <2>1, <2>4 DEF EngineReady, go, comes_up, threads_of, Flags
    <3> QED BY <1>1, <2>1, <2>4, <3>1 DEF LifeInv, OrderInv, JobInv, LoopsHaveEngines, usable
  <2> QED BY <2>1, <2>2, <2>3, <2>4
<1>8. CASE EngineFailed
  <2>1. /\ phase' = "stopping" /\ at' = 1 /\ UNCHANGED <<live, started, gpu>>
        /\ job'.step = "idle"
    BY <1>1, <1>8 DEF EngineFailed, roll_back, go
  <2> QED BY <2>1 DEF LifeInv, OrderInv, JobInv, LoopsHaveEngines, usable
<1>9. CASE ReleaseMode
  BY <1>9, LifeQuiet DEF ReleaseMode, core, cache_vars
<1>10. CASE StartWriter
  <2>1. /\ phase = "starting" /\ at \in 1..16 /\ at \notin {11, 16}
    BY <1>2, <1>10 DEF StartWriter, starting, stage, LifeInv, OrderInv
  <2>2. /\ live' \cap {"control", "planner"} = live \cap {"control", "planner"}
        /\ started \subseteq started' /\ UNCHANGED <<gpu, job>>
    BY <1>10 DEF StartWriter, comes_up, threads_of, cache_vars
  <2>3. \/ phase' = "starting" /\ at' = at + 1
        \/ phase' = "stopping" /\ at' = 1
    BY <1>10, <2>1 DEF StartWriter, next_stage, roll_back
  <2> QED BY <2>1, <2>2, <2>3, LifePlainStage
<1> QED BY <1>3, <1>4, <1>5, <1>6, <1>7, <1>8, <1>9, <1>10 DEF Start

(* The steps of stop().                                                    *)
LEMMA LifeStop ==
  ASSUME CacheTypeOK, LifeInv, Stop
  PROVE  LifeInv'
<1>1. /\ phase = "stopping" /\ at \in 1..17 /\ job.step = "idle"
      /\ at > 1 => "control" \notin live
      /\ at > 9 => "planner" \notin live
  <2>1. phase = "stopping"
    BY DEF Stop, StopControl, FlushControl, StopWriter, StopPlanner, DestroyPlannerEngine,
           StopInputs, StopStage, StopTee, stopping
  <2> QED BY <2>1 DEF LifeInv, OrderInv, JobInv
<1>2. /\ Len(StopOrder) = 17
      /\ StopOrder[at] = "control" <=> at = 1
      /\ StopOrder[at] = "control_engines" <=> at = 2
      /\ StopOrder[at] = "planner" <=> at = 9
      /\ StopOrder[at] = "planner_engine" <=> at = 10
      /\ StopOrder[at] = "tee" <=> at = 17
  BY <1>1, Stages
(* A stage takes something down, or has nothing to take down, and the next *)
(* one has its turn.                                                       *)
<1>3. ASSUME live' \subseteq live, UNCHANGED <<phase, gpu, job>>, at' = at + 1, at # 17,
             at = 1 => "control" \notin live',
             at = 9 => "planner" \notin live',
             \A t \in {"control", "planner"} : t \in started \ started' => t \notin live'
      PROVE  LifeInv'
  <2>1. at' \in 1..17 /\ (at' > 1 => at = 1 \/ at > 1) /\ (at' > 9 => at = 9 \/ at > 9)
    BY <1>1, <1>3
  <2>2. OrderInv'
    BY <1>1, <1>3, <2>1 DEF LifeInv, OrderInv
  <2>3. JobInv' /\ LoopsHaveEngines'
    BY <1>1, <1>3 DEF LifeInv, JobInv, LoopsHaveEngines, usable
  <2> QED BY <2>2, <2>3 DEF LifeInv
<1>4. CASE StopControl
  <2>1. /\ at = 1 /\ live' = live \ {"control"} /\ at' = at + 1
        /\ UNCHANGED <<phase, started, gpu, job>>
    BY <1>2, <1>4 DEF StopControl, stopping, next_stage, cache_vars
  <2> QED BY <1>3, <2>1
<1>5. CASE FlushControl
  <2>1. /\ at = 2 /\ live' \subseteq live /\ at' = at + 1 /\ started' = started \ {"control"}
        /\ UNCHANGED <<phase, job>> /\ "control" \notin live
        /\ gpu' = released({"encoder", "decoder"})
    BY <1>1, <1>2, <1>5 DEF FlushControl, stopping, goes_down, next_stage
  <2>2. gpu'["planner"] = gpu["planner"]
    BY <2>1 DEF released, Engines
  <2> QED BY <1>1, <2>1, <2>2 DEF LifeInv, OrderInv, JobInv, LoopsHaveEngines, usable
<1>6. CASE DestroyPlannerEngine
  <2>1. /\ at = 10 /\ live' \subseteq live /\ at' = at + 1 /\ started' = started \ {"planner"}
        /\ UNCHANGED <<phase, job>> /\ "control" \notin live /\ "planner" \notin live
    BY <1>1, <1>2, <1>6 DEF DestroyPlannerEngine, stopping, goes_down, next_stage
  <2> QED BY <1>1, <2>1 DEF LifeInv, OrderInv, JobInv, LoopsHaveEngines, usable
<1>7. CASE StopPlanner
  <2>1. /\ at = 9 /\ live' = live \ {"planner"} /\ at' = at + 1
        /\ UNCHANGED <<phase, started, gpu, job>>
    BY <1>2, <1>7 DEF StopPlanner, stopping, next_stage, cache_vars
  <2> QED BY <1>3, <2>1
<1>8. CASE StopWriter
  <2>1. /\ StopOrder[at] = "writer" /\ live' \subseteq live /\ at' = at + 1
        /\ started' = started \ {"writer"} /\ UNCHANGED <<phase, gpu, job>>
    BY <1>8 DEF StopWriter, stopping, goes_down, next_stage, cache_vars
  <2>2. at \notin {1, 9, 17}
    BY <1>2, <2>1
  <2> QED BY <1>3, <2>1, <2>2
<1>9. CASE StopInputs
  <2>1. /\ StopOrder[at] = "inputs" /\ live' \subseteq live /\ at' = at + 1
        /\ UNCHANGED <<phase, started, gpu, job>>
    BY <1>9 DEF StopInputs, stopping, next_stage, cache_vars
  <2>2. at \notin {1, 9, 17}
    BY <1>2, <2>1
  <2> QED BY <1>3, <2>1, <2>2
<1>10. CASE StopStage
  <2>1. PICK s \in Plain \ {"tee"} :
          /\ StopOrder[at] = s /\ live' \subseteq live /\ at' = at + 1
          /\ started' = started \ {s} /\ UNCHANGED <<phase, gpu, job>>
    BY <1>10 DEF StopStage, stopping, goes_down, next_stage, cache_vars
  <2>2. s \notin {"control", "planner", "tee"}
    BY <2>1 DEF Plain
  <2>3. at \notin {1, 9, 17}
    BY <1>2, <2>1, <2>2
  <2> QED BY <1>3, <2>1, <2>2, <2>3
<1>11. CASE StopTee
  <2>1. /\ phase' = "exited" /\ live' \subseteq live /\ UNCHANGED <<started, gpu, job>>
    BY <1>11 DEF StopTee, cache_vars
  <2> QED BY <1>1, <2>1 DEF LifeInv, OrderInv, JobInv, LoopsHaveEngines, usable
<1>12. CASE StopOrder[at] # "tee" /\ SkipStopped(StopOrder[at], flag_of(StopOrder[at]))
  <2>1. /\ at # 17 /\ at' = at + 1 /\ flag_of(StopOrder[at]) \notin started
        /\ UNCHANGED <<phase, live, started, gpu, job>>
    BY <1>2, <1>12 DEF SkipStopped, next_stage, cache_vars
  <2>2. /\ at = 1 => "control" \notin started
        /\ at = 9 => "planner" \notin started
    <3>1. flag_of("control") = "control" /\ flag_of("planner") = "planner"
      BY DEF flag_of
    <3> QED BY <1>2, <2>1, <3>1
  <2>3. \A t \in {"control", "planner"} : t \notin started => t \notin live
    BY DEF LifeInv, OrderInv
  <2> QED BY <1>3, <2>1, <2>2, <2>3
<1> QED BY <1>4, <1>5, <1>6, <1>7, <1>8, <1>9, <1>10, <1>11, <1>12 DEF Stop

(* main, the threads, a death and the next run.                            *)
LEMMA LifeRest ==
  ASSUME CacheTypeOK, LifeInv, MainLoop \/ Threads \/ ProcessDies \/ NextRun
  PROVE  LifeInv'
<1>1. CASE MainLoop
  <2>1. phase = "up" /\ phase' = "stopping" /\ UNCHANGED <<at, live, started, gpu, job>>
    BY <1>1 DEF MainLoop, cache_vars
  <2> QED BY <2>1 DEF LifeInv, OrderInv, JobInv, LoopsHaveEngines, usable
<1>2. CASE LoopDies
  <2>1. /\ live' \subseteq live /\ UNCHANGED <<phase, at, started, gpu, job>>
    BY <1>2 DEF LoopDies, cache_vars
  <2> QED BY <2>1 DEF LifeInv, OrderInv, JobInv, LoopsHaveEngines, usable
<1>3. CASE LowState \/ LowStateStale \/ ControlTick \/ WriterTick \/ EstopLatches \/ QuitSignal
  <2>1. UNCHANGED core
    BY <1>3 DEF LowState, LowStateStale, ControlTick, WriterTick, EstopLatches, QuitSignal,
                process_vars, cache_vars, core
  <2> QED BY <2>1, LifeQuiet
<1>4. CASE ProcessDies
  <2>1. phase' = "exited" /\ live' = {} /\ started' = {} /\ job'.step = "idle"
    BY <1>4 DEF ProcessDies, CacheDies, CacheTypeOK
  <2> QED BY <2>1 DEF LifeInv, OrderInv, JobInv, LoopsHaveEngines, usable
<1>5. CASE NextRun
  <2>1. /\ phase' = "off" /\ at' = 1 /\ live' = {} /\ started' = {}
        /\ job' = [engine |-> "planner", step |-> "idle"]
    BY <1>5 DEF NextRun
  <2> QED BY <2>1 DEF LifeInv, OrderInv, JobInv, LoopsHaveEngines, usable
<1> QED BY <1>1, <1>2, <1>3, <1>4, <1>5 DEF Threads

LEMMA LifeInvariant == Spec => []LifeInv
<1>1. Init => LifeInv
  BY LifeAtStart
<1>2. CurrentInv /\ LifeInv /\ [Next]_vars => LifeInv'
  <2> SUFFICES ASSUME CurrentInv, LifeInv, [Next]_vars PROVE LifeInv'
    OBVIOUS
  <2>1. CacheTypeOK
    BY DEF CurrentInv
  <2>2. CASE EngineWork
    BY <2>1, <2>2, LifeWork
  <2>3. CASE Start /\ ~EngineWork
    BY <2>1, <2>3, LifeStart
  <2>4. CASE Stop
    BY <2>1, <2>4, LifeStop
  <2>5. CASE MainLoop \/ Threads \/ ProcessDies \/ NextRun
    BY <2>1, <2>5, LifeRest
  <2>6. CASE UNCHANGED vars
    BY <2>6, LifeQuiet DEF vars, process_vars, cache_vars, core
  <2> QED BY <2>2, <2>3, <2>4, <2>5, <2>6 DEF Next
<1> QED BY <1>1, <1>2, CurrentInvariant, PTL DEF Spec

(* A planner or control loop that lives has every engine it runs fully up: *)
(* neither a bring-up that stopped half way nor a stop() that releases     *)
(* leaves it without (PlannerInference and WholeBodyController, start and  *)
(* stop).                                                                  *)
THEOREM LoopsAlwaysHaveEngines == Spec => []LoopsHaveEngines
<1>1. LifeInv => LoopsHaveEngines
  BY DEF LifeInv
<1> QED BY <1>1, LifeInvariant, PTL

-----------------------------------------------------------------------------
(* The robot ends damped                                                   *)

(* What the wire has said, by where the writer stands: nothing before it   *)
(* started, no pose once stop() has taken it down.                         *)
WireInv ==
  /\ "writer" \in live => "writer" \in started
  /\ phase = "off" => wire.cmd = "none" /\ started = {} /\ result = "none"
  /\ phase = "starting" => result = "none" /\ ("writer" \in started <=> at > 12)
  /\ phase = "up" => result = "ok"
  /\ \/ phase = "starting"
     \/ phase = "stopping" /\ at <= 6
     => "writer" \in started \/ wire.cmd = "none"
  /\ phase = "up" \/ (phase = "stopping" /\ at <= 6 /\ result = "ok") => "writer" \in started
  /\ phase = "stopping" => result \in {"ok", "failed"}
  /\ phase = "exited" \/ (phase = "stopping" /\ at > 6) =>
       /\ "writer" \notin live
       /\ result = "ok" => wire.cmd = "damping"
       /\ result = "failed" => wire.cmd # "pose"

wire_core == <<phase, at, result, live, started, wire>>

LEMMA WireAtStart == Init => WireInv
  BY DEF Init, NewProcess, WireInv

LEMMA WireQuiet == WireInv /\ UNCHANGED wire_core => WireInv'
  BY DEF WireInv, wire_core

(* The steps of start(): the writer's flag goes up with the writer, and    *)
(* only stages before it give up without a stop().                         *)
LEMMA WireStart ==
  ASSUME OrderInv, JobInv, WireInv, Start
  PROVE  WireInv'
<1>1. /\ \A i \in 1..16 : /\ StartOrder[i] = "planner" <=> i = 11
                          /\ StartOrder[i] = "control" <=> i = 16
                          /\ StartOrder[i] = "writer" <=> i = 12
                          /\ StartOrder[i] = "config" <=> i = 2
                          /\ StartOrder[i] = "vr" <=> i = 3
  BY Stages
<1>2. ASSUME phase = "starting", at \in 1..16, UNCHANGED wire,
             "writer" \in live' => "writer" \in live \/ (at = 12 /\ "writer" \in started'),
             "writer" \in started' <=> "writer" \in started \/ (at = 12 /\ at' = 13),
             \/ phase' = "starting" /\ at' = at + 1 /\ UNCHANGED result
             \/ phase' = "exited" /\ result' = "failed" /\ at < 12
             \/ phase' = "stopping" /\ at' = 1 /\ result' = "failed"
             \/ phase' = "up" /\ result' = "ok" /\ at = 16
      PROVE  WireInv'
  <2>1. /\ "writer" \in live => "writer" \in started
        /\ "writer" \in started <=> at > 12
        /\ "writer" \in started \/ wire.cmd = "none"
        /\ result = "none"
    BY <1>2 DEF WireInv
  <2>2. CASE phase' = "starting" /\ at' = at + 1 /\ UNCHANGED result
    BY <1>2, <2>1, <2>2 DEF WireInv
  <2>3. CASE phase' = "exited" /\ result' = "failed" /\ at < 12
    <3>1. "writer" \notin started /\ "writer" \notin live' /\ wire'.cmd = "none"
      BY <1>2, <2>1, <2>3
    <3> QED BY <2>3, <3>1 DEF WireInv
  <2>4. CASE phase' = "stopping" /\ at' = 1 /\ result' = "failed"
    BY <1>2, <2>1, <2>4 DEF WireInv
  <2>5. CASE phase' = "up" /\ result' = "ok" /\ at = 16
    BY <1>2, <2>1, <2>5 DEF WireInv
  <2> QED BY <1>2, <2>2, <2>3, <2>4, <2>5
<1>3. phase = "starting" => at \in 1..16
  BY DEF OrderInv
<1>4. CASE Launch
  BY <1>4 DEF Launch, wire_vars, WireInv, OrderInv
<1>5. CASE StartStage
  <2>1. /\ phase = "starting" /\ at \in 1..16 /\ stage \in Plain
        /\ at \notin {11, 12, 16}
    BY <1>1, <1>3, <1>5 DEF StartStage, stage, Plain
  <2>2. /\ UNCHANGED wire
        /\ "writer" \in live' <=> "writer" \in live
        /\ "writer" \in started' <=> "writer" \in started
    BY <1>5, <2>1 DEF StartStage, comes_up, threads_of, keeps_subscription, wire_vars, Plain
  <2>3. \/ phase' = "starting" /\ at' = at + 1 /\ UNCHANGED result
        \/ phase' = "exited" /\ result' = "failed" /\ stage \in NoRollback
        \/ phase' = "stopping" /\ at' = 1 /\ result' = "failed"
    BY <1>5, <2>1 DEF StartStage, next_stage, give_up, roll_back
  <2>4. stage \in NoRollback => at < 12
    BY <1>1, <2>1 DEF stage, NoRollback
  <2> QED BY <1>2, <2>1, <2>2, <2>3, <2>4
<1>6. CASE LoadConfig \/ WaitForState
  <2>1. /\ phase = "starting" /\ at \in 1..16 /\ at \notin {11, 12, 16}
        /\ LoadConfig => at < 12
    BY <1>1, <1>3, <1>6 DEF LoadConfig, WaitForState, starting, stage
  <2>2. UNCHANGED <<wire, live, started>>
    BY <1>6 DEF LoadConfig, WaitForState, wire_vars
  <2>3. \/ phase' = "starting" /\ at' = at + 1 /\ UNCHANGED result
        \/ phase' = "exited" /\ result' = "failed" /\ LoadConfig
        \/ phase' = "stopping" /\ at' = 1 /\ result' = "failed"
    BY <1>6, <2>1 DEF LoadConfig, WaitForState, next_stage, give_up, roll_back
  <2> QED BY <1>2, <2>1, <2>2, <2>3
<1>7. CASE BeginEngine \/ EngineWork \/ ReleaseMode
  <2>1. UNCHANGED wire_core
    BY <1>7 DEF BeginEngine, EngineWork, ReleaseMode, process_vars, wire_vars, wire_core
  <2> QED BY <2>1, WireQuiet
<1>8. CASE EngineReady
  <2>1. CASE job.engine = "encoder"
    <3>1. UNCHANGED wire_core
      BY <1>8, <2>1 DEF EngineReady, wire_vars, wire_core
    <3> QED BY <3>1, WireQuiet
  <2>2. CASE job.engine # "encoder"
    <3>1. /\ phase = "starting" /\ at \in {11, 16} /\ (stage = "control" <=> at = 16)
          /\ stage \in {"planner", "control"}
      BY <1>1, <1>3, <1>8 DEF EngineReady, EngineStages, stage, JobInv
    <3>2. /\ UNCHANGED wire
          /\ "writer" \in live' <=> "writer" \in live
          /\ "writer" \in started' <=> "writer" \in started
      BY <1>8, <2>2, <3>1 DEF EngineReady, comes_up, threads_of, wire_vars
    <3>3. \/ phase' = "starting" /\ at' = at + 1 /\ UNCHANGED result
          \/ phase' = "up" /\ result' = "ok" /\ at = 16
      BY <1>8, <2>2, <3>1 DEF EngineReady, next_stage
    <3> QED BY <1>2, <3>1, <3>2, <3>3
  <2> QED BY <2>1, <2>2
<1>9. CASE EngineFailed
  <2>1. /\ phase = "starting" /\ phase' = "stopping" /\ at' = 1 /\ result' = "failed"
        /\ UNCHANGED <<live, started, wire>>
    BY <1>9 DEF EngineFailed, roll_back, wire_vars
  <2> QED BY <1>2, <1>3, <2>1
<1>10. CASE StartWriter
  <2>1. phase = "starting" /\ at = 12
    BY <1>1, <1>3, <1>10 DEF StartWriter, starting, stage
  <2>2. UNCHANGED wire
    BY <1>10 DEF StartWriter, wire_vars
  <2>3. \/ /\ started' = started \cup {"writer"}
           /\ phase' = "starting" /\ at' = at + 1 /\ UNCHANGED result
        \/ /\ phase' = "stopping" /\ at' = 1 /\ result' = "failed"
           /\ UNCHANGED <<live, started>>
    BY <1>10, <2>1 DEF StartWriter, comes_up, Flags, next_stage, roll_back
  <2> QED BY <1>2, <2>1, <2>2, <2>3
<1> QED BY <1>4, <1>5, <1>6, <1>7, <1>8, <1>9, <1>10 DEF Start

(* The steps of stop(): the writer's stage sends its burst, or the writer  *)
(* never came up.                                                          *)
LEMMA WireStop ==
  ASSUME OrderInv, WireInv, Stop
  PROVE  WireInv'
<1>1. phase = "stopping" /\ at \in 1..17
  <2>1. phase = "stopping"
    BY DEF Stop, StopControl, FlushControl, StopWriter, StopPlanner, DestroyPlannerEngine,
           StopInputs, StopStage, StopTee, stopping
  <2> QED BY <2>1 DEF OrderInv
<1>2. /\ Len(StopOrder) = 17
      /\ StopOrder[at] = "writer" <=> at = 6
      /\ StopOrder[at] = "tee" <=> at = 17
  BY <1>1, Stages
<1>3. /\ "writer" \in live => "writer" \in started
      /\ at <= 6 => /\ "writer" \in started \/ wire.cmd = "none"
                    /\ result = "ok" => "writer" \in started
      /\ result \in {"ok", "failed"}
      /\ at > 6 => /\ "writer" \notin live
                   /\ result = "ok" => wire.cmd = "damping"
                   /\ result = "failed" => wire.cmd # "pose"
  BY <1>1 DEF WireInv
<1>4. ASSUME live' \subseteq live, UNCHANGED <<phase, result, wire>>, at' = at + 1, at # 6,
             "writer" \in started => "writer" \in started'
      PROVE  WireInv'
  <2>1. (at' <= 6 => at <= 6) /\ (at' > 6 => at > 6)
    BY <1>1, <1>4
  <2> QED BY <1>1, <1>3, <1>4, <2>1 DEF WireInv
<1>5. CASE StopControl \/ FlushControl \/ StopPlanner \/ DestroyPlannerEngine \/ StopInputs
           \/ StopStage
  <2>1. /\ live' \subseteq live /\ UNCHANGED <<phase, result, wire>> /\ at' = at + 1
        /\ StopOrder[at] # "writer" /\ ("writer" \in started => "writer" \in started')
    <3>1. CASE StopControl \/ StopPlanner \/ StopInputs
      BY <3>1 DEF StopControl, StopPlanner, StopInputs, stopping, next_stage, wire_vars
    <3>2. CASE FlushControl \/ DestroyPlannerEngine
      BY <3>2 DEF FlushControl, DestroyPlannerEngine, stopping, goes_down, next_stage, wire_vars
    <3>3. CASE StopStage
      BY <3>3 DEF StopStage, stopping, goes_down, next_stage, wire_vars, Plain
    <3> QED BY <1>5, <3>1, <3>2, <3>3
  <2> QED BY <1>2, <1>4, <2>1
<1>6. CASE StopWriter
  <2>1. /\ at = 6 /\ live' = live \ {"writer"} /\ UNCHANGED <<phase, result>> /\ at' = 7
        /\ wire' = [cmd |-> "damping", machine |-> state_buf]
    BY <1>2, <1>6 DEF StopWriter, stopping, goes_down, threads_of, next_stage, publish
  <2> QED BY <1>1, <1>3, <2>1 DEF WireInv
<1>7. CASE StopTee
  <2>1. /\ at = 17 /\ phase' = "exited" /\ live' \subseteq live
        /\ UNCHANGED <<at, result, started, wire>>
    BY <1>2, <1>7 DEF StopTee, stopping, wire_vars
  <2> QED BY <1>1, <1>3, <2>1 DEF WireInv
<1>8. CASE StopOrder[at] # "tee" /\ SkipStopped(StopOrder[at], flag_of(StopOrder[at]))
  <2>1. /\ at' = at + 1 /\ flag_of(StopOrder[at]) \notin started
        /\ UNCHANGED <<phase, result, live, started, wire>>
    BY <1>8 DEF SkipStopped, next_stage, wire_vars
  <2>2. CASE at = 6
    <3>1. "writer" \notin started
      BY <1>2, <2>1, <2>2 DEF flag_of
    <3> QED BY <1>1, <1>3, <2>1, <2>2, <3>1 DEF WireInv
  <2>3. CASE at # 6
    BY <1>4, <2>1, <2>3
  <2> QED BY <2>2, <2>3
<1> QED BY <1>5, <1>6, <1>7, <1>8 DEF Stop

(* main, the threads, a death and the next run.                            *)
LEMMA WireRest ==
  ASSUME OrderInv, WireInv, MainLoop \/ Threads \/ ProcessDies \/ NextRun
  PROVE  WireInv'
<1>1. CASE MainLoop
  <2>1. phase = "up" /\ phase' = "stopping" /\ UNCHANGED <<at, result, live, started, wire>>
    BY <1>1 DEF MainLoop, wire_vars
  <2> QED BY <2>1 DEF WireInv, OrderInv
<1>2. CASE WriterTick
  <2>1. "writer" \in live /\ UNCHANGED <<phase, at, result, live, started>>
    BY <1>2 DEF WriterTick, process_vars
  <2> QED BY <2>1 DEF WireInv, OrderInv
<1>3. CASE LoopDies
  <2>1. live' \subseteq live /\ UNCHANGED <<phase, at, result, started, wire>>
    BY <1>3 DEF LoopDies, wire_vars
  <2> QED BY <2>1 DEF WireInv
<1>4. CASE LowState \/ LowStateStale \/ ControlTick \/ EstopLatches \/ QuitSignal
  <2>1. UNCHANGED wire_core
    BY <1>4 DEF LowState, LowStateStale, ControlTick, EstopLatches, QuitSignal, process_vars,
                wire_vars, wire_core
  <2> QED BY <2>1, WireQuiet
<1>5. CASE ProcessDies
  <2>1. phase' = "exited" /\ live' = {} /\ result' = "none"
    BY <1>5 DEF ProcessDies
  <2> QED BY <2>1 DEF WireInv
<1>6. CASE NextRun
  <2>1. /\ phase' = "off" /\ live' = {} /\ started' = {} /\ result' = "none"
        /\ wire' = [cmd |-> "none", machine |-> FALSE]
    BY <1>6 DEF NextRun
  <2> QED BY <2>1 DEF WireInv
<1> QED BY <1>1, <1>2, <1>3, <1>4, <1>5, <1>6 DEF Threads

LEMMA WireInvariant == Spec => []WireInv
<1>1. Init => WireInv
  BY WireAtStart
<1>2. LifeInv /\ WireInv /\ [Next]_vars => WireInv'
  <2> SUFFICES ASSUME LifeInv, WireInv, [Next]_vars PROVE WireInv'
    OBVIOUS
  <2>1. OrderInv /\ JobInv
    BY DEF LifeInv
  <2>2. CASE Start
    BY <2>1, <2>2, WireStart
  <2>3. CASE Stop
    BY <2>1, <2>3, WireStop
  <2>4. CASE MainLoop \/ Threads \/ ProcessDies \/ NextRun
    BY <2>1, <2>4, WireRest
  <2>5. CASE UNCHANGED vars
    BY <2>5, WireQuiet DEF vars, process_vars, wire_vars, wire_core
  <2> QED BY <2>2, <2>3, <2>4, <2>5 DEF Next
<1> QED BY <1>1, <1>2, LifeInvariant, PTL DEF Spec

(* After stop() the robot was last told to damp, if it was told anything:  *)
(* after a start() that failed half way, with a dead control loop, with a  *)
(* pose the writer still had to repeat (UnitreeCommandWriter::stop).       *)
THEOREM EndsDamped == Spec => []StopEndsDamped
<1>1. WireInv => StopEndsDamped
  BY DEF WireInv, StopEndsDamped
<1> QED BY <1>1, WireInvariant, PTL

-----------------------------------------------------------------------------
(* stop() leaves nothing                                                   *)

(* The flag that stop() asks before it takes a thread or subscription      *)
(* down, and the loop that an engine is released with.                     *)
flag(m) == IF m \in {"pico", "input", "tracker"} THEN "vr" ELSE m
owner(e) == IF e = "planner" THEN "planner" ELSE "control"

(* The stages of stop() that lower a flag: all but the three that only     *)
(* join, and the console's.                                                *)
Lowering == 1..16 \ {1, 9, 14}

(* Everything that is up has its flag, but for the console mirror, which   *)
(* has none, and the half of a robot reader that failed.                   *)
accounted(m) ==
  \/ m = "tee"
  \/ flag(m) \in started
  \/ m = "robot" /\ result = "failed"

(* The flags cover what is up, in start() and down to the last stage of    *)
(* stop(); an engine that is held has the flag of its loop; the flags of   *)
(* the stages behind stop() are down.                                      *)
HeldInv ==
  /\ started \subseteq Flags /\ live \subseteq Modules
  /\ phase = "off" => started = {}
  /\ phase = "starting" => /\ at <= 3 => started = {}
                           /\ at > 11 => "planner" \in started
  /\ phase # "exited" => \A m \in live : accounted(m)
  /\ phase = "stopping" => \A i \in Lowering : i < at => flag_of(StopOrder[i]) \notin started
  /\ phase = "up" \/ (phase = "stopping" /\ result = "ok") =>
       \A e \in Engines : gpu[e] = EmptyEngine \/ owner(e) \in started
  /\ StopLeavesNothing

held_core == <<phase, at, result, live, started, gpu>>

(* Every flag is lowered by some stage of stop().                          *)
LEMMA EveryFlagIsLowered == \A f \in Flags : \E i \in Lowering : flag_of(StopOrder[i]) = f
<1>1. /\ {2, 3, 4, 5, 6, 7, 8, 10, 11, 12, 13, 15, 16} \subseteq Lowering
      /\ StopOrder[2] = "control_engines" /\ StopOrder[3] = "trace"
      /\ StopOrder[4] = "token_pub" /\ StopOrder[5] = "hand_writer" /\ StopOrder[6] = "writer"
      /\ StopOrder[7] = "health" /\ StopOrder[8] = "hand_state"
      /\ StopOrder[10] = "planner_engine" /\ StopOrder[11] = "record_ctl"
      /\ StopOrder[12] = "nav_rx" /\ StopOrder[13] = "vla"
      /\ StopOrder[15] = "robot" /\ StopOrder[16] = "vr"
  BY DEF StopOrder, Lowering
<1>2. Flags = {"control", "trace", "token_pub", "hand_writer", "writer", "health", "hand_state",
               "planner", "record_ctl", "nav_rx", "vla", "robot", "vr"}
  BY DEF Flags, Plain
<1>3. /\ flag_of("control_engines") = "control" /\ flag_of("planner_engine") = "planner"
      /\ \A f \in Flags : flag_of(f) = f
  BY <1>2 DEF flag_of
<1> QED BY <1>1, <1>2, <1>3

LEMMA HeldAtStart == Init => HeldInv
  BY DEF Init, NewProcess, HeldInv, StopLeavesNothing

LEMMA HeldQuiet == HeldInv /\ UNCHANGED held_core => HeldInv'
  BY DEF HeldInv, StopLeavesNothing, NothingHeld, accounted, held_core

(* The steps of start(): what comes up gets its flag with it, and only the *)
(* first three stages give up without a stop().                            *)
LEMMA HeldStart ==
  ASSUME OrderInv, JobInv, WireInv, HeldInv, Start
  PROVE  HeldInv'
<1>1. /\ \A i \in 1..16 : /\ StartOrder[i] = "planner" <=> i = 11
                          /\ StartOrder[i] = "control" <=> i = 16
                          /\ StartOrder[i] = "writer" <=> i = 12
                          /\ StartOrder[i] = "config" <=> i = 2
                          /\ StartOrder[i] = "vr" <=> i = 3
      /\ StartOrder[1] = "tee"
      /\ \A i \in 1..16 : StartOrder[i] # "control_engines"
  BY Stages DEF StartOrder
<1>2. ASSUME phase = "starting", at \in 1..16,
             started \subseteq started', started' \subseteq Flags, live' \subseteq Modules,
             \A m \in live' : \/ m \in live \cup {"tee"}
                              \/ flag(m) \in started'
                              \/ m = "robot" /\ result' = "failed",
             \/ /\ phase' = "starting" /\ at' = at + 1
                /\ at <= 2 => started' = {}
                /\ at = 11 => "planner" \in started'
             \/ phase' = "exited" /\ result' = "failed" /\ at <= 3 /\ live' = live
             \/ phase' = "stopping" /\ at' = 1 /\ result' = "failed"
             \/ phase' = "up" /\ result' = "ok" /\ at = 16 /\ "control" \in started'
      PROVE  HeldInv'
  <2>1. /\ result = "none" /\ \A m \in live : m = "tee" \/ flag(m) \in started
        /\ at <= 3 => started = {}
        /\ at > 11 => "planner" \in started
    BY <1>2 DEF HeldInv, WireInv, accounted
  <2>2. \A m \in live' : accounted(m)'
    BY <1>2, <2>1 DEF accounted
  <2>3. CASE phase' = "starting" /\ at' = at + 1 /\ (at <= 2 => started' = {})
             /\ (at = 11 => "planner" \in started')
    <3>1. (at' <= 3 => started' = {}) /\ (at' > 11 => "planner" \in started')
      BY <1>2, <2>1, <2>3
    <3> QED BY <1>2, <2>2, <2>3, <3>1 DEF HeldInv, StopLeavesNothing
  <2>4. CASE phase' = "exited" /\ result' = "failed" /\ at <= 3 /\ live' = live
    BY <1>2, <2>1, <2>4 DEF HeldInv, StopLeavesNothing
  <2>5. CASE phase' = "stopping" /\ at' = 1 /\ result' = "failed"
    <3>1. \A i \in Lowering : ~(i < at')
      BY <2>5 DEF Lowering
    <3> QED BY <1>2, <2>2, <2>5, <3>1 DEF HeldInv, StopLeavesNothing
  <2>6. CASE phase' = "up" /\ result' = "ok" /\ at = 16 /\ "control" \in started'
    <3>1. \A e \in Engines : owner(e) \in started'
      BY <1>2, <2>1, <2>6 DEF owner
    <3> QED BY <1>2, <2>2, <2>6, <3>1 DEF HeldInv, StopLeavesNothing
  <2> QED BY <1>2, <2>3, <2>4, <2>5, <2>6
<1>3. /\ phase = "starting" => at \in 1..16
      /\ started \subseteq Flags /\ live \subseteq Modules
      /\ {"tee", "robot", "planner", "writer", "control"} \subseteq Modules
  BY DEF OrderInv, HeldInv, Modules, Plain
<1>4. CASE Launch
  <2>1. /\ phase = "off" /\ phase' = "starting" /\ at' = 1 /\ live' = {}
        /\ started' = {}
    BY <1>4 DEF Launch, OrderInv, HeldInv
  <2> QED BY <2>1 DEF HeldInv, StopLeavesNothing
<1>5. CASE StartStage
  <2>1. /\ phase = "starting" /\ at \in 1..16 /\ stage \in Plain /\ stage = StartOrder[at]
        /\ at \notin {2, 11, 16}
    BY <1>1, <1>3, <1>5 DEF StartStage, stage, Plain
  <2>2. \A m \in threads_of(stage) : m = "tee" \/ flag(m) \in {stage} \cap Flags
    BY <2>1 DEF threads_of, flag, Plain, Flags
  <2>6. threads_of(stage) \subseteq Modules
    BY <2>1 DEF threads_of, Modules
  <2>3. CASE comes_up(stage) /\ next_stage
    <3>1. /\ live' = live \cup threads_of(stage) /\ started' = started \cup ({stage} \cap Flags)
          /\ phase' = "starting" /\ at' = at + 1
      BY <2>1, <2>3 DEF comes_up, next_stage
    <3>2. at <= 2 => started' = {}
      <4>1. at <= 2 => stage = "tee"
        BY <1>1, <2>1
      <4>2. {"tee"} \cap Flags = {}
        BY DEF Flags, Plain
      <4>3. at <= 2 => started = {}
        BY <2>1 DEF HeldInv
      <4> QED BY <3>1, <4>1, <4>2, <4>3
    <3> QED BY <1>2, <1>3, <2>1, <2>2, <2>6, <3>1, <3>2
  <2>4. CASE stage \in Optional /\ next_stage /\ UNCHANGED <<live, started>>
    <3>1. phase' = "starting" /\ at' = at + 1 /\ (at <= 2 => started' = {})
      BY <2>1, <2>4 DEF next_stage, HeldInv
    <3> QED BY <1>2, <1>3, <2>1, <2>4, <3>1
  <2>5. CASE /\ IF stage \in NoRollback THEN give_up ELSE roll_back
             /\ live' \in keeps_subscription(stage) /\ UNCHANGED started
    <3>1. CASE stage = "vr"
      <4>1. at = 3 /\ phase' = "exited" /\ result' = "failed" /\ live' = live
        BY <1>1, <2>1, <2>5, <3>1 DEF NoRollback, give_up, keeps_subscription
      <4> QED BY <1>2, <1>3, <2>1, <2>5, <4>1
    <3>2. CASE stage # "vr"
      <4>1. /\ phase' = "stopping" /\ at' = 1 /\ result' = "failed"
            /\ live' \subseteq live \cup {"robot"}
        BY <2>1, <2>5, <3>2 DEF NoRollback, Plain, roll_back, keeps_subscription
      <4> QED BY <1>2, <1>3, <2>1, <2>5, <4>1
    <3> QED BY <3>1, <3>2
  <2> QED BY <1>5, <2>3, <2>4, <2>5 DEF StartStage
<1>6. CASE LoadConfig \/ WaitForState
  <2>1. /\ phase = "starting" /\ at \in 1..16 /\ at # 11 /\ (LoadConfig => at <= 3)
        /\ UNCHANGED <<live, started>>
    BY <1>1, <1>3, <1>6 DEF LoadConfig, WaitForState, starting, stage
  <2>2. \/ phase' = "starting" /\ at' = at + 1
        \/ phase' = "exited" /\ result' = "failed" /\ LoadConfig
        \/ phase' = "stopping" /\ at' = 1 /\ result' = "failed"
    BY <1>6, <2>1 DEF LoadConfig, WaitForState, next_stage, give_up, roll_back
  <2>3. at <= 2 => started' = {}
    BY <2>1 DEF HeldInv
  <2> QED BY <1>2, <1>3, <2>1, <2>2, <2>3
<1>7. CASE BeginEngine \/ ReleaseMode
  <2>1. UNCHANGED held_core
    BY <1>7 DEF BeginEngine, ReleaseMode, process_vars, cache_vars, held_core
  <2> QED BY <2>1, HeldQuiet
<1>8. CASE EngineWork
  <2>1. UNCHANGED <<phase, at, result, live, started>> /\ job.step # "idle"
    BY <1>8 DEF EngineWork, process_vars, EngineStep, CheckHash, BuildEngine, OpenFile, WriteHash,
                WriteEngine, LoadEngine, InitInputs, ValidatePlanner, ValidateObsDict, validates
  <2>2. phase = "starting"
    BY <2>1 DEF JobInv
  <2> QED BY <2>1, <2>2 DEF HeldInv, StopLeavesNothing, accounted
<1>9. CASE EngineReady
  <2>1. CASE job.engine = "encoder"
    <3>1. UNCHANGED held_core
      BY <1>9, <2>1 DEF EngineReady, held_core
    <3> QED BY <3>1, HeldQuiet
  <2>2. CASE job.engine # "encoder"
    <3>1. /\ phase = "starting" /\ at \in {11, 16}
          /\ at = 11 <=> stage = "planner"
          /\ at = 16 <=> stage = "control"
          /\ stage \in {"planner", "control"}
      BY <1>1, <1>3, <1>9 DEF EngineReady, EngineStages, stage, JobInv
    <3>2. live' = live \cup {stage} /\ started' = started \cup {stage}
      BY <1>9, <2>2, <3>1 DEF EngineReady, comes_up, threads_of, Flags
    <3>3. \/ phase' = "starting" /\ at' = at + 1 /\ at = 11
          \/ phase' = "up" /\ result' = "ok" /\ at = 16
      BY <1>9, <2>2, <3>1 DEF EngineReady, next_stage
    <3>4. flag(stage) = stage /\ stage \in Flags
      BY <3>1 DEF flag, Flags
    <3> QED BY <1>2, <1>3, <3>1, <3>2, <3>3, <3>4
  <2> QED BY <2>1, <2>2
<1>10. CASE EngineFailed
  <2>1. /\ phase = "starting" /\ phase' = "stopping" /\ at' = 1 /\ result' = "failed"
        /\ UNCHANGED <<live, started>>
    BY <1>10 DEF EngineFailed, roll_back
  <2> QED BY <1>2, <1>3, <2>1
<1>11. CASE StartWriter
  <2>1. phase = "starting" /\ at = 12
    BY <1>1, <1>3, <1>11 DEF StartWriter, starting, stage
  <2>2. \/ /\ live' = live \cup {"writer"} /\ started' = started \cup {"writer"}
           /\ phase' = "starting" /\ at' = at + 1
        \/ /\ phase' = "stopping" /\ at' = 1 /\ result' = "failed"
           /\ UNCHANGED <<live, started>>
    BY <1>11, <2>1 DEF StartWriter, comes_up, threads_of, Flags, next_stage, roll_back
  <2>3. flag("writer") = "writer" /\ "writer" \in Flags
    BY DEF flag, Flags
  <2> QED BY <1>2, <1>3, <2>1, <2>2, <2>3
<1> QED BY <1>4, <1>5, <1>6, <1>7, <1>8, <1>9, <1>10, <1>11 DEF Start

(* The steps of stop(): whoever goes down takes the flag along, and the    *)
(* engines go with the flag of their loop.                                 *)
LEMMA HeldStop ==
  ASSUME OrderInv, WireInv, HeldInv, Stop
  PROVE  HeldInv'
<1>1. phase = "stopping" /\ at \in 1..17
  <2>1. phase = "stopping"
    BY DEF Stop, StopControl, FlushControl, StopWriter, StopPlanner, DestroyPlannerEngine,
           StopInputs, StopStage, StopTee, stopping
  <2> QED BY <2>1 DEF OrderInv
<1>2. /\ started \subseteq Flags /\ \A m \in live : accounted(m)
      /\ \A i \in Lowering : i < at => flag_of(StopOrder[i]) \notin started
      /\ result = "ok" => \A e \in Engines : gpu[e] = EmptyEngine \/ owner(e) \in started
  BY <1>1 DEF HeldInv
<1>3. /\ StopOrder[at] = "tee" <=> at = 17
      /\ StopOrder[at] = "control" => at = 1
      /\ StopOrder[at] = "control_engines" => at = 2
      /\ StopOrder[at] = "planner" => at = 9
      /\ StopOrder[at] = "planner_engine" => at = 10
      /\ StopOrder[at] = "inputs" => at = 14
  <2>1. \A i \in 1..17 : StopOrder[i] = "inputs" => i = 14
    BY DEF StopOrder
  <2> QED BY <1>1, <2>1, Stages
<1>4. ASSUME at # 17, UNCHANGED <<phase, result>>, at' = at + 1, started' \subseteq started,
             at \in Lowering => flag_of(StopOrder[at]) \notin started',
             \A m \in live' : m \in live /\ (flag(m) \in started => flag(m) \in started'),
             \A e \in Engines : gpu'[e] = EmptyEngine
                               \/ (gpu'[e] = gpu[e] /\ (owner(e) \in started =>
                                                         owner(e) \in started'))
      PROVE  HeldInv'
  <2>0. live' \subseteq Modules
    BY <1>4 DEF HeldInv
  <2>1. \A i \in Lowering : i < at' => flag_of(StopOrder[i]) \notin started'
    <3> SUFFICES ASSUME NEW i \in Lowering, i < at'
                 PROVE  flag_of(StopOrder[i]) \notin started'
      OBVIOUS
    <3>1. i < at \/ i = at
      BY <1>1, <1>4 DEF Lowering
    <3> QED BY <1>2, <1>4, <3>1
  <2>2. \A m \in live' : accounted(m)'
    BY <1>2, <1>4 DEF accounted
  <2>3. result' = "ok" => \A e \in Engines : gpu'[e] = EmptyEngine \/ owner(e) \in started'
    BY <1>2, <1>4
  <2>4. started' \subseteq Flags /\ phase' = "stopping"
    BY <1>1, <1>2, <1>4
  <2> QED BY <2>0, <2>1, <2>2, <2>3, <2>4 DEF HeldInv, StopLeavesNothing
<1>5. CASE StopControl \/ StopPlanner \/ StopInputs
  <2>1. /\ UNCHANGED <<phase, result, started, gpu>> /\ at' = at + 1 /\ live' \subseteq live
        /\ StopOrder[at] \in {"control", "planner", "inputs"}
    BY <1>5 DEF StopControl, StopPlanner, StopInputs, stopping, next_stage, cache_vars
  <2>2. at \notin Lowering /\ at # 17
    BY <1>1, <1>3, <2>1 DEF Lowering
  <2> QED BY <1>4, <2>1, <2>2
<1>6. CASE FlushControl
  <2>1. /\ UNCHANGED <<phase, result>> /\ at' = at + 1 /\ live' = live \ {"control"}
        /\ started' = started \ {"control"} /\ StopOrder[at] = "control_engines"
        /\ gpu' = [e \in Engines |-> IF e \in {"encoder", "decoder"} THEN EmptyEngine ELSE gpu[e]]
    BY <1>6 DEF FlushControl, stopping, goes_down, threads_of, next_stage, released
  <2>2. at = 2 /\ flag_of(StopOrder[at]) = "control"
    BY <1>1, <1>3, <2>1 DEF flag_of
  <2>3. /\ \A m \in live' : flag(m) # "control"
        /\ \A e \in Engines : gpu'[e] = EmptyEngine \/ (gpu'[e] = gpu[e] /\ owner(e) # "control")
    BY <2>1 DEF flag, owner, Engines
  <2> QED BY <1>4, <2>1, <2>2, <2>3
<1>7. CASE DestroyPlannerEngine
  <2>1. /\ UNCHANGED <<phase, result>> /\ at' = at + 1 /\ live' = live \ {"planner"}
        /\ started' = started \ {"planner"} /\ StopOrder[at] = "planner_engine"
        /\ gpu' = [e \in Engines |-> IF e = "planner" THEN EmptyEngine ELSE gpu[e]]
    BY <1>7 DEF DestroyPlannerEngine, stopping, goes_down, threads_of, next_stage, released
  <2>2. at = 10 /\ flag_of(StopOrder[at]) = "planner"
    BY <1>1, <1>3, <2>1 DEF flag_of
  <2>3. /\ \A m \in live' : flag(m) # "planner"
        /\ \A e \in Engines : gpu'[e] = EmptyEngine \/ (gpu'[e] = gpu[e] /\ owner(e) # "planner")
    BY <2>1 DEF flag, owner, Engines
  <2> QED BY <1>4, <2>1, <2>2, <2>3
<1>8. CASE StopWriter \/ StopStage
  <2>1. PICK s \in (Plain \ {"tee"}) \cup {"writer"} :
          /\ StopOrder[at] = s /\ live' = live \ threads_of(s) /\ started' = started \ {s}
          /\ at' = at + 1 /\ UNCHANGED <<phase, result, gpu>>
    BY <1>8 DEF StopWriter, StopStage, stopping, goes_down, next_stage, cache_vars
  <2>2. at # 17 /\ flag_of(s) = s
    BY <1>3, <2>1 DEF Plain, flag_of
  <2>3. \A m \in live' : flag(m) # s
    <3>1. CASE s = "vr"
      <4>1. "vr" \notin Modules
        BY DEF Modules, Plain
      <4>2. "vr" \notin live
        BY <4>1 DEF HeldInv
      <4> QED BY <2>1, <3>1, <4>2 DEF flag, threads_of
    <3>2. CASE s # "vr"
      <4>1. live' = live \ {s}
        BY <2>1, <3>2 DEF threads_of
      <4> QED BY <3>2, <4>1 DEF flag
    <3> QED BY <3>1, <3>2
  <2>4. \A e \in Engines : owner(e) # s
    BY DEF owner, Plain
  <2> QED BY <1>4, <2>1, <2>2, <2>3, <2>4
<1>9. CASE StopTee
  <2>1. /\ at = 17 /\ phase' = "exited" /\ live' = live \ {"tee"}
        /\ UNCHANGED <<at, result, started, gpu>>
    BY <1>1, <1>3, <1>9 DEF StopTee, stopping, cache_vars
  <2>2. started = {}
    <3> SUFFICES ASSUME NEW f \in started PROVE FALSE
      OBVIOUS
    <3>1. PICK i \in Lowering : flag_of(StopOrder[i]) = f
      BY <1>2, EveryFlagIsLowered
    <3>2. i < at
      BY <2>1 DEF Lowering
    <3> QED BY <1>2, <3>1, <3>2
  <2>3. live' \subseteq {"robot"} /\ (result' = "ok" => live' = {})
    BY <1>2, <2>1, <2>2 DEF accounted
  <2>4. result' = "ok" => \A e \in Engines : gpu'[e] = EmptyEngine
    BY <1>2, <2>1, <2>2
  <2> QED BY <2>1, <2>2, <2>3, <2>4 DEF HeldInv, StopLeavesNothing, NothingHeld
<1>10. CASE StopOrder[at] # "tee" /\ SkipStopped(StopOrder[at], flag_of(StopOrder[at]))
  <2>1. /\ at' = at + 1 /\ flag_of(StopOrder[at]) \notin started
        /\ UNCHANGED <<phase, result, live, started, gpu>>
    BY <1>10 DEF SkipStopped, next_stage, cache_vars
  <2>2. at # 17
    BY <1>3, <1>10
  <2> QED BY <1>4, <2>1, <2>2
<1> QED BY <1>5, <1>6, <1>7, <1>8, <1>9, <1>10 DEF Stop

(* main, the threads, a death and the next run.                            *)
LEMMA HeldRest ==
  ASSUME OrderInv, HeldInv, MainLoop \/ Threads \/ ProcessDies \/ NextRun
  PROVE  HeldInv'
<1>1. CASE MainLoop
  <2>1. /\ phase = "up" /\ at' = 1 /\ phase' = "stopping"
        /\ UNCHANGED <<result, live, started, gpu>>
    BY <1>1 DEF MainLoop, cache_vars, OrderInv
  <2>2. \A i \in Lowering : ~(i < at')
    BY <2>1 DEF Lowering
  <2>3. \A m \in live' : accounted(m)'
    BY <2>1 DEF HeldInv, accounted
  <2> QED BY <2>1, <2>2, <2>3 DEF HeldInv, StopLeavesNothing
<1>2. CASE LoopDies
  <2>1. live' \subseteq live /\ UNCHANGED <<phase, at, result, started, gpu>>
    BY <1>2 DEF LoopDies, cache_vars
  <2>2. phase # "exited" => \A m \in live' : accounted(m)'
    BY <2>1 DEF HeldInv, accounted
  <2>3. StopLeavesNothing'
    BY <2>1 DEF HeldInv, StopLeavesNothing, NothingHeld
  <2> QED BY <2>1, <2>2, <2>3 DEF HeldInv
<1>3. CASE LowState \/ LowStateStale \/ ControlTick \/ WriterTick \/ EstopLatches \/ QuitSignal
  <2>1. UNCHANGED held_core
    BY <1>3 DEF LowState, LowStateStale, ControlTick, WriterTick, EstopLatches, QuitSignal,
                process_vars, cache_vars, held_core
  <2> QED BY <2>1, HeldQuiet
<1>4. CASE ProcessDies
  <2>1. phase' = "exited" /\ live' = {} /\ started' = {} /\ result' = "none"
    BY <1>4 DEF ProcessDies
  <2> QED BY <2>1 DEF HeldInv, StopLeavesNothing
<1>5. CASE NextRun
  <2>1. phase' = "off" /\ live' = {} /\ started' = {}
    BY <1>5 DEF NextRun
  <2> QED BY <2>1 DEF HeldInv, StopLeavesNothing
<1> QED BY <1>1, <1>2, <1>3, <1>4, <1>5 DEF Threads

(* stop() leaves no thread, subscription or engine of a run that came up,  *)
(* whichever optional stage was missing and whichever loop had died; a     *)
(* start() that failed leaves at most the console mirror and half of the   *)
(* robot reader (GearsonicInference::start and stop).                      *)
THEOREM NothingIsLeft == Spec => []StopLeavesNothing
<1>1. Init => HeldInv
  BY HeldAtStart
<1>2. LifeInv /\ WireInv /\ HeldInv /\ [Next]_vars => HeldInv'
  <2> SUFFICES ASSUME LifeInv, WireInv, HeldInv, [Next]_vars PROVE HeldInv'
    OBVIOUS
  <2>1. OrderInv /\ JobInv
    BY DEF LifeInv
  <2>2. CASE Start
    BY <2>1, <2>2, HeldStart
  <2>3. CASE Stop
    BY <2>1, <2>3, HeldStop
  <2>4. CASE MainLoop \/ Threads \/ ProcessDies \/ NextRun
    BY <2>1, <2>4, HeldRest
  <2>5. CASE UNCHANGED vars
    BY <2>5, HeldQuiet DEF vars, process_vars, cache_vars, held_core
  <2> QED BY <2>2, <2>3, <2>4, <2>5 DEF Next
<1>3. HeldInv => StopLeavesNothing
  BY DEF HeldInv
<1> QED BY <1>1, <1>2, <1>3, LifeInvariant, WireInvariant, PTL DEF Spec

=============================================================================
