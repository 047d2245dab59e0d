---------------------------- MODULE EngineCache ----------------------------
(***************************************************************************)
(* The TensorRT engines and the files that cache them.                     *)
(*                                                                         *)
(* ConvertONNXToTRT keeps a built engine beside its ONNX model: 64 bytes   *)
(* of hash (model, GPU and precision), then the serialized engine.  Only   *)
(* the hash is compared when the file is reused.  The two writes are       *)
(* separate and neither is checked, so what a crash or a full disk leaves  *)
(* between them stays on disk for the next start.  The engine is then      *)
(* loaded (Impl::Initialize), given its buffers (InitInputs) and its       *)
(* tensors are compared with what the caller expects.                      *)
(*                                                                         *)
(* One conversion runs at a time: start() is sequential.  What TensorRT    *)
(* and CUDA answer is a free choice; that they refuse a cut-off engine is  *)
(* assumed of them.                                                        *)
(***************************************************************************)
EXTENDS Naturals

CONSTANT DiskFaults  \* what the disk may do wrong: "open" (no new file), "full"

ASSUME DiskFaultsAssumption == DiskFaults \subseteq {"open", "full"}

VARIABLES
  trt,   \* the cache file of each engine
  gpu,   \* what each TRTInferenceEngine holds
  job    \* the engine being brought up and the next step of it

cache_vars == <<trt, gpu, job>>

Engines == {"planner", "encoder", "decoder"}

(* A file is absent; or short, its hash incomplete; or torn, the hash of   *)
(* today's model before a cut-off engine; or whole; or stale, complete but *)
(* of a model, GPU or precision no longer in use.                          *)
FileStates == {"absent", "short", "torn", "whole", "stale"}

EmptyEngine == [engine |-> "none", buffers |-> "none"]
EngineStates == [engine : {"none", "current", "stale"}, buffers : {"none", "part", "all"}]

Steps == {"idle", "hash", "build", "open", "write_hash", "write_engine",
          "load", "buffers", "validate", "ready", "failed"}

CacheInit ==
  /\ trt = [e \in Engines |-> "absent"]
  /\ gpu = [e \in Engines |-> EmptyEngine]
  /\ job = [engine |-> "planner", step |-> "idle"]

CacheTypeOK ==
  /\ trt \in [Engines -> FileStates]
  /\ gpu \in [Engines -> EngineStates]
  /\ job \in [engine : Engines, step : Steps]

go(step) == job' = [job EXCEPT !.step = step]
file == trt[job.engine]
put(state) == trt' = [trt EXCEPT ![job.engine] = state]

BringUp(e) == job' = [engine |-> e, step |-> "hash"]

(* The cached file is reused when its first 64 bytes are today's hash.     *)
hash_matches_AnyFile(state) == state # "absent"
hash_matches(state) == state \in {"torn", "whole"}

(* A missing ONNX model fails here, before the file is looked at.          *)
CheckHash ==
  /\ job.step = "hash"
  /\ go("failed") \/ go(IF hash_matches(file) THEN "load" ELSE "build")
  /\ UNCHANGED <<trt, gpu>>

BuildEngine ==
  /\ job.step = "build"
  /\ go("open") \/ go("failed")
  /\ UNCHANGED <<trt, gpu>>

(* std::ofstream truncates the file.  When it cannot open it, both writes  *)
(* are no-ops and the conversion still reports success.                    *)
OpenFile ==
  /\ job.step = "open"
  /\ \/ put("short") /\ go("write_hash")
     \/ "open" \in DiskFaults /\ go("load") /\ UNCHANGED trt
  /\ UNCHANGED gpu

(* A failed write leaves the stream bad: the next one does nothing.        *)
WriteHash ==
  /\ job.step = "write_hash"
  /\ \/ put("torn") /\ go("write_engine")
     \/ "full" \in DiskFaults /\ go("load") /\ UNCHANGED trt
  /\ UNCHANGED gpu

WriteEngine ==
  /\ job.step = "write_engine"
  /\ put("whole") \/ ("full" \in DiskFaults /\ UNCHANGED trt)
  /\ go("load")
  /\ UNCHANGED gpu

set_engine(e, state) == gpu' = [gpu EXCEPT ![e] = state]

(* Impl::Initialize destroys what it held, then deserializes what follows  *)
(* the hash, whatever hash that is; an engine that gets no execution       *)
(* context stays.                                                          *)
LoadEngine ==
  /\ job.step = "load"
  /\ \/ /\ file \in {"whole", "stale"}
        /\ set_engine(job.engine, [engine |-> IF file = "whole" THEN "current" ELSE "stale",
                                   buffers |-> "none"])
        /\ go("buffers") \/ go("failed")
     \/ set_engine(job.engine, EmptyEngine) /\ go("failed")
  /\ UNCHANGED trt

(* Buffers are allocated tensor by tensor; a failure keeps the ones before.*)
InitInputs ==
  /\ job.step = "buffers"
  /\ \/ set_engine(job.engine, [gpu[job.engine] EXCEPT !.buffers = "all"]) /\ go("validate")
     \/ set_engine(job.engine, [gpu[job.engine] EXCEPT !.buffers = "part"]) /\ go("failed")
  /\ UNCHANGED trt

validates ==
  /\ job.step = "validate"
  /\ go("ready") \/ go("failed")
  /\ UNCHANGED <<trt, gpu>>

(* PlannerInference::validate_engine: eleven input tensors and two outputs  *)
(* of the expected names, the sizes of two of them, then its CUDA stream.  *)
ValidatePlanner == job.engine = "planner" /\ validates

(* ObsDictModel::initialize: the one input and the one output, their       *)
(* dimensions, and its CUDA stream.                                        *)
ValidateObsDict == job.engine # "planner" /\ validates

EngineStep ==
  \/ CheckHash \/ BuildEngine \/ OpenFile \/ WriteHash \/ WriteEngine
  \/ LoadEngine \/ InitInputs
  \/ ValidatePlanner \/ ValidateObsDict

(* Impl::Destroy, reached from PlannerInference::stop and from             *)
(* ObsDictModel::release.                                                  *)
released(engines) == [e \in Engines |-> IF e \in engines THEN EmptyEngine ELSE gpu[e]]

(* Process death: the file keeps what was written.                         *)
CacheDies ==
  /\ gpu' = [e \in Engines |-> EmptyEngine]
  /\ job' = [job EXCEPT !.step = "idle"]
  /\ UNCHANGED trt

(* New models, or another GPU, between two runs.                           *)
models_replaced ==
  [e \in Engines |-> IF trt[e] \in {"torn", "whole"} THEN "stale" ELSE trt[e]]

-----------------------------------------------------------------------------
(* An engine in use was built from the model beside it: a cached file of   *)
(* another model, GPU or precision is never what gets loaded (the hash     *)
(* comparison and the regeneration of ConvertONNXToTRT,                    *)
(* InferenceEngine.cpp:150-166).                                           *)
EngineIsCurrent == \A e \in Engines : gpu[e].engine # "stale"

=============================================================================
