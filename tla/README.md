# gearsonic-inference: verification project

TLA+ models of the control program of this repository, the TLC configurations
that check them on small instances, and theorems about them checked by TLAPS.

The program drives a Unitree G1 humanoid at 50 Hz. A neural planner produces
motions, a neural encoder turns a motion (or a teleoperator's pose) into a
64-dimensional token, a neural policy turns a token into joint targets. A VLA
model on another machine may take over by sending tokens itself. Everything that
decides *who holds the robot, from which data, and what happens when a source
goes silent* is ordinary concurrent C++: about twenty threads that share
latest-wins buffers (`DataBuffer`), atomics and a handful of callbacks. That part
is modelled here. The networks, the joint data and the serialisation are not.

Paths below are relative to `src/`.

## 1. Inventory

| Component | State it keeps | Operations | Talks to |
|---|---|---|---|
| `ControlArbiter` (`include/control/control_arbiter.hpp`) | mode, held token, two blend counters | `step_mode`, `arm_handoff`, `select_token` | called only by the control tick; mode read by teleop, hands, recorder |
| `WholeBodyController` (`src/control/whole_body_controller.cpp`) | INIT/WAIT/CONTROL/ESTOP, loss counter, base ramp, reseed tickets, playback timeline, observation history | 50 Hz loop: gates, `tick_init`, `tick_control`, `tick_vla`, `tick_recovery`, `update_arbiter`, `advance_playback` | reads LowState, planner buffer, VLA tokens, tracker, e-stop; writes the motor command, the reseed request, `disarm` |
| `PlannerInference` (`src/planner/planner_inference.cpp`) | initialised flag, requested/done reseed counters, last command, last output, replan timer | 10 Hz loop: `initialize_once`, `need_replan`, `run_and_publish` | samples the controller's playback through a callback, publishes `motion_50hz_buf` |
| `TeleopTracker` (`src/teleop/teleop_tracker.cpp`) | two engaged flags, calibration, two requests, two hold gestures, delay line | 50 Hz loop | reads mode, buttons, body pose; publishes two target buffers |
| `InputHandler`, `TapDetector`, `NavCmdReceiver` (`src/motion/`) | mode index, e-stop latch, hold counters, taps | 500 Hz loop, `disarm` (from the control thread) | publishes the movement command, sends taps to the recorder |
| Readers: `UnitreeStateReader`, `HandStateReader`, `PicoVRReader`, `VlaTokenReceiver` | one latest-wins buffer each, staleness watchdogs | subscriber callbacks | feed everything above |
| `UnitreeCommandWriter`, `HandCommandWriter` with `HandGuard` and `HoldSqueeze` (`src/unitree/`) | last command, source per mode, guard hysteresis | 500 Hz and hand loops | write to the robot |
| `StateTrace`, `StateLogger` (`src/control/`) | lock-free ring with drops; ring of observations | `record`, writer loop | producer is the control tick |
| `RecordCommander`, `RecordControl`, `MotionTokenPublisher` (`src/collector/`) | assumed recorder state | one decision per tap, publish | data recording |
| `MotorHealthMonitor` with its rules | hysteresis and timers per motor | report only | reads LowState and the last command |
| `TRTInferenceEngine`, `ObsDictModel` (`src/tensorrt/`, `src/control/obs_dict_model.cpp`) | engine, its buffers, a cache file per model | build or load, validate, release | started and stopped by planner and controller |
| `GearsonicInference` (`src/system/gearsonic_inference.cpp`), `main` | which stages are up, the quit flag | `start`, `stop` | all of the above |
| Networks, kinematics, DDS types, logging, configuration | data | functions | – |

`PROJECT.json` lists every part with its status and every hazard with its line.

**What is hard.** (1) The planner and the controller both own a timeline: after a
VLA session and after a loss of LowState the controller must forget its timeline,
the planner its own, and neither may adopt what the other published before.
The two meet through counters, an overwritten buffer and a callback, with no lock
around the exchange. (2) Tickets, flags and blend counters outlive the session
they were made for. (3) A mode is read, and acted upon later. (4) A command is
repeated at 500 Hz by another thread, so a tick that does nothing still does
something. (5) Streams fall silent and come back in the middle of each other's
recoveries. (6) Sixteen stages come up and go down in an order that matters, some
of them optional, all of them able to fail, and a cache file on disk outlives the
process. (7) Gestures are counted in ticks, by several detectors that look at the same
buttons, while another thread may take the result back.

**What makes each part correct.** The arbiter never steps the commanded token.
The controller never plays what a reseed was to forget, holds the pose until the
planner has answered, never leaves the e-stop, never sends a stale walking target.
The planner answers every reseed. The tracker engages nothing while VLA holds
the robot, one flavor at a time, and publishes a target exactly while engaged.
The input handler's latch fires on a real one-second hold and its mode stays in range.
The trace loses rows but never tears or reorders them. A finger is never asked for more
torque than its limit. A health alarm says what happened. The full-body window is one
evenly spaced trajectory of one session. A plan is blended where it was meant. Stop
leaves the robot damped and nothing running, from wherever it was called.

## 2. Modules

`ArbiterModes` -- the four modes and `decide`, the pure transition function. It is
shared by every module that reads or steps the mode.

`ControlArbiter` -- the stage. Actions are its methods (`StepMode`, `arm_handoff`,
`select_token`, and `skip_select` for a tick that ends before selecting);
`phase` enforces the caller's order (`step_mode`, perhaps `arm_handoff`, at most one
`select_token`). Floats become integers, the token becomes one coordinate, because
a blend acts on each coordinate alone. The compounding (each tick blends from the last
*output*) is kept.

`HandoffWindow` -- extends the stage with a history of the running crossfade; a
behaviour has either sources that change every tick or one that repeats its token,
as `test/test_arbiter_probe.cpp` drives it.

`WholeBodyController` -- the control loop *and* the planner thread, two program
counters (`cpc`, `ppc`), because their interleaving is the question. A step ends
wherever the code publishes something the other thread reads: the forgetting
of the timeline and the reseed request are two steps, as are the store of the mode
and its side effects, the gate and the gather of one tick, the publication of a
plan and its acknowledgement. The loop's order is kept: stop, e-stop, loss,
re-entry, state dispatch, joint check, reseed hold, arbitration, path.

| Code | Model |
|---|---|
| `loop()` gates, :347-404 | `LoopExit`, `EstopGate`, `MissingGate`, `PresentGate`, `RequestReseed` |
| `tick_init`, wait for the operator | `TickInit`, `TickWait` |
| `tick_control` up to arbitration | `TickControl` |
| `update_arbiter` | `Arbitrate`, then one of `Effects*` |
| `tick_vla`, `tick_recovery`, encoder path | `PathVla`, `PathRecovery`, `PathNoMotion`, `PathEncoder` |
| planner `loop`, `initialize_once`, `need_replan`, `run_and_publish` | `PlannerTop`, `PlannerInit`, `PlannerAck`, `PlannerGate`, `PlannerInfer` |
| readers, tracker, operator, main thread | `LowStateLost/Back`, `Stream*`, `Tracker*`, `Operator*`, `InputPublishes`, `MainStop` |

A plan is reduced to its descent: `born`, the reseed the planner had last honoured
when it published it, and `root`, the reseed whose *measured pose* its context
descends from. These are the two things "fresh" can mean, and the code keeps
one of them in one place and the other in another (section 5). `loss_ticket` and
`exit_ticket` are history: the ticket of the last forgetting after a loss and of the
last exit from a recovery.

`TeleopTracker` -- the tracker's tick, with the read of the mode and the
act of each gesture in different steps, against the control thread's decide,
store, claim. `WholeBodyController` uses only its interface (`tracker`,
`reset_request`); `TargetsFollowClaims` justifies using one variable there for both
the claim the arbiter reads and the buffer the encoder reads.

`StateTrace`, `LossyQueue` -- the tick trace's ring between the control thread and the
writer, row fill and run write as several steps, counters modulo `Width`; the promise
its reader relies on is the abstract `LossyQueue`, which the ring implements
(`ImplementsQueue`: pending rows are those between `tail_` and `head_`, written rows the
file up to the last store of `tail_`). Release and acquire make each counter's steps
sequential, so no memory-order behaviour is lost.

`PoseWindow` -- a session of the full-body flavor sample by sample: the resampler's ring
with its adaptive delay (`push`, `sample`), the delay line and the window
(`process_fullbody`), engage, dropout and release. A pose is the instant it shows, in
milliseconds, so interpolation is arithmetic and "which pose is this" can be asked.

`InputHandler`, `TapDetector`, `RecordControl` -- the operator. A tick of the 500 Hz handler
is cut at each access to `mode_index_`, because `disarm()` runs on the control thread
(`ModeTest`, `ModeStep`, `CrouchLow`, `CrouchHigh`, `Publish`); the headset's watchdog
checks and clears in two steps. `TapDetector` and `RecordControl` are pure operators,
one per function of the two headers. `TapGestures` drives one detector with every script
of samples and compares it with a definition of a gesture that looks at the whole script.

`PlaybackTimeline` -- frame numbers: the planner's snapshot, look-ahead, resampling and
publication against the controller's cursor, blend and rebase, and the replan timer.
A timeline carries the set of commands its last frame answers.

`HandControl` -- a tick of the hand writer for one motor: calibration fist, the source per
arbiter mode, squeeze, guard, e-stop. `MotorHealth` -- a temperature sensor and a joint
under the health rules.

`EngineCache`, `GearsonicInference` -- the life of the process. `EngineCache` brings an
engine up: hash comparison, build, the two unchecked writes of the cache file, load,
buffers, validation. `GearsonicInference` extends it with `start()` stage by stage
(`StartOrder`, one action per stage that does something of its own, `StartStage` for
those that only come up or do not), the wait for the robot, the main loop, `stop()` in
its order, the control loop and the 500 Hz writer reduced to what reaches the wire,
loops that die, a process that dies at any step and the next run on the files it left.

| Code | Model |
|---|---|
| `GearsonicInference::start` | `LoadConfig`, `StartStage`, `WaitForState`, `BeginEngine` and `EngineStep`, `EngineReady`, `EngineFailed`, `ReleaseMode`, `StartWriter` |
| `main` | `Launch`, `MainLoop` |
| `GearsonicInference::stop` | `SkipStopped`, `StopControl`, `FlushControl`, `StopWriter`, `StopPlanner`, `DestroyPlannerEngine`, `StopInputs`, `StopStage`, `StopTee` |
| `UnitreeCommandWriter` | `ReleaseMode`, `StartWriter`, `WriterTick`, `StopWriter`, `publish` |
| `ConvertONNXToTRT` | `CheckHash`, `BuildEngine`, `OpenFile`, `WriteHash`, `WriteEngine` |
| `Impl::Initialize`, `InitInputs`, `Destroy` | `LoadEngine`, `InitInputs`, `released` |

`*Proofs` -- theorems (section 4); those about `HandoffWindow` are in
`ControlArbiterProofs`, about `PoseWindow` in `TeleopTrackerProofs`, about `TapDetector`,
`TapGestures` and `RecordControl` in `InputHandlerProofs`. `MC_*` -- input sets and compositions for the runs.
`MC_Reseed` splits the inputs of `WholeBodyController` into two halves, `attended` or not
(section 3). `MC_Teleop` and `MC_Bench` put components side by side that do *not*
interact: a behaviour works one of them and leaves the others in their initial state,
so the run answers for each of them exactly what a run of its own would.

Components that do interact are one module, or one extends the other: controller and
planner in `WholeBodyController`; tracker and arbiter in `TeleopTracker`; watchdog, handler,
detectors, recorder and `disarm()` in `InputHandler`; control loop, writer, planner, engines and
disk in `GearsonicInference`. Where a module replaces another by its interface, it leaves
that interface more freedom than the detailed module does.

### Abstractions worth knowing

- A blended timeline is as old as the *older* of its parents; the code cross-fades
  over a few frames and then plays the new plan only. The model is the stricter.
- In `WholeBodyController` a plan the cursor has outrun is dropped nondeterministically, so
  both outcomes are explored; `PlaybackTimeline` has the cursor. Its replan decision beyond
  "the commanded motion changed" is a free choice there and the timer here.
- `disarm()` and `request_reinit()` of the re-entry after a loss are one step.
- The engage check of the full-body flavor (`mode() == IDLE`) and its effect are one step.
- `fails` stands for a failed inference or a joint over its velocity limit; at most
  `MaxFailures` of them.
- Exceptions that end a loop thread are in `GearsonicInference` (`LoopDies`), not in
  `WholeBodyController`, whose fairness says the loops run.
- `PoseWindow`: milliseconds and integer division for the doubles of the resampler; a slot
  no tick of this session wrote is `Old`. The tick reads the latest sample, so at most
  one is pushed per tick.
- `PlaybackTimeline`: 10 x 0.1 s of the replan timer is ten iterations; in floating point
  the code may need an eleventh.
- `EngineCache`: a file is one of five states; TensorRT refuses a cut-off engine.
- `HandControl`: one motor that closes upwards; angles in steps of 0.13 rad, torque in
  steps of `kp`; the guard's switch is on.
- `MotorHealth`: a snapshot without a body state stutters, as the code returns early.
- The stick commands only an armed selector and navigation only the origin; the
  release of a full-body flavor is seen by buffer presence, as in the code.

## 3. Runs

Bounds named in the modules: `MaxLosses`, `MaxSessions`, `MaxFailures`, `MaxBadPlans` count
what the environment may still do; `MaxTicks`, `MaxScript`, `MaxCalls` the length of a
session, a script of samples and a trace. `missing` is capped where it no longer matters
(`MissingCap`). Nothing else is bounded: the other models are finite as they are.

| Run | Asks | Why the bounds are enough |
|---|---|---|
| `arbiter` | does any order of claims, losses, recoveries, re-armings and early ends of ticks step the token; how far one tick of a crossfade moves and where it lands | production blend lengths (50 and 35), whole windows, restarted at any tick |
| `reseed` | the two forgettings, the loss policy, tickets, the e-stop | two losses and two sessions: a stale ticket, flag or counter needs an *earlier* one; with the operator's inputs one session and no loss. `RecoveryBlendTicks = 2`: with 1 the request leaves in the recovery's first tick, and a stale flag never shows |
| `liveness` | e-stop, recovery and hold end | one of each; an operator who walks or teleoperates does so before any of them (`OperatorLeavesFirst`); `reseed` interleaves an operator with a session |
| `teleop` | gestures against the claim; the full-body window | `HoldTicks = 3`: a hold may be broken between its ticks. Ten ticks of 20 ms with the real ring of 8 samples, so it wraps, a delay line of 4 that wraps twice, and delays between 20 and 100 ms |
| `operator` | taps, chords, holds, disarm, a lost headset | hold times of 2 and 3 ticks keep the order short < hard; one mode below, in and above the crouches |
| `lifecycle` | stop from anywhere, engines, files, quits, the e-stop on the wire | two attempts to release the robot's own controller, three engines, any number of runs, deaths and restarts; `DiskFaults = {"full"}` |
| `bench` | taps, hands, health, the trace ring, replans | scripts of 10 samples hold three taps and a void; the ring wraps three times and its counters once; twice the dwell of every timer |
| `pre_exit_motion`, `release_walks`, `hidden_teleop`, `writer_repeats`, `unpaced` | statements of comments that the code does not keep (section 5) | smallest instance that shows it |

What the passing runs show:

- `NoStepOnSourceChange`, `RecoveryLands`: the first token of a new source equals the last of
  the old one; a recovery reaches the standing token before it may reseed.
  `QuarterStep`, `LandsOnTarget`: the compounding weights neither bunch the motion nor
  leave it short.
- `NoPreLossMotion`: nothing played after a long loss descends from before it.
  `NoPreExitPlan`: nothing played after a VLA session was *published* before the
  reseed that ended it. The stronger reading of the comments fails.
- `HoldsUntilReseeded`, `LossPolicy`: base pose from the grace window to the
  acknowledgement; damping only for e-stop and shutdown.
- `RecoveryIsEarned`: an exit needs its own blend, its own request and
  that request's acknowledgement. `EstopIsTerminal`.
- `EstopDamps`, `RecoveryEnds`, `HoldEnds` (liveness).
- `FullbodyNotHidden`, `NoRequestInSession`, `TargetsFollowClaims`, `DropoutLetsGo`: nothing
  full-body and no new request in a session, targets and claims agree between ticks,
  a dropout ends the full-body flavor.
- `NeverBackwards`, `WindowShowsGrid`: whatever the arrival times, the grid never goes back in
  time although its delay adapts, and each frame of the window is the grid pose it stands
  for, taken over *all* samples of the session: eight are enough, because at most one is
  pushed per 20 ms and the delay never exceeds 100 ms. The run declares the stream stale
  after 120 ms, so that a dropout fits in its ten ticks; the code waits 500 ms
  (`teleop_tracker.hpp:160`), and the theorems cover every limit.
- `TapsHaveNoCombo`, `LabelsFollowStops`: no recording command out of a chord, no label for an
  episode that was not stopped. `HardStepsAreHeld`, `HeightMatchesMode`: a mode beyond the
  basic ones costs a full hold, and the robot is never told to crouch without a height,
  also with `disarm()` between two reads. `EstopAnswers`, `SilenceStops` (liveness).
- `StopEndsDamped`, `StopLeavesNothing`, `QuitEnds`: a quit ends the process from anywhere, with
  damping as the last message and no thread, subscription or engine left of a run that
  had come up. `LoopsHaveEngines`, `EngineIsCurrent`: no inference on an engine that is
  half up, released or of another model. `EstopReachesMotors`: through both loops.
- `EventsCountTaps`: the detector agrees with the definition of a gesture on every script.
  `SqueezeIsHeld`, `TorqueBounded`: a squeeze is a dwell of this operator, a blocked finger gets
  contact torque. `NoChatter`, `AlarmsAreReal`: alarms neither flicker nor lie.
- `Reconstructible`, `ImplementsQueue`, `StopFlushes`: the trace file accounts for every tick,
  and the ticks before a shutdown are in it. `DriveReachesPlayback`: a standing command to
  move ends up in the timeline although inferences fail or come late.

**Fairness.** `WF(Controller)` and `WF(Planner)`: each is a loop on a thread of its own
that never waits for another one. `WF(PublishDampingOnStop)`: `stop()` joins and
publishes. `WF(LowStateBack)`: a loss of LowState ends (a robot that never
speaks again is held for ever, by design). Nothing is assumed of the operator,
the stream, the tracker or the navigation, and failures are finitely many.
`TeleopTracker` assumes `WF(Tracker)` only, `StateTrace` `WF(Writer)` only.
`InputHandler`: `WF(Tick)`, the handler's loop; a sample ages unless another one arrives and a
stale one is found by the watchdog unless another one arrives (strong fairness, because
the steps between two reads of one tick disable both); nothing of the operator, the
headset may fall silent or not. `GearsonicInference`: the main thread's three phases, the control
tick and the writer's tick; a step of an engine ends one way or the other because
TensorRT's calls return. `PlaybackTimeline`: the control tick and the planner.

`Paced` is an assumption about speed: the control loop ticks every 20 ms, the
planner every 100 ms, so a plan is seen by the controller before the next replan
unless an inference takes longer than its period. The passing run assumes it, as does
the deployment; `unpaced` shows what it protects.

Deadlock is checked in every run but `bench`, whose scripts, traces and writer end for good.

## 4. Proofs

All are for every value of the constants, from the named assumptions only: positive
tick counts, `NoPlan` is not a plan, inputs within the known kinds, and these, which the
code's own constants meet: `RingAssumption` (the counters of the trace wrap at a multiple of the
ring, 2^32 and a power of two), `RingSpan` (eight samples 20 ms apart outlast the longest
delay) and, in `InputAssumption`, that the crouching modes are an interval beyond the basic
ones (`input_handler.cpp:26-27`), which the test of two bounds in the tick presupposes.

**`ControlArbiterProofs`.** `BlendArmed` and `RecoveryLands` are inductive together with
the types; the lemmas `BlendEnds`, `BlendType`, `BlendFirstStep` are the integer arithmetic
of a weighted mean at its ends. `SourceChangesSlide` follows: where the next source
has not spoken, its blend is at its start, and a blend of weight zero is its start.
A whole crossfade (`SlidesAreGentle`, `SlidesLand`): after `k` ticks what is left of the gap is a product
of `(n - j) / n`, which no induction is available for. `SlideInv` uses a closed bound instead,
`left * (2n + k(k - 1)) <= 2n * (gap + k)`, which is inductive by itself (`SlideUp`,
`SlideDown`); the `+ k` pays for rounding down, once per tick, and a slide downwards
does not need it. From 22 ticks on the bound allows no step of more than a quarter of the gap
(`Quarter`; with two or three ticks the statement is false), and it lands within a unit as
long as the tokens span no more than about `n * n / 2` units, 562 with the 35
ticks of the code; a unit is the resolution at which the token is modelled.

**`WholeBodyControllerProofs`.** The safety invariants are not inductive: they speak of
tickets, but the step that breaks them would be one of the planner's, taken with
a local copy it read long ago. The strengthening `IInv` adds
`TicketOrder` (a ticket never exceeds the request counter, an acknowledgement never the
local copy, the local copy never the request), `PlannerState` (what the buffer
and the plan under inference may descend from, depending on `ppc` and on whether the
acknowledgement of a ticket is still to come), `LossState` (between the forgetting
and the acknowledgement nothing is adopted), `HoldState` (which commands each
place in the tick may see) and `RecoveryState` (a flag raised in this recovery belongs to a
ticket newer than the last exit). `Init => IInv`, and one lemma per group of
actions (`GateIInv`, `TickIInv`, `PlannerIInv`, `EnvironmentIInv`, with the booleans apart
in `NextFlags`) gives `ProgramInvariant`; the invariants and the two action properties
follow. TLC checked `IInv` as an invariant first.

**`TeleopTrackerProofs`.** The key conjunct is `SessionState`: once the reset of a claim
is served no gesture can be between its gate and its act, because the reset is served at
the top of a tick and every gate after it sees the stream's mode. It needs
`PendingStore` (a thread about to store `kRecovering` started in a session).

**`GearsonicInferenceProofs`.** Four layers, each over the one before. `CurrentInv`: where
a file can always be opened, one about to be loaded passed the hash comparison or was written
by this very conversion, so no engine of an old model gets loaded, whatever crashes and
full disks left (`EnginesAreCurrent`; where it cannot be opened the code loads
the stale one, section 5). `LifeInv`: which loops may live at which stage of start() and
stop() (`OrderInv`), and that the engine being brought up is the one of the stage, the
decoder after a ready encoder (`JobInv`); a step of a bring-up or a release then never
touches an engine of a living loop (`LoopsAlwaysHaveEngines`). `WireInv`: the writer's
flag is up exactly after its stage, nothing was sent before it, no pose after it was taken down
(`EndsDamped`). `Stages` computes the positions in the two orders once. `HeldInv`: everything
that is up has the flag that stop() asks before it takes it down, but for the console
mirror and half of a failed robot reader; an engine has the flag of its loop; and the flags of
the stages behind stop() are down. At the last stage no flag is left, so nothing is up
(`NothingIsLeft`).

**`HandControlProofs`, `MotorHealthProofs`.** The rules' timers and the histories of the
properties run together (`HandInv`, `JointInv`), which makes a statement about the past
one about the present. `ClampNearer` is why two clamps in a row cannot undo each other:
clamping to limits the finger respects never takes the target further from the finger.
It needs the finger inside its limits, and the contact offset below the reach
(`ReachAssumption`, true of the defaults). `SaysLevel` is what a log line says about the
level, from which `NoChatter` follows for any pair of limits.

**`StateTraceProofs`.** The ring is a statement about indices modulo `Ring` under counters
modulo `Width`. `TraceInv` says what the wrapped counters stand for (`IndexInv`: rows published and
rows committed, never more than a ring apart), how old the writer's copies may be
(`DrainInv`: `whead` is any count between what it has claimed and what is published), that every row from
`tail` on is in its slot, also after it was written (`RowInv`), and that a writer that has ended
has written all (`StopInv`). The lemmas before it are the arithmetic: a slot computed from a
counter is the slot of the number the counter stands for, which needs `Width % Ring = 0`, and the
distance of two counters is that of the two numbers.
`FileAccounts` follows, `StopKeepsRows` (the safety half of `StopFlushes`: a writer that
has ended has left nothing behind) and `TraceIsAQueue`, the whole refinement:
each step is a step of `LossyQueue` or leaves its variables alone, `WriterStores` being the
dequeue.

**`InputHandlerProofs`.** A tick is a sequence of accesses between any two of which
`disarm()` may write the selector, so `InputInv` says for each place of the tick what its local
variables still know. `HoldInv` and `YInv` tie the hold counters to the gesture the
tick decided on, so that only a full hold of Y alone is a step beyond the basic modes
(`HardModesAreHeld`); `ModeInv` keeps the selector in its table although guard and step are two
accesses; `BandInv` is the promise of a height while the branch for crouches runs
(`CrouchesHaveHeights`); `ComboInv` keeps a detector void as long as the chord's buttons are down
(`ChordsAreNoTaps`); `LabelInv` relates the recorder's mirror to the last command sent
(`NoLabelWithoutStop`).

*Gestures.* `TapsAreCounted` compares the detector's six fields with a definition that reads the whole
script, so the invariant has to say what the fields have kept of it. `ScriptInv` is
about scripts alone: after the last void there are only ups and downs (`BeginInv`), a press ends
before the next one begins, and the last one is still down or has been up since (`PressInv`).
`DetectorInv` is the memory: while the last press is down the count is the length, modulo
three, of the chain of taps it goes on from (`WhileDown`); while the button is up it is that of the
taps so far, until the window has passed (`WhileUp`). One lemma per kind of tick then extends the
chain (`ChainKept`, `ChainGrows`, `TapsOfLast`) in step with the detector (`HoldsOn`, `IsReleased`,
`StaysUp`, `Begins`). It holds for every `TapMax`, `DoubleGap` and length of script.

**`TeleopTrackerProofs`, the window.** `WindowInv` relates the resampler's ring to *all* samples
of the session (`RingInv`), each grid instant to the pose the tick stands for (`GridInv`) and
each slot of the delay line to a pose of the grid (`LineInv`). Two arguments carry it. *Bracketing*
(`SampleShows`, over `Behind` and `Interpolates`): the samples kept span `20 * (kRing - 1)` ms, which by
`RingSpan` is more than the delay, so the two samples around the instant are among them.
*Monotony* (`DelayGrows`, `TickAdvances`): a sample that arrives after a gap below the longest delay moves the
smoothed interval by a tenth of the difference, hence the delay by at most a tick; after a longer
gap the held sample is behind the new target whatever the delay became. So
`NeverBackwards` does not depend on the stale limit, on `EngageAges` or on `ArrivalAges`.

Model-checked only:

- liveness (`EstopDamps`, `RecoveryEnds`, `HoldEnds`, `DropoutLetsGo`, `EstopAnswers`,
  `SilenceStops`, `QuitEnds`, `EstopReachesMotors`, `StopFlushes`, `DriveReachesPlayback`): it
  rests on fairness, hence on ENABLED, which the prover does not reason about;
- the five violations, and `PlaybackTimeline`.

`TypeOK` of `ControlArbiter`, `WholeBodyController`, `TeleopTracker`, `InputHandler` and `StateTrace`
is a theorem and no property of a run.

## 5. Where comments and code differ

1. **`NoPreExitMotion`.** `planner_inference.hpp:49-50` and `whole_body_controller.hpp:84-85`
   promise that after a VLA session nothing descends from the frozen timeline.
   Between the acknowledgement and the controller's next arbitration the
   planner may replan, and its context callback still samples the frozen timeline. The
   resulting plan is published after the acknowledgement and adopted. After a LowState
   loss the same cannot happen: there the playback is dropped *before* the request.
2. **`ReleaseDoesNotWalk`.** The release edge of the full-body flavor disarms the selector,
   but a walking plan for a mode armed during the session may already be in the
   playback, and the tick of the release tracks it.
3. **`NoHiddenTeleop`.** A calibration that waits for a body sample survives the reset of
   a claim and engages teleop in the session.
4. **`WriterRepeats`.** The 500 Hz writer repeats the last command with the `mode_machine` of
   the newest LowState, and 0 when there is none: inside the grace window, in which the
   controller relies on "the writer repeats the last command"
   (`whole_body_controller.cpp:25-26`), the message on the wire changes in that field.
5. **`PlanLandsWhereMeant`.** When an inference overruns its period, the next plan is
   numbered on a timeline that the controller has not yet rebased, and is blended at
   that number of the rebased one.

Observed while modelling, each reachable in the model named, without a run of its own:

- *Base ramp* (`WholeBodyController`): a LowState loss before the first command makes the base
  ramp start from an all-zero command (`whole_body_controller.cpp:374`).
- *Both flavors* (`TeleopTracker`): while a calibration waits for its sample it does not close
  the other gesture's gate, so one tick can engage both flavors although
  `teleop_tracker.hpp:39-40` calls them exclusive; each gesture is then ignored because of
  the other.
- *Rollback* (`GearsonicInference`): `gearsonic_inference.hpp:41-42` says a failed start has
  "everything already-started rolled back". A configuration that does not load leaves the
  console mirror, a robot reader that fails half way leaves a subscription.
- *Torn cache file* (`EngineCache`): hash and engine are two writes. A crash between them leaves
  a file whose hash matches and whose engine does not load; it is never rebuilt. With a
  file that cannot be opened for writing (`"open"` in `DiskFaults`, not in the run) the
  conversion reports success and an engine of an older model is loaded: `EngineIsCurrent`
  fails then.
- *Combos* (`InputHandler`): `input_handler.cpp:36-37` says two buttons cancel single-button
  actions "until the buttons release"; letting go of one of two restarts the other's hold.
- *Selector* (`InputHandler`): a `disarm()` between the test and the decrement of a step down
  leaves the selector at -1 for as long as nobody steps it; what is published then with a
  stick is mode -1.
- *Comments of another design*: `input_handler.hpp:87-88` drops to IDLE on a lost link, :41-45
  and the code keep the selection; `unitree_state_reader.cpp:103-108` says a loss reaches
  damping, the control loop holds the base pose.
- *Hands* (`HandControl`): a stream that resumes during the recovery moves the hands again,
  because they follow the newest target without a staleness check
  (`hand_command_writer.cpp:164-176`).

## 6. Plan

Done: the modules of section 2, with theorems for every invariant and action property that
section 4 does not list as model-checked only. Next, in this order:

1. `PlaybackTimeline`: its safety (cursor and blend stay inside the timeline) and, with it, the
   refinement of the free choices of `WholeBodyController`, with a timeline that has an owner
   and an origin as their common abstract specification.
2. `MotionTokenPublisher` (each sample republished once), `StateLogger` against a reference,
   the fault word of `MotorHealth`, the final burst of the hand writer.

## 7. Not modelled, and why

Networks and kinematics (floating-point functions; the callers see success or failure),
serialisation and CRC (data), logging, configuration and timing (no property is about
them), the values of facing, speed and direction of a command (no property tells them
apart), hand motors and the periodic summary in the health rules, the development tools
and containers. The parts that are planned are listed in section 6.
