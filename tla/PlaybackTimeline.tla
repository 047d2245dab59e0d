--------------------------- MODULE PlaybackTimeline ---------------------------
(***************************************************************************)
(* The timeline the control loop plays and the planner replans on          *)
(* (advance_playback of whole_body_controller.cpp, the replan half of the  *)
(* loop of planner_inference.cpp): frame numbers, with the motion itself   *)
(* reduced to the commands it answers.  WholeBodyController covers what    *)
(* drops a timeline; here it is only ever extended.                        *)
(*                                                                         *)
(* The planner samples the playback, infers for a while and publishes; the *)
(* controller adopts what it has not seen yet once per tick.  While an     *)
(* inference fits in the planner's 100 ms, a 20 ms tick sees every plan    *)
(* before the next replan ("Paced").  The code does not see to it: a       *)
(* longer inference is followed by the next iteration at once.             *)
(***************************************************************************)
EXTENDS Integers, FiniteSetsExt

CONSTANTS
  Commands, Moving,  \* MovementState; Moving: not a static mode, speed # 0
  ReplanInterval,    \* replan interval of a mode, in iterations
  Outputs,           \* num_pred_frames of an inference
  Estimates,         \* wall-clock estimates of the cursor
  MaxPlannerFrames, Capacity,  \* kMaxPlannerFrames, kCapacity
  LookAhead, BlendFrames,      \* kLookAheadSteps, kBlendFrames
  Paced,             \* whether inferences fit in the planner's period
  MaxBadPlans        \* bound: failed inferences

ASSUME PlaybackAssumption ==
  /\ Moving \subseteq Commands
  /\ Outputs \subseteq Int /\ Estimates \subseteq Nat
  /\ {ReplanInterval, MaxPlannerFrames, LookAhead, BlendFrames} \subseteq Nat \ {0}
  /\ Capacity \in Nat /\ Capacity >= 2
  /\ Paced \in BOOLEAN /\ MaxBadPlans \in Nat

VARIABLES
  play,        \* playback_motion_ and cursor_; {} before the first plan
  published,   \* motion_50hz_buf, until the controller has seen it: {} or a plan
  draft,       \* the plan being inferred: {} or a plan
  wanted,      \* movement_buf
  last_wanted, \* last_movement_state_
  interval,    \* replan_interval_counter_, in iterations
  bad_plans    \* what is left of the bound

playback_vars == <<play, published, draft, wanted, last_wanted, interval, bad_plans>>

-----------------------------------------------------------------------------
(* resample_30hz_to_50hz: how many frames come out, and the frame an       *)
(* output frame is read from.                                              *)
valid_output(n) == 0 < n /\ n <= MaxPlannerFrames
frames_50hz(n)  == Min({(n * 5) \div 3, Capacity})
long_enough(n)  == frames_50hz(n) >= 2
frame_before(f) == (f * 3) \div 5
frame_after(f, n) == Min({frame_before(f) + 1, n - 1})

\* Start: the initial IDLE plan is out, nobody has played it.  "moved" is
\* history: the timeline was rebased after the plan was drawn up on it.
PlaybackInit ==
  \E idle \in Commands \ Moving, n \in {k \in Outputs : valid_output(k) /\ long_enough(k)} :
    /\ play = {}
    /\ published = {[fgen |-> 0, len |-> frames_50hz(n), answers |-> {idle}, moved |-> FALSE]}
    /\ draft = {}
    /\ wanted = idle /\ last_wanted = idle
    /\ interval = 0
    /\ bad_plans = MaxBadPlans

-----------------------------------------------------------------------------
(* advance_playback                                                        *)

\* The commands the last frame answers once the plan is blended in: the weight
\* of the plan grows from blend_start, by one part in BlendFrames per frame.
last_frame_answers(t, p, new_len) ==
  LET blend_start == Max({0, p.fgen - t.cursor})
      parts == new_len - 1 - blend_start
  IN  IF parts >= BlendFrames THEN p.answers
      ELSE IF parts <= 0 THEN t.answers ELSE t.answers \cup p.answers

blended_in(t, p) ==
  LET new_len == p.fgen - t.cursor + p.len
      kept    == Min({new_len, Capacity})
  IN  IF new_len <= 0 THEN t
      ELSE [len |-> kept, cursor |-> 0, answers |-> last_frame_answers(t, p, kept)]

\* The timelines after a plan was looked at: frame 0 is where the cursor was.
adopted(p) ==
  IF play = {} THEN {[len |-> p.len, cursor |-> 0, answers |-> p.answers]}
  ELSE {blended_in(t, p) : t \in play}

rebases(p) == \E t \in play : t.cursor > 0 /\ p.fgen - t.cursor + p.len > 0

advanced(timelines) ==
  {[t EXCEPT !.cursor = Min({@ + 1, t.len - 1})] : t \in timelines}

PlaybackTick ==
  /\ \/ /\ published = {}
        /\ play' = advanced(play) /\ UNCHANGED draft
     \/ \E p \in published :
          /\ play' = advanced(adopted(p))
          /\ draft' = {[d EXCEPT !.moved = @ \/ rebases(p)] : d \in draft}
  /\ published' = {}
  /\ UNCHANGED <<wanted, last_wanted, interval, bad_plans>>

-----------------------------------------------------------------------------
(* The planner's iteration                                                 *)

\* need_replan: the counter runs in every iteration, and a due one restarts it.
due == interval + 1 >= ReplanInterval

need_replan_OnChange == wanted # last_wanted  \* mutant
need_replan == wanted # last_wanted \/ (wanted \in Moving /\ due)

\* Where the context is sampled, and so where the plan is to be blended in.
gen_frames == IF play = {} THEN {e + LookAhead : e \in Estimates}
                           ELSE {t.cursor + LookAhead : t \in play}

PlannerReplans ==
  /\ draft = {} /\ (Paced => published = {})
  /\ interval' = IF due THEN 0 ELSE interval + 1
  /\ IF need_replan
     THEN /\ \E f \in gen_frames :
               draft' = {[fgen |-> f, len |-> 0, answers |-> {wanted}, moved |-> FALSE]}
          /\ last_wanted' = wanted
     ELSE UNCHANGED <<draft, last_wanted>>
  /\ UNCHANGED <<play, published, wanted, bad_plans>>

\* run_and_publish: an engine that fails, an output of no use, or a plan.
PlannerPublishes ==
  /\ draft # {} /\ draft' = {}
  /\ \E n \in Outputs :
       IF valid_output(n) /\ long_enough(n)
       THEN /\ published' = {[d EXCEPT !.len = frames_50hz(n)] : d \in draft}
            /\ UNCHANGED bad_plans
       ELSE /\ bad_plans > 0 /\ bad_plans' = bad_plans - 1
            /\ UNCHANGED published
  /\ UNCHANGED <<play, wanted, last_wanted, interval>>

OperatorDrives ==
  /\ wanted' \in Commands \ {wanted}
  /\ UNCHANGED <<play, published, draft, last_wanted, interval, bad_plans>>

PlaybackThreads == PlaybackTick \/ PlannerReplans \/ PlannerPublishes
PlaybackNext == PlaybackThreads \/ OperatorDrives

\* Both loops run; nothing is assumed of the operator.
PlaybackFairness == /\ WF_playback_vars(PlaybackTick)
                    /\ WF_playback_vars(PlannerReplans \/ PlannerPublishes)

PlaybackSpec == PlaybackInit /\ [][PlaybackNext]_playback_vars /\ PlaybackFairness

-----------------------------------------------------------------------------
(* A command to move that stands reaches the end of the timeline, whatever *)
(* inferences failed, came late or were dropped because the playback had   *)
(* run past them: replans are due again while the robot is asked to move   *)
(* (planner_inference.cpp:359-368).  A command to stand is not replanned   *)
(* by the interval, and its failed replan is not repeated.                 *)
DriveReachesPlayback ==
  \A c \in Moving : wanted = c ~> (wanted # c \/ \E t \in play : c \in t.answers)

(* "50Hz frame on the consumer's playback timeline (look-ahead included)   *)
(* this sequence was generated at; blend it in starting at this frame"     *)
(* (motion_sequence_50hz.hpp:30-31): when a plan is blended, its frame     *)
(* number still means the frame its context was sampled at.  Kept only     *)
(* when the planner is paced.                                              *)
PlanLandsWhereMeant == play # {} => \A p \in published : ~p.moved

=============================================================================
