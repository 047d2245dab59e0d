------------------------ MODULE TeleopTrackerProofs ------------------------
(***************************************************************************)
(* Theorems about the teleop tracker for every hold time, and about the    *)
(* full-body window for every ring, delay line, window and arrival times.  *)
(***************************************************************************)
EXTENDS TeleopTracker, PoseWindow, SequenceTheorems, WellFoundedInduction, TLAPS

\* What a thread that is about to store a mode has read: kRecovering is
\* entered from a session only.
PendingStore == apc = "store" /\ mode \notin StreamModes => next_mode # kRecovering

\* Once the reset of a claim is served, no gesture of before the claim is
\* still on its way, and the full-body flavor is off.
SessionState == SettledSession => /\ ~fullbody_engaged
                                  /\ tpc \notin {"b_act", "a_act"}

\* Published targets at every step: the upper-body target always follows its
\* claim, the full-body one lags by the rest of the tick that engages.
TargetState == /\ vr3point_buf <=> calibrated
               /\ smpl_window_buf => fullbody_engaged
               /\ fullbody_engaged => smpl_window_buf \/ tpc = "sample"
               /\ calibrated => body_buf # "none"

\* The types of the numbers and the sets, apart from the booleans.
PlainTypes == /\ tpc \in {"reset", "b_gate", "b_act", "a_gate", "a_act", "sample"}
              /\ calib_hold_ticks \in 0..HoldTicks /\ fb_hold_ticks \in 0..HoldTicks
              /\ apc \in {"decide", "store", "claim"} /\ mode \in Mode /\ next_mode \in Mode
              /\ body_buf \in {"none", "seen", "new"}
              /\ button \in {"none", "A", "B"}

FlagTypes == /\ calibrated \in BOOLEAN /\ fullbody_engaged \in BOOLEAN
             /\ calibrate_request \in BOOLEAN /\ reset_request \in BOOLEAN
             /\ calib_gesture_latched \in BOOLEAN /\ fb_gesture_latched \in BOOLEAN
             /\ vr3point_buf \in BOOLEAN /\ smpl_window_buf \in BOOLEAN
             /\ body_stale \in BOOLEAN /\ armed \in BOOLEAN

\* A hold below the threshold is not latched yet: the count stays in range.
HoldState == /\ calib_hold_ticks >= HoldTicks => calib_gesture_latched
             /\ fb_hold_ticks >= HoldTicks => fb_gesture_latched

IInv == PlainTypes /\ FlagTypes /\ HoldState /\ PendingStore /\ SessionState /\ TargetState

\* A hold that has not fired counts one more tick within its range, and
\* reaches the threshold exactly when it fires.
LEMMA HoldStep ==
  ASSUME NEW held \in BOOLEAN, NEW ticks \in 0..HoldTicks, NEW latched \in BOOLEAN,
         ticks >= HoldTicks => latched
  PROVE  /\ held_for(held, ticks, latched) \in 0..HoldTicks
         /\ held_for(held, ticks, latched) >= HoldTicks
              => held /\ (latched \/ fires(held, ticks, latched))
<1> USE HoldAssumption DEF held_for, fires
<1>1. CASE ~held
  BY <1>1
<1>2. CASE held /\ latched
  BY <1>2
<1>3. CASE held /\ ~latched
  BY <1>3
<1> QED BY <1>1, <1>2, <1>3

\* The tracker starts in a state that satisfies the invariant.
LEMMA InitIInv == Init => IInv
<1> SUFFICES ASSUME Init PROVE IInv
  OBVIOUS
<1>1. FlagTypes
  BY DEF Init, FlagTypes
<1>2. PlainTypes /\ HoldState
  BY HoldAssumption
     DEF Init, PlainTypes, HoldState, Mode, kNormal, kTeleop, kVla, kRecovering
<1>3. PendingStore /\ SessionState /\ TargetState
  BY DEF Init, PendingStore, SessionState, TargetState, SettledSession, StreamModes,
         kNormal, kTeleop, kVla, kRecovering
<1> QED BY <1>1, <1>2, <1>3 DEF IInv

\* The mode arbitration decides is a mode, and no claim of the encoder's
\* modes recovers.
LEMMA DecideMode ==
  ASSUME NEW m \in Mode, NEW f \in BOOLEAN, NEW a \in BOOLEAN, NEW c \in BOOLEAN,
         NEW d \in BOOLEAN
  PROVE  /\ decide(m, f, a, c, d) \in Mode
         /\ m \notin StreamModes => decide(m, f, a, c, d) # kRecovering
  BY DEF decide, Mode, StreamModes, kNormal, kTeleop, kVla, kRecovering

\* Every step of the tracker's tick keeps the invariant.
LEMMA TrackerIInv == IInv /\ Tracker => IInv'
<1> SUFFICES ASSUME IInv, Tracker PROVE IInv'
  OBVIOUS
<1> USE HoldAssumption DEF claims, gestures, targets, arbiter, headset
<1>1. CASE ServeReset
  <2>1. PlainTypes'
    BY <1>1 DEF ServeReset, disengage_fullbody, IInv, PlainTypes
  <2>2. FlagTypes'
    BY <1>1 DEF ServeReset, disengage_fullbody, IInv, FlagTypes
  <2>3. HoldState'
    BY <1>1 DEF ServeReset, disengage_fullbody, IInv, HoldState
  <2>4. PendingStore' /\ SessionState' /\ TargetState'
    BY <1>1 DEF ServeReset, disengage_fullbody, IInv, PendingStore, SessionState, TargetState, SettledSession
  <2> QED BY <2>1, <2>2, <2>3, <2>4 DEF IInv
<1>2. CASE BGate
  <2>1. PlainTypes'
    BY <1>2 DEF BGate, stream_holds, IInv, PlainTypes
  <2>2. FlagTypes'
    BY <1>2 DEF BGate, stream_holds, IInv, FlagTypes
  <2>3. HoldState'
    BY <1>2 DEF BGate, stream_holds, IInv, HoldState
  <2>4. PendingStore' /\ SessionState' /\ TargetState'
    BY <1>2 DEF BGate, stream_holds, IInv, PendingStore, SessionState, TargetState, SettledSession
  <2> QED BY <2>1, <2>2, <2>3, <2>4 DEF IInv
<1>3. CASE BAct
  <2> DEFINE fire == fires(button = "B", calib_hold_ticks, calib_gesture_latched)
  <2>1. /\ tpc = "b_act" /\ tpc' = "a_gate"
        /\ calib_gesture_latched' = (button = "B" /\ (calib_gesture_latched \/ fire))
        /\ calib_hold_ticks' = held_for(button = "B", calib_hold_ticks,
                                        calib_gesture_latched)
        /\ calibrate_request' = (calibrate_request \/ (fire /\ ~calibrated))
        /\ calibrated' = (calibrated /\ ~fire)
        /\ vr3point_buf' = (vr3point_buf /\ ~(fire /\ calibrated))
        /\ UNCHANGED <<fullbody_engaged, reset_request, fb_hold_ticks,
                       fb_gesture_latched, smpl_window_buf, arbiter, headset>>
    BY <1>3 DEF BAct
  <2>2. /\ calib_hold_ticks' \in 0..HoldTicks
        /\ calib_hold_ticks' >= HoldTicks => button = "B" /\ (calib_gesture_latched \/ fire)
    BY <2>1, HoldStep DEF IInv, PlainTypes, FlagTypes, HoldState
  <2> HIDE DEF fire
  <2>3. PlainTypes' /\ FlagTypes' /\ HoldState'
    BY <2>1, <2>2 DEF IInv, PlainTypes, FlagTypes, HoldState
  <2>4. PendingStore' /\ SessionState' /\ TargetState'
    BY <2>1 DEF IInv, PlainTypes, FlagTypes, PendingStore, SessionState, TargetState,
                SettledSession
  <2> QED BY <2>3, <2>4 DEF IInv
<1>4. CASE AGate
  <2>1. PlainTypes'
    BY <1>4 DEF AGate, stream_holds, IInv, PlainTypes
  <2>2. FlagTypes'
    BY <1>4 DEF AGate, stream_holds, IInv, FlagTypes
  <2>3. HoldState'
    BY <1>4 DEF AGate, stream_holds, IInv, HoldState
  <2>4. PendingStore' /\ SessionState' /\ TargetState'
    BY <1>4 DEF AGate, stream_holds, IInv, PendingStore, SessionState, TargetState, SettledSession
  <2> QED BY <2>1, <2>2, <2>3, <2>4 DEF IInv
<1>5. CASE AAct
  <2> DEFINE fire == fires(button = "A", fb_hold_ticks, fb_gesture_latched)
  <2>1. /\ tpc = "a_act" /\ tpc' = "sample"
        /\ fb_gesture_latched' = (button = "A" /\ (fb_gesture_latched \/ fire))
        /\ fb_hold_ticks' = held_for(button = "A", fb_hold_ticks, fb_gesture_latched)
        /\ UNCHANGED <<calibrated, calibrate_request, reset_request, calib_hold_ticks,
                       calib_gesture_latched, vr3point_buf, arbiter, headset>>
    BY <1>5 DEF AAct
  <2>2. \/ fullbody_engaged' = FALSE /\ smpl_window_buf' = FALSE
        \/ fullbody_engaged' = TRUE /\ smpl_window_buf' = smpl_window_buf
        \/ UNCHANGED <<fullbody_engaged, smpl_window_buf>>
    BY <1>5 DEF AAct, disengage_fullbody
  <2>3. /\ fb_hold_ticks' \in 0..HoldTicks
        /\ fb_hold_ticks' >= HoldTicks => button = "A" /\ (fb_gesture_latched \/ fire)
    BY <2>1, HoldStep DEF IInv, PlainTypes, FlagTypes, HoldState
  <2> HIDE DEF fire
  <2>4. PlainTypes' /\ FlagTypes' /\ HoldState'
    <3>1. PlainTypes' /\ HoldState'
      BY <2>1, <2>3 DEF IInv, PlainTypes, HoldState
    <3>2. FlagTypes'
      BY <2>1, <2>2 DEF IInv, FlagTypes
    <3> QED BY <3>1, <3>2
  <2>5. PendingStore' /\ SessionState' /\ TargetState'
    BY <2>1, <2>2 DEF IInv, PlainTypes, FlagTypes, PendingStore, SessionState,
                      TargetState, SettledSession
  <2> QED BY <2>4, <2>5 DEF IInv
<1>6. CASE Sample
  <2>1. /\ tpc = "sample" /\ tpc' = "reset"
        /\ body_buf' = IF body_buf = "new" THEN "seen" ELSE body_buf
        /\ UNCHANGED <<reset_request, gestures, arbiter, body_stale, button, armed>>
        /\ process /\ fullbody_tick
    BY <1>6 DEF Sample
  <2>2. /\ calibrated' \in BOOLEAN /\ calibrate_request' \in BOOLEAN
        /\ vr3point_buf' \in BOOLEAN
        /\ vr3point_buf' <=> calibrated'
        /\ calibrated' => body_buf # "none"
    BY <2>1 DEF process, IInv, FlagTypes, PlainTypes, TargetState
  <2>3. \/ fullbody_engaged' = FALSE /\ smpl_window_buf' = FALSE
        \/ fullbody_engaged /\ fullbody_engaged' = TRUE /\ smpl_window_buf' = TRUE
    BY <2>1 DEF fullbody_tick, disengage_fullbody, IInv, FlagTypes, TargetState
  <2>4. PlainTypes' /\ HoldState'
    BY <2>1 DEF IInv, PlainTypes, HoldState
  <2>5. FlagTypes'
    BY <2>1, <2>2, <2>3 DEF IInv, FlagTypes
  <2>6. PendingStore' /\ SessionState' /\ TargetState'
    BY <2>1, <2>2, <2>3
       DEF IInv, PendingStore, SessionState, TargetState, SettledSession
  <2> QED BY <2>4, <2>5, <2>6 DEF IInv
<1> QED BY <1>1, <1>2, <1>3, <1>4, <1>5, <1>6 DEF Tracker

\* So does every other thread.
LEMMA OthersIInv ==
  IInv /\ (\/ ArbiterDecide \/ ArbiterStore \/ ArbiterClaim
           \/ BodySample \/ BodyAges \/ OperatorPresses \/ InputModeChanges) => IInv'
<1> USE DEF claims, gestures, targets, arbiter, headset, thread_state
<1>1. ASSUME IInv, ArbiterDecide PROVE IInv'
  <2>1. PICK f, a, d \in BOOLEAN :
          next_mode' = decide(mode, f, a, calibrated \/ fullbody_engaged, d)
    BY <1>1 DEF ArbiterDecide
  <2>2. next_mode' \in Mode /\ (mode \notin StreamModes => next_mode' # kRecovering)
    BY <1>1, <2>1, DecideMode DEF IInv, PlainTypes, FlagTypes
  <2> QED BY <1>1, <2>2
          DEF ArbiterDecide, IInv, PlainTypes, FlagTypes, HoldState, PendingStore,
              SessionState, TargetState, SettledSession
<1>2. ASSUME IInv, ArbiterStore PROVE IInv'
  <2> USE DEF StreamModes, Mode, kNormal, kTeleop, kVla, kRecovering
  <2> QED BY <1>2
          DEF ArbiterStore, IInv, PlainTypes, FlagTypes, HoldState, PendingStore,
              SessionState, TargetState, SettledSession
<1>3. ASSUME IInv, ArbiterClaim PROVE IInv'
  BY <1>3 DEF ArbiterClaim, IInv, PlainTypes, FlagTypes, HoldState, PendingStore,
              SessionState, TargetState, SettledSession
<1>4. ASSUME IInv, BodySample \/ BodyAges \/ OperatorPresses \/ InputModeChanges
      PROVE  IInv'
  <2> USE <1>4 DEF BodySample, BodyAges, OperatorPresses, InputModeChanges
  <2>1. PlainTypes' /\ HoldState'
    BY DEF IInv, PlainTypes, HoldState
  <2>2. FlagTypes'
    BY DEF IInv, FlagTypes
  <2>3. PendingStore' /\ SessionState' /\ TargetState'
    BY DEF IInv, PendingStore, SessionState, TargetState, SettledSession
  <2> QED BY <2>1, <2>2, <2>3 DEF IInv
<1> QED BY <1>1, <1>2, <1>3, <1>4

\* The inductive invariant of the tracker and the control thread together.
THEOREM TrackerInvariant == Spec => []IInv
<1>1. IInv /\ [Next]_vars => IInv'
  <2>1. IInv /\ UNCHANGED vars => IInv'
    BY DEF vars, claims, gestures, targets, arbiter, headset, IInv, PlainTypes, FlagTypes,
           HoldState, PendingStore, SessionState, TargetState, SettledSession
  <2> QED BY <2>1, TrackerIInv, OthersIInv DEF Next
<1> QED BY <1>1, InitIInv, PTL DEF Spec

\* Every variable of the tracker keeps its type: a hold never counts past its
\* threshold (teleop_tracker.cpp:158-161, 206-209).
THEOREM TrackerTypeOK == Spec => []TypeOK
<1>1. IInv => TypeOK
  BY DEF IInv, PlainTypes, FlagTypes, TypeOK
<1> QED BY <1>1, TrackerInvariant, PTL

\* The full-body flavor never survives into a session of the stream, however
\* the gesture and the claim interleave (whole_body_controller.cpp:479-483).
THEOREM SessionHidesNoFullbody == Spec => []FullbodyNotHidden
<1>1. IInv => FullbodyNotHidden
  BY DEF IInv, SessionState, FullbodyNotHidden
<1> QED BY <1>1, TrackerInvariant, PTL

\* Between two ticks the published targets and the claims agree
\* (teleop_tracker.hpp:31-35).
THEOREM TargetsAreOwned == Spec => []TargetsFollowClaims
<1>1. IInv => TargetsFollowClaims
  BY DEF IInv, FlagTypes, TargetState, TargetsFollowClaims
<1> QED BY <1>1, TrackerInvariant, PTL

\* No hold of B asks for a calibration within a session of the stream
\* (teleop_tracker.cpp:138-148).
THEOREM SessionsRequestNothing == Spec => NoRequestInSession
<1> DEFINE Quiet == SettledSession => (calibrate_request' => calibrate_request)
<1>1. IInv /\ [Next]_vars => [Quiet]_vars
  <2> SUFFICES ASSUME IInv, Next, SettledSession, calibrate_request'
               PROVE  calibrate_request
    OBVIOUS
  <2>1. ~BAct
    BY DEF BAct, IInv, SessionState
  <2>2. CASE Sample
    BY <2>2 DEF Sample, process
  <2>3. CASE UNCHANGED calibrate_request
    BY <2>3
  <2> QED BY <2>1, <2>2, <2>3
          DEF Next, Tracker, ServeReset, BGate, AGate, AAct, ArbiterDecide, ArbiterStore,
              ArbiterClaim, BodySample, BodyAges, OperatorPresses, InputModeChanges,
              thread_state
<1>2. Spec => [][Quiet]_vars
  BY <1>1, TrackerInvariant, PTL DEF Spec
<1> QED BY <1>2 DEF NoRequestInSession

-----------------------------------------------------------------------------
(* The full-body window: arithmetic                                        *)

LEMMA WindowConstants ==
  /\ kRing \in Nat /\ kRing >= 6 /\ kHistory \in Nat \ {0} /\ kFrames \in Nat \ {0}
  /\ MaxTicks \in Nat /\ kLookaheadTicks \in 0..(kHistory - 1)
  /\ 100 <= 20 * (kRing - 1)
BY PoseWindowAssumption, RingSpan DEF max_delay, TickMs

AtMost(n, bound) == IF n < bound THEN n ELSE bound

(* One turn around a ring.                                                 *)
LEMMA Around ==
  ASSUME NEW n \in Nat \ {0}, NEW x \in 0..(2 * n - 1)
  PROVE  (x % n) = IF x < n THEN x ELSE x - n
OBVIOUS

(* The entry k behind a head that has moved on is the entry k - 1 behind   *)
(* the head before, and not the new head.                                  *)
LEMMA Behind ==
  ASSUME NEW n \in Nat \ {0}, NEW head \in 0..(n - 1)
  PROVE  LET next == (head + 1) % n
         IN  /\ next \in 0..(n - 1) /\ ((next - 0 + n) % n) = next
             /\ \A k \in 1..(n - 1) : /\ ((next - k + n) % n) = ((head - (k - 1) + n) % n)
                                      /\ ((next - k + n) % n) \in 0..(n - 1)
                                      /\ ((next - k + n) % n) # next
<1> DEFINE next == (head + 1) % n
<1>1. next = IF head + 1 < n THEN head + 1 ELSE 0
  <2> DEFINE x == head + 1
  <2>1. x \in 0..(2 * n - 1)
    OBVIOUS
  <2>2. (x % n) = IF x < n THEN x ELSE x - n
    BY <2>1, Around
  <2> QED BY <2>2
<1> HIDE DEF next
<1>2. next \in 0..(n - 1)
  BY <1>1
<1>3. \A h \in 0..(n - 1), k \in 0..(n - 1) :
        ((h - k + n) % n) = IF k <= h THEN h - k ELSE h - k + n
  <2> TAKE h \in 0..(n - 1), k \in 0..(n - 1)
  <2>1. h - k + n \in 0..(2 * n - 1)
    OBVIOUS
  <2> DEFINE x == h - k + n
  <2>2. (x % n) = IF x < n THEN x ELSE x - n
    BY <2>1, Around
  <2> QED BY <2>2
<1>4. ((next - 0 + n) % n) = next
  BY <1>2, <1>3
<1>5. ASSUME NEW k \in 1..(n - 1)
      PROVE  /\ ((next - k + n) % n) = ((head - (k - 1) + n) % n)
             /\ ((next - k + n) % n) \in 0..(n - 1)
             /\ ((next - k + n) % n) # next
  <2>1. ((next - k + n) % n) = IF k <= next THEN next - k ELSE next - k + n
    BY <1>2, <1>3
  <2>2. ((head - (k - 1) + n) % n) = IF k - 1 <= head THEN head - (k - 1) ELSE head - (k - 1) + n
    <3>1. k - 1 \in 0..(n - 1)
      OBVIOUS
    <3> DEFINE j == k - 1
    <3>2. ((head - j + n) % n) = IF j <= head THEN head - j ELSE head - j + n
      BY <1>3, <3>1
    <3> QED BY <3>2
  <2> QED BY <1>1, <2>1, <2>2
<1> QED BY <1>2, <1>4, <1>5 DEF next

LEMMA InRing ==
  ASSUME NEW n \in Nat \ {0}, NEW head \in 0..(n - 1)
  PROVE  /\ ((head - 0 + n) % n) = head
         /\ \A k \in Int : ((head - k + n) % n) \in 0..(n - 1)
<1>1. ((head - 0 + n) % n) = head
  <2> DEFINE x == head - 0 + n
  <2>1. x \in 0..(2 * n - 1)
    OBVIOUS
  <2>2. (x % n) = IF x < n THEN x ELSE x - n
    BY <2>1, Around
  <2> QED BY <2>2
<1>2. ASSUME NEW k \in Int PROVE ((head - k + n) % n) \in 0..(n - 1)
  <2> DEFINE x == head - k + n
  <2>1. x \in Int
    OBVIOUS
  <2> HIDE DEF x
  <2>2. (x % n) \in 0..(n - 1)
    BY <2>1
  <2> QED BY <2>2 DEF x
<1> QED BY <1>1, <1>2

(* A set of naturals that is not empty has a least element.                *)
LEMMA Least ==
  ASSUME NEW T \in SUBSET Nat, T # {}
  PROVE  \E x \in T : \A y \in T : x <= y
<1> DEFINE R == OpToRel(<, Nat)
<1>1. IsWellFoundedOn(R, Nat)
  BY NatLessThanWellFounded
<1>2. \A x, y \in Nat : x < y => <<x, y>> \in R
  BY DEF OpToRel
<1> HIDE DEF R
<1>3. PICK x \in T : \A y \in T : ~(<<y, x>> \in R)
  BY <1>1, WFMin
<1>4. ASSUME NEW y \in T PROVE x <= y
  <2>1. x \in Nat /\ y \in Nat
    OBVIOUS
  <2>2. ~(y < x)
    BY <1>2, <1>3, <2>1, Zenon
  <2> QED BY <2>1, <2>2
<1> QED BY <1>4

(* A product divided by one of its factors.                                *)
LEMMA Quotient ==
  ASSUME NEW p \in Nat \ {0}, NEW q \in Nat
  PROVE  (p * q) \div p = q
<1> DEFINE z == (p * q) \div p
<1>1. p * q \in Nat /\ z \in Int /\ p * z <= p * q /\ p * q < p * (z + 1)
  OBVIOUS
<1> HIDE DEF z
<1>2. ~(z < q)
  <2>1. z + 1 <= q => p * (z + 1) <= p * q
    BY <1>1, SMTT(20)
  <2> QED BY <1>1, <2>1
<1>3. ~(z > q)
  <2>1. z >= q + 1 => p * z >= p * (q + 1)
    BY <1>1, SMTT(20)
  <2>2. p * (q + 1) > p * q
    OBVIOUS
  <2> QED BY <1>1, <2>1, <2>2
<1> QED BY <1>1, <1>2, <1>3 DEF z

(* Between two samples the interpolated pose is the target's own instant.  *)
LEMMA Interpolates ==
  ASSUME NEW older \in Int, NEW newer \in Int, NEW target \in Int,
         older <= target, target < newer
  PROVE  lerp(older, newer, target) = target
<1>1. Clamp(target - older, 0, newer - older) = target - older
  BY DEF Clamp
<1>2. newer - older \in Nat \ {0} /\ target - older \in Nat
  OBVIOUS
<1>3. ((newer - older) * (target - older)) \div (newer - older) = target - older
  BY <1>2, Quotient
<1>4. ~(newer <= older)
  OBVIOUS
<1>5. lerp(older, newer, target) = older + (target - older)
  BY <1>1, <1>3, <1>4, Zenon DEF lerp
<1> QED BY <1>5

-----------------------------------------------------------------------------
(* The resampler                                                           *)

Resampler == [times : [0..(kRing - 1) -> Int], head : 0..(kRing - 1), count : 0..kRing,
              interval : Nat]

LEMMA DelayBounds ==
  ASSUME NEW r \in Resampler
  PROVE  delay(r) \in 20..100
<1> DEFINE i == r.interval
<1>1. i \in Nat
  BY DEF Resampler
<1> HIDE DEF i
<1>2. Clamp((3 * i) \div 2, 20, 100) \in 20..100
  BY <1>1 DEF Clamp
<1> QED BY <1>2 DEF delay, i, min_delay, max_delay

(* What one push leaves in the ring.                                       *)
LEMMA PushFields ==
  ASSUME NEW r \in Resampler, NEW t \in Int, r.count = 0 \/ t > kept(r, 0)
  PROVE  /\ push(r, t) \in Resampler
         /\ r.count = 0 => /\ push(r, t).times = [r.times EXCEPT ![r.head] = t]
                           /\ push(r, t).head = r.head /\ push(r, t).count = 1
         /\ r.count > 0 =>
              /\ push(r, t).times = [r.times EXCEPT ![(r.head + 1) % kRing] = t]
              /\ push(r, t).head = (r.head + 1) % kRing
              /\ push(r, t).count = AtMost(r.count + 1, kRing)
              /\ push(r, t).interval = estimate(r, t - kept(r, 0))
<1>1. /\ r.times \in [0..(kRing - 1) -> Int] /\ r.head \in 0..(kRing - 1)
      /\ r.count \in 0..kRing /\ r.interval \in Nat
  BY DEF Resampler
<1>2. CASE r.count = 0
  <2>1. push(r, t) = [r EXCEPT !.times[r.head] = t, !.count = 1]
    BY <1>2 DEF push
  <2>2. [r EXCEPT !.times[r.head] = t, !.count = 1] \in Resampler
    <3> DEFINE q == [r EXCEPT !.times[r.head] = t]
    <3>1. q \in Resampler
      BY <1>1 DEF Resampler
    <3>2. [r EXCEPT !.times[r.head] = t, !.count = 1] = [q EXCEPT !.count = 1]
      OBVIOUS
    <3>3. 1 \in 0..kRing
      BY WindowConstants
    <3> HIDE DEF q
    <3>4. [q EXCEPT !.count = 1] \in Resampler
      BY <3>1, <3>3 DEF Resampler
    <3> QED BY <3>2, <3>4
  <2>3. /\ [r EXCEPT !.times[r.head] = t, !.count = 1].times = [r.times EXCEPT ![r.head] = t]
        /\ [r EXCEPT !.times[r.head] = t, !.count = 1].head = r.head
        /\ [r EXCEPT !.times[r.head] = t, !.count = 1].count = 1
    BY DEF Resampler
  <2> QED BY <1>2, <2>1, <2>2, <2>3
<1>3. CASE r.count > 0
  <2> DEFINE next == (r.head + 1) % kRing
             dt == t - kept(r, 0)
             e == estimate(r, dt)
             c == IF r.count < kRing THEN r.count + 1 ELSE kRing
             ts == [r.times EXCEPT ![next] = t]
  <2>1. kept(r, 0) \in Int
    BY <1>1, WindowConstants, InRing DEF kept
  <2>2. dt \in Nat \ {0}
    BY <1>3, <2>1
  <2> HIDE DEF dt
  <2>3. e \in Nat
    BY <1>1, <2>2 DEF estimate
  <2>4. next \in 0..(kRing - 1)
    BY <1>1, WindowConstants
  <2>5. c \in 0..kRing /\ c = AtMost(r.count + 1, kRing)
    BY <1>1, WindowConstants DEF AtMost
  <2>6. push(r, t) = [times |-> ts, head |-> next, count |-> c, interval |-> e]
    BY <1>3, <2>2 DEF push, dt
  <2> HIDE DEF next, c, e
  <2>7. ts \in [0..(kRing - 1) -> Int]
    BY <1>1
  <2>8. push(r, t) \in Resampler
    BY <2>3, <2>4, <2>5, <2>6, <2>7 DEF Resampler
  <2> QED BY <1>3, <2>5, <2>6, <2>8 DEF next, e, dt
<1> QED BY <1>1, <1>2, <1>3

(* The ring holds the session's last samples, newest first.                *)
Mirrors(r, s) ==
  /\ r.count = AtMost(Len(s), kRing)
  /\ \A k \in 0..(r.count - 1) : kept(r, k) = s[Len(s) - k]

LEMMA PushMirrors ==
  ASSUME NEW r \in Resampler, NEW t \in Int, r.count = 0 \/ t > kept(r, 0),
         NEW s \in Seq(Int), Mirrors(r, s)
  PROVE  Mirrors(push(r, t), Append(s, t))
<1>1. /\ r.times \in [0..(kRing - 1) -> Int] /\ r.head \in 0..(kRing - 1) /\ r.count \in 0..kRing
      /\ kRing \in Nat \ {0} /\ kRing >= 6 /\ Len(s) \in Nat
  BY WindowConstants DEF Resampler
<1>2. /\ Append(s, t) \in Seq(Int) /\ Len(Append(s, t)) = Len(s) + 1
      /\ Append(s, t)[Len(s) + 1] = t
      /\ \A i \in 1..Len(s) : Append(s, t)[i] = s[i]
  BY AppendProperties
<1> DEFINE p == push(r, t)
<1>3. CASE r.count = 0
  <2>1. p.times[r.head] = t /\ p.head = r.head /\ p.count = 1
    BY <1>1, <1>3, PushFields
  <2>2. Len(s) = 0
    BY <1>1, <1>3 DEF Mirrors, AtMost
  <2>3. kept(p, 0) = t
    BY <1>1, <2>1, InRing DEF kept
  <2> QED BY <1>1, <1>2, <2>1, <2>2, <2>3 DEF Mirrors, AtMost
<1>4. CASE r.count > 0
  <2> DEFINE next == (r.head + 1) % kRing
  <2>1. /\ p.times = [r.times EXCEPT ![next] = t] /\ p.head = next
        /\ p.count = AtMost(r.count + 1, kRing)
    BY <1>4, PushFields
  <2>2. /\ next \in 0..(kRing - 1) /\ ((next - 0 + kRing) % kRing) = next
        /\ \A k \in 1..(kRing - 1) :
             /\ ((next - k + kRing) % kRing) = ((r.head - (k - 1) + kRing) % kRing)
             /\ ((next - k + kRing) % kRing) \in 0..(kRing - 1)
             /\ ((next - k + kRing) % kRing) # next
    BY <1>1, Behind
  <2> HIDE DEF next, p
  <2>3. kept(p, 0) = t
    BY <1>1, <2>1, <2>2 DEF kept
  <2>4. ASSUME NEW k \in 1..(kRing - 1) PROVE kept(p, k) = kept(r, k - 1)
    BY <1>1, <2>1, <2>2 DEF kept
  <2>5. p.count = AtMost(Len(s) + 1, kRing) /\ r.count = AtMost(Len(s), kRing)
    BY <1>1, <2>1 DEF Mirrors, AtMost
  <2>6. ASSUME NEW k \in 0..(p.count - 1)
        PROVE  kept(p, k) = Append(s, t)[Len(Append(s, t)) - k]
    <3>1. CASE k = 0
      BY <1>1, <1>2, <2>3, <3>1
    <3>2. CASE k # 0
      <4>1. k \in 1..(kRing - 1) /\ k - 1 \in 0..(r.count - 1) /\ Len(s) - (k - 1) \in 1..Len(s)
        BY <1>1, <2>5, <3>2 DEF AtMost
      <4>2. kept(r, k - 1) = s[Len(s) - (k - 1)]
        BY <4>1 DEF Mirrors
      <4> QED BY <1>1, <1>2, <2>4, <4>1, <4>2
    <3> QED BY <3>1, <3>2
  <2> QED BY <1>2, <2>5, <2>6 DEF Mirrors, p
<1> QED BY <1>1, <1>3, <1>4

(* The walk back over a ring whose oldest sample is the session's first,   *)
(* or old enough, ends at the pose of the target itself, held to the       *)
(* session's first and newest sample.                                      *)
LEMMA SampleShows ==
  ASSUME NEW r \in Resampler, r.count > 0, NEW first \in Int, NEW now \in Int,
         \A i, j \in 0..(r.count - 1) : i <= j => kept(r, j) <= kept(r, i),
         first <= kept(r, r.count - 1),
         kept(r, r.count - 1) = first \/ kept(r, r.count - 1) <= now - delay(r)
  PROVE  sample(r, now) = Clamp(now - delay(r), first, kept(r, 0))
<1> DEFINE target == now - delay(r)
           last == r.count - 1
           at_or_before == {k \in 0..(r.count - 1) : kept(r, k) <= target}
<1>1. /\ r.count \in 1..kRing /\ last \in Nat /\ kRing \in Nat /\ target \in Int
      /\ \A k \in 0..last : kept(r, k) \in Int
  <2>1. r.count \in 1..kRing /\ kRing \in Nat \ {0} /\ r.times \in [0..(kRing - 1) -> Int]
        /\ r.head \in 0..(kRing - 1)
    BY WindowConstants DEF Resampler
  <2>2. target \in Int
    BY DelayBounds
  <2>3. ASSUME NEW k \in 0..last PROVE kept(r, k) \in Int
    <3>1. ((r.head - k + kRing) % kRing) \in 0..(kRing - 1)
      BY <2>1, InRing
    <3> QED BY <2>1, <3>1 DEF kept
  <2> QED BY <2>1, <2>2, <2>3
<1>2. CASE at_or_before = {}
  <2>1. sample(r, now) = kept(r, last)
    BY <1>2 DEF sample
  <2>2. kept(r, last) > target /\ kept(r, 0) > target
    BY <1>1, <1>2
  <2> QED BY <1>1, <2>1, <2>2 DEF Clamp
<1>3. CASE 0 \in at_or_before
  <2>1. sample(r, now) = kept(r, 0)
    BY <1>3 DEF sample
  <2>2. first <= kept(r, 0) /\ kept(r, 0) <= target
    BY <1>1, <1>3
  <2> QED BY <1>1, <2>1, <2>2 DEF Clamp
<1>4. CASE at_or_before # {} /\ 0 \notin at_or_before
  <2> DEFINE k == CHOOSE k \in at_or_before : \A j \in at_or_before : k <= j
  <2>1. at_or_before \in SUBSET Nat
    BY <1>1
  <2>2. k \in at_or_before /\ \A j \in at_or_before : k <= j
    BY <1>4, <2>1, Least
  <2>3. sample(r, now) = lerp(kept(r, k), kept(r, k - 1), target)
    BY <1>4 DEF sample
  <2> HIDE DEF k
  <2>4. k \in 1..last /\ k - 1 \in 0..last /\ k - 1 \notin at_or_before
    BY <1>1, <1>4, <2>2
  <2>5. kept(r, k) <= target /\ target < kept(r, k - 1)
    BY <1>1, <2>2, <2>4
  <2>6. sample(r, now) = target
    BY <1>1, <2>3, <2>4, <2>5, Interpolates
  <2>7. first <= target /\ target < kept(r, 0)
    BY <1>1, <2>4, <2>5
  <2> QED BY <1>1, <2>6, <2>7 DEF Clamp
<1> QED BY <1>2, <1>3, <1>4

(* A sample that arrives within the longest delay moves the delay by a     *)
(* tick at most.                                                           *)
LEMMA DelayGrows ==
  ASSUME NEW r \in Resampler, NEW q \in Resampler, NEW dt \in 1..99,
         q.interval = (9 * r.interval + dt) \div 10
  PROVE  delay(q) <= delay(r) + 20
<1> DEFINE i == r.interval
           j == (9 * i + dt) \div 10
<1>1. i \in Nat
  BY DEF Resampler
<1>2. q.interval = j
  OBVIOUS
<1> HIDE DEF i
<1>3. Clamp((3 * j) \div 2, 20, 100) <= Clamp((3 * i) \div 2, 20, 100) + 20
  BY <1>1 DEF Clamp
<1> HIDE DEF j
<1> QED BY <1>2, <1>3 DEF delay, min_delay, max_delay, i

-----------------------------------------------------------------------------
(* The delay line                                                          *)

(* The delay line holds the last poses of the grid, newest first.          *)
Lines(h, head, count, g) ==
  /\ count = AtMost(Len(g), kHistory)
  /\ \A d \in 0..(count - 1) : h[(head - d + kHistory) % kHistory] = g[Len(g) - d]

LEMMA LinePush ==
  ASSUME NEW h \in [0..(kHistory - 1) -> Int], NEW head \in 0..(kHistory - 1),
         NEW count \in 0..kHistory, NEW g \in Seq(Int), Lines(h, head, count, g), NEW pose \in Int,
         NEW next, next = IF count = 0 THEN 0 ELSE (head + 1) % kHistory
  PROVE  /\ next \in 0..(kHistory - 1)
         /\ Lines([h EXCEPT ![next] = pose], next,
                  IF count < kHistory THEN count + 1 ELSE kHistory, Append(g, pose))
<1> DEFINE n == IF count < kHistory THEN count + 1 ELSE kHistory
           hh == [h EXCEPT ![next] = pose]
<1>1. kHistory \in Nat \ {0} /\ Len(g) \in Nat /\ count = AtMost(Len(g), kHistory)
  BY WindowConstants DEF Lines
<1>2. /\ Len(Append(g, pose)) = Len(g) + 1 /\ Append(g, pose)[Len(g) + 1] = pose
      /\ \A i \in 1..Len(g) : Append(g, pose)[i] = g[i]
  BY AppendProperties
<1>3. n = AtMost(Len(g) + 1, kHistory) /\ n \in 1..kHistory
  BY <1>1 DEF AtMost
<1>4. next \in 0..(kHistory - 1)
  BY <1>1, Behind
<1>5. hh[(next - 0 + kHistory) % kHistory] = pose
  BY <1>1, <1>4, InRing
<1>6. ASSUME NEW d \in 1..(n - 1)
      PROVE  hh[(next - d + kHistory) % kHistory] = g[Len(g) - (d - 1)]
  <2>1. count > 0 /\ d \in 1..(kHistory - 1) /\ d - 1 \in 0..(count - 1)
    BY <1>1, <1>3 DEF AtMost
  <2>2. next = (head + 1) % kHistory
    BY <2>1
  <2>3. /\ ((next - d + kHistory) % kHistory) = ((head - (d - 1) + kHistory) % kHistory)
        /\ ((next - d + kHistory) % kHistory) \in 0..(kHistory - 1)
        /\ ((next - d + kHistory) % kHistory) # next
    BY <1>1, <2>1, <2>2, Behind
  <2>4. h[(head - (d - 1) + kHistory) % kHistory] = g[Len(g) - (d - 1)]
    BY <2>1 DEF Lines
  <2> QED BY <2>3, <2>4
<1> HIDE DEF n, hh
<1>7. ASSUME NEW d \in 0..(n - 1)
      PROVE  hh[(next - d + kHistory) % kHistory] = Append(g, pose)[Len(Append(g, pose)) - d]
  <2>1. CASE d = 0
    BY <1>1, <1>2, <1>5, <2>1
  <2>2. CASE d # 0
    <3>1. d \in 1..(n - 1) /\ Len(g) - (d - 1) \in 1..Len(g)
      BY <1>1, <1>3, <2>2 DEF AtMost
    <3> QED BY <1>1, <1>2, <1>6, <3>1
  <2> QED BY <2>1, <2>2
<1> QED BY <1>2, <1>3, <1>4, <1>7 DEF Lines, n, hh

(* No frame reads behind what the session wrote.                           *)
LEMMA LineFrames ==
  ASSUME NEW h \in [0..(kHistory - 1) -> Int], NEW head \in 0..(kHistory - 1),
         NEW count \in 0..kHistory, NEW g \in Seq(Int), Lines(h, head, count, g), g # <<>>,
         NEW f \in 1..kFrames
  PROVE  h[(head - depth(f - 1, count) + kHistory) % kHistory]
           = g[Len(g) - Clamp(kLookaheadTicks - (f - 1), 0, Len(g) - 1)]
<1>1. /\ kHistory \in Nat \ {0} /\ Len(g) \in Nat /\ Len(g) > 0
      /\ count = AtMost(Len(g), kHistory) /\ kLookaheadTicks \in 0..(kHistory - 1)
  BY WindowConstants, EmptySeq DEF Lines
<1>2. /\ depth(f - 1, count) = Clamp(kLookaheadTicks - (f - 1), 0, Len(g) - 1)
      /\ depth(f - 1, count) \in 0..(count - 1)
  BY <1>1, WindowConstants DEF depth, Clamp, AtMost
<1> QED BY <1>2 DEF Lines

-----------------------------------------------------------------------------
(* The session                                                             *)

WindowTypes ==
  /\ fb_resampler \in Resampler
  /\ history \in [0..(kHistory - 1) -> Int]
  /\ hist_head \in 0..(kHistory - 1) /\ hist_count \in 0..kHistory
  /\ session \in [on : BOOLEAN, ticks : 0..MaxTicks]
  /\ last_sample \in Int /\ samples \in Seq(Int) /\ grid \in Seq(Int)

(* Samples come in the order of their times, one a tick at most, and none  *)
(* before it was received.                                                 *)
InOrder(s) == \A i, j \in 1..Len(s) : i <= j => s[i] <= s[j]
Received(s, n) == \A i \in 1..Len(s) : s[i] <= 20 * (n - (Len(s) - i))

SampleInv ==
  /\ InOrder(samples)
  /\ session.on =>
       /\ last_sample <= 20 * session.ticks
       /\ session.ticks > 0 => samples # <<>> /\ samples[Len(samples)] = last_sample
       /\ Received(samples, session.ticks - 1)

RingInv == session.on => Mirrors(fb_resampler, samples)

(* The newest pose of the grid is the delayed instant of the last tick,    *)
(* held to the session's first and newest sample.                          *)
GridInv ==
  session.on =>
    /\ Len(grid) = session.ticks /\ (grid = <<>> => samples = <<>>)
    /\ grid # <<>> =>
         grid[Len(grid)] = Clamp(20 * (session.ticks - 1) - delay(fb_resampler),
                                 samples[1], last_sample)

LineInv ==
  /\ ~session.on => window = <<>>
  /\ session.on => /\ Lines(history, hist_head, hist_count, grid)
                   /\ grid = <<>> => window = <<>>

WindowInv ==
  WindowTypes /\ SampleInv /\ RingInv /\ GridInv /\ LineInv /\ NeverBackwards /\ WindowShowsGrid

LEMMA WindowAtStart == WindowInit => WindowInv
<1> SUFFICES ASSUME WindowInit PROVE WindowInv
  OBVIOUS
<1> USE WindowConstants DEF WindowInit
<1>1. fb_resampler \in Resampler
  BY DEF fresh_resampler, Resampler, seed_interval, Old
<1>2. WindowTypes
  BY <1>1, EmptySeq DEF WindowTypes, Old
<1>3. SampleInv /\ RingInv /\ GridInv /\ LineInv /\ NeverBackwards /\ WindowShowsGrid
  BY EmptySeq DEF SampleInv, InOrder, RingInv, GridInv, LineInv, NeverBackwards, WindowShowsGrid
<1> QED BY <1>2, <1>3 DEF WindowInv

LEMMA EngageStep == WindowInv /\ Engage => WindowInv'
<1> SUFFICES ASSUME WindowInv, Engage PROVE WindowInv'
  OBVIOUS
<1> USE WindowConstants DEF Engage
<1>1. fresh_resampler \in Resampler /\ fresh_resampler.count = 0
  BY DEF fresh_resampler, Resampler, seed_interval, Old
<1>2. last_sample' \in Int /\ last_sample' <= 0
  BY PoseWindowAssumption
<1>3. WindowTypes'
  BY <1>1, <1>2, EmptySeq DEF WindowInv, WindowTypes, Old
<1>4. SampleInv' /\ GridInv'
  BY <1>2, EmptySeq DEF SampleInv, InOrder, Received, GridInv
<1>5. RingInv'
  BY <1>1, EmptySeq DEF RingInv, Mirrors, AtMost
<1>6. window' = <<>> /\ LineInv'
  BY EmptySeq DEF WindowInv, LineInv, Lines, AtMost
<1>7. NeverBackwards' /\ WindowShowsGrid'
  BY <1>6, EmptySeq DEF NeverBackwards, WindowShowsGrid
<1> QED BY <1>3, <1>4, <1>5, <1>6, <1>7 DEF WindowInv

LEMMA LetGoStep ==
  WindowInv /\ let_go /\ last_sample' \in Int => WindowInv'
<1> SUFFICES ASSUME WindowInv, let_go, last_sample' \in Int PROVE WindowInv'
  OBVIOUS
<1> USE WindowConstants DEF let_go, ghosts
<1>1. WindowTypes'
  BY DEF WindowInv, WindowTypes
<1>2. (SampleInv /\ RingInv /\ GridInv /\ LineInv /\ NeverBackwards /\ WindowShowsGrid)'
  BY DEF WindowInv, SampleInv, InOrder, RingInv, GridInv, LineInv, NeverBackwards, WindowShowsGrid
<1> QED BY <1>1, <1>2 DEF WindowInv

(* One more sample, not before the last, at the time of this tick or       *)
(* before.                                                                 *)
LEMMA Arrives ==
  ASSUME NEW s \in Seq(Int), NEW n \in Nat, NEW t \in Int, t <= 20 * n,
         Len(s) > 0 => s[Len(s)] <= t, InOrder(s), Received(s, n - 1)
  PROVE  InOrder(Append(s, t)) /\ Received(Append(s, t), n)
<1> DEFINE size == Len(s)
           a == Append(s, t)
<1>1. size \in Nat /\ \A i \in 1..size : s[i] \in Int
  OBVIOUS
<1>2. a \in Seq(Int) /\ Len(a) = size + 1 /\ a[size + 1] = t /\ \A i \in 1..size : a[i] = s[i]
  BY AppendProperties
<1>3. \A i \in 1..size : s[i] <= t
  BY <1>1 DEF InOrder
<1> HIDE DEF size, a
<1>4. ASSUME NEW i \in 1..(size + 1), NEW j \in 1..(size + 1), i <= j PROVE a[i] <= a[j]
  <2>1. CASE j = size + 1 /\ i = size + 1
    BY <1>2, <2>1
  <2>2. CASE j = size + 1 /\ i # size + 1
    BY <1>1, <1>2, <1>3, <2>2
  <2>3. CASE j # size + 1
    <3>1. i \in 1..size /\ j \in 1..size
      BY <1>1, <1>4, <2>3
    <3>2. s[i] <= s[j]
      BY <1>4, <3>1 DEF size, InOrder
    <3> QED BY <1>2, <3>1, <3>2
  <2> QED BY <2>1, <2>2, <2>3
<1>5. ASSUME NEW i \in 1..(size + 1) PROVE a[i] <= 20 * (n - ((size + 1) - i))
  <2>1. CASE i = size + 1
    BY <1>1, <1>2, <2>1
  <2>2. CASE i # size + 1
    <3>1. i \in 1..size
      BY <1>1, <2>2
    <3>2. s[i] <= 20 * (n - 1 - (size - i)) /\ a[i] = s[i] /\ s[i] \in Int
      BY <1>1, <1>2, <3>1 DEF size, Received
    <3> QED BY <1>1, <3>1, <3>2
  <2> QED BY <2>1, <2>2
<1>6. InOrder(a) /\ Received(a, n)
  <2>1. Len(a) = size + 1
    BY <1>2
  <2>2. InOrder(a)
    BY <1>4, <2>1, Zenon DEF InOrder
  <2>3. Received(a, n)
    <3> SUFFICES ASSUME NEW i \in 1..Len(a) PROVE a[i] <= 20 * (n - (Len(a) - i))
      BY DEF Received
    <3>1. i \in 1..(size + 1)
      BY <2>1
    <3> QED BY <1>5, <2>1, <3>1, Zenon
  <2> QED BY <2>2, <2>3
<1> QED BY <1>6 DEF a

(* The delayed instant does not go back from one tick to the next.         *)
LEMMA TickAdvances ==
  ASSUME NEW n \in Nat, NEW first \in Int, NEW last \in Int, NEW t \in Int,
         NEW d \in 20..100, NEW e \in 20..100,
         first <= last, last <= t, t <= 20 * n,
         first = last \/ e <= d + 20 \/ t - last > 99
  PROVE  Clamp(20 * (n - 1) - d, first, last) <= Clamp(20 * n - e, first, t)
<1>1. CASE first = last
  BY <1>1 DEF Clamp
<1>2. CASE e <= d + 20
  BY <1>2 DEF Clamp
<1>3. CASE t - last > 99
  BY <1>3 DEF Clamp
<1> QED BY <1>1, <1>2, <1>3

(* A tick that keeps the session: the sample is ingested, or is the same;  *)
(* the pose it shows stands for the delayed instant, not before the last   *)
(* one; the delay line takes it, and the window is read from there.        *)
keeps(t) ==
  /\ session.on /\ session.ticks < MaxTicks
  /\ t \in arrivals(20 * session.ticks) /\ last_sample' = t
  /\ LET ingest == t # last_sample \/ fb_resampler.count = 0
      IN  /\ fb_resampler' = IF ingest THEN push(fb_resampler, t) ELSE fb_resampler
          /\ samples' = IF ingest THEN Append(samples, t) ELSE samples
  /\ process_fullbody(sample(fb_resampler', 20 * session.ticks))
  /\ grid' = Append(grid, Clamp(20 * session.ticks - delay(fb_resampler'), samples'[1],
                                samples'[Len(samples')]))
  /\ session' = [session EXCEPT !.ticks = @ + 1]

LEMMA KeepStep ==
  ASSUME WindowInv, NEW t, keeps(t)
  PROVE  WindowInv'
<1> DEFINE n == session.ticks
           now == 20 * n
           size == Len(samples)
           ingest == t # last_sample \/ fb_resampler.count = 0
<1>1. WindowTypes /\ keeps(t) /\ session \in [on : BOOLEAN, ticks : 0..MaxTicks]
  BY DEF WindowInv, WindowTypes
<1>2. /\ fb_resampler \in Resampler /\ samples \in Seq(Int) /\ grid \in Seq(Int)
      /\ history \in [0..(kHistory - 1) -> Int] /\ hist_head \in 0..(kHistory - 1)
      /\ hist_count \in 0..kHistory
  BY <1>1 DEF WindowTypes
<1>3. session'.on /\ session'.ticks = n + 1 /\ session' \in [on : BOOLEAN, ticks : 0..MaxTicks]
  <2>1. session' = [session EXCEPT !.ticks = @ + 1] /\ session.on /\ n \in Nat /\ n < MaxTicks
    BY <1>1 DEF keeps
  <2>2. n + 1 \in 0..MaxTicks
    BY <2>1, WindowConstants
  <2> QED BY <1>1, <2>1, <2>2
<1>4. n \in Nat /\ size \in Nat /\ last_sample \in Int /\ fb_resampler.count \in 0..kRing
  BY <1>1, <1>2, WindowConstants DEF WindowTypes, Resampler
<1>5. /\ Mirrors(fb_resampler, samples) /\ Lines(history, hist_head, hist_count, grid)
      /\ NeverBackwards
  BY DEF WindowInv, RingInv, LineInv, keeps
<1>6. /\ InOrder(samples) /\ Received(samples, n - 1)
      /\ last_sample <= 20 * n
      /\ n > 0 => size > 0 /\ samples[size] = last_sample
  BY <1>4, EmptySeq DEF WindowInv, SampleInv, keeps
<1>7. /\ Len(grid) = n /\ (n = 0 => size = 0)
      /\ n > 0 => grid[n] = Clamp(20 * (n - 1) - delay(fb_resampler), samples[1], last_sample)
  BY <1>2, <1>4, EmptySeq DEF WindowInv, GridInv, keeps
<1>8. t \in Int /\ last_sample <= t /\ t <= now
  <2>1. t = last_sample \/ (t > last_sample /\ \E a \in ArrivalAges : t = now - a)
    BY DEF arrivals, keeps
  <2>2. ArrivalAges \subseteq Nat
    BY PoseWindowAssumption
  <2> QED BY <1>4, <1>6, <2>1, <2>2
<1>9. /\ ingest => fb_resampler' = push(fb_resampler, t) /\ samples' = Append(samples, t)
      /\ ~ingest => fb_resampler' = fb_resampler /\ samples' = samples
      /\ last_sample' = t
  BY DEF keeps
<1>10. (fb_resampler.count = 0 <=> size = 0) /\ (size > 0 => kept(fb_resampler, 0) = samples[size])
  BY <1>2, <1>4, <1>5, WindowConstants DEF Mirrors, AtMost
<1>11. ingest => fb_resampler.count = 0 \/ t > kept(fb_resampler, 0)
  BY <1>4, <1>6, <1>7, <1>8, <1>10
<1>12. fb_resampler' \in Resampler /\ Mirrors(fb_resampler', samples')
  <2>1. CASE ingest
    <3>1. fb_resampler' \in Resampler
      BY <1>2, <1>8, <1>11, <1>9, <2>1, PushFields
    <3>2. Mirrors(push(fb_resampler, t), Append(samples, t))
      BY <1>2, <1>5, <1>8, <1>11, <2>1, PushMirrors
    <3> QED BY <1>9, <2>1, <3>1, <3>2
  <2>2. CASE ~ingest
    BY <1>2, <1>5, <1>9, <2>2
  <2> QED BY <2>1, <2>2
<1>13. /\ samples' \in Seq(Int) /\ Len(samples') > 0 /\ samples'[Len(samples')] = t
       /\ InOrder(samples') /\ Received(samples', n)
       /\ size > 0 => samples'[1] = samples[1]
  <2>1. CASE ingest
    <3>1. n \in Nat /\ samples \in Seq(Int) /\ samples' = Append(samples, t) /\ t <= 20 * n
      BY <1>2, <1>4, <1>8, <1>9, <2>1
    <3>2. Len(samples) > 0 => samples[Len(samples)] <= t
      BY <1>4, <1>6, <1>7, <1>8
    <3>3. /\ samples' \in Seq(Int) /\ Len(samples') = Len(samples) + 1
          /\ samples'[Len(samples) + 1] = t
          /\ \A i \in 1..Len(samples) : samples'[i] = samples[i]
          /\ InOrder(samples') /\ Received(samples', n)
      <4>1. InOrder(Append(samples, t)) /\ Received(Append(samples, t), n)
        BY <1>6, <1>8, <3>1, <3>2, Arrives
      <4> HIDE DEF n
      <4> QED BY <1>8, <3>1, <4>1, AppendProperties
    <3> QED BY <1>4, <3>3
  <2>2. CASE ~ingest
    <3>1. samples' = samples /\ size > 0 /\ t = last_sample
      BY <1>4, <1>10, <1>9, <2>2
    <3>2. samples[size] = last_sample
      BY <1>4, <1>6, <1>7, <3>1
    <3> HIDE DEF n, size, ingest
    <3>3. ASSUME NEW i \in 1..size PROVE samples[i] <= 20 * (n - (size - i))
      <4>1. samples[i] \in Int /\ samples[i] <= 20 * (n - 1 - (size - i))
        BY <1>2, <1>6 DEF n, size, Received
      <4> QED BY <1>4, <4>1
    <3>4. Received(samples', n)
      BY <3>1, <3>3 DEF Received, size
    <3> QED BY <1>2, <1>4, <1>6, <3>1, <3>2, <3>4 DEF size
  <2> QED BY <2>1, <2>2
<1> DEFINE pose == Clamp(now - delay(fb_resampler'), samples'[1], t)
<1>14. samples'[1] \in Int /\ samples'[1] <= t /\ delay(fb_resampler') \in 20..100
  BY <1>12, <1>13, DelayBounds DEF InOrder
<1>15. pose \in Int
  <2>1. now - delay(fb_resampler') \in Int
    <3>1. \A m \in Nat, d \in 20..100 : 20 * m - d \in Int
      OBVIOUS
    <3> QED BY <1>4, <1>14, <3>1, Zenon
  <2> QED BY <1>8, <1>14, <2>1 DEF Clamp
<1>16. sample(fb_resampler', now) = pose
  <2> DEFINE count == fb_resampler'.count
             many  == Len(samples')
  <2>1. /\ count \in 0..kRing /\ count = AtMost(many, kRing)
        /\ \A k \in 0..(count - 1) : kept(fb_resampler', k) = samples'[many - k]
        /\ many \in Nat /\ many > 0 /\ \A i \in 1..many : samples'[i] \in Int
    BY <1>12, <1>13 DEF Mirrors, Resampler
  <2>9. /\ samples'[many] = t /\ \A i, j \in 1..many : i <= j => samples'[i] <= samples'[j]
        /\ \A i \in 1..many : samples'[i] <= 20 * (n - (many - i))
    BY <1>13 DEF InOrder, Received
  <2> DEFINE target == now - delay(fb_resampler')
  <2>10. target \in Int /\ 20 * n - 100 <= target
    <3>1. \A m \in Nat, d \in 20..100 : 20 * m - d \in Int /\ 20 * m - 100 <= 20 * m - d
      OBVIOUS
    <3> QED BY <1>4, <1>14, <3>1, Zenon
  <2> HIDE DEF count, many, target
  <2>2. count > 0 /\ count <= many
    BY <2>1, WindowConstants DEF AtMost
  <2>3. kept(fb_resampler', 0) = t
    BY <2>1, <2>2, <2>9
  <2>4. ASSUME NEW i \in 0..(count - 1), NEW j \in 0..(count - 1), i <= j
        PROVE  kept(fb_resampler', j) <= kept(fb_resampler', i)
    <3>1. many - j \in 1..many /\ many - i \in 1..many /\ many - j <= many - i
      BY <2>1, <2>2, <2>4
    <3> QED BY <2>1, <2>9, <3>1
  <2>5. /\ kept(fb_resampler', count - 1) = samples'[many - (count - 1)]
        /\ many - (count - 1) \in 1..many
    BY <2>1, <2>2
  <2>6. samples'[1] <= kept(fb_resampler', count - 1)
    BY <2>1, <2>5, <2>9
  <2>7. \/ kept(fb_resampler', count - 1) = samples'[1]
        \/ kept(fb_resampler', count - 1) <= target
    <3>1. CASE count = many
      <4>1. many - (count - 1) = 1
        BY <2>1, <3>1
      <4> QED BY <2>5, <4>1
    <3>2. CASE count # many
      <4>1. count = kRing
        BY <2>1, <3>2 DEF AtMost
      <4>2. samples'[many - (count - 1)] <= 20 * (n - (kRing - 1))
        <5> DEFINE i == many - (count - 1)
        <5>1. i \in 1..many /\ many - i = kRing - 1
          BY <2>1, <2>5, <4>1, WindowConstants
        <5> HIDE DEF i
        <5>2. samples'[i] <= 20 * (n - (many - i))
          BY <2>9, <5>1
        <5> QED BY <5>1, <5>2 DEF i
      <4>3. 20 * (n - (kRing - 1)) <= target
        BY <1>4, <2>10, WindowConstants
      <4>4. samples'[many - (count - 1)] \in Int /\ 20 * (n - (kRing - 1)) \in Int
        BY <1>4, <2>1, <2>5, WindowConstants
      <4> QED BY <2>5, <2>10, <4>2, <4>3, <4>4
    <3> QED BY <3>1, <3>2
  <2>8. sample(fb_resampler', now) = Clamp(now - delay(fb_resampler'), samples'[1],
                                            kept(fb_resampler', 0))
    <3>1. now \in Int
      BY <1>4
    <3> QED BY <1>12, <1>14, <2>2, <2>4, <2>6, <2>7, <3>1, SampleShows DEF count, target
  <2> QED BY <2>3, <2>8
<1>17. n > 0 => grid[n] <= pose
  <2> SUFFICES ASSUME n > 0 PROVE grid[n] <= pose
    OBVIOUS
  <2>1. /\ size > 0 /\ samples[1] \in Int /\ samples[1] <= last_sample /\ samples'[1] = samples[1]
        /\ grid[n] = Clamp(20 * (n - 1) - delay(fb_resampler), samples[1], last_sample)
    <3>1. size > 0 /\ samples[size] = last_sample /\ samples'[1] = samples[1]
      BY <1>4, <1>6, <1>13
    <3>2. 1 \in 1..size /\ size \in 1..size /\ 1 <= size
      BY <1>4, <3>1
    <3>3. samples[1] <= samples[size]
      BY <1>6, <3>2 DEF InOrder
    <3>4. samples[1] \in Int
      BY <1>2, <3>2
    <3> QED BY <1>7, <3>1, <3>3, <3>4
  <2>2. delay(fb_resampler) \in 20..100
    BY <1>2, DelayBounds
  <2>3. \/ samples[1] = last_sample \/ delay(fb_resampler') <= delay(fb_resampler) + 20
        \/ t - last_sample > 99
    <3>1. CASE ~ingest
      <4>1. delay(fb_resampler') = delay(fb_resampler)
        BY <1>9, <3>1
      <4> QED BY <2>2, <4>1
    <3>2. CASE ingest /\ size = 1
      BY <1>4, <1>6, <1>7, <2>1, <3>2
    <3>3. CASE ingest /\ size # 1
      <4> DEFINE dt == t - last_sample
      <4>1. /\ fb_resampler.count > 0 /\ fb_resampler.count # 1
            /\ kept(fb_resampler, 0) = last_sample /\ t > last_sample
        <5>1. fb_resampler.count > 0 /\ fb_resampler.count # 1
          BY <1>2, <1>4, <1>5, <2>1, <3>3, WindowConstants DEF Mirrors, AtMost
        <5>2. kept(fb_resampler, 0) = last_sample
          BY <1>4, <1>6, <1>7, <1>10, <2>1
        <5> QED BY <1>4, <1>8, <3>3, <5>1, <5>2
      <4>2. fb_resampler'.interval = (9 * fb_resampler.interval + dt) \div 10
        <5>1. push(fb_resampler, t).interval = estimate(fb_resampler, t - kept(fb_resampler, 0))
          BY <1>2, <1>8, <4>1, PushFields
        <5> QED BY <1>9, <3>3, <4>1, <5>1 DEF estimate
      <4>3. dt <= 99 => dt \in 1..99
        BY <1>4, <1>8, <4>1
      <4>4. dt <= 99 => delay(fb_resampler') <= delay(fb_resampler) + 20
        BY <1>2, <1>12, <4>2, <4>3, DelayGrows, Zenon
      <4> QED BY <1>4, <1>8, <4>4
    <3> QED BY <3>1, <3>2, <3>3
  <2>4. n \in Nat /\ last_sample <= t /\ t <= 20 * n /\ t \in Int /\ last_sample \in Int
    BY <1>4, <1>8
  <2>5. Clamp(20 * (n - 1) - delay(fb_resampler), samples[1], last_sample)
          <= Clamp(20 * n - delay(fb_resampler'), samples[1], t)
    BY <1>14, <2>1, <2>2, <2>3, <2>4, TickAdvances
  <2> QED BY <2>1, <2>5
<1>18. /\ grid' = Append(grid, pose)
       /\ hist_head' = IF hist_count = 0 THEN 0 ELSE (hist_head + 1) % kHistory
       /\ history' = [history EXCEPT ![hist_head'] = pose]
       /\ hist_count' = IF hist_count < kHistory THEN hist_count + 1 ELSE kHistory
       /\ \A f \in 1..kFrames :
            window'[f] = history'[(hist_head' - depth(f - 1, hist_count') + kHistory) % kHistory]
  BY <1>13, <1>16 DEF keeps, process_fullbody
<1>19. grid'[Len(grid) + 1] = Clamp(20 * (n + 1 - 1) - delay(fb_resampler'), samples'[1], t)
  <2>1. grid'[Len(grid) + 1] = pose
    BY <1>2, <1>15, <1>18, AppendProperties
  <2>2. 20 * (n + 1 - 1) = now
    BY <1>4
  <2> QED BY <2>1, <2>2
<1> HIDE DEF pose
<1>20. /\ grid' \in Seq(Int) /\ Len(grid') = n + 1
       /\ grid'[n + 1] = pose /\ \A i \in 1..n : grid'[i] = grid[i]
  BY <1>2, <1>7, <1>15, <1>18, AppendProperties
<1>21. /\ hist_head' \in 0..(kHistory - 1) /\ hist_count' \in 0..kHistory
       /\ history' \in [0..(kHistory - 1) -> Int]
       /\ Lines(history', hist_head', hist_count', grid')
  <2>1. hist_head' \in 0..(kHistory - 1) /\ Lines(history', hist_head', hist_count', grid')
    BY <1>2, <1>5, <1>15, <1>18, LinePush
  <2>2. hist_count' \in 0..kHistory
    BY <1>2, <1>18, WindowConstants
  <2> QED BY <1>2, <1>15, <1>18, <2>1, <2>2
<1>22. WindowTypes'
  BY <1>3, <1>8, <1>9, <1>12, <1>13, <1>20, <1>21 DEF WindowTypes
<1> HIDE DEF n
<1>23. SampleInv' /\ RingInv'
  <2>1. samples' # <<>> /\ last_sample' = t /\ session'.ticks = n + 1
    BY <1>3, <1>13, <1>9, EmptySeq
  <2>2. last_sample' <= 20 * session'.ticks
    BY <1>4, <1>8, <2>1 DEF n
  <2>3. session'.ticks - 1 = n
    BY <1>4, <2>1
  <2> QED BY <1>12, <1>13, <2>1, <2>2, <2>3 DEF SampleInv, RingInv
<1>24. GridInv' /\ LineInv'
  <2>1. grid' # <<>>
    BY <1>4, <1>20, EmptySeq
  <2>2. grid'[Len(grid')] = Clamp(20 * (session'.ticks - 1) - delay(fb_resampler'), samples'[1], last_sample')
    BY <1>3, <1>7, <1>9, <1>19, <1>20
  <2> QED BY <1>3, <1>20, <1>21, <2>1, <2>2 DEF GridInv, LineInv
<1>25. NeverBackwards'
  <2>1. ASSUME NEW i \in 2..(n + 1) PROVE grid'[i - 1] <= grid'[i]
    <3>1. CASE i = n + 1
      BY <1>4, <1>17, <1>20, <3>1
    <3>2. CASE i # n + 1
      <4>1. i \in 2..n /\ i - 1 \in 1..n /\ i \in 1..n
        BY <1>4, <3>2
      <4>2. grid[i - 1] <= grid[i]
        BY <1>5, <1>7, <4>1 DEF NeverBackwards
      <4> QED BY <1>20, <4>1, <4>2
    <3> QED BY <3>1, <3>2
  <2> QED BY <1>20, <2>1 DEF NeverBackwards
<1>26. WindowShowsGrid'
  <2>1. grid' # <<>>
    BY <1>4, <1>20, EmptySeq
  <2>2. \A f \in 1..kFrames :
          window'[f] = grid'[Len(grid') - Clamp(kLookaheadTicks - (f - 1), 0, Len(grid') - 1)]
    <3> TAKE f \in 1..kFrames
    <3>1. history'[(hist_head' - depth(f - 1, hist_count') + kHistory) % kHistory]
            = grid'[Len(grid') - Clamp(kLookaheadTicks - (f - 1), 0, Len(grid') - 1)]
      BY <1>20, <1>21, <2>1, LineFrames, Zenon
    <3> QED BY <1>18, <3>1
  <2> QED BY <2>2 DEF WindowShowsGrid
<1> QED BY <1>5, <1>22, <1>23, <1>24, <1>25, <1>26 DEF WindowInv

LEMMA WindowInvariant == WindowSpec => []WindowInv
<1>1. WindowInv /\ Engage => WindowInv'
  BY EngageStep
<1>2. WindowInv /\ LetGo => WindowInv'
  BY LetGoStep DEF LetGo, WindowInv, WindowTypes
<1>3. ASSUME WindowInv, FullbodyTick PROVE WindowInv'
  <2>1. PICK t : last_sample' = t /\ t \in arrivals(20 * session.ticks) /\ (let_go \/ keeps(t))
    BY <1>3 DEF FullbodyTick, TickMs, keeps
  <2>2. t \in Int
    BY <1>3, <2>1, PoseWindowAssumption DEF arrivals, WindowInv, WindowTypes
  <2>3. CASE let_go
    BY <1>3, <2>1, <2>2, <2>3, LetGoStep
  <2>4. CASE keeps(t)
    BY <1>3, <2>4, KeepStep
  <2> QED BY <2>1, <2>3, <2>4
<1>4. WindowInv /\ UNCHANGED window_vars => WindowInv'
  <2> SUFFICES ASSUME WindowInv, UNCHANGED window_vars PROVE WindowInv'
    OBVIOUS
  <2> USE DEF window_vars, delay_line, ghosts
  <2>1. WindowTypes'
    BY DEF WindowInv, WindowTypes
  <2>2. (SampleInv /\ RingInv /\ GridInv /\ LineInv /\ NeverBackwards /\ WindowShowsGrid)'
    BY DEF WindowInv, SampleInv, InOrder, Received, RingInv, Mirrors, GridInv, LineInv, Lines, NeverBackwards,
           WindowShowsGrid
  <2> QED BY <2>1, <2>2 DEF WindowInv
<1>5. WindowInv /\ [WindowNext]_window_vars => WindowInv'
  BY <1>1, <1>2, <1>3, <1>4 DEF WindowNext
<1> QED BY <1>5, WindowAtStart, PTL DEF WindowSpec

(* The grid of a session never goes back in time, for every stale limit    *)
(* and every arrival: a gap within the longest delay moves the delay by at *)
(* most a tick, and after a longer one the target is already past the      *)
(* sample that was held (smpl_resampler.hpp:13-24).                        *)
THEOREM GridIsMonotone == WindowSpec => []NeverBackwards
<1>1. WindowInv => NeverBackwards
  BY DEF WindowInv
<1> QED BY <1>1, WindowInvariant, PTL

(* Every frame of the window is the session's grid pose of its own tick    *)
(* (teleop_tracker.cpp:269-272, smpl_resampler.hpp:26-28).                 *)
THEOREM WindowIsTheGrid == WindowSpec => []WindowShowsGrid
<1>1. WindowInv => WindowShowsGrid
  BY DEF WindowInv
<1> QED BY <1>1, WindowInvariant, PTL

=============================================================================
