------------------------- MODULE InputHandlerProofs -------------------------
(***************************************************************************)
(* Theorems of InputHandler, for every mode table, hold time and set of    *)
(* chords: the stick's height is its mode's, a mode beyond the basic range *)
(* costs a hold, labels follow stops, and a chord leaves no tap behind.    *)
(* Then those of TapGestures, for every tap length, window and script: a   *)
(* detector, which remembers six fields, reports what a reading of the     *)
(* whole script calls a gesture.                                           *)
(***************************************************************************)
EXTENDS InputHandler, TapGestures, FiniteSetTheorems, TLAPS

-----------------------------------------------------------------------------
(* Taps                                                                    *)

(* One update of a detector, and what it reports.                          *)
LEMMA AfterType ==
  ASSUME NEW d \in Detector, NEW pressed \in BOOLEAN, NEW voided \in BOOLEAN
  PROVE  after(d, pressed, voided) \in Detector
<1>1. /\ d.was_pressed \in BOOLEAN /\ d.pending \in BOOLEAN /\ d.void \in BOOLEAN
      /\ d.count \in 0..2 /\ d.press \in 0..TapMax /\ d.since_release \in 0..DoubleGap
      /\ TapMax \in Nat \ {0} /\ DoubleGap \in Nat
  BY TapAssumption DEF Detector, kMaxTaps
<1>2. idle \in Detector
  BY <1>1 DEF idle, Detector, kMaxTaps
<1>3. released(d) \in Detector
  <2>1. CASE d.press < TapMax /\ d.count + 1 < kMaxTaps
    <3>1. released(d) = [was_pressed |-> FALSE, pending |-> TRUE, void |-> FALSE,
                         count |-> d.count + 1, press |-> 0, since_release |-> 0]
      BY <2>1 DEF released, idle
    <3> QED BY <1>1, <2>1, <3>1 DEF Detector, kMaxTaps
  <2>2. CASE ~(d.press < TapMax /\ d.count + 1 < kMaxTaps)
    BY <1>2, <2>2 DEF released
  <2> QED BY <2>1, <2>2
<1>4. alone(d, pressed) \in Detector
  <2>1. CASE pressed /\ ~d.was_pressed
    <3>1. alone(d, pressed) = [was_pressed |-> TRUE, pending |-> FALSE, void |-> FALSE,
                               count |-> d.count, press |-> 0, since_release |-> 0]
      BY <2>1 DEF alone, idle
    <3> QED BY <1>1, <3>1 DEF Detector, kMaxTaps
  <2>2. CASE pressed /\ d.was_pressed
    BY <1>1, <2>2 DEF alone, Detector, kMaxTaps
  <2>3. CASE ~pressed /\ d.was_pressed
    BY <1>3, <2>3 DEF alone
  <2>4. CASE ~pressed /\ ~d.was_pressed
    <3>1. CASE d.pending /\ d.since_release < DoubleGap
      BY <1>1, <2>4, <3>1 DEF alone, Detector, kMaxTaps
    <3>2. CASE ~(d.pending /\ d.since_release < DoubleGap)
      BY <1>2, <2>4, <3>2 DEF alone
    <3> QED BY <3>1, <3>2
  <2> QED BY <2>1, <2>2, <2>3, <2>4
<1>5. \A p, v \in BOOLEAN : [idle EXCEPT !.was_pressed = p, !.void = v] \in Detector
  <2> TAKE p, v \in BOOLEAN
  <2>1. [idle EXCEPT !.was_pressed = p] \in Detector
    BY <1>2 DEF Detector
  <2> QED BY <2>1 DEF Detector
<1>6. CASE voided \/ d.void
  <2>1. CASE voided \/ pressed
    <3>1. after(d, pressed, voided) = [idle EXCEPT !.was_pressed = pressed, !.void = TRUE]
      BY <1>6, <2>1, Zenon DEF after
    <3> QED BY <1>5, <3>1
  <2>2. CASE ~(voided \/ pressed)
    <3>1. after(d, pressed, voided) = [idle EXCEPT !.was_pressed = pressed, !.void = FALSE]
      BY <1>6, <2>2, Zenon DEF after
    <3> QED BY <1>5, <3>1
  <2> QED BY <2>1, <2>2
<1>7. CASE ~(voided \/ d.void)
  BY <1>4, <1>7 DEF after
<1> QED BY <1>6, <1>7

(* A void that lasts, or begins, forgets the taps and reports none.        *)
LEMMA VoidForgets ==
  ASSUME NEW d \in Detector, NEW pressed \in BOOLEAN, NEW voided \in BOOLEAN,
         voided \/ d.void
  PROVE  /\ after(d, pressed, voided).count = 0
         /\ after(d, pressed, voided).void = (voided \/ pressed)
         /\ event(d, pressed, voided) = 0
<1>1. after(d, pressed, voided) = [idle EXCEPT !.was_pressed = pressed, !.void = (voided \/ pressed)]
  BY DEF after
<1>2. event(d, pressed, voided) = 0
  BY DEF event
<1> QED BY <1>1, <1>2 DEF idle

(* The recording mirror: a label only while one is awaited, which only a   *)
(* stop brings about.                                                      *)
LEMMA Decisions ==
  ASSUME NEW state \in RecordState, NEW button \in {"A", "B"}, NEW taps
  PROVE  LET action == record_decide(state, button, taps)
             next   == record_next_state(state, action)
         IN  /\ action \in RecordAction /\ next \in RecordState
             /\ action \in Label => state = "AwaitingLabel"
             /\ next = "AwaitingLabel" =>
                  action = "Stop" \/ (action = "None" /\ state = "AwaitingLabel")
<1> DEFINE action == record_decide(state, button, taps)
<1>1. label(taps) \in Label
  BY DEF label, Label
<1>2. /\ action \in RecordAction
      /\ action \in Label => state = "AwaitingLabel"
  BY <1>1 DEF record_decide, RecordAction, Label
<1> HIDE DEF action
<1>3. /\ record_next_state(state, action) \in RecordState
      /\ record_next_state(state, action) = "AwaitingLabel" =>
           action = "Stop" \/ (action = "None" /\ state = "AwaitingLabel")
  BY <1>2 DEF record_next_state, RecordState, RecordAction, Label
<1> QED BY <1>2, <1>3 DEF action

-----------------------------------------------------------------------------
(* Holds                                                                   *)

(* A trigger counts up to its threshold and stays there.                   *)
counts_to(h, threshold) ==
  h \in HoldTrigger /\ IF h.fired THEN h.ticks = threshold ELSE h.ticks < threshold

LEMMA Holds ==
  ASSUME NEW h, NEW threshold \in 1..HardHoldTicks, NEW down \in BOOLEAN, counts_to(h, threshold)
  PROVE  /\ counts_to(held(h, down, threshold), threshold)
         /\ fires(h, down, threshold) => held(h, down, threshold).fired
         /\ held(h, down, threshold).fired => down
<1>1. /\ h \in HoldTrigger /\ h.ticks \in 0..HardHoldTicks /\ h.fired \in BOOLEAN
      /\ HardHoldTicks \in Nat
  BY InputAssumption DEF counts_to, HoldTrigger
<1>2. CASE ~down
  BY <1>1, <1>2 DEF held, fires, released_trigger, counts_to, HoldTrigger
<1>3. CASE down /\ h.fired
  BY <1>1, <1>3 DEF held, fires, counts_to
<1>4. CASE down /\ ~h.fired
  <2>1. held(h, down, threshold) = [ticks |-> h.ticks + 1, fired |-> h.ticks + 1 >= threshold]
    BY <1>4 DEF held
  <2>2. h.ticks < threshold
    BY <1>4 DEF counts_to
  <2> DEFINE t == h.ticks + 1
  <2>3. t \in 1..threshold /\ t \in 0..HardHoldTicks
    BY <1>1, <2>2
  <2> HIDE DEF t
  <2>4. CASE t >= threshold
    <3>0. (t >= threshold) = TRUE
      BY <2>4
    <3>1. held(h, down, threshold) = [ticks |-> t, fired |-> TRUE]
      BY <2>1, <3>0, Zenon DEF t
    <3>2. threshold = t
      BY <2>3, <2>4
    <3>3. counts_to(held(h, down, threshold), threshold)
      BY <2>3, <3>1, <3>2 DEF counts_to, HoldTrigger
    <3>4. held(h, down, threshold).fired
      BY <3>1
    <3> QED BY <1>4, <3>3, <3>4
  <2>5. CASE ~(t >= threshold)
    <3>0. (t >= threshold) = FALSE
      BY <2>5
    <3>1. held(h, down, threshold) = [ticks |-> t, fired |-> FALSE]
      BY <2>1, <3>0, Zenon DEF t
    <3>2. ~fires(h, down, threshold)
      BY <2>5 DEF fires, t
    <3>3. t < threshold
      BY <2>3, <2>5
    <3>4. counts_to(held(h, down, threshold), threshold)
      BY <2>3, <3>1, <3>3 DEF counts_to, HoldTrigger
    <3> QED BY <1>4, <3>1, <3>2, <3>4
  <2> QED BY <2>4, <2>5
<1> QED BY <1>2, <1>3, <1>4

-----------------------------------------------------------------------------
(* The invariant                                                           *)

(* Every trigger counts to its own threshold.                              *)
HoldInv ==
  /\ counts_to(a_press_, SingleHoldTicks) /\ counts_to(x_press_, SingleHoldTicks)
  /\ counts_to(y_press_, SingleHoldTicks) /\ counts_to(y_hold_, HardHoldTicks)

(* Y's hard trigger counts the ticks Y has been alone, and the step it     *)
(* asks for is taken in the tick it fires.                                 *)
YInv ==
  /\ IF y_hold_.fired THEN y_alone_ticks \in {HardHoldTicks, Spent}
     ELSE y_alone_ticks = y_hold_.ticks
  /\ ipc \in {"test", "step"} /\ gesture = "up_full" => y_alone_ticks = HardHoldTicks

(* What the guard on mode_index_ has seen still bounds the step: disarm()  *)
(* only lowers a positive mode, and raises -1 to IDLE before a decrement.  *)
ModeInv ==
  /\ ipc \in {"test", "step"} => gesture \in {"up_basic", "up_full", "down"}
  /\ ipc = "step" => /\ gesture = "up_basic" => mode_index_ < BasicModeMax
                     /\ gesture = "up_full"  => mode_index_ < FullModeMax
                     /\ gesture = "down"     => mode_index_ >= 0

matches(mode, height) ==
  /\ mode \in CrouchModes => height = HeightSeed
  /\ mode \notin CrouchModes \cup {IDLE} => height = ModeDefault

(* The band's lower test is of the mode the upper one will see, unless     *)
(* disarm() came between the two; the height is then the mode's until it   *)
(* is published.                                                           *)
BandInv ==
  /\ ipc = "high" =>
       mode_index_ = IDLE \/ (crouch_low <=> \E c \in CrouchModes : mode_index_ >= c)
  /\ ipc = "publish" => matches(mode_index_, height_)
  /\ HeightMatchesMode

(* After a chord both detectors are void, and have counted nothing.        *)
ComboInv ==
  combo_seen => a_tap_.void /\ b_tap_.void /\ a_tap_.count = 0 /\ b_tap_.count = 0

(* The mirror awaits a label only after the stop it sent.                  *)
LabelInv == assumed_ = "AwaitingLabel" => last_was_stop

InputInv == TypeOK /\ HoldInv /\ YInv /\ ModeInv /\ BandInv /\ ComboInv /\ LabelInv

LEMMA Constants ==
  /\ HardHoldTicks \in Nat /\ SingleHoldTicks \in 1..HardHoldTicks
  /\ HardHoldTicks \in 1..HardHoldTicks /\ Spent \in Nat
  /\ EstopHoldTicks \in Nat \ {0}
  /\ BasicModeMax \in Nat /\ FullModeMax \in Nat /\ 0 < BasicModeMax
  /\ BasicModeMax < FullModeMax
  /\ CrouchModes \subseteq (BasicModeMax + 1)..FullModeMax
BY InputAssumption DEF Spent

(* The two tests of the band are its lower and its upper bound.            *)
LEMMA BandTests ==
  ASSUME NEW mode \in -1..FullModeMax,
         \E c \in CrouchModes : mode >= c, \E c \in CrouchModes : mode <= c
  PROVE  mode \in CrouchModes
<1>1. PICK first, last \in (BasicModeMax + 1)..FullModeMax : CrouchModes = first..last
  BY InputAssumption
<1> QED BY <1>1, Constants

LEMMA InputAtStart == Init => InputInv
<1> SUFFICES ASSUME Init PROVE InputInv
  OBVIOUS
<1> USE Constants DEF Init
<1>1. TypeOK
  <2>1. idle \in Detector
    BY TapAssumption DEF idle, Detector, kMaxTaps
  <2>2. released_trigger \in HoldTrigger
    BY DEF HoldTrigger, released_trigger
  <2>3. assumed_ \in RecordState
    BY DEF RecordState
  <2>4. movement_buf \in [mode : -1..FullModeMax, height : {ModeDefault, HeightSeed},
                          by : {"nobody", "stick", "nav"}]
    BY DEF IDLE
  <2>5. {a_press_, x_press_, y_press_, y_hold_} \subseteq HoldTrigger /\ {a_tap_, b_tap_} \subseteq Detector
    BY <2>1, <2>2
  <2>6. mode_index_ \in -1..FullModeMax /\ y_alone_ticks \in 0..Spent /\ estop_hold_ticks_ \in 0..EstopHoldTicks
    BY DEF IDLE
  <2> QED BY <2>3, <2>4, <2>5, <2>6 DEF TypeOK
<1>2. HoldInv /\ YInv
  BY DEF HoldInv, YInv, counts_to, HoldTrigger, released_trigger
<1>3. ModeInv /\ BandInv /\ ComboInv /\ LabelInv
  BY DEF ModeInv, BandInv, HeightMatchesMode, ComboInv, LabelInv
<1> QED BY <1>1, <1>2, <1>3 DEF InputInv

-----------------------------------------------------------------------------
(* The tick's first step                                                   *)

LEMMA SeenTypes == InputInv /\ SampleSeen => TypeOK'
<1> SUFFICES ASSUME InputInv, SampleSeen PROVE TypeOK'
  OBVIOUS
<1> USE Constants
<1>1. TypeOK /\ HoldInv
  BY DEF InputInv
<1>2. PICK trigger_held \in BOOLEAN :
        /\ a_press_' = held(a_press_, is_alone("A") /\ ~trigger_held, SingleHoldTicks)
        /\ gesture' = asks(trigger_held)
  BY DEF SampleSeen
<1>3. {a_press_, x_press_, y_press_, y_hold_}' \subseteq HoldTrigger
  <2>1. a_press_' \in HoldTrigger
    BY <1>1, <1>2, Holds DEF HoldInv, counts_to
  <2>2. x_press_' \in HoldTrigger
    BY <1>1, Holds DEF HoldInv, counts_to, SampleSeen, is_alone
  <2>3. y_press_' \in HoldTrigger /\ y_hold_' \in HoldTrigger
    BY <1>1, Holds DEF HoldInv, counts_to, SampleSeen, is_alone
  <2> QED BY <2>1, <2>2, <2>3
<1>4. {a_tap_, b_tap_}' \subseteq Detector
  <2>1. \A d \in Detector : \A b : after(d, b \in ctrl_buf, others(b)) \in Detector
    <3> TAKE d \in Detector
    <3> TAKE b
    <3>1. (b \in ctrl_buf) \in BOOLEAN /\ others(b) \in BOOLEAN
      BY DEF others
    <3> QED BY <3>1, AfterType, Zenon
  <2> QED BY <1>1, <2>1 DEF SampleSeen, TypeOK
<1>5. assumed_' \in RecordState /\ last_was_stop' \in BOOLEAN
  <2>1. UNCHANGED recorder \/ \E button \in {"A", "B"} : \E taps : on_tap(button, taps)
    BY DEF SampleSeen, emit_taps
  <2>2. CASE UNCHANGED recorder
    BY <1>1, <2>2 DEF recorder, TypeOK
  <2>3. CASE \E button \in {"A", "B"} : \E taps : on_tap(button, taps)
    <3>1. PICK button \in {"A", "B"} : \E taps : on_tap(button, taps)
      BY <2>3
    <3>2. PICK taps : on_tap(button, taps)
      BY <3>1
    <3> QED BY <1>1, <3>2, Decisions DEF on_tap, TypeOK
  <2> QED BY <2>1, <2>2, <2>3
<1>6. estop_hold_ticks_' \in 0..EstopHoldTicks /\ estop_' \in BOOLEAN
  <2>1. /\ estop_hold_ticks_ \in 0..EstopHoldTicks /\ estop_ \in BOOLEAN
        /\ estop_tick
    BY <1>1 DEF SampleSeen, TypeOK
  <2>2. estop_hold_ticks_' \in 0..EstopHoldTicks
    BY <2>1 DEF estop_tick
  <2>3. estop_' \in BOOLEAN
    BY <2>1 DEF estop_tick
  <2> QED BY <2>2, <2>3
<1>7. gesture' \in {"none", "escape", "up_basic", "up_full", "down"}
  BY <1>2 DEF asks
<1>8. mode_index_' \in -1..FullModeMax
  BY <1>1 DEF SampleSeen, TypeOK, IDLE
<1>9. y_alone_ticks' \in 0..Spent
  BY <1>1 DEF SampleSeen, TypeOK, Spent
<1>10. combo_seen' \in BOOLEAN
  BY DEF SampleSeen
<1>11. ipc' \in {"sample", "test", "step", "low", "high", "publish"}
  BY DEF SampleSeen
<1>12. UNCHANGED <<ctrl_buf, ctrl_stale, wpc, crouch_low, height_, movement_buf>>
  BY DEF SampleSeen, watchdog
<1> QED BY <1>1, <1>3, <1>4, <1>5, <1>6, <1>7, <1>8, <1>9, <1>10, <1>11, <1>12 DEF TypeOK

LEMMA SeenHolds == InputInv /\ SampleSeen => HoldInv' /\ YInv'
<1> SUFFICES ASSUME InputInv, SampleSeen PROVE HoldInv' /\ YInv'
  OBVIOUS
<1> USE Constants
<1>1. HoldInv /\ YInv /\ y_alone_ticks \in 0..Spent
  BY DEF InputInv, TypeOK
<1>2. PICK trigger_held \in BOOLEAN :
        /\ a_press_' = held(a_press_, is_alone("A") /\ ~trigger_held, SingleHoldTicks)
        /\ gesture' = asks(trigger_held)
  BY DEF SampleSeen
<1>3. HoldInv'
  <2>1. counts_to(a_press_', SingleHoldTicks)
    BY <1>1, <1>2, Holds DEF HoldInv
  <2>2. counts_to(x_press_', SingleHoldTicks) /\ counts_to(y_press_', SingleHoldTicks)
    BY <1>1, Holds DEF HoldInv, SampleSeen, is_alone
  <2>3. counts_to(y_hold_', HardHoldTicks)
    BY <1>1, Holds DEF HoldInv, SampleSeen, is_alone
  <2> QED BY <2>1, <2>2, <2>3 DEF HoldInv, counts_to
<1>4. gesture' = "up_full" => fires(y_hold_, is_alone("Y"), HardHoldTicks)
  BY <1>2 DEF asks
<1>5. /\ y_hold_' = held(y_hold_, is_alone("Y"), HardHoldTicks)
      /\ y_alone_ticks' = CASE ~is_alone("Y") -> 0
                            [] is_alone("Y") /\ y_alone_ticks >= HardHoldTicks -> y_alone_ticks
                            [] OTHER -> y_alone_ticks + 1
  BY DEF SampleSeen
<1>6. counts_to(y_hold_, HardHoldTicks)
  BY <1>1 DEF HoldInv
<1>7. CASE ~is_alone("Y")
  <2>1. y_hold_' = released_trigger /\ y_alone_ticks' = 0
    BY <1>5, <1>7 DEF held
  <2>2. gesture' # "up_full"
    BY <1>4, <1>7 DEF fires
  <2> QED BY <1>3, <2>1, <2>2 DEF YInv, released_trigger
<1>8. CASE is_alone("Y") /\ y_hold_.fired
  <2>1. y_hold_' = y_hold_ /\ y_alone_ticks' = y_alone_ticks
    BY <1>1, <1>5, <1>8 DEF held, YInv, Spent
  <2>2. gesture' # "up_full"
    BY <1>4, <1>8 DEF fires
  <2> QED BY <1>1, <1>3, <1>8, <2>1, <2>2 DEF YInv
<1>9. CASE is_alone("Y") /\ ~y_hold_.fired
  <2>1. y_alone_ticks = y_hold_.ticks /\ y_hold_.ticks < HardHoldTicks
    BY <1>1, <1>6, <1>9 DEF YInv, counts_to
  <2>2. y_alone_ticks' = y_hold_.ticks + 1
    BY <1>1, <1>5, <1>9, <2>1
  <2>3. y_hold_'.ticks = y_hold_.ticks + 1
    BY <1>5, <1>9 DEF held
  <2>4. counts_to(y_hold_', HardHoldTicks)
    BY <1>3 DEF HoldInv, counts_to
  <2>5. y_hold_'.fired => y_alone_ticks' = HardHoldTicks
    BY <2>2, <2>3, <2>4 DEF counts_to
  <2>6. gesture' = "up_full" => y_hold_'.fired
    BY <1>4, <1>5, <1>6, Holds DEF is_alone
  <2> QED BY <1>3, <2>2, <2>3, <2>5, <2>6 DEF YInv
<1> QED BY <1>7, <1>8, <1>9

LEMMA SeenChords == InputInv /\ SampleSeen => ComboInv'
<1> SUFFICES ASSUME InputInv, SampleSeen, combo_seen'
             PROVE  (a_tap_.void /\ b_tap_.void /\ a_tap_.count = 0 /\ b_tap_.count = 0)'
  BY DEF ComboInv
<1>1. a_tap_ \in Detector /\ b_tap_ \in Detector /\ ComboInv
  BY DEF InputInv, TypeOK
<1>2. ctrl_buf # {} /\ (combo_seen \/ (others("A") /\ others("B")))
  <2>1. \/ combo_seen /\ ctrl_buf # {}
        \/ Cardinality(ctrl_buf) >= 2
    BY DEF SampleSeen
  <2>2. ASSUME Cardinality(ctrl_buf) >= 2 PROVE \A b : others(b)
    <3> SUFFICES ASSUME NEW b, ctrl_buf \subseteq {b} PROVE FALSE
      BY DEF others
    <3>1. ctrl_buf = {} \/ ctrl_buf = {b}
      OBVIOUS
    <3>2. Cardinality({}) = 0 /\ Cardinality({b}) = 1
      BY FS_EmptySet, FS_Singleton
    <3> QED BY <2>2, <3>1, <3>2
  <2> QED BY <2>1, <2>2 DEF others
<1>3. /\ a_tap_' = after(a_tap_, "A" \in ctrl_buf, others("A"))
      /\ b_tap_' = after(b_tap_, "B" \in ctrl_buf, others("B"))
  BY DEF SampleSeen
<1>4. /\ others("A") \/ "A" \in ctrl_buf
      /\ others("B") \/ "B" \in ctrl_buf
  BY <1>2 DEF others
<1>5. others("A") \/ a_tap_.void
  BY <1>1, <1>2 DEF ComboInv
<1>6. others("B") \/ b_tap_.void
  BY <1>1, <1>2 DEF ComboInv
<1>7. a_tap_'.void /\ a_tap_'.count = 0
  <2>1. ("A" \in ctrl_buf) \in BOOLEAN /\ others("A") \in BOOLEAN
    BY DEF others
  <2>2. a_tap_'.count = 0 /\ a_tap_'.void = (others("A") \/ "A" \in ctrl_buf)
    BY <1>1, <1>3, <1>5, <2>1, VoidForgets, Zenon
  <2> QED BY <1>4, <2>2
<1>8. b_tap_'.void /\ b_tap_'.count = 0
  <2>1. ("B" \in ctrl_buf) \in BOOLEAN /\ others("B") \in BOOLEAN
    BY DEF others
  <2>2. b_tap_'.count = 0 /\ b_tap_'.void = (others("B") \/ "B" \in ctrl_buf)
    BY <1>1, <1>3, <1>6, <2>1, VoidForgets, Zenon
  <2> QED BY <1>4, <2>2
<1> QED BY <1>7, <1>8

(* A label was awaited, and so a stop was the last command, when one is    *)
(* sent; and only a stop makes the mirror wait for one.                    *)
LEMMA SeenLabels == InputInv /\ SampleSeen => LabelInv'
<1> SUFFICES ASSUME InputInv, SampleSeen PROVE LabelInv'
  OBVIOUS
<1>1. LabelInv /\ assumed_ \in RecordState
  BY DEF InputInv, TypeOK
<1>2. UNCHANGED recorder \/ \E button \in {"A", "B"} : \E taps : on_tap(button, taps)
  BY DEF SampleSeen, emit_taps
<1>3. CASE UNCHANGED recorder
  BY <1>1, <1>3 DEF recorder, LabelInv
<1>4. CASE \E button \in {"A", "B"} : \E taps : on_tap(button, taps)
  <2>1. PICK button \in {"A", "B"} : \E taps : on_tap(button, taps)
    BY <1>4
  <2>2. PICK taps : on_tap(button, taps)
    BY <2>1
  <2> DEFINE action == record_decide(assumed_, button, taps)
  <2>3. /\ last_was_stop' = IF action = "None" THEN last_was_stop ELSE action = "Stop"
        /\ assumed_' = record_next_state(assumed_, action)
    BY <2>2 DEF on_tap
  <2>4. record_next_state(assumed_, action) = "AwaitingLabel" =>
          action = "Stop" \/ (action = "None" /\ assumed_ = "AwaitingLabel")
    BY <1>1, Decisions
  <2> HIDE DEF action
  <2> QED BY <1>1, <2>3, <2>4 DEF LabelInv
<1> QED BY <1>2, <1>3, <1>4

LEMMA SeenStep == InputInv /\ SampleSeen => InputInv'
<1> SUFFICES ASSUME InputInv, SampleSeen PROVE InputInv'
  OBVIOUS
<1>1. TypeOK' /\ HoldInv' /\ YInv' /\ ComboInv' /\ LabelInv'
  BY SeenTypes, SeenHolds, SeenChords, SeenLabels
<1>2. ModeInv'
  BY DEF SampleSeen, ModeInv
<1>3. BandInv'
  BY DEF InputInv, SampleSeen, BandInv, HeightMatchesMode
<1> QED BY <1>1, <1>2, <1>3 DEF InputInv

-----------------------------------------------------------------------------
(* The other steps                                                         *)

LEMMA LostStep == InputInv /\ SampleLost => InputInv'
<1> SUFFICES ASSUME InputInv, SampleLost PROVE InputInv'
  OBVIOUS
<1> USE Constants DEF SampleLost, watchdog, holds, recorder
<1>1. TypeOK'
  <2>1. idle \in Detector
    BY TapAssumption DEF idle, Detector, kMaxTaps
  <2>2. movement_buf' \in [mode : -1..FullModeMax, height : {ModeDefault, HeightSeed},
                           by : {"nobody", "stick", "nav"}]
    BY DEF IDLE
  <2> QED BY <2>1, <2>2 DEF InputInv, TypeOK
<1>2. HoldInv' /\ YInv' /\ ModeInv' /\ LabelInv'
  BY DEF InputInv, HoldInv, counts_to, YInv, ModeInv, LabelInv
<1>3. BandInv' /\ ComboInv'
  BY DEF BandInv, HeightMatchesMode, ComboInv
<1> QED BY <1>1, <1>2, <1>3 DEF InputInv

LEMMA TestStep == InputInv /\ ModeTest => InputInv'
<1> SUFFICES ASSUME InputInv, ModeTest PROVE InputInv'
  OBVIOUS
<1> USE Constants DEF ModeTest, watchdog, holds, recorder, history
<1>1. TypeOK'
  BY DEF InputInv, TypeOK
<1>2. HoldInv' /\ ComboInv' /\ LabelInv'
  BY DEF InputInv, HoldInv, counts_to, ComboInv, LabelInv
<1>3. YInv' /\ BandInv'
  BY DEF InputInv, YInv, BandInv, HeightMatchesMode
<1>4. ModeInv'
  BY DEF InputInv, TypeOK, ModeInv
<1> QED BY <1>1, <1>2, <1>3, <1>4 DEF InputInv

LEMMA ModeStepStep == InputInv /\ ModeStep => InputInv'
<1> SUFFICES ASSUME InputInv, ModeStep PROVE InputInv'
  OBVIOUS
<1> USE Constants DEF ModeStep, watchdog, holds, recorder
<1>1. /\ mode_index_ \in -1..FullModeMax /\ y_alone_ticks \in 0..Spent
      /\ gesture \in {"up_basic", "up_full", "down"} /\ YInv
      /\ gesture = "up_basic" => mode_index_ < BasicModeMax
      /\ gesture = "up_full"  => mode_index_ < FullModeMax
      /\ gesture = "down"     => mode_index_ >= 0
  BY DEF InputInv, TypeOK, ModeInv
<1>2. mode_index_' \in -1..FullModeMax
  BY <1>1
<1>3. y_alone_ticks' \in 0..Spent
  BY <1>1
<1>4. TypeOK'
  BY <1>2, <1>3 DEF InputInv, TypeOK
<1>5. HoldInv' /\ ComboInv' /\ LabelInv'
  BY DEF InputInv, HoldInv, counts_to, ComboInv, LabelInv
<1>6. YInv'
  <2>1. gesture = "up_full" => y_alone_ticks = HardHoldTicks
    BY <1>1 DEF YInv
  <2>2. CASE y_hold_.fired
    BY <1>1, <2>2 DEF YInv
  <2>3. CASE ~y_hold_.fired
    <3>1. y_alone_ticks = y_hold_.ticks /\ y_hold_.ticks < HardHoldTicks
      BY <1>1, <2>3 DEF YInv, InputInv, HoldInv, counts_to
    <3>2. gesture # "up_full"
      BY <2>1, <3>1
    <3> QED BY <2>3, <3>1, <3>2 DEF YInv
  <2> QED BY <2>2, <2>3
<1>7. ModeInv' /\ BandInv'
  BY DEF InputInv, ModeInv, BandInv, HeightMatchesMode
<1> QED BY <1>4, <1>5, <1>6, <1>7 DEF InputInv

LEMMA LowStep == InputInv /\ CrouchLow => InputInv'
<1> SUFFICES ASSUME InputInv, CrouchLow PROVE InputInv'
  OBVIOUS
<1> USE Constants DEF CrouchLow, watchdog, holds, recorder, history
<1>1. TypeOK'
  BY DEF InputInv, TypeOK
<1>2. HoldInv' /\ ComboInv' /\ LabelInv'
  BY DEF InputInv, HoldInv, counts_to, ComboInv, LabelInv
<1>3. YInv' /\ ModeInv'
  BY DEF InputInv, YInv, ModeInv
<1>4. BandInv'
  BY DEF InputInv, BandInv, HeightMatchesMode
<1> QED BY <1>1, <1>2, <1>3, <1>4 DEF InputInv

(* The height becomes the mode's: IDLE may have either.                    *)
LEMMA HighStep == InputInv /\ CrouchHigh => InputInv'
<1> SUFFICES ASSUME InputInv, CrouchHigh PROVE InputInv'
  OBVIOUS
<1> USE Constants DEF CrouchHigh, watchdog, holds, recorder, history
<1>1. TypeOK'
  BY DEF InputInv, TypeOK
<1>2. HoldInv' /\ ComboInv' /\ LabelInv'
  BY DEF InputInv, HoldInv, counts_to, ComboInv, LabelInv
<1>3. YInv' /\ ModeInv'
  BY DEF InputInv, YInv, ModeInv
<1>4. matches(mode_index_, height_')
  <2>1. mode_index_ \in -1..FullModeMax
    BY DEF InputInv, TypeOK
  <2>2. mode_index_ = IDLE \/ (crouch_low <=> \E c \in CrouchModes : mode_index_ >= c)
    BY DEF InputInv, BandInv
  <2>3. IDLE \notin CrouchModes
    BY DEF IDLE
  <2>4. CASE mode_index_ = IDLE
    BY <2>3, <2>4 DEF matches
  <2>5. CASE mode_index_ # IDLE /\ mode_index_ \in CrouchModes
    <3>1. \E c \in CrouchModes : mode_index_ >= c
      BY <2>1, <2>5
    <3>2. \E c \in CrouchModes : mode_index_ <= c
      BY <2>1, <2>5
    <3>3. height_' = HeightSeed
      BY <2>2, <2>5, <3>1, <3>2
    <3> QED BY <2>5, <3>3 DEF matches
  <2>6. CASE mode_index_ # IDLE /\ mode_index_ \notin CrouchModes
    <3>1. ~(crouch_low /\ \E c \in CrouchModes : mode_index_ <= c)
      BY <2>1, <2>2, <2>6, BandTests
    <3>2. height_' = ModeDefault
      BY <3>1
    <3> QED BY <2>6, <3>2 DEF matches
  <2> QED BY <2>4, <2>5, <2>6
<1>5. BandInv'
  BY <1>4 DEF InputInv, BandInv, HeightMatchesMode, matches
<1> QED BY <1>1, <1>2, <1>3, <1>5 DEF InputInv

LEMMA PublishStep == InputInv /\ Publish => InputInv'
<1> SUFFICES ASSUME InputInv, Publish PROVE InputInv'
  OBVIOUS
<1> USE Constants DEF Publish, watchdog, holds, recorder, history
<1>1. mode_index_ \in -1..FullModeMax /\ height_ \in {ModeDefault, HeightSeed} /\ matches(mode_index_, height_)
  BY DEF InputInv, TypeOK, BandInv
<1>2. /\ movement_buf' \in [mode : -1..FullModeMax, height : {ModeDefault, HeightSeed},
                           by : {"nobody", "stick", "nav"}]
      /\ HeightMatchesMode'
  <2>1. CASE movement_buf' = [mode |-> mode_index_, height |-> height_, by |-> "stick"]
    BY <1>1, <2>1 DEF HeightMatchesMode, matches
  <2>2. CASE movement_buf' = [mode |-> IDLE, height |-> height_, by |-> "nobody"]
    BY <1>1, <2>2 DEF HeightMatchesMode, IDLE
  <2>3. CASE \E m \in IDLE..BasicModeMax :
               movement_buf' = [mode |-> m, height |-> ModeDefault, by |-> "nav"]
    BY <2>3 DEF HeightMatchesMode, IDLE
  <2> QED BY <2>1, <2>2, <2>3
<1>3. TypeOK'
  BY <1>2 DEF InputInv, TypeOK
<1>4. HoldInv' /\ ComboInv' /\ LabelInv'
  BY DEF InputInv, HoldInv, counts_to, ComboInv, LabelInv
<1>5. YInv' /\ ModeInv'
  BY DEF InputInv, YInv, ModeInv
<1>6. BandInv'
  BY <1>2 DEF BandInv
<1> QED BY <1>3, <1>4, <1>5, <1>6 DEF InputInv

(* disarm() at any point of a tick.                                        *)
LEMMA DisarmStep == InputInv /\ Disarm => InputInv'
<1> SUFFICES ASSUME InputInv, Disarm PROVE InputInv'
  OBVIOUS
<1> USE Constants DEF Disarm, watchdog, holds, recorder, history
<1>1. TypeOK'
  BY DEF InputInv, TypeOK, IDLE
<1>2. HoldInv' /\ ComboInv' /\ LabelInv'
  BY DEF InputInv, HoldInv, counts_to, ComboInv, LabelInv
<1>3. YInv' /\ ModeInv'
  BY DEF InputInv, YInv, ModeInv, IDLE
<1>4. BandInv'
  BY DEF InputInv, BandInv, HeightMatchesMode, matches, IDLE
<1> QED BY <1>1, <1>2, <1>3, <1>4 DEF InputInv

LEMMA HeadsetStep ==
  InputInv /\ (CtrlSample \/ CtrlAges \/ WatchdogChecks \/ WatchdogClears) => InputInv'
<1> SUFFICES ASSUME InputInv, CtrlSample \/ CtrlAges \/ WatchdogChecks \/ WatchdogClears
             PROVE  InputInv'
  OBVIOUS
<1> USE DEF CtrlSample, CtrlAges, WatchdogChecks, WatchdogClears
<1>1. UNCHANGED input_thread
  OBVIOUS
<1>2. ctrl_buf' \in Chords \cup {NoSample} /\ ctrl_stale' \in BOOLEAN /\ wpc' \in {"check", "clear"}
  BY DEF InputInv, TypeOK
<1>3. TypeOK'
  BY <1>1, <1>2 DEF InputInv, TypeOK, input_thread, holds, recorder, history
<1>4. (HoldInv /\ YInv /\ ModeInv /\ BandInv /\ ComboInv /\ LabelInv)'
  BY <1>1 DEF InputInv, HoldInv, counts_to, YInv, ModeInv, BandInv, HeightMatchesMode, matches,
              ComboInv, LabelInv, input_thread, holds, recorder, history
<1> QED BY <1>3, <1>4 DEF InputInv

LEMMA InputAtRest == InputInv /\ UNCHANGED vars => InputInv'
<1> SUFFICES ASSUME InputInv, UNCHANGED vars PROVE InputInv'
  OBVIOUS
<1> USE DEF vars, watchdog, holds, recorder, history
<1>1. TypeOK'
  BY DEF InputInv, TypeOK
<1>2. (HoldInv /\ YInv /\ ModeInv /\ BandInv /\ ComboInv /\ LabelInv)'
  BY DEF InputInv, HoldInv, counts_to, YInv, ModeInv, BandInv, HeightMatchesMode, matches,
         ComboInv, LabelInv
<1> QED BY <1>1, <1>2 DEF InputInv

LEMMA InputInvariant == Spec => []InputInv
<1>1. InputInv /\ [Next]_vars => InputInv'
  BY SeenStep, LostStep, TestStep, ModeStepStep, LowStep, HighStep, PublishStep, DisarmStep,
     HeadsetStep, InputAtRest DEF Next, Tick
<1> QED BY <1>1, InputAtStart, PTL DEF Spec

-----------------------------------------------------------------------------
(* Theorems                                                                *)

(* The tick's variables keep their ranges: in particular the mode stays in *)
(* its table, although its guard and its step are two accesses and         *)
(* disarm() may come between them (input_handler.cpp).                     *)
THEOREM InputTypes == Spec => []TypeOK
<1>1. InputInv => TypeOK
  BY DEF InputInv
<1> QED BY <1>1, InputInvariant, PTL

(* "Standing modes force -1" (input_handler.cpp:28-29), whatever disarm()  *)
(* does between the reads.                                                 *)
THEOREM CrouchesHaveHeights == Spec => []HeightMatchesMode
<1>1. InputInv => HeightMatchesMode
  BY DEF InputInv, BandInv
<1> QED BY <1>1, InputInvariant, PTL

(* A label is sent for an episode that was stopped                         *)
(* (record_control.hpp:17-26, record_commander.cpp:41-56).                 *)
THEOREM NoLabelWithoutStop == Spec => []LabelsFollowStops
<1>1. InputInv => LabelsFollowStops
  <2> SUFFICES ASSUME InputInv, tap_action \in Label PROVE last_was_stop
    BY DEF LabelsFollowStops
  <2>1. "None" \notin Label
    BY DEF Label
  <2>2. \E button \in {"A", "B"} : \E taps : record_decide(assumed_, button, taps) \in Label
    BY <2>1 DEF tap_action
  <2>3. assumed_ = "AwaitingLabel"
    BY <2>2, Decisions DEF InputInv, TypeOK
  <2> QED BY <2>3 DEF InputInv, LabelInv
<1> QED BY <1>1, InputInvariant, PTL

(* A mode beyond the basic range is reached by one full hold of Y each     *)
(* (input_handler.cpp:12-17).                                              *)
THEOREM HardModesAreHeld == Spec => HardStepsAreHeld
<1>1. InputInv /\ [Next]_vars =>
        [mode_index_' > mode_index_ /\ mode_index_' > BasicModeMax => y_alone_ticks = HardHoldTicks]_vars
  <2> SUFFICES ASSUME InputInv, Next, mode_index_' > mode_index_, mode_index_' > BasicModeMax
               PROVE  y_alone_ticks = HardHoldTicks
    OBVIOUS
  <2>1. mode_index_ \in -1..FullModeMax /\ YInv /\ ModeInv
    BY DEF InputInv, TypeOK
  <2>2. mode_index_' # mode_index_ /\ mode_index_' # IDLE
    BY <2>1, Constants DEF IDLE
  <2>3. ModeStep
    BY <2>2 DEF Next, Tick, CtrlSample, CtrlAges, WatchdogChecks, WatchdogClears, input_thread,
                SampleSeen, SampleLost, ModeTest, CrouchLow, CrouchHigh, Publish, Disarm
  <2>4. gesture # "down"
    BY <2>1, <2>3 DEF ModeStep
  <2>5. gesture # "up_basic"
    BY <2>1, <2>3, Constants DEF ModeStep, ModeInv
  <2> QED BY <2>1, <2>3, <2>4, <2>5 DEF ModeStep, ModeInv, YInv
<1> QED BY <1>1, InputInvariant, PTL DEF Spec, HardStepsAreHeld

(* No tap is counted out of a chord (tap_detector.hpp:14-15).              *)
THEOREM ChordsAreNoTaps == Spec => TapsHaveNoCombo
<1>1. InputInv /\ [Next]_vars =>
        [combo_seen => tap_action = "None" /\ a_tap_'.count = 0 /\ b_tap_'.count = 0]_vars
  <2> SUFFICES ASSUME InputInv, Next, combo_seen
               PROVE  tap_action = "None" /\ a_tap_'.count = 0 /\ b_tap_'.count = 0
    OBVIOUS
  <2>1. /\ a_tap_ \in Detector /\ b_tap_ \in Detector
        /\ a_tap_.void /\ b_tap_.void /\ a_tap_.count = 0 /\ b_tap_.count = 0
    BY DEF InputInv, TypeOK, ComboInv
  <2>2. \A b : (b \in ctrl_buf) \in BOOLEAN /\ others(b) \in BOOLEAN
    BY DEF others
  <2>3. /\ event(a_tap_, "A" \in ctrl_buf, others("A")) = 0
        /\ event(b_tap_, "B" \in ctrl_buf, others("B")) = 0
        /\ after(a_tap_, "A" \in ctrl_buf, others("A")).count = 0
        /\ after(b_tap_, "B" \in ctrl_buf, others("B")).count = 0
    BY <2>1, <2>2, VoidForgets, Zenon
  <2>4. tap_action = "None"
    BY <2>3 DEF tap_action
  <2>5. a_tap_'.count = 0 /\ b_tap_'.count = 0
    <3>1. CASE SampleSeen
      BY <2>3, <3>1 DEF SampleSeen
    <3>2. CASE SampleLost
      BY <3>2 DEF SampleLost, idle
    <3>3. CASE ~SampleSeen /\ ~SampleLost
      BY <2>1, <3>3 DEF Next, Tick, CtrlSample, CtrlAges, WatchdogChecks, WatchdogClears, input_thread,
                  ModeTest, ModeStep, CrouchLow, CrouchHigh, Publish, Disarm, holds
    <3> QED BY <3>1, <3>2, <3>3
  <2> QED BY <2>4, <2>5
<1> QED BY <1>1, InputInvariant, PTL DEF Spec, TapsHaveNoCombo

-----------------------------------------------------------------------------
(* One tick of a detector                                                  *)

\* A detector whose button is down, and one that waits for another tap.
holding(n, length) == [was_pressed |-> TRUE, pending |-> FALSE, void |-> FALSE,
                       count |-> n, press |-> length, since_release |-> 0]
waiting(n, pause)  == [was_pressed |-> FALSE, pending |-> TRUE, void |-> FALSE,
                       count |-> n, press |-> 0, since_release |-> pause]

LEMMA Fields ==
  ASSUME NEW n, NEW pause, NEW d
  PROVE  /\ d = [idle EXCEPT !.pending = TRUE, !.count = n] => d = waiting(n, 0)
         /\ d = [waiting(n, pause) EXCEPT !.since_release = pause + 1] => d = waiting(n, pause + 1)
         /\ d = [idle EXCEPT !.was_pressed = FALSE, !.void = FALSE] => d = idle
<1>1. d = [idle EXCEPT !.pending = TRUE, !.count = n] => d = waiting(n, 0)
  BY DEF idle, waiting
<1>2. d = [waiting(n, pause) EXCEPT !.since_release = pause + 1] => d = waiting(n, pause + 1)
  BY DEF waiting
<1>3. d = [idle EXCEPT !.was_pressed = FALSE, !.void = FALSE] => d = idle
  BY DEF idle
<1> QED BY <1>1, <1>2, <1>3

LEMMA Pressing ==
  ASSUME NEW n \in 0..2, NEW length \in 0..TapMax, NEW pause \in 0..DoubleGap
  PROVE  /\ after(idle, TRUE, FALSE) = holding(0, 0)
         /\ after(waiting(n, pause), TRUE, FALSE) = holding(n, 0)
         /\ after(holding(n, length), TRUE, FALSE)
              = holding(n, IF length < TapMax THEN length + 1 ELSE length)
  BY DEF after, alone, idle, holding, waiting

LEMMA Releasing ==
  ASSUME NEW n \in 0..2, NEW length \in 0..TapMax
  PROVE  /\ after(holding(n, length), FALSE, FALSE)
              = IF length < TapMax /\ n + 1 < 3 THEN waiting(n + 1, 0) ELSE idle
         /\ event(holding(n, length), FALSE, FALSE)
              = IF length < TapMax /\ n + 1 = 3 THEN 3 ELSE 0
<1>1. alone(holding(n, length), FALSE) = released(holding(n, length))
  BY DEF alone, holding
<1>2. released(holding(n, length))
        = IF length < TapMax /\ n + 1 < 3 THEN waiting(n + 1, 0) ELSE idle
  <2>1. CASE length < TapMax /\ n + 1 < 3
    <3>1. released(holding(n, length)) = [idle EXCEPT !.pending = TRUE, !.count = n + 1]
      BY <2>1 DEF released, holding, kMaxTaps
    <3>2. [idle EXCEPT !.pending = TRUE, !.count = n + 1] = waiting(n + 1, 0)
      BY Fields
    <3> QED BY <2>1, <3>1, <3>2
  <2>2. CASE ~(length < TapMax /\ n + 1 < 3)
    BY <2>2 DEF released, holding, kMaxTaps
  <2> QED BY <2>1, <2>2
<1>3. after(holding(n, length), FALSE, FALSE) = alone(holding(n, length), FALSE)
  BY DEF after, holding
<1>4. event(holding(n, length), FALSE, FALSE)
        = IF length < TapMax /\ n + 1 = 3 THEN 3 ELSE 0
  BY DEF event, holding, kMaxTaps
<1> QED BY <1>1, <1>2, <1>3, <1>4

LEMMA Waiting ==
  ASSUME NEW n \in 0..2, NEW pause \in 0..DoubleGap
  PROVE  /\ after(waiting(n, pause), FALSE, FALSE)
              = IF pause < DoubleGap THEN waiting(n, pause + 1) ELSE idle
         /\ event(waiting(n, pause), FALSE, FALSE) = IF pause = DoubleGap THEN n ELSE 0
         /\ after(idle, FALSE, FALSE) = idle /\ event(idle, FALSE, FALSE) = 0
<1>1. alone(waiting(n, pause), FALSE)
        = IF pause < DoubleGap THEN waiting(n, pause + 1) ELSE idle
  <2>1. CASE pause < DoubleGap
    <3>1. alone(waiting(n, pause), FALSE) = [waiting(n, pause) EXCEPT !.since_release = pause + 1]
      BY <2>1 DEF alone, waiting
    <3>2. [waiting(n, pause) EXCEPT !.since_release = pause + 1] = waiting(n, pause + 1)
      BY Fields
    <3> QED BY <2>1, <3>1, <3>2
  <2>2. CASE ~(pause < DoubleGap)
    BY <2>2 DEF alone, waiting
  <2> QED BY <2>1, <2>2
<1>2. after(waiting(n, pause), FALSE, FALSE) = alone(waiting(n, pause), FALSE)
  BY DEF after, waiting
<1>3. event(waiting(n, pause), FALSE, FALSE) = IF pause = DoubleGap THEN n ELSE 0
  BY DEF event, waiting
<1>4. after(idle, FALSE, FALSE) = idle /\ event(idle, FALSE, FALSE) = 0
  BY DEF after, alone, idle, event
<1> QED BY <1>1, <1>2, <1>3, <1>4

(* Another button, or a void: nothing is reported, and the void lasts      *)
(* until all are up.                                                       *)
LEMMA Voiding ==
  ASSUME NEW d, NEW pressed \in BOOLEAN, NEW voided \in BOOLEAN, voided \/ d.void
  PROVE  /\ event(d, pressed, voided) = 0
         /\ after(d, pressed, voided).void = (voided \/ pressed)
<1>1. event(d, pressed, voided) = 0
  BY DEF event
<1>2. after(d, pressed, voided) = [idle EXCEPT !.was_pressed = pressed, !.void = voided \/ pressed]
  BY Zenon DEF after
<1>3. idle = [was_pressed |-> FALSE, pending |-> FALSE, void |-> FALSE,
              count |-> 0, press |-> 0, since_release |-> 0]
  BY DEF idle
<1> QED BY <1>1, <1>2, <1>3

LEMMA Recovering ==
  ASSUME NEW d, d.void
  PROVE  after(d, FALSE, FALSE) = idle /\ event(d, FALSE, FALSE) = 0
<1>1. event(d, FALSE, FALSE) = 0
  BY DEF event
<1>2. after(d, FALSE, FALSE) = [idle EXCEPT !.was_pressed = FALSE, !.void = FALSE \/ FALSE]
  BY Zenon DEF after
<1>3. (FALSE \/ FALSE) = FALSE
  OBVIOUS
<1>4. [idle EXCEPT !.was_pressed = FALSE, !.void = FALSE] = idle
  BY Fields
<1> QED BY <1>1, <1>2, <1>3, <1>4, Zenon

-----------------------------------------------------------------------------
(* A script of samples                                                     *)

\* The largest and the smallest of some numbers.
LEMMA MaxIs ==
  ASSUME NEW S \in SUBSET Int, NEW m \in S, \A x \in S : x <= m
  PROVE  Max(S) = m
<1>1. \E x \in S : \A y \in S : x >= y
  OBVIOUS
<1>2. Max(S) \in S /\ \A y \in S : Max(S) >= y
  BY <1>1 DEF Max
<1>3. Max(S) \in Int /\ m \in Int /\ Max(S) >= m /\ Max(S) <= m
  BY <1>2
<1> QED BY <1>3

LEMMA MinIs ==
  ASSUME NEW S \in SUBSET Int, NEW m \in S, \A x \in S : m <= x
  PROVE  Min(S) = m
<1>1. \E x \in S : \A y \in S : x <= y
  OBVIOUS
<1>2. Min(S) \in S /\ \A y \in S : Min(S) <= y
  BY <1>1 DEF Min
<1>3. Min(S) \in Int /\ m \in Int /\ Min(S) >= m /\ Min(S) <= m
  BY <1>2
<1> QED BY <1>3

Void == Voids # {} /\ Clears = {}

Released(i, r) == /\ i \in 1..now /\ r \in (i + 1)..now /\ script[r] = "up"
                  /\ \A k \in i..(r - 1) : script[k] = "down"
Since(s, i)    == \A k \in i..now : script[k] = s
IsLast(p)      == p \in Presses /\ \A i \in Presses : i <= p
Earlier(p)     == \A i \in Presses : i < p => Released(i, Release(i)) /\ Release(i) < p

(* The script as far as gestures go: after the last void there are ups and *)
(* downs only, a press ends before the next one, and the last one is still *)
(* down or has been up since.                                              *)
BeginInv ==
  /\ Void => Begin = now + 1
  /\ Voids # {} /\ Clears # {} => Begin \in Clears /\ \A c \in Clears : Begin <= c
  /\ ~Void => /\ Begin \in 1..(now + 1) /\ (Begin = now + 1 => script = <<>>)
              /\ \A i \in Begin..now : script[i] \in {"up", "down"}

PressInv ==
  /\ Void => Presses = {}
  /\ ~Void /\ Presses = {} => Since("up", Begin)
  /\ Presses # {} => \E p : /\ IsLast(p) /\ Earlier(p)
                            /\ \/ Since("down", p)
                               \/ Released(p, Release(p)) /\ Since("up", Release(p))

ScriptInv == script \in Seq(Sample) /\ BeginInv /\ PressInv

appends(s) == script' = Append(script, s)

LEMMA Appended ==
  ASSUME script \in Seq(Sample), NEW s \in Sample, appends(s)
  PROVE  /\ now \in Nat /\ now' = now + 1 /\ script' \in Seq(Sample)
         /\ script'[now + 1] = s /\ \A i \in 1..now : script'[i] = script[i] /\ script[i] \in Sample
         /\ script' # <<>> /\ (script = <<>> <=> now = 0)
BY DEF appends, now

(* The part of the script that counts is cut by another button, and begins *)
(* again with the first sample that is up.                                 *)
LEMMA BeginMoves ==
  ASSUME script \in Seq(Sample), BeginInv, NEW s \in Sample, appends(s)
  PROVE  /\ s = "other" \/ (s = "down" /\ Void) => Void' /\ Begin' = now + 2
         /\ s = "up" /\ Void => ~Void' /\ Begin' = now + 1
         /\ s # "other" /\ ~Void => ~Void' /\ Begin' = Begin
         /\ BeginInv'
<1>1. /\ now \in Nat /\ now' = now + 1 /\ script'[now + 1] = s
      /\ \A i \in 1..now : script'[i] = script[i]
      /\ \A i \in 1..now : script[i] \in {"up", "down", "other"}
      /\ script' # <<>>
  BY Appended DEF Sample
<1>2. Voids \subseteq 1..now /\ Clears \subseteq 1..now
  BY DEF Voids, Clears
<1>3. CASE s = "other"
  <2>1. now + 1 \in Voids'
    BY <1>1, <1>3 DEF Voids
  <2>2. Clears' = {}
    BY <1>1, <2>1 DEF Clears
  <2>3. Void' /\ Begin' = now + 2
    BY <1>1, <2>1, <2>2 DEF Void, Begin
  <2>4. BeginInv'
    BY <1>1, <2>2, <2>3 DEF BeginInv
  <2> QED BY <1>3, <2>3, <2>4
<1>4. CASE s # "other"
  <2>1. Voids' = Voids
    BY <1>1, <1>4 DEF Voids
  <2>2. Clears' = Clears \cup (IF s = "up" THEN {now + 1} ELSE {})
    <3>1. \A i \in 1..(now + 1) : i \in Clears' <=> i \in Clears \/ (i = now + 1 /\ s = "up")
      BY <1>1, <1>2, <2>1 DEF Clears
    <3>2. Clears' \subseteq 1..(now + 1)
      BY <1>1 DEF Clears
    <3>3. ASSUME NEW i, i \in Clears' PROVE i \in Clears \/ (i = now + 1 /\ s = "up")
      <4>1. i \in 1..(now + 1)
        BY <3>2, <3>3
      <4> QED BY <3>1, <3>3, <4>1, Zenon
    <3>4. ASSUME NEW i, i \in Clears \/ (i = now + 1 /\ s = "up") PROVE i \in Clears'
      <4>1. CASE i \in Clears
        <5>1. i \in 1..(now + 1)
          BY <1>1, <1>2, <4>1
        <5> QED BY <3>1, <4>1, <5>1, Zenon
      <4>2. CASE i = now + 1 /\ s = "up"
        <5>1. now + 1 \in 1..(now + 1)
          BY <1>1
        <5> QED BY <3>1, <4>2, <5>1, Zenon
      <4> QED BY <3>4, <4>1, <4>2
    <3>5. \A i : i \in Clears' <=> i \in Clears \/ (i = now + 1 /\ s = "up")
      BY <3>3, <3>4, Zenon
    <3> QED BY <3>5
  <2>3. CASE Void /\ s = "down"
    <3>1. Void' /\ Begin' = now + 2 /\ Clears' = {}
      BY <1>1, <2>1, <2>2, <2>3 DEF Void, Begin
    <3> QED BY <1>1, <1>4, <2>3, <3>1 DEF BeginInv
  <2>4. CASE Void /\ s = "up"
    <3>1. ~Void' /\ Clears' = {now + 1} /\ Voids' # {}
      BY <2>1, <2>2, <2>4 DEF Void
    <3>2. Begin' = now + 1
      <4>1. Min({now + 1}) = now + 1
        BY <1>1, MinIs
      <4>2. Begin' = Min(Clears')
        BY <3>1 DEF Begin
      <4> QED BY <3>1, <4>1, <4>2
    <3>3. BeginInv'
      BY <1>1, <2>4, <3>1, <3>2 DEF BeginInv
    <3> QED BY <1>4, <2>4, <3>1, <3>2, <3>3
  <2>5. CASE ~Void /\ Voids = {}
    <3>1. ~Void' /\ Begin' = 1 /\ Begin = 1 /\ Voids' = {}
      BY <2>1, <2>5 DEF Void, Begin
    <3>2. \A i \in 1..(now + 1) : script'[i] \in {"up", "down"}
      BY <1>1, <1>4, <2>5 DEF Voids, Sample
    <3>3. BeginInv'
      BY <1>1, <3>1, <3>2 DEF BeginInv
    <3> QED BY <1>4, <2>5, <3>1, <3>3
  <2>6. CASE ~Void /\ Voids # {}
    <3>1. Clears # {} /\ Clears' # {} /\ ~Void' /\ Voids' # {}
      BY <2>1, <2>2, <2>6 DEF Void
    <3>2. Begin \in Clears /\ \A c \in Clears : Begin <= c
      BY <2>6, <3>1 DEF BeginInv
    <3>3. Begin \in Clears' /\ \A c \in Clears' : Begin <= c
      BY <1>1, <1>2, <2>2, <3>2
    <3>4. Begin' = Begin
      <4>1. Clears' \in SUBSET Int
        BY <1>1, <1>2, <2>2
      <4>2. Min(Clears') = Begin
        BY <3>3, <4>1, MinIs
      <4>3. Begin' = Min(Clears')
        BY <3>1 DEF Begin
      <4> QED BY <4>2, <4>3
    <3>5. Begin \in 1..now /\ \A i \in Begin..(now + 1) : script'[i] \in {"up", "down"}
      BY <1>1, <1>2, <1>4, <2>6, <3>2 DEF BeginInv, Sample
    <3>6. BeginInv'
      BY <1>1, <3>1, <3>3, <3>4, <3>5 DEF BeginInv
    <3> QED BY <1>4, <2>6, <3>1, <3>4, <3>6
  <2> QED BY <1>4, <2>3, <2>4, <2>5, <2>6 DEF Sample
<1> QED BY <1>3, <1>4

LEMMA PressesMove ==
  ASSUME script \in Seq(Sample), BeginInv, NEW s \in Sample, appends(s)
  PROVE  /\ Presses \subseteq 1..now
         /\ Void \/ Void' => Presses' = {}
         /\ ~Void /\ s = "up" => Presses' = Presses
         /\ ~Void /\ s = "down" =>
              Presses' = Presses \cup (IF script # <<>> /\ script[now] = "down" THEN {} ELSE {now + 1})
<1>1. /\ now \in Nat /\ now' = now + 1 /\ script'[now + 1] = s
      /\ \A i \in 1..now : script'[i] = script[i]
      /\ (script = <<>> <=> now = 0)
  BY Appended
<1>2. Begin \in 1..(now + 1)
  BY <1>1 DEF BeginInv
<1>3. Presses \subseteq 1..now
  BY <1>1, <1>2 DEF Presses
<1>4. CASE Void'
  <2>1. Begin' = now + 2
    BY <1>4, BeginMoves DEF Sample
  <2>2. Presses' \subseteq Begin'..now'
    BY DEF Presses
  <2>3. Presses' = {}
    BY <1>1, <2>1, <2>2
  <2> QED BY <1>3, <1>4, <2>3, BeginMoves, Zenon
<1>5. CASE Void /\ s = "up"
  <2>1. Begin' = now + 1
    BY <1>5, BeginMoves
  <2>2. Presses' \subseteq Begin'..now' /\ \A i \in Presses' : script'[i] = "down"
    BY DEF Presses
  <2>3. now' = now + 1 /\ script'[now + 1] # "down" /\ now \in Nat
    BY <1>1, <1>5
  <2>4. Presses' = {}
    BY <2>1, <2>2, <2>3
  <2> QED BY <1>3, <1>5, <2>4, Zenon
<1>6. CASE ~Void /\ s # "other"
  <2>1. Begin' = Begin
    BY <1>6, BeginMoves
  <2>2. \A i \in Begin..now : i \in Presses' <=> i \in Presses
    BY <1>1, <1>2, <2>1 DEF Presses
  <2>3. Presses' \subseteq Begin..(now + 1) /\ Presses \subseteq Begin..now
    BY <1>1, <2>1 DEF Presses
  <2>4. now + 1 \in Presses' <=> s = "down" /\ ~(script # <<>> /\ script[now] = "down")
    <3>1. now + 1 \in Presses' <=> s = "down" /\ (now + 1 = Begin \/ script'[now] # "down")
      BY <1>1, <1>2, <2>1 DEF Presses
    <3>2. now + 1 = Begin <=> script = <<>>
      BY <1>1, <1>2, <1>6 DEF BeginInv
    <3> QED BY <1>1, <3>1, <3>2
  <2>5. Presses' = Presses \cup (IF now + 1 \in Presses' THEN {now + 1} ELSE {})
    <3>1. ASSUME NEW i, i \in Presses' PROVE i \in Presses \/ i = now + 1
      <4>1. i \in Begin..now \/ i = now + 1
        BY <1>1, <1>2, <2>3, <3>1
      <4> QED BY <2>2, <3>1, <4>1, Zenon
    <3>2. ASSUME NEW i, i \in Presses PROVE i \in Presses'
      <4>1. i \in Begin..now
        BY <2>3, <3>2
      <4> QED BY <2>2, <3>2, <4>1, Zenon
    <3> QED BY <3>1, <3>2
  <2> QED BY <1>3, <1>6, <2>4, <2>5, BeginMoves
<1> QED BY <1>3, <1>4, <1>5, <1>6, BeginMoves DEF Sample

LEMMA ReleaseIs ==
  ASSUME NEW samples, NEW n \in Nat, NEW i \in 1..n, NEW r \in (i + 1)..n,
         samples[r] = "up", \A k \in i..(r - 1) : samples[k] = "down"
  PROVE  Min({j \in i..n : samples[j] = "up"}) = r
<1> DEFINE S == {j \in i..n : samples[j] = "up"}
<1>1. S \in SUBSET Int /\ r \in S
  OBVIOUS
<1>2. ASSUME NEW x \in S PROVE r <= x
  <2>1. x \in i..n /\ samples[x] = "up"
    OBVIOUS
  <2>2. x \in i..(r - 1) => samples[x] = "down"
    OBVIOUS
  <2> QED BY <2>1, <2>2
<1> HIDE DEF S
<1>3. Min(S) = r
  BY <1>1, <1>2, MinIs
<1> QED BY <1>3 DEF S

(* A press that was released stays so.                                     *)
LEMMA ReleaseKept ==
  ASSUME script \in Seq(Sample), NEW s \in Sample, appends(s), NEW i, NEW r, Released(i, r)
  PROVE  Released(i, r)' /\ Release(i) = r /\ Release(i)' = r
<1>1. /\ now \in Nat /\ now' = now + 1 /\ \A k \in 1..now : script'[k] = script[k]
      /\ i \in 1..now /\ r \in (i + 1)..now
  BY Appended DEF Released
<1>2. Released(i, r)'
  BY <1>1 DEF Released
<1>3. Release(i) = r
  BY <1>1, ReleaseIs DEF Released, Release
<1>4. Release(i)' = r
  <2>1. now' \in Nat /\ i \in 1..now' /\ r \in (i + 1)..now'
    BY <1>1
  <2> QED BY <1>2, <2>1, ReleaseIs DEF Released, Release
<1> QED BY <1>2, <1>3, <1>4

(* The press that is down is released by the next sample that is up.       *)
LEMMA ReleasesNow ==
  ASSUME script \in Seq(Sample), appends("up"), NEW p \in 1..now, Since("down", p),
         NEW t, t = now + 1
  PROVE  Released(p, t)' /\ Release(p)' = t /\ Since("up", t)'
<1>1. /\ now \in Nat /\ now' = t /\ script'[t] = "up"
      /\ \A k \in 1..now : script'[k] = script[k]
  BY Appended DEF Sample
<1>2. Released(p, t)' /\ Since("up", t)'
  BY <1>1 DEF Released, Since
<1>3. Release(p)' = t
  <2>1. now' \in Nat /\ p \in 1..now' /\ t \in (p + 1)..now'
    BY <1>1
  <2> QED BY <1>2, <2>1, ReleaseIs DEF Released, Release
<1> QED BY <1>2, <1>3

LEMMA SinceKept ==
  ASSUME script \in Seq(Sample), NEW s \in Sample, appends(s), NEW i \in 1..(now + 1), Since(s, i)
  PROVE  Since(s, i)'
<1>1. /\ now \in Nat /\ now' = now + 1 /\ script'[now + 1] = s
      /\ \A k \in 1..now : script'[k] = script[k]
  BY Appended
<1> QED BY <1>1 DEF Since

(* What is known of the last press: it is down, or has been up since its   *)
(* release.                                                                *)
LEMMA LastPress ==
  ASSUME script \in Seq(Sample), BeginInv, PressInv, Presses # {}
  PROVE  \E p : /\ IsLast(p) /\ Earlier(p) /\ p \in 1..now /\ ~Void
                /\ \A q : IsLast(q) => q = p
                /\ \/ script[now] = "down" /\ Since("down", p)
                   \/ /\ script[now] = "up" /\ Released(p, Release(p))
                      /\ Since("up", Release(p)) /\ ~Since("down", p)
<1>1. PICK p : /\ IsLast(p) /\ Earlier(p)
               /\ \/ Since("down", p)
                  \/ Released(p, Release(p)) /\ Since("up", Release(p))
  BY DEF PressInv
<1>2. now \in Nat
  BY DEF now
<1>3. Presses \subseteq 1..now /\ ~Void
  BY <1>2 DEF Presses, BeginInv, PressInv
<1>4. p \in 1..now
  BY <1>1, <1>3 DEF IsLast
<1>5. ASSUME NEW q, IsLast(q) PROVE q = p
  <2>1. q \in 1..now /\ q <= p /\ p <= q
    BY <1>1, <1>3, <1>5 DEF IsLast
  <2> QED BY <1>4, <2>1
<1>6. Since("down", p) => script[now] = "down"
  BY <1>2, <1>4 DEF Since
<1>7. Released(p, Release(p)) /\ Since("up", Release(p)) => script[now] = "up"
  BY <1>2 DEF Since, Released
<1> QED BY <1>1, <1>3, <1>4, <1>5, <1>6, <1>7

LEMMA PressTick ==
  ASSUME ScriptInv, NEW s \in Sample, appends(s)
  PROVE  ScriptInv'
<1>1. /\ now \in Nat /\ now' = now + 1 /\ script' \in Seq(Sample) /\ script'[now + 1] = s
      /\ \A i \in 1..now : script'[i] = script[i]
      /\ (script = <<>> <=> now = 0)
  BY Appended DEF ScriptInv
<1>2. script \in Seq(Sample) /\ BeginInv /\ PressInv
  BY DEF ScriptInv
<1>3. BeginInv'
  BY <1>2, BeginMoves
<1>4. PressInv'
  <2>1. CASE Void'
    <3>1. Presses' = {}
      BY <1>2, <2>1, PressesMove
    <3> QED BY <2>1, <3>1 DEF PressInv
  <2>2. CASE Void /\ ~Void'
    <3>1. s = "up" /\ Begin' = now + 1 /\ Presses' = {}
      BY <1>2, <2>2, BeginMoves, PressesMove DEF Sample
    <3>2. \A k \in Begin'..now' : script'[k] = "up"
      BY <1>1, <3>1
    <3> QED BY <2>2, <3>1, <3>2 DEF PressInv, Since
  <2>3. CASE ~Void /\ ~Void' /\ s = "up"
    <3>1. Begin' = Begin /\ Presses' = Presses /\ Begin \in 1..(now + 1)
      BY <1>2, <2>3, BeginMoves, PressesMove DEF BeginInv
    <3>2. CASE Presses = {}
      <4>1. Since("up", Begin)
        BY <2>3, <3>2, <1>2 DEF PressInv
      <4>2. \A k \in Begin..(now + 1) : script'[k] = "up"
        BY <1>1, <2>3, <3>1, <4>1 DEF Since
      <4> QED BY <1>1, <2>3, <3>1, <3>2, <4>2 DEF PressInv, Since
    <3>3. CASE Presses # {}
      <4>1. PICK p : /\ IsLast(p) /\ Earlier(p) /\ p \in 1..now
                     /\ \/ Since("down", p)
                        \/ Released(p, Release(p)) /\ Since("up", Release(p))
        BY <1>2, <3>3, LastPress
      <4>2. IsLast(p)'
        BY <3>1, <4>1 DEF IsLast
      <4>3. Earlier(p)'
        <5> SUFFICES ASSUME NEW i \in Presses, i < p
                     PROVE  Released(i, Release(i))' /\ Release(i)' < p
          BY <3>1 DEF Earlier
        <5>1. PICK r : r = Release(i)
          OBVIOUS
        <5>2. Released(i, r) /\ r < p
          BY <4>1, <5>1 DEF Earlier
        <5>3. Released(i, r)' /\ Release(i)' = r
          BY <1>2, <5>2, ReleaseKept
        <5> QED BY <5>2, <5>3 DEF Released
      <4>4. CASE Since("down", p)
        <5>1. PICK t : t = now + 1
          OBVIOUS
        <5>2. Released(p, t)' /\ Release(p)' = t /\ Since("up", t)'
          BY <1>2, <2>3, <4>1, <4>4, <5>1, ReleasesNow
        <5>3. Released(p, Release(p))' /\ Since("up", Release(p))'
          BY <5>2 DEF Released, Since
        <5> QED BY <2>3, <3>1, <3>3, <4>2, <4>3, <5>3 DEF PressInv
      <4>5. CASE Released(p, Release(p)) /\ Since("up", Release(p))
        <5>1. PICK r : r = Release(p)
          OBVIOUS
        <5>2. Released(p, r) /\ Since("up", r) /\ r \in 1..(now + 1)
          BY <1>1, <4>5, <5>1 DEF Released
        <5>3. Released(p, r)' /\ Release(p)' = r /\ Since("up", r)'
          BY <1>2, <2>3, <5>2, ReleaseKept, SinceKept
        <5>4. Released(p, Release(p))' /\ Since("up", Release(p))'
          BY <5>3 DEF Released, Since
        <5> QED BY <2>3, <3>1, <3>3, <4>2, <4>3, <5>4 DEF PressInv
      <4> QED BY <4>1, <4>4, <4>5
    <3> QED BY <3>2, <3>3
  <2>4. CASE ~Void /\ ~Void' /\ s = "down" /\ script # <<>> /\ script[now] = "down"
    <3>1. Begin' = Begin /\ Presses' = Presses
      BY <1>2, <2>4, BeginMoves, PressesMove
    <3>2. Presses # {}
      <4>1. Begin \in 1..now
        BY <1>1, <1>2, <2>4 DEF BeginInv
      <4> QED BY <1>1, <1>2, <2>4, <4>1 DEF PressInv, Since
    <3>3. PICK p : /\ IsLast(p) /\ Earlier(p) /\ p \in 1..now /\ Since("down", p)
      BY <1>2, <2>4, <3>2, LastPress
    <3>4. IsLast(p)' /\ Since("down", p)'
      <4>1. p \in 1..(now + 1) /\ Since("down", p)'
        BY <1>1, <1>2, <2>4, <3>3, SinceKept
      <4> QED BY <3>1, <3>3, <4>1 DEF IsLast
    <3>5. Earlier(p)'
      <4> SUFFICES ASSUME NEW i \in Presses, i < p
                   PROVE  Released(i, Release(i))' /\ Release(i)' < p
        BY <3>1 DEF Earlier
      <4>1. PICK r : r = Release(i)
        OBVIOUS
      <4>2. Released(i, r) /\ r < p
        BY <3>3, <4>1 DEF Earlier
      <4>3. Released(i, r)' /\ Release(i)' = r
        BY <1>2, <4>2, ReleaseKept
      <4> QED BY <4>2, <4>3 DEF Released
    <3> QED BY <2>4, <3>1, <3>2, <3>4, <3>5 DEF PressInv
  <2>5. CASE ~Void /\ ~Void' /\ s = "down" /\ ~(script # <<>> /\ script[now] = "down")
    <3>1. Presses' = Presses \cup {now + 1} /\ Presses \subseteq 1..now
      BY <1>2, <2>5, PressesMove
    <3> PICK t : t = now + 1
      OBVIOUS
    <3>2. IsLast(t)' /\ Since("down", t)'
      <4>1. IsLast(t)'
        BY <1>1, <3>1 DEF IsLast
      <4>2. \A k \in t..now' : script'[k] = "down"
        BY <1>1, <2>5
      <4> QED BY <4>1, <4>2 DEF Since
    <3>3. ASSUME NEW i \in Presses
          PROVE  \E r \in 1..now : Released(i, r)
      <4>1. PICK p : /\ IsLast(p) /\ Earlier(p) /\ p \in 1..now
                     /\ Released(p, Release(p))
        BY <1>1, <1>2, <2>5, <3>1, <3>3, LastPress
      <4>2. Released(i, Release(i))
        BY <3>1, <4>1 DEF IsLast, Earlier
      <4> QED BY <4>2 DEF Released
    <3>4. Earlier(t)'
      <4> SUFFICES ASSUME NEW i \in Presses
                   PROVE  Released(i, Release(i))' /\ Release(i)' < t
        BY <1>1, <3>1 DEF Earlier
      <4>1. PICK r \in 1..now : Released(i, r)
        BY <3>3
      <4>2. Released(i, r)' /\ Release(i)' = r
        BY <1>2, <4>1, ReleaseKept
      <4> QED BY <1>1, <4>1, <4>2 DEF Released
    <3>5. \E p : IsLast(p)' /\ Earlier(p)' /\ Since("down", p)'
      BY <3>2, <3>4
    <3> QED BY <2>5, <3>1, <3>5 DEF PressInv
  <2> QED BY <1>2, <2>1, <2>2, <2>3, <2>4, <2>5, BeginMoves DEF Sample
<1> QED BY <1>1, <1>3, <1>4 DEF ScriptInv


(* Taps in a row                                                           *)

\* A press short enough for a tap, and one soon enough after a release.
short(k)  == Release(k) - k <= TapMax
linked(k) == \E l \in Presses : l < k /\ k - Release(l) <= DoubleGap + 1

\* The taps a press at p would go on from.
Chain(p) ==
  {i \in Presses : /\ i < p
                   /\ \A k \in Presses : i <= k /\ k < p => short(k)
                   /\ \A k \in Presses : i < k /\ k <= p => linked(k)}

LEMMA TapsOfLast ==
  ASSUME NEW p, IsLast(p)', (Presses \subseteq Int)'
  PROVE  Taps(p)' = IF short(p)' THEN Chain(p)' \cup {p} ELSE {}
<1>1. p \in Presses' /\ p \in Int /\ \A i \in Presses' : i <= p /\ i \in Int
  BY DEF IsLast
<1>2. \A i : i \in Taps(p)' <=>
        i \in Presses' /\ \A k \in Presses' : i <= k => short(k)' /\ (k # i => linked(k)')
  BY <1>1 DEF Taps, short, linked
<1>3. ASSUME NEW i, i \in Taps(p)' PROVE short(p)' /\ (i \in Chain(p)' \/ i = p)
  <2>1. /\ i \in Presses' /\ i <= p /\ i \in Int
        /\ \A k \in Presses' : i <= k => short(k)' /\ (k # i => linked(k)')
    BY <1>1, <1>2, <1>3
  <2>2. i < p => i \in Chain(p)'
    BY <1>1, <2>1 DEF Chain
  <2> QED BY <1>1, <2>1, <2>2
<1>4. ASSUME short(p)', NEW i, i \in Chain(p)' \/ i = p PROVE i \in Taps(p)'
  <2>1. CASE i = p
    <3>1. \A k \in Presses' : p <= k => k = p
      BY <1>1
    <3> QED BY <1>1, <1>2, <1>4, <2>1, <3>1
  <2>2. CASE i \in Chain(p)'
    <3>1. /\ i \in Presses' /\ i < p /\ i \in Int
          /\ \A k \in Presses' : i <= k /\ k < p => short(k)'
          /\ \A k \in Presses' : i < k /\ k <= p => linked(k)'
      BY <1>1, <2>2 DEF Chain
    <3>2. ASSUME NEW k \in Presses', i <= k PROVE short(k)' /\ (k # i => linked(k)')
      BY <1>1, <1>4, <3>1, <3>2
    <3> QED BY <1>2, <3>1, <3>2
  <2> QED BY <1>4, <2>1, <2>2
<1>5. CASE short(p)'
  <2>1. \A i : i \in Taps(p)' <=> i \in Chain(p)' \/ i = p
    BY <1>3, <1>4, <1>5
  <2> QED BY <1>5, <2>1
<1>6. CASE ~short(p)'
  <2>1. \A i : i \notin Taps(p)'
    BY <1>3, <1>6
  <2> QED BY <1>6, <2>1
<1> QED BY <1>5, <1>6

(* How many there are.                                                     *)
LEMMA CountTaps ==
  ASSUME NEW p \in Int, NEW n \in Nat, Presses \subseteq 1..n
  PROVE  /\ Cardinality(Chain(p)) \in Nat /\ Cardinality(Taps(p)) \in Nat
         /\ Cardinality(Chain(p) \cup {p}) = Cardinality(Chain(p)) + 1
<1>1. IsFiniteSet(1..n) /\ Chain(p) \subseteq 1..n /\ Taps(p) \subseteq 1..n
  <2>1. IsFiniteSet(1..n)
    BY FS_Interval
  <2>2. Chain(p) \subseteq 1..n
    BY DEF Chain
  <2>3. Taps(p) \subseteq 1..n
    BY DEF Taps
  <2> QED BY <2>1, <2>2, <2>3
<1>2. IsFiniteSet(Chain(p)) /\ IsFiniteSet(Taps(p))
  BY <1>1, FS_Subset
<1>3. p \notin Chain(p)
  BY DEF Chain
<1> QED BY <1>2, <1>3, FS_CardinalityType, FS_AddElement

(* A tick that starts no press leaves the earlier ones as they are.        *)
LEMMA ChainKept ==
  ASSUME script \in Seq(Sample), NEW s \in Sample, appends(s), Presses \subseteq 1..now,
         Presses' = Presses, NEW p, IsLast(p), Earlier(p)
  PROVE  Chain(p)' = Chain(p)
<1>1. p \in Presses /\ \A k \in Presses : k \in Int
  BY DEF IsLast
<1>2. \A k \in Presses : k < p => Release(k)' = Release(k)
  <2>1. ASSUME NEW k \in Presses, k < p PROVE Release(k)' = Release(k)
    <3>1. PICK r : r = Release(k)
      OBVIOUS
    <3>2. Released(k, r)
      BY <2>1, <3>1 DEF Earlier
    <3> QED BY <3>1, <3>2, ReleaseKept
  <2> QED BY <2>1
<1>3. \A k \in Presses : k < p => (short(k)' <=> short(k))
  BY <1>2 DEF short
<1>4. \A k \in Presses : k <= p => (linked(k)' <=> linked(k))
  BY <1>1, <1>2 DEF linked
<1> QED BY <1>3, <1>4 DEF Chain

(* A new press goes on from the last gesture when the pause was short.     *)
LEMMA ChainGrows ==
  ASSUME script \in Seq(Sample), NEW s \in Sample, appends(s), Presses \subseteq 1..now,
         NEW t, t = now + 1, Presses' = Presses \cup {t},
         NEW p, IsLast(p), Earlier(p), NEW r, r = Release(p), Released(p, r)
  PROVE  Chain(t)' = IF t - r <= DoubleGap + 1 THEN Taps(p) ELSE {}
<1>1. /\ now \in Nat /\ t \in Int /\ p \in Presses /\ r \in (p + 1)..now
      /\ \A k \in Presses : k \in Int /\ k < t /\ k <= p
  BY Appended DEF IsLast, Released
<1>2. \A k \in Presses : Release(k)' = Release(k) /\ Release(k) \in Int /\ Release(k) <= r
  <2>1. ASSUME NEW k \in Presses PROVE Release(k)' = Release(k) /\ Release(k) \in Int /\ Release(k) <= r
    <3>1. PICK q : q = Release(k)
      OBVIOUS
    <3>2. k < p \/ k = p
      BY <1>1
    <3>3. Released(k, q)
      BY <3>1, <3>2 DEF Earlier
    <3>4. q \in Int
      BY <1>1, <3>3 DEF Released
    <3>5. q <= r
      BY <1>1, <3>1, <3>2, <3>4 DEF Earlier
    <3>6. Release(k)' = q
      BY <3>3, ReleaseKept
    <3> QED BY <3>1, <3>4, <3>5, <3>6
  <2> QED BY <2>1
<1>3. \A k \in Presses : short(k)' <=> short(k)
  BY <1>2 DEF short
<1>4. \A k \in Presses : linked(k)' <=> linked(k)
  BY <1>1, <1>2 DEF linked
<1>5. linked(t)' <=> t - r <= DoubleGap + 1
  BY <1>1, <1>2, TapAssumption DEF linked
<1>6. \A i : i \in Taps(p) <=>
        i \in Presses /\ \A k \in Presses : i <= k => short(k) /\ (k # i => linked(k))
  BY <1>1 DEF Taps, short, linked
<1>7. \A i : i \in Chain(t)' <=>
        /\ i \in Presses
        /\ \A k \in Presses : i <= k => short(k)
        /\ \A k \in Presses : i < k => linked(k)
        /\ t - r <= DoubleGap + 1
  <2>1. \A i : i \in Chain(t)' <=>
          /\ i \in Presses' /\ i < t
          /\ \A k \in Presses' : i <= k /\ k < t => short(k)'
          /\ \A k \in Presses' : i < k /\ k <= t => linked(k)'
    BY DEF Chain
  <2>2. \A i : i \in Presses' /\ i < t <=> i \in Presses
    <3>1. ~(t < t) /\ \A i \in Presses : i < t
      BY <1>1
    <3>2. \A i : i \in Presses' <=> i \in Presses \/ i = t
      OBVIOUS
    <3> QED BY <3>1, <3>2, Zenon
  <2>3. \A i : (\A k \in Presses' : i <= k /\ k < t => short(k)')
               <=> \A k \in Presses : i <= k => short(k)
    BY <1>1, <1>3
  <2>4. \A i \in Presses : (\A k \in Presses' : i < k /\ k <= t => linked(k)')
               <=> (\A k \in Presses : i < k => linked(k)) /\ t - r <= DoubleGap + 1
    BY <1>1, <1>4, <1>5
  <2> QED BY <2>1, <2>2, <2>3, <2>4, Zenon
<1>8. \A i \in Presses : \A k \in Presses : i < k <=> i <= k /\ k # i
  BY <1>1
<1>9. CASE t - r <= DoubleGap + 1
  <2>1. \A i : i \in Chain(t)' <=> i \in Taps(p)
    BY <1>6, <1>7, <1>8, <1>9
  <2> QED BY <1>9, <2>1
<1>10. CASE ~(t - r <= DoubleGap + 1)
  <2>1. \A i : i \notin Chain(t)'
    BY <1>7, <1>10
  <2> QED BY <1>10, <2>1
<1> QED BY <1>9, <1>10

(* What the detector remembers of the script                               *)

\* While the last press is down: the taps before it and how long it is.
WhileDown(p) ==
  Since("down", p) =>
    detector = holding(Cardinality(Chain(p)) % kMaxTaps,
                       IF now - p < TapMax THEN now - p ELSE TapMax)

\* While it is up: the taps, until the window for another one has passed.
WhileUp(p) ==
  ~Since("down", p) =>
    LET count == Cardinality(Taps(p)) % kMaxTaps
    IN  detector = IF count # 0 /\ now - Release(p) <= DoubleGap
                   THEN waiting(count, now - Release(p)) ELSE idle

DetectorInv ==
  /\ detector.void = Void
  /\ ~Void /\ Presses = {} => detector = idle
  /\ \A p : IsLast(p) => WhileDown(p) /\ WhileUp(p)

ticks(s) ==
  /\ detector' = after(detector, s = "down", s = "other")
  /\ reported' = event(detector, s = "down", s = "other")

\* What is reported when the script ends with an up after a press at p.
Reported(p) ==
  reported = CASE Release(p) = now /\ Cardinality(Taps(p)) > 0
                    /\ Cardinality(Taps(p)) % kMaxTaps = 0 -> kMaxTaps
               [] now - Release(p) = DoubleGap + 1 -> Cardinality(Taps(p)) % kMaxTaps
               [] OTHER -> 0

LEMMA Reports ==
  ASSUME NEW p, IsLast(p)', (Presses \subseteq Int)', script' # <<>>, script'[now'] = "up", Reported(p)'
  PROVE  EventsCountTaps'
<1>1. Max(Presses)' = p /\ (Presses # {})'
  BY MaxIs DEF IsLast
<1> QED BY <1>1 DEF EventsCountTaps, Reported

LEMMA ReportsNone ==
  ASSUME reported' = 0, script' = <<>> \/ script'[now'] # "up" \/ Presses' = {}
  PROVE  EventsCountTaps'
  BY DEF EventsCountTaps

LEMMA NextCount ==
  ASSUME NEW c \in Nat
  PROVE  /\ c % kMaxTaps \in 0..2
         /\ (c % kMaxTaps) + 1 < 3 => (c + 1) % kMaxTaps = (c % kMaxTaps) + 1
         /\ (c % kMaxTaps) + 1 = 3 => (c + 1) % kMaxTaps = 0
         /\ 0 % kMaxTaps = 0
  BY DEF kMaxTaps

LEMMA Remembers ==
  ASSUME NEW p, IsLast(p)', (Presses \subseteq Int)', ~Void', detector'.void = FALSE,
         WhileDown(p)', WhileUp(p)'
  PROVE  DetectorInv'
<1>1. (Presses # {})' /\ Void' = FALSE
  BY DEF IsLast, Void
<1>2. ASSUME NEW q, IsLast(q)' PROVE q = p
  <2>1. p \in Int /\ q \in Int /\ p <= q /\ q <= p
    BY <1>2 DEF IsLast
  <2> QED BY <2>1
<1> QED BY <1>1, <1>2 DEF DetectorInv

(* What a tick finds, when a press was seen since the last void.           *)
GestureTick(s, p) ==
  /\ ScriptInv /\ DetectorInv /\ s \in Sample /\ appends(s) /\ ticks(s)
  /\ ~Void /\ IsLast(p) /\ Earlier(p)

LEMMA GestureFacts ==
  ASSUME NEW s, NEW p, GestureTick(s, p)
  PROVE  /\ now \in Nat /\ now' = now + 1 /\ script' # <<>> /\ script'[now'] = s
         /\ Presses \subseteq 1..now /\ (Presses \subseteq Int)' /\ p \in 1..now
         /\ WhileDown(p) /\ WhileUp(p) /\ PressInv /\ BeginInv /\ script \in Seq(Sample)
         /\ s # "other" => ~Void'
         /\ s = "down" => /\ detector' = after(detector, TRUE, FALSE)
                          /\ reported' = event(detector, TRUE, FALSE)
         /\ s = "up"   => /\ detector' = after(detector, FALSE, FALSE)
                          /\ reported' = event(detector, FALSE, FALSE)
<1>1. /\ script \in Seq(Sample) /\ BeginInv /\ PressInv /\ s \in Sample /\ appends(s)
      /\ WhileDown(p) /\ WhileUp(p) /\ ticks(s) /\ ~Void /\ p \in Presses
  BY DEF GestureTick, ScriptInv, DetectorInv, IsLast
<1>2. now \in Nat /\ now' = now + 1 /\ script' # <<>> /\ script'[now'] = s
  BY <1>1, Appended
<1>3. Presses \subseteq 1..now /\ (s # "other" => ~Void')
  BY <1>1, PressesMove, BeginMoves
<1>4. (Presses \subseteq Int)'
  <2>1. BeginInv' /\ (Presses \subseteq Begin..now)' /\ now' \in Int
    BY <1>1, <1>2, BeginMoves DEF Presses
  <2>2. Begin' \in Int
    BY <1>1, <1>2, <2>1 DEF BeginInv
  <2> QED BY <2>1, <2>2
<1>5. /\ detector' = after(detector, s = "down", s = "other")
      /\ reported' = event(detector, s = "down", s = "other")
  BY <1>1 DEF ticks
<1>6. ASSUME s = "down"
      PROVE  detector' = after(detector, TRUE, FALSE) /\ reported' = event(detector, TRUE, FALSE)
  <2>1. (s = "down") = TRUE /\ (s = "other") = FALSE
    BY <1>6
  <2> QED BY <1>5, <2>1, Zenon
<1>7. ASSUME s = "up"
      PROVE  detector' = after(detector, FALSE, FALSE) /\ reported' = event(detector, FALSE, FALSE)
  <2>1. (s = "down") = FALSE /\ (s = "other") = FALSE
    BY <1>7
  <2> QED BY <1>5, <2>1, Zenon
<1> QED BY <1>1, <1>2, <1>3, <1>4, <1>6, <1>7

(* The button stays down.                                                  *)
LEMMA HoldsOn ==
  ASSUME NEW p, GestureTick("down", p), Since("down", p)
  PROVE  DetectorInv' /\ EventsCountTaps'
<1>1. /\ now \in Nat /\ now' = now + 1 /\ script'[now'] = "down"
      /\ Presses \subseteq 1..now /\ (Presses \subseteq Int)' /\ p \in 1..now
      /\ WhileDown(p) /\ script \in Seq(Sample) /\ BeginInv
      /\ detector' = after(detector, TRUE, FALSE) /\ reported' = event(detector, TRUE, FALSE)
      /\ ~Void' /\ "down" \in Sample /\ appends("down") /\ ~Void /\ IsLast(p) /\ Earlier(p)
  <2>1. "down" \in Sample /\ appends("down") /\ ~Void /\ IsLast(p) /\ Earlier(p) /\ "down" # "other"
    BY DEF GestureTick
  <2> QED BY <2>1, GestureFacts, Zenon
<1>2. Presses' = Presses
  <2>1. script # <<>> /\ script[now] = "down"
    BY <1>1 DEF Since, now
  <2> QED BY <1>1, <2>1, PressesMove
<1>3. IsLast(p)' /\ Since("down", p)' /\ Chain(p)' = Chain(p)
  <2>1. p \in 1..(now + 1)
    BY <1>1
  <2> QED BY <1>1, <1>2, <2>1, SinceKept, ChainKept DEF IsLast
<1> DEFINE n == Cardinality(Chain(p)) % kMaxTaps
           length == IF now - p < TapMax THEN now - p ELSE TapMax
<1>4. n \in 0..2 /\ length \in 0..TapMax
  <2>1. Cardinality(Chain(p)) \in Nat
    <3>1. p \in Int
      BY <1>1
    <3> QED BY <1>1, <3>1, CountTaps, Zenon
  <2>2. n \in 0..2
    BY <2>1, NextCount
  <2>3. length \in 0..TapMax
    BY <1>1, TapAssumption
  <2> QED BY <2>2, <2>3
<1>5. detector = holding(n, length)
  BY <1>1 DEF WhileDown
<1>6. (IF length < TapMax THEN length + 1 ELSE length)
        = IF now' - p < TapMax THEN now' - p ELSE TapMax
  BY <1>1, TapAssumption
<1>7. detector' = holding(n, IF length < TapMax THEN length + 1 ELSE length)
  <2> HIDE DEF n, length
  <2>1. 0 \in 0..DoubleGap
    BY TapAssumption
  <2> QED BY <1>1, <1>4, <1>5, <2>1, Pressing, Zenon
<1>8. detector'.void = FALSE
  BY <1>7 DEF holding
<1>9. WhileDown(p)' /\ WhileUp(p)'
  BY <1>3, <1>6, <1>7 DEF WhileDown, WhileUp
<1>10. reported' = 0
  <2>1. event(detector, TRUE, FALSE) = 0
    BY DEF event
  <2> QED BY <1>1, <2>1
<1> QED BY <1>1, <1>3, <1>8, <1>9, <1>10, Remembers, ReportsNone

(* It is released.                                                         *)
LEMMA IsReleased ==
  ASSUME NEW p, GestureTick("up", p), Since("down", p)
  PROVE  DetectorInv' /\ EventsCountTaps'
<1>1. /\ now \in Nat /\ now' = now + 1 /\ script'[now'] = "up" /\ script' # <<>>
      /\ Presses \subseteq 1..now /\ (Presses \subseteq Int)' /\ p \in 1..now
      /\ WhileDown(p) /\ script \in Seq(Sample) /\ BeginInv
      /\ detector' = after(detector, FALSE, FALSE) /\ reported' = event(detector, FALSE, FALSE)
      /\ ~Void' /\ "up" \in Sample /\ appends("up") /\ ~Void /\ IsLast(p) /\ Earlier(p)
  <2>1. "up" \in Sample /\ appends("up") /\ ~Void /\ IsLast(p) /\ Earlier(p) /\ "up" # "other"
    BY DEF GestureTick
  <2> QED BY <2>1, GestureFacts, Zenon
<1> PICK t : t = now + 1
  OBVIOUS
<1>2. Presses' = Presses /\ (Presses \subseteq 1..now)' /\ t \in Nat /\ now' = t
  <2>1. Presses' = Presses
    BY <1>1, PressesMove
  <2> QED BY <1>1, <2>1
<1>3. IsLast(p)' /\ ~Since("down", p)' /\ Chain(p)' = Chain(p) /\ Release(p)' = t
  BY <1>1, <1>2, ChainKept, ReleasesNow DEF IsLast, Since
<1> DEFINE c == Cardinality(Chain(p))
           n == c % kMaxTaps
           length == IF now - p < TapMax THEN now - p ELSE TapMax
<1>4. c \in Nat /\ n \in 0..2 /\ length \in 0..TapMax
  <2>1. c \in Nat
    <3>1. p \in Int
      BY <1>1
    <3> QED BY <1>1, <3>1, CountTaps, Zenon
  <2>2. n \in 0..2
    BY <2>1, NextCount
  <2>3. length \in 0..TapMax
    BY <1>1, TapAssumption
  <2> QED BY <2>1, <2>2, <2>3
<1>5. short(p)' <=> length < TapMax
  BY <1>1, <1>2, <1>3, TapAssumption DEF short
<1>6. Cardinality(Taps(p)') = IF length < TapMax THEN c + 1 ELSE 0
  <2>1. Taps(p)' = IF short(p)' THEN Chain(p)' \cup {p} ELSE {}
    BY <1>1, <1>3, TapsOfLast
  <2>2. Cardinality(Chain(p) \cup {p}) = c + 1 /\ Cardinality({}) = 0
    <3>1. p \in Int
      BY <1>1
    <3> QED BY <1>1, <3>1, CountTaps, FS_EmptySet, Zenon
  <2> QED BY <1>3, <1>5, <2>1, <2>2
<1>7. detector = holding(n, length)
  BY <1>1 DEF WhileDown
<1> DEFINE taps == Cardinality(Taps(p)')
<1>8. /\ detector' = IF length < TapMax /\ n + 1 < 3 THEN waiting(n + 1, 0) ELSE idle
      /\ reported' = IF length < TapMax /\ n + 1 = 3 THEN 3 ELSE 0
  <2> HIDE DEF n, length
  <2> QED BY <1>1, <1>4, <1>7, Releasing
<1>9. /\ length < TapMax /\ n + 1 < 3 => taps % kMaxTaps = n + 1 /\ taps % kMaxTaps # 0
      /\ length < TapMax /\ n + 1 = 3 => taps % kMaxTaps = 0 /\ taps > 0
      /\ ~(length < TapMax) => taps = 0 /\ taps % kMaxTaps = 0
      /\ n + 1 < 3 \/ n + 1 = 3
  BY <1>4, <1>6, NextCount
<1>10. detector'.void = FALSE
  BY <1>8 DEF waiting, idle
<1>11. WhileUp(p)' /\ WhileDown(p)'
  <2>1. detector' = IF taps % kMaxTaps # 0 /\ t - t <= DoubleGap
                    THEN waiting(taps % kMaxTaps, t - t) ELSE idle
    <3> HIDE DEF n, length, taps
    <3> QED BY <1>2, <1>8, <1>9, TapAssumption
  <2> QED BY <1>2, <1>3, <2>1 DEF WhileUp, WhileDown
<1>12. Reported(p)'
  <2>1. reported' = CASE t = t /\ taps > 0 /\ taps % kMaxTaps = 0 -> kMaxTaps
                      [] t - t = DoubleGap + 1 -> taps % kMaxTaps
                      [] OTHER -> 0
    <3> HIDE DEF n, length, taps
    <3> QED BY <1>2, <1>8, <1>9, TapAssumption DEF kMaxTaps
  <2> QED BY <1>2, <1>3, <2>1 DEF Reported
<1> QED BY <1>1, <1>3, <1>10, <1>11, <1>12, Remembers, Reports

(* It stays up.                                                            *)
LEMMA StaysUp ==
  ASSUME NEW p, GestureTick("up", p), ~Since("down", p), NEW r, r = Release(p), Released(p, r)
  PROVE  DetectorInv' /\ EventsCountTaps'
<1>1. /\ now \in Nat /\ now' = now + 1 /\ script'[now'] = "up" /\ script' # <<>>
      /\ Presses \subseteq 1..now /\ (Presses \subseteq Int)' /\ p \in 1..now
      /\ WhileUp(p) /\ script \in Seq(Sample) /\ BeginInv
      /\ detector' = after(detector, FALSE, FALSE) /\ reported' = event(detector, FALSE, FALSE)
      /\ ~Void' /\ "up" \in Sample /\ appends("up") /\ ~Void /\ IsLast(p) /\ Earlier(p)
  <2>1. "up" \in Sample /\ appends("up") /\ ~Void /\ IsLast(p) /\ Earlier(p) /\ "up" # "other"
    BY DEF GestureTick
  <2> QED BY <2>1, GestureFacts, Zenon
<1>2. Presses' = Presses
  BY <1>1, PressesMove
<1>3. \A k \in Presses : Release(k)' = Release(k)
  <2>1. ASSUME NEW k \in Presses PROVE Release(k)' = Release(k)
    <3>1. k < p \/ k = p
      BY <1>1 DEF IsLast
    <3>2. PICK q : q = Release(k)
      OBVIOUS
    <3>3. Released(k, q)
      BY <1>1, <3>1, <3>2 DEF Earlier
    <3> QED BY <1>1, <3>2, <3>3, ReleaseKept
  <2> QED BY <2>1
<1>4. IsLast(p)' /\ Release(p)' = r /\ Taps(p)' = Taps(p)
  BY <1>1, <1>2, <1>3 DEF IsLast, Taps
<1>5. ~Since("down", p)'
  <2>1. p \in 1..(now + 1) /\ script'[now + 1] = "up"
    BY <1>1
  <2> QED BY <1>1, <2>1 DEF Since
<1> DEFINE c == Cardinality(Taps(p)) % kMaxTaps
           pause == now - r
<1>6. c \in 0..2 /\ pause \in Nat /\ now' - r = pause + 1 /\ now' # r
  <2>1. Cardinality(Taps(p)) \in Nat
    <3>1. p \in Int
      BY <1>1
    <3> QED BY <1>1, <3>1, CountTaps, Zenon
  <2>2. c \in 0..2
    BY <2>1, NextCount
  <2> QED BY <1>1, <2>2 DEF Released
<1>7. detector = IF c # 0 /\ pause <= DoubleGap THEN waiting(c, pause) ELSE idle
  BY DEF WhileUp, GestureTick, DetectorInv
<1>8. /\ detector' = IF c # 0 /\ pause + 1 <= DoubleGap THEN waiting(c, pause + 1) ELSE idle
      /\ reported' = IF pause + 1 = DoubleGap + 1 THEN c ELSE 0
  <2> HIDE DEF c, pause
  <2>1. CASE c # 0 /\ pause <= DoubleGap
    <3>1. pause \in 0..DoubleGap
      BY <1>6, <2>1, TapAssumption
    <3>2. /\ detector' = IF pause < DoubleGap THEN waiting(c, pause + 1) ELSE idle
          /\ reported' = IF pause = DoubleGap THEN c ELSE 0
      <4>1. detector = waiting(c, pause)
        BY <1>7, <2>1
      <4> QED BY <1>1, <1>6, <3>1, <4>1, Waiting, Zenon
    <3>3. (pause < DoubleGap <=> c # 0 /\ pause + 1 <= DoubleGap)
          /\ (pause = DoubleGap <=> pause + 1 = DoubleGap + 1)
      BY <1>6, <2>1, TapAssumption
    <3> QED BY <3>2, <3>3
  <2>2. CASE ~(c # 0 /\ pause <= DoubleGap)
    <3>1. detector = idle
      BY <1>7, <2>2
    <3>2. 0 \in 0..2 /\ 0 \in 0..DoubleGap
      BY TapAssumption
    <3>3. detector' = idle /\ reported' = 0
      BY <1>1, <3>1, <3>2, Waiting, Zenon
    <3> QED BY <1>6, <2>2, <3>3, TapAssumption
  <2> QED BY <2>1, <2>2
<1>9. detector'.void = FALSE
  BY <1>8 DEF waiting, idle
<1>10. WhileUp(p)' /\ WhileDown(p)'
  BY <1>4, <1>5, <1>6, <1>8 DEF WhileUp, WhileDown
<1>11. Reported(p)'
  <2>1. ~(Release(p)' = now')
    BY <1>4, <1>6
  <2>2. reported' = IF now' - Release(p)' = DoubleGap + 1 THEN Cardinality(Taps(p)') % kMaxTaps ELSE 0
    BY <1>4, <1>6, <1>8
  <2> QED BY <2>1, <2>2 DEF Reported
<1> QED BY <1>1, <1>4, <1>9, <1>10, <1>11, Remembers, Reports

(* A press begins: of the same gesture, or of a new one.                   *)
LEMMA Begins ==
  ASSUME ScriptInv, DetectorInv, appends("down"), ticks("down"), ~Void,
         ~(script # <<>> /\ script[now] = "down")
  PROVE  DetectorInv' /\ EventsCountTaps'
<1> PICK t : t = now + 1
  OBVIOUS
<1>1. script \in Seq(Sample) /\ BeginInv /\ PressInv /\ "down" \in Sample
  BY DEF ScriptInv, Sample
<1>2. now \in Nat /\ t \in Nat /\ now' = t /\ script'[now'] = "down" /\ (script = <<>> <=> now = 0)
  BY <1>1, Appended
<1>3. ~Void' /\ Presses \subseteq 1..now /\ Presses' = Presses \cup {t} /\ "down" # "other"
  BY <1>1, BeginMoves, PressesMove
<1>4. IsLast(t)' /\ (Presses \subseteq Int)' /\ Since("down", t)'
  BY <1>2, <1>3 DEF IsLast, Since
<1>5. /\ detector' = after(detector, TRUE, FALSE) /\ reported' = 0
  <2>1. ("down" = "down") = TRUE /\ ("down" = "other") = FALSE
    OBVIOUS
  <2>2. event(detector, TRUE, FALSE) = 0
    BY DEF event
  <2> QED BY <2>1, <2>2, Zenon DEF ticks
<1>6. detector' = holding(Cardinality(Chain(t)') % kMaxTaps, 0)
  <2>1. 0 \in 0..2 /\ 0 \in 0..DoubleGap /\ 0 \in 0..TapMax /\ 0 % kMaxTaps = 0
    BY TapAssumption DEF kMaxTaps
  <2>2. CASE Presses = {}
    <3>1. detector = idle
      BY <2>2 DEF DetectorInv
    <3>2. Chain(t)' = {}
      BY <1>2, <1>3, <2>2 DEF Chain
    <3>3. detector' = holding(0, 0)
      BY <1>5, <2>1, <3>1, Pressing, Zenon
    <3> QED BY <2>1, <3>2, <3>3, FS_EmptySet
  <2>3. CASE Presses # {}
    <3>1. PICK p : /\ IsLast(p) /\ Earlier(p) /\ p \in 1..now
                   /\ Released(p, Release(p)) /\ ~Since("down", p)
      <4>1. script # <<>>
        <5>1. \A i \in Presses : i \in 1..now
          BY <1>3
        <5> QED BY <1>2, <2>3, <5>1
      <4> QED BY <1>1, <1>2, <2>3, <4>1, LastPress
    <3> PICK r : r = Release(p)
      OBVIOUS
    <3>2. Chain(t)' = IF t - r <= DoubleGap + 1 THEN Taps(p) ELSE {}
      BY <1>1, <1>3, <3>1, ChainGrows
    <3> DEFINE c == Cardinality(Taps(p)) % kMaxTaps
    <3>3. c \in 0..2 /\ now - r \in Nat /\ r \in Int
      <4>1. Cardinality(Taps(p)) \in Nat
        <5>1. p \in Int
          BY <3>1
        <5> QED BY <1>2, <1>3, <3>1, <5>1, CountTaps, Zenon
      <4>2. c \in 0..2
        BY <4>1, NextCount
      <4> QED BY <1>2, <3>1, <4>2 DEF Released
    <3>4. detector = IF c # 0 /\ now - r <= DoubleGap THEN waiting(c, now - r) ELSE idle
      BY <3>1 DEF WhileUp, DetectorInv
    <3>5. Cardinality(Chain(t)') % kMaxTaps = IF t - r <= DoubleGap + 1 THEN c ELSE 0
      BY <2>1, <3>2, FS_EmptySet
    <3>6. t - r <= DoubleGap + 1 <=> now - r <= DoubleGap
      BY <1>2, <3>3, TapAssumption
    <3> HIDE DEF c
    <3>7. CASE c # 0 /\ now - r <= DoubleGap
      <4>1. detector = waiting(c, now - r)
        BY <3>4, <3>7
      <4>2. now - r \in 0..DoubleGap
        BY <3>3, <3>7, TapAssumption
      <4>3. detector' = holding(c, 0)
        BY <1>5, <2>1, <3>3, <4>1, <4>2, Pressing, Zenon
      <4> QED BY <3>5, <3>6, <3>7, <4>3
    <3>8. CASE ~(c # 0 /\ now - r <= DoubleGap)
      <4>1. detector = idle
        BY <3>4, <3>8
      <4>2. detector' = holding(0, 0)
        BY <1>5, <2>1, <4>1, Pressing, Zenon
      <4> QED BY <3>5, <3>6, <3>8, <4>2
    <3> QED BY <3>7, <3>8
  <2> QED BY <2>2, <2>3
<1>7. detector'.void = FALSE
  BY <1>6 DEF holding
<1>8. WhileDown(t)' /\ WhileUp(t)'
  <2>1. 0 = IF now' - t < TapMax THEN now' - t ELSE TapMax
    BY <1>2, TapAssumption
  <2> QED BY <1>4, <1>6, <2>1 DEF WhileDown, WhileUp
<1> QED BY <1>2, <1>3, <1>4, <1>5, <1>7, <1>8, Remembers, ReportsNone

\* The script is well formed, the detector remembers it, the report is right.
GestureInv == ScriptInv /\ DetectorInv /\ EventsCountTaps

LEMMA DetectorTick ==
  ASSUME ScriptInv, DetectorInv, NEW s \in Sample, appends(s), ticks(s)
  PROVE  DetectorInv' /\ EventsCountTaps'
<1>1. /\ script \in Seq(Sample) /\ BeginInv /\ PressInv /\ now' = now + 1 /\ script'[now'] = s
      /\ detector' = after(detector, s = "down", s = "other")
      /\ reported' = event(detector, s = "down", s = "other")
      /\ detector.void = Void /\ Void \in BOOLEAN
  BY Appended DEF ScriptInv, DetectorInv, ticks, Void
<1>2. CASE s = "other" \/ (s = "down" /\ Void)
  <2>1. Void' /\ Presses' = {}
    BY <1>1, <1>2, BeginMoves, PressesMove
  <2>2. (s = "down") \in BOOLEAN /\ (s = "other") \in BOOLEAN
    OBVIOUS
  <2>3. reported' = 0 /\ detector'.void = TRUE
    <3> PICK d, pressed, voided :
               d = detector /\ pressed = (s = "down") /\ voided = (s = "other")
      OBVIOUS
    <3>1. pressed \in BOOLEAN /\ voided \in BOOLEAN /\ (voided \/ d.void)
      BY <1>1, <1>2
    <3>2. event(d, pressed, voided) = 0 /\ after(d, pressed, voided).void = (voided \/ pressed)
      BY <3>1, Voiding, Zenon
    <3> QED BY <1>1, <1>2, <3>2
  <2>4. DetectorInv'
    <3>1. Void' = TRUE /\ \A p : ~IsLast(p)'
      BY <2>1 DEF IsLast, Void
    <3> QED BY <2>3, <3>1 DEF DetectorInv
  <2> QED BY <2>1, <2>3, <2>4, ReportsNone
<1>3. CASE s = "up" /\ (Void \/ Presses = {})
  <2>1. ~Void' /\ Presses' = {}
    BY <1>1, <1>3, BeginMoves, PressesMove
  <2>2. detector' = idle /\ reported' = 0
    <3>1. (s = "down") = FALSE /\ (s = "other") = FALSE /\ 0 \in 0..2 /\ 0 \in 0..DoubleGap
      BY <1>3, TapAssumption
    <3>2. CASE Void
      <4> PICK d : d = detector
        OBVIOUS
      <4>1. d.void
        BY <1>1, <3>2
      <4>2. after(d, FALSE, FALSE) = idle /\ event(d, FALSE, FALSE) = 0
        BY <4>1, Recovering, Zenon
      <4> QED BY <1>1, <3>1, <4>2
    <3>3. CASE ~Void /\ Presses = {}
      <4>1. detector = idle
        BY <3>3 DEF DetectorInv
      <4> QED BY <1>1, <3>1, <4>1, Waiting, Zenon
    <3> QED BY <1>3, <3>2, <3>3
  <2>3. DetectorInv'
    <3>1. Void' = FALSE /\ (\A p : ~IsLast(p)') /\ idle.void = FALSE
      BY <2>1 DEF IsLast, Void, idle
    <3> QED BY <2>1, <2>2, <3>1 DEF DetectorInv
  <2> QED BY <2>1, <2>2, <2>3, ReportsNone
<1>4. CASE ~Void /\ s = "up" /\ Presses # {}
  <2>1. PICK p : /\ IsLast(p) /\ Earlier(p)
                 /\ Since("down", p) \/ (Released(p, Release(p)) /\ ~Since("down", p))
    BY <1>1, <1>4, LastPress
  <2>2. GestureTick("up", p)
    BY <1>4, <2>1 DEF GestureTick
  <2> QED BY <2>1, <2>2, IsReleased, StaysUp
<1>5. CASE ~Void /\ s = "down" /\ script # <<>> /\ script[now] = "down"
  <2>1. Presses # {}
    <3>1. Begin \in 1..now /\ now \in Nat
      BY <1>1, <1>5 DEF BeginInv, now
    <3> QED BY <1>1, <1>5, <3>1 DEF PressInv, Since
  <2>2. PICK p : IsLast(p) /\ Earlier(p) /\ Since("down", p)
    BY <1>1, <1>5, <2>1, LastPress
  <2>3. GestureTick("down", p)
    BY <1>5, <2>2 DEF GestureTick
  <2> QED BY <2>2, <2>3, HoldsOn
<1>6. CASE ~Void /\ s = "down" /\ ~(script # <<>> /\ script[now] = "down")
  BY <1>6, Begins
<1> QED BY <1>2, <1>3, <1>4, <1>5, <1>6 DEF Sample

(* The detector reports one, two or three taps when, and only when, a      *)
(* gesture of so many ends (tap_detector.hpp:5-15).                        *)
THEOREM TapsAreCounted == TapSpec => []EventsCountTaps
<1>1. TapInit => GestureInv
  <2> SUFFICES ASSUME TapInit PROVE GestureInv
    OBVIOUS
  <2>1. script = <<>> /\ now = 0 /\ detector = idle /\ reported = 0
    BY DEF TapInit, now
  <2>2. Voids = {} /\ Begin = 1 /\ Presses = {}
    BY <2>1 DEF Voids, Begin, Presses
  <2>3. ~Void /\ Void = FALSE /\ idle.void = FALSE
    BY <2>2 DEF Void, idle
  <2>4. ScriptInv
    BY <2>1, <2>2, <2>3 DEF ScriptInv, BeginInv, PressInv, Since
  <2>5. DetectorInv
    BY <2>1, <2>2, <2>3 DEF DetectorInv, IsLast
  <2> QED BY <2>1, <2>4, <2>5 DEF GestureInv, EventsCountTaps
<1>2. GestureInv /\ [TapTick]_tap_vars => GestureInv'
  <2> SUFFICES ASSUME GestureInv, [TapTick]_tap_vars PROVE GestureInv'
    OBVIOUS
  <2>1. CASE TapTick
    <3>1. PICK s \in Sample : appends(s) /\ ticks(s)
      BY <2>1 DEF TapTick, appends, ticks
    <3> QED BY <3>1, PressTick, DetectorTick DEF GestureInv
  <2>2. CASE UNCHANGED tap_vars
    <3>1. script' = script /\ detector' = detector /\ reported' = reported /\ now' = now
      BY <2>2 DEF tap_vars, now
    <3>2. Void' = Void /\ Begin' = Begin /\ Clears' = Clears /\ Voids' = Voids /\ Presses' = Presses
      <4>1. Voids' = Voids
        BY <3>1 DEF Voids
      <4>2. Clears' = Clears
        BY <3>1, <4>1 DEF Clears
      <4>3. Begin' = Begin
        BY <3>1, <4>1, <4>2 DEF Begin
      <4> QED BY <3>1, <4>1, <4>2, <4>3 DEF Void, Presses
    <3>3. \A k : Release(k)' = Release(k)
      BY <3>1 DEF Release
    <3>4. \A p : Taps(p)' = Taps(p)
      BY <3>2, <3>3 DEF Taps
    <3>5. \A p : Chain(p)' = Chain(p)
      BY <3>2, <3>3 DEF Chain, short, linked
    <3>6. \A p : (IsLast(p)' <=> IsLast(p)) /\ \A x : Since(x, p)' <=> Since(x, p)
      BY <3>1, <3>2 DEF IsLast, Since
    <3>7. \A p : Released(p, Release(p))' <=> Released(p, Release(p))
      BY <3>1, <3>3 DEF Released
    <3>8. \A p : (Since("up", Release(p))' <=> Since("up", Release(p))) /\ (Earlier(p)' <=> Earlier(p))
      BY <3>1, <3>2, <3>3, <3>7 DEF Earlier, Since
    <3>9. Since("up", Begin)' <=> Since("up", Begin)
      BY <3>1, <3>2 DEF Since
    <3>10. ScriptInv'
      BY <3>1, <3>2, <3>6, <3>7, <3>8, <3>9 DEF GestureInv, ScriptInv, BeginInv, PressInv
    <3>11. DetectorInv'
      BY <3>1, <3>2, <3>3, <3>4, <3>5, <3>6 DEF GestureInv, DetectorInv, WhileDown, WhileUp
    <3>12. EventsCountTaps'
      BY <3>1, <3>2, <3>3, <3>4 DEF GestureInv, EventsCountTaps
    <3> QED BY <3>10, <3>11, <3>12 DEF GestureInv
  <2> QED BY <2>1, <2>2
<1>3. GestureInv => EventsCountTaps
  BY DEF GestureInv
<1> QED BY <1>1, <1>2, <1>3, PTL DEF TapSpec

=============================================================================
