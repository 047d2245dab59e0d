----------------------------- MODULE TapDetector -----------------------------
(***************************************************************************)
(* The short-press detector of one face button (tap_detector.hpp): taps,   *)
(* doubles, triples, a dead band, and the void until every button is up.   *)
(* A detector is a record; one update is `after` and the event it reports. *)
(* Time is counted in ticks.  A counter the code would not read again      *)
(* before overwriting it is back at zero here.                             *)
(***************************************************************************)
EXTENDS Naturals

CONSTANTS
  TapMax,     \* a press this long is no tap (kTapMaxS)
  DoubleGap   \* a press after a longer pause starts a new gesture (kDoubleGapS)

ASSUME TapAssumption == TapMax \in Nat \ {0} /\ DoubleGap \in Nat

kMaxTaps == 3

Detector == [was_pressed : BOOLEAN, pending : BOOLEAN, void : BOOLEAN,
             count : 0..kMaxTaps - 1, press : 0..TapMax, since_release : 0..DoubleGap]

idle == [was_pressed |-> FALSE, pending |-> FALSE, void |-> FALSE,
         count |-> 0, press |-> 0, since_release |-> 0]

\* A release: a tap is counted and waits for the window; a long press cancels.
released_KeepsCount(d) ==  \* mutant: only the long press itself does not count
  CASE d.press >= TapMax -> [idle EXCEPT !.pending = d.count > 0, !.count = d.count]
    [] d.press < TapMax /\ d.count + 1 < kMaxTaps ->
         [idle EXCEPT !.pending = TRUE, !.count = d.count + 1]
    [] OTHER -> idle
released(d) ==
  IF d.press < TapMax /\ d.count + 1 < kMaxTaps
  THEN [idle EXCEPT !.pending = TRUE, !.count = d.count + 1]
  ELSE idle

\* A tick with no other button in play.
alone(d, pressed) ==
  CASE pressed /\ ~d.was_pressed -> [idle EXCEPT !.was_pressed = TRUE, !.count = d.count]
    [] pressed /\ d.was_pressed  -> [d EXCEPT !.press = IF @ < TapMax THEN @ + 1 ELSE @]
    [] ~pressed /\ d.was_pressed -> released(d)
    [] ~pressed /\ ~d.was_pressed /\ d.pending /\ d.since_release < DoubleGap ->
         [d EXCEPT !.since_release = @ + 1]
    [] OTHER -> idle

\* Any other button voids the gesture until every button is released.
after_VoidsBriefly(d, pressed, voided) ==  \* mutant: the void ends with the other button
  IF voided THEN [idle EXCEPT !.was_pressed = pressed] ELSE alone(d, pressed)
after(d, pressed, voided) ==
  IF voided \/ d.void
  THEN [idle EXCEPT !.was_pressed = pressed, !.void = voided \/ pressed]
  ELSE alone(d, pressed)

\* The taps that tick reports: none, one, two, or three at the third release.
event(d, pressed, voided) ==
  LET counts == ~pressed /\ ~voided /\ ~d.void
  IN  CASE counts /\ d.was_pressed /\ d.press < TapMax /\ d.count + 1 = kMaxTaps -> kMaxTaps
        [] counts /\ ~d.was_pressed /\ d.pending /\ d.since_release = DoubleGap -> d.count
        [] OTHER -> 0

=============================================================================
