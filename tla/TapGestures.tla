----------------------------- MODULE TapGestures -----------------------------
(***************************************************************************)
(* One tap detector fed a script of samples, as test_record_control_probe  *)
(* drives it, against a definition of what a gesture is.                   *)
(***************************************************************************)
EXTENDS TapDetector, Sequences, FiniteSets, FiniteSetsExt

CONSTANT MaxScript  \* bound: ticks in a script

VARIABLES
  script,    \* history: the samples fed so far
  detector,
  reported   \* what the last tick reported

tap_vars == <<script, detector, reported>>

\* The button is up or down with the others up, or another one is down too.
Sample == {"up", "down", "other"}

TapInit == script = <<>> /\ detector = idle /\ reported = 0

TapTick ==
  /\ Len(script) < MaxScript
  /\ \E s \in Sample :
       /\ script' = Append(script, s)
       /\ detector' = after(detector, s = "down", s = "other")
       /\ reported' = event(detector, s = "down", s = "other")

TapSpec == TapInit /\ [][TapTick]_tap_vars

-----------------------------------------------------------------------------
now == Len(script)

\* Everything before the last release of all buttons that ended a void is gone.
Voids  == {i \in 1..now : script[i] = "other"}
Clears == {i \in 1..now : script[i] = "up" /\ \A j \in Voids : j < i}
Begin  == IF Voids = {} THEN 1 ELSE IF Clears = {} THEN now + 1 ELSE Min(Clears)

Presses   == {i \in Begin..now : script[i] = "down" /\ (i = Begin \/ script[i - 1] # "down")}
Release(i) == Min({j \in i..now : script[j] = "up"})

\* The taps of the gesture the press at j ends: presses in a row, each of them
\* short, each pause between them short.
Taps(j) ==
  {i \in Presses : \A k \in {p \in Presses : i <= p /\ p <= j} :
                     /\ Release(k) - k <= TapMax
                     /\ k # i => \E l \in Presses : l < k /\ k - Release(l) <= DoubleGap + 1}

(* A tap is a press under 0.3 s, taps within 0.35 s of each other count    *)
(* together, a longer press cancels what was counted, three are reported   *)
(* at once, fewer when the window has passed, and another button voids     *)
(* everything until all are released (tap_detector.hpp:5-15).              *)
EventsCountTaps ==
  LET j == Max(Presses)  taps == Cardinality(Taps(j))
  IN  reported = IF script = <<>> \/ script[now] # "up" \/ Presses = {} THEN 0
                 ELSE CASE Release(j) = now /\ taps > 0 /\ taps % kMaxTaps = 0 -> kMaxTaps
                        [] now - Release(j) = DoubleGap + 1 -> taps % kMaxTaps
                        [] OTHER -> 0

=============================================================================
