-------------------------- MODULE HandControlProofs --------------------------
(***************************************************************************)
(* Theorems of HandControl, for all angles, limits and times: what a       *)
(* blocked finger is asked for is bounded, and a squeeze is always held.   *)
(***************************************************************************)
EXTENDS HandControl, TLAPS

(* A minimum of two integers.                                              *)
LEMMA MinOfTwo ==
  ASSUME NEW a \in Int, NEW b \in Int
  PROVE  Min({a, b}) = IF a <= b THEN a ELSE b
<1> DEFINE least == IF a <= b THEN a ELSE b
           P(x) == \A y \in {a, b} : x <= y
<1>1. least \in {a, b} /\ P(least)
  OBVIOUS
<1>2. \A x \in {a, b} : P(x) => x = least
  OBVIOUS
<1>3. (CHOOSE x \in {a, b} : P(x)) = least
  <2> HIDE DEF P, least
  <2> QED BY <1>1, <1>2
<1> QED BY <1>3 DEF Min

(* What a buffer of one value holds.                                       *)
LEMMA TheOne == ASSUME NEW x PROVE the({x}) = x
  BY DEF the

(* A clamp lies between its limits, and is the value itself inside them.   *)
LEMMA ClampBounds ==
  ASSUME NEW x \in Int, NEW lo \in Int, NEW hi \in Int, lo <= hi
  PROVE  /\ clamp(x, lo, hi) \in Int
         /\ lo <= clamp(x, lo, hi) /\ clamp(x, lo, hi) <= hi
         /\ lo <= x /\ x <= hi => clamp(x, lo, hi) = x
  BY DEF clamp

(* Clamping to limits a point respects never takes a value further away    *)
(* from that point.                                                        *)
LEMMA ClampNearer ==
  ASSUME NEW q \in Int, NEW d \in Int, NEW lo \in Int, NEW hi \in Int,
         lo <= q, q <= hi
  PROVE  magnitude(clamp(q + d, lo, hi) - q) <= magnitude(d)
  BY DEF clamp, magnitude

(* The guard's command stays within reach of the finger, and within the    *)
(* contact offset once latched.                                            *)
LEMMA WithinReach ==
  ASSUME NEW q \in Int, NEW e \in Int, NEW latched \in BOOLEAN,
         LimitLo <= q, q <= LimitHi
  PROVE  /\ magnitude(within_reach(q, e, latched) - q) <= Reach
         /\ latched => magnitude(within_reach(q, e, latched) - q) <= StallOffset
<1> USE HandAssumption, ReachAssumption
<1>1. LimitLo \in Int /\ LimitHi \in Int /\ Reach \in Nat \ {0} /\ StallOffset \in Nat \ {0}
  OBVIOUS
<1> HIDE HandAssumption
<1>2. CASE latched
  <2>1. sign(e) \in {-1, 0, 1}
    BY DEF sign, clamp
  <2>2. StallOffset * sign(e) \in {-StallOffset, 0, StallOffset}
    BY <2>1, <1>1
  <2>3. magnitude(StallOffset * sign(e)) <= StallOffset
    BY <2>2, <1>1 DEF magnitude
  <2>4. StallOffset * sign(e) \in Int
    BY <2>2, <1>1
  <2> DEFINE d == StallOffset * sign(e)
  <2>5. within_reach(q, e, latched) = clamp(q + d, LimitLo, LimitHi)
    BY <1>2 DEF within_reach
  <2>6. magnitude(clamp(q + d, LimitLo, LimitHi) - q) <= magnitude(d)
    <3> HIDE DEF d
    <3> QED BY <2>4, <1>1, ClampNearer DEF d
  <2>7. magnitude(d) \in Int /\ magnitude(clamp(q + d, LimitLo, LimitHi) - q) \in Int
    <3> HIDE DEF d
    <3> QED BY <2>4, <1>1 DEF d, magnitude, clamp
  <2> HIDE DEF d
  <2>8. magnitude(d) <= StallOffset
    BY <2>3 DEF d
  <2> QED BY <1>1, <2>5, <2>6, <2>7, <2>8
<1>3. CASE ~latched
  <2> DEFINE d == clamp(e, -Reach, Reach)
  <2>1. d \in Int /\ magnitude(d) <= Reach
    BY <1>1 DEF clamp, magnitude
  <2>2. within_reach(q, e, latched) = clamp(q + d, LimitLo, LimitHi)
    BY <1>3 DEF within_reach
  <2> HIDE DEF d
  <2>3. magnitude(clamp(q + d, LimitLo, LimitHi) - q) <= magnitude(d)
    BY <2>1, <1>1, ClampNearer
  <2>4. magnitude(d) \in Int /\ magnitude(clamp(q + d, LimitLo, LimitHi) - q) \in Int
    BY <2>1, <1>1 DEF magnitude, clamp
  <2> QED BY <1>1, <1>3, <2>1, <2>2, <2>3, <2>4
<1> QED BY <1>2, <1>3

-----------------------------------------------------------------------------
(* The inductive invariant: the code's timer and the operator's own, the   *)
(* detector's and the finger's own, run together.                          *)
HandInv ==
  /\ held \in 0..squeezed_longest /\ axis_run = held
  /\ guard \in [stall : 0..StallTicks, latched : BOOLEAN]
  /\ blocked_run \in 0..StallTicks /\ blocked_run <= guard.stall
  /\ vla_target = {} \/ \E q \in VlaTargets : vla_target = {q}
  /\ TorqueBounded /\ SqueezeIsHeld

(* Every target is an angle.                                               *)
LEMMA TargetType ==
  ASSUME NEW source, NEW axis, held \in 0..squeezed_longest,
         vla_target = {} \/ \E q \in VlaTargets : vla_target = {q},
         source = "vla" => vla_target # {},
         source = "axes" => \E a \in Axes : axis = {a}
  PROVE  target(source, axis) \in Int
<1>1. /\ LimitLo \in Int /\ LimitHi \in Int /\ Fist \in Int /\ Close \in Int
      /\ RampTicks \in Nat \ {0} /\ DwellTicks \in Nat \ {0}
      /\ Axes \subseteq Int /\ VlaTargets \subseteq Int
  BY HandAssumption
<1>2. CASE source = "vla"
  <2>1. the(vla_target) \in Int
    BY <1>1, <1>2, TheOne
  <2> QED BY <1>1, <1>2, <2>1 DEF target, clamp
<1>3. CASE source = "axes"
  <2>1. the(axis) \in Int
    BY <1>1, <1>3, TheOne
  <2>2. squeezed_longest \in Nat /\ held + 1 \in Int
    BY <1>1 DEF squeezed_longest
  <2>3. held_next(source, axis) \in Int
    BY <2>2, MinOfTwo DEF held_next
  <2>4. squeeze(held_next(source, axis)) \in Int
    BY <1>1, <2>3 DEF squeeze, clamp
  <2>5. squeeze(held_next(source, axis)) * (Fist - Close) \in Int
    BY <1>1, <2>4
  <2>6. (squeeze(held_next(source, axis)) * (Fist - Close)) \div RampTicks \in Int
    BY <1>1, <2>5
  <2> QED BY <1>3, <2>1, <2>6 DEF target
<1>4. CASE source \notin {"vla", "axes"}
  BY <1>1, <1>4 DEF target
<1> QED BY <1>2, <1>3, <1>4

(* The hand starts in the invariant.                                       *)
LEMMA HandInitInv == HandInit => HandInv
<1> SUFFICES ASSUME HandInit PROVE HandInv
  OBVIOUS
<1>1. DwellTicks + RampTicks \in Nat /\ StallTicks \in Nat
  BY HandAssumption
<1> QED BY <1>1 DEF HandInit, HandInv, no_guard, squeezed_longest, TorqueBounded, SqueezeIsHeld

(* A tick of the loop keeps it.                                            *)
LEMMA HandTickInv ==
  ASSUME HandInv, NEW mode, NEW calibrated \in BOOLEAN, NEW axis, NEW meas,
         axis = {} \/ \E a \in Axes : axis = {a},
         meas = {} \/ \E r \in Reading : meas = {r},
         HandTick(mode, calibrated, axis, meas)
  PROVE  HandInv'
<1> DEFINE source  == hand_source(mode, calibrated, axis)
           q_des   == target(source, axis)
           checked == source # "stop" /\ meas # {}
           m       == the(meas)
           g       == guarded_next(q_des - m.q, m.moving, m.hot)
           away    == stands_away(q_des - m.q, m.moving)
<1>1. /\ {Close, Fist, LimitLo, LimitHi, StallErr, Reach, StallOffset} \subseteq Int
      /\ {DwellTicks, RampTicks, StallTicks} \subseteq Nat \ {0}
      /\ Axes \subseteq Int /\ Measured \subseteq Int
  BY HandAssumption
<1>2. /\ held' = held_next(source, axis)
      /\ guard' = IF checked THEN g ELSE IF source = "stop" THEN guard ELSE no_guard
      /\ hand_cmd' = [q |-> IF checked THEN within_reach(m.q, q_des - m.q, g.latched) ELSE q_des,
                      enabled |-> source # "stop", source |-> source]
      /\ finger' = IF checked THEN {m.q} ELSE {}
      /\ axis_run' = IF source = "axes" /\ axis = {Close}
                     THEN Min({axis_run + 1, squeezed_longest}) ELSE 0
      /\ blocked_run' = IF checked /\ away THEN Min({blocked_run + 1, StallTicks}) ELSE 0
      /\ UNCHANGED vla_target
  BY DEF HandTick
<1>3. /\ held \in 0..squeezed_longest /\ axis_run = held
      /\ guard \in [stall : 0..StallTicks, latched : BOOLEAN]
      /\ blocked_run \in 0..StallTicks /\ blocked_run <= guard.stall
      /\ vla_target = {} \/ \E q \in VlaTargets : vla_target = {q}
  BY DEF HandInv
<1>4. /\ source = "vla" => vla_target # {}
      /\ source = "axes" => \E a \in Axes : axis = {a}
  BY DEF hand_source
<1>5. q_des \in Int
  <2> HIDE DEF source
  <2> QED BY <1>3, <1>4, TargetType
<1>6. checked => m \in Reading
  BY TheOne
<1> HIDE DEF source, q_des, m
<1>7. squeezed_longest \in Nat
  BY <1>1 DEF squeezed_longest
<1>8. held' \in 0..squeezed_longest /\ axis_run' = held'
  <2>1. held + 1 \in Int /\ axis_run = held
    BY <1>3, <1>7
  <2>2. Min({held + 1, squeezed_longest}) \in 0..squeezed_longest
    BY <1>3, <1>7, <2>1, MinOfTwo
  <2> QED BY <1>2, <1>7, <2>1, <2>2 DEF held_next
<1>9. ASSUME checked
      PROVE  /\ m.q \in Int /\ q_des - m.q \in Int /\ m.moving \in BOOLEAN /\ m.hot \in BOOLEAN
             /\ g.stall = IF away THEN Min({guard.stall + 1, StallTicks}) ELSE 0
             /\ g \in [stall : 0..StallTicks, latched : BOOLEAN]
             /\ away /\ g.stall >= StallTicks => g.latched
  <2>1. m.q \in Int /\ m.moving \in BOOLEAN /\ m.hot \in BOOLEAN
    BY <1>1, <1>6, <1>9 DEF Reading
  <2>2. q_des - m.q \in Int
    BY <1>5, <2>1
  <2> DEFINE stall == IF away THEN Min({guard.stall + 1, StallTicks}) ELSE 0
  <2>3. stall \in 0..StallTicks
    <3>1. guard.stall + 1 \in Nat /\ StallTicks \in Nat
      BY <1>1, <1>3
    <3> QED BY <3>1, MinOfTwo
  <2>4. g = [stall   |-> stall,
             latched |-> (guard.latched \/ m.hot \/ stall >= StallTicks)
                           /\ (m.hot \/ magnitude(q_des - m.q) > StallErr)]
    BY DEF guarded_next
  <2>5. away => magnitude(q_des - m.q) > StallErr
    BY DEF stands_away
  <2> HIDE DEF stall, away, g
  <2>6. g.stall = stall /\ g \in [stall : 0..StallTicks, latched : BOOLEAN]
    BY <2>3, <2>4
  <2>7. away /\ g.stall >= StallTicks => g.latched
    BY <2>4, <2>5
  <2> QED BY <2>1, <2>2, <2>6, <2>7 DEF stall
<1> HIDE DEF g, away
<1>10. guard' \in [stall : 0..StallTicks, latched : BOOLEAN]
  <2>1. 0 \in 0..StallTicks
    BY <1>1
  <2> QED BY <1>2, <1>3, <1>9, <2>1 DEF no_guard
<1>11. blocked_run' \in 0..StallTicks /\ blocked_run' <= guard'.stall
  <2>1. StallTicks \in Nat /\ guard.stall \in 0..StallTicks /\ blocked_run \in 0..StallTicks
    BY <1>1, <1>3
  <2>2. CASE checked /\ away
    <3>1. /\ blocked_run' = Min({blocked_run + 1, StallTicks})
          /\ guard'.stall = Min({guard.stall + 1, StallTicks})
      BY <1>2, <1>9, <2>2
    <3>2. blocked_run + 1 \in Int /\ guard.stall + 1 \in Int /\ StallTicks \in Int
      BY <2>1
    <3>3. /\ Min({blocked_run + 1, StallTicks})
               = IF blocked_run + 1 <= StallTicks THEN blocked_run + 1 ELSE StallTicks
          /\ Min({guard.stall + 1, StallTicks})
               = IF guard.stall + 1 <= StallTicks THEN guard.stall + 1 ELSE StallTicks
      BY <3>2, MinOfTwo
    <3> QED BY <1>3, <2>1, <3>1, <3>3
  <2>3. CASE ~(checked /\ away)
    <3>1. blocked_run' = 0
      BY <1>2, <2>3
    <3>2. guard'.stall \in 0..StallTicks
      BY <1>10
    <3> QED BY <2>1, <3>1, <3>2
  <2> QED BY <2>2, <2>3
<1>12. TorqueBounded'
  <2> SUFFICES ASSUME checked, LimitLo <= m.q, m.q <= LimitHi
               PROVE  /\ magnitude(hand_cmd'.q - m.q) <= Reach
                      /\ blocked_run' >= StallTicks => magnitude(hand_cmd'.q - m.q) <= StallOffset
    BY <1>2 DEF TorqueBounded
  <2>1. hand_cmd'.q = within_reach(m.q, q_des - m.q, g.latched)
    BY <1>2
  <2>2. g.latched \in BOOLEAN
    BY <1>9
  <2>3. /\ magnitude(hand_cmd'.q - m.q) <= Reach
        /\ g.latched => magnitude(hand_cmd'.q - m.q) <= StallOffset
    BY <1>9, <2>1, <2>2, WithinReach
  <2>4. blocked_run' >= StallTicks => g.latched
    <3>1. guard' = g
      BY <1>2
    <3>2. g.stall \in 0..StallTicks /\ StallTicks \in Nat \ {0}
      BY <1>1, <1>9
    <3>3. ~away => blocked_run' = 0
      BY <1>2
    <3>4. blocked_run' >= StallTicks => away /\ g.stall >= StallTicks
      BY <1>11, <3>1, <3>2, <3>3
    <3> QED BY <1>9, <3>4
  <2> QED BY <2>3, <2>4
<1>13. SqueezeIsHeld'
  <2> SUFFICES ASSUME source = "axes", ~checked, q_des > Close
               PROVE  held' > DwellTicks
    BY <1>2, <1>8 DEF SqueezeIsHeld
  <2>1. PICK a \in Axes : axis = {a}
    BY <1>4
  <2>2. a \in Int /\ a <= Close /\ Close \in Int
    BY <1>1, AxisAssumption
  <2>3. the(axis) = a
    BY <2>1, TheOne
  <2> DEFINE s == squeeze(held_next(source, axis))
  <2>4. q_des = a + (s * (Fist - Close)) \div RampTicks
    BY <2>3 DEF q_des, target
  <2>5. SUFFICES ASSUME ~(held' > DwellTicks) PROVE FALSE
    OBVIOUS
  <2>6. held' \in Nat /\ DwellTicks \in Nat /\ RampTicks \in Nat \ {0} /\ Fist - Close \in Int
    BY <1>1, <1>7, <1>8
  <2>7. s = 0
    <3>1. held' \in Int /\ DwellTicks \in Int /\ held' <= DwellTicks
      BY <2>5, <2>6
    <3> QED BY <1>2, <2>6, <3>1 DEF squeeze, clamp
  <2>8. (s * (Fist - Close)) \div RampTicks = 0
    <3>1. s * (Fist - Close) = 0
      BY <2>6, <2>7
    <3> HIDE DEF s
    <3> QED BY <2>6, <3>1
  <2> HIDE DEF s
  <2> QED BY <2>2, <2>4, <2>8
<1>14. vla_target' = {} \/ \E q \in VlaTargets : vla_target' = {q}
  BY <1>2, <1>3
<1> QED BY <1>8, <1>10, <1>11, <1>12, <1>13, <1>14 DEF HandInv, squeezed_longest

(* HandInv holds throughout.                                               *)
THEOREM HandInvariant == HandSpec => []HandInv
<1>1. HandInit => HandInv
  BY HandInitInv
<1>2. ASSUME HandInv, [HandNext]_hand_vars PROVE HandInv'
  <2>1. CASE HandTicks
    <3>1. PICK mode \in {"kPlanner", "kVla", "kRecovering"}, calibrated \in BOOLEAN,
               axis \in buffers_of(Axes), meas \in buffers_of(Reading) :
            HandTick(mode, calibrated, axis, meas)
      BY <2>1 DEF HandTicks
    <3>2. axis = {} \/ \E a \in Axes : axis = {a}
      BY <3>1 DEF buffers_of
    <3>3. meas = {} \/ \E r \in Reading : meas = {r}
      BY <3>1 DEF buffers_of
    <3> QED BY <1>2, <3>1, <3>2, <3>3, HandTickInv
  <2>2. CASE VlaHandTarget
    BY <1>2, <2>2 DEF VlaHandTarget, HandInv, TorqueBounded, SqueezeIsHeld, squeezed_longest
  <2>3. CASE HandEstop
    BY <1>2, <2>3 DEF HandEstop, HandInv, TorqueBounded, SqueezeIsHeld, squeezed_longest
  <2>4. CASE UNCHANGED hand_vars
    BY <1>2, <2>4 DEF hand_vars, HandInv, TorqueBounded, SqueezeIsHeld, squeezed_longest
  <2> QED BY <1>2, <2>1, <2>2, <2>3, <2>4 DEF HandNext
<1> QED BY <1>1, <1>2, PTL DEF HandSpec

(* A measured finger inside its limits is never asked for more than Reach  *)
(* away, one blocked for StallTicks for no more than the contact offset    *)
(* (HandGuard::apply).                                                     *)
THEOREM TorqueIsBounded == HandSpec => []TorqueBounded
<1>1. HandInv => TorqueBounded
  BY DEF HandInv
<1> QED BY <1>1, HandInvariant, PTL

(* A finger goes past the close pose only after the operator's own dwell   *)
(* (HoldSqueeze::update and the resets of the other branches).             *)
THEOREM SqueezesAreHeld == HandSpec => []SqueezeIsHeld
<1>1. HandInv => SqueezeIsHeld
  BY DEF HandInv
<1> QED BY <1>1, HandInvariant, PTL

=============================================================================
