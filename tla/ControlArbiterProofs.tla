------------------------ MODULE ControlArbiterProofs ------------------------
(***************************************************************************)
(* Theorems about the arbitration stage for every blend length and every   *)
(* set of tokens, and about a whole crossfade (HandoffWindow) for every    *)
(* window of 22 ticks or more.                                             *)
(***************************************************************************)
EXTENDS HandoffWindow, TLAPS

\* A blend of weight zero is its start, a blend of full weight its target.
LEMMA BlendEnds ==
  ASSUME NEW n \in Nat \ {0}, NEW from \in Int, NEW to \in Int
  PROVE  /\ blend(from, to, 0, n) = from
         /\ blend(from, to, n, n) = to
<1>1. \A x \in Int : (n * x) \div n = x
  BY SMT
<1>2. (n - 0) * from + 0 * to = n * from /\ (n - n) * from + n * to = n * to
  BY SMT
<1> QED BY <1>1, <1>2 DEF blend

\* A blend of any two integers is an integer.
LEMMA BlendType ==
  ASSUME NEW n \in Nat \ {0}, NEW k \in Int, NEW from \in Int, NEW to \in Int
  PROVE  blend(from, to, k, n) \in Int
<1>1. (n - k) * from + k * to \in Int
  BY SMT
<1> QED BY <1>1, SMT DEF blend

\* The standing blend moves by at most one part in n on its first tick.
LEMMA BlendFirstStep ==
  ASSUME NEW n \in Nat \ {0}, NEW from \in Int, NEW to \in Int
  PROVE  Distance(blend(from, to, 1, n), from) * n <= Distance(to, from) + n
<1> DEFINE d == to - from
           q == blend(from, to, 1, n) - from
<1>1. (n - 1) * from + 1 * to = n * from + d
  BY SMT
<1>2. blend(from, to, 1, n) \in Int /\ n * blend(from, to, 1, n) <= n * from + d
      /\ n * from + d < n * blend(from, to, 1, n) + n
  BY <1>1, SMT DEF blend
<1>3. q \in Int /\ n * q <= d /\ d < n * q + n
  BY <1>2, SMT
<1> QED BY <1>2, <1>3, SMT DEF Distance

-----------------------------------------------------------------------------
(* The strengthening: types, a standing token once a recovery's blend is   *)
(* done, and blends at their start while the next source has not spoken.   *)
IInv == TypeOK /\ BlendArmed /\ RecoveryLands

\* The stage starts in a state that satisfies the invariant.
LEMMA InitIInv == Init => IInv
  BY TokensAssumption, BlendAssumption
     DEF Init, IInv, TypeOK, BlendArmed, RecoveryLands, Mode, Source,
         kNormal, kTeleop, kVla, kRecovering

\* Every operation of the stage keeps the invariant.
LEMMA NextIInv == IInv /\ [Next]_vars => IInv'
<1> SUFFICES ASSUME IInv, [Next]_vars PROVE IInv'
  OBVIOUS
<1> USE TokensAssumption, BlendAssumption
    DEF TypeOK, Mode, StreamModes, Source, kNormal, kTeleop, kVla, kRecovering
<1>1. CASE StepMode
  <2>1. PICK f, a, c, d \in BOOLEAN :
             /\ f => a
             /\ d => recovery_blend_done
             /\ step_mode(f, a, c, d)
    BY <1>1 DEF StepMode
  <2>2. mode' = decide(mode, f, a, c, d) /\ mode' \in Mode
    BY <2>1 DEF step_mode, restarted_blend, decide, IInv
  <2>3. TypeOK'
    BY <1>1, <2>1, <2>2 DEF step_mode, restarted_blend, StepMode, IInv
  <2>4. BlendArmed'
    BY <1>1, <2>1, <2>2
       DEF step_mode, restarted_blend, StepMode, decide, arms_handoff, BlendArmed,
           source_of, IInv
  <2>5. RecoveryLands'
    BY <1>1, <2>1, <2>2
       DEF step_mode, restarted_blend, StepMode, decide, RecoveryLands,
           recovery_blend_done, IInv
  <2> QED BY <2>3, <2>4, <2>5 DEF IInv
<1>2. CASE arm_handoff
  BY <1>2 DEF arm_handoff, IInv, BlendArmed, RecoveryLands, recovery_blend_done
<1>3. ASSUME NEW token \in Tokens, select_token(token) PROVE IInv'
  <2>1. token \in Int /\ mode' = mode /\ source' = source_of(mode) /\ phase' = "decide"
    BY <1>3 DEF select_token
  <2>2. BlendArmed'
    BY <2>1 DEF BlendArmed, source_of
  <2>3. CASE mode = kRecovering
    <3>1. standing_blend
      BY <1>3, <2>3 DEF select_token
    <3>2. recovery_blend_tick' \in 0..RecoveryBlendTicks
      BY <3>1 DEF standing_blend, IInv
    <3>3. held_token' = blend(held_token, SafeStandingToken,
                              recovery_blend_tick', RecoveryBlendTicks)
      BY <3>1 DEF standing_blend
    <3>4. held_token' \in Int
      <4>1. /\ recovery_blend_tick' \in Int /\ held_token \in Int
            /\ SafeStandingToken \in Int /\ RecoveryBlendTicks \in Nat \ {0}
        BY <3>2 DEF IInv
      <4> QED BY <3>3, <4>1, BlendType
    <3>5. recovery_blend_tick' = RecoveryBlendTicks => held_token' = SafeStandingToken
      BY <3>3, BlendEnds DEF IInv
    <3>6. RecoveryLands'
      BY <3>2, <3>5 DEF RecoveryLands, recovery_blend_done
    <3> QED BY <2>1, <2>2, <3>1, <3>2, <3>4, <3>6 DEF IInv, source_of, standing_blend
  <2>4. CASE mode # kRecovering
    <3>1. crossfade(token)
      BY <1>3, <2>4 DEF select_token
    <3>2. held_token' \in Int
      BY <2>1, <3>1, BlendType DEF crossfade, slide, IInv
    <3>3. handoff_blend_ticks' \in 0..HandoffBlendTicks
      BY <3>1 DEF crossfade, slide, IInv
    <3> QED BY <2>1, <2>2, <2>4, <3>1, <3>2, <3>3
            DEF IInv, source_of, crossfade, slide, RecoveryLands
  <2> QED BY <2>3, <2>4
<1>4. CASE skip_select
  BY <1>4 DEF skip_select, IInv, BlendArmed, RecoveryLands, recovery_blend_done
<1>5. CASE UNCHANGED vars
  BY <1>5 DEF vars, IInv, BlendArmed, RecoveryLands, recovery_blend_done
<1> QED BY <1>1, <1>2, <1>3, <1>4, <1>5 DEF Next

(* The invariant holds in every reachable state of the stage.              *)
THEOREM StageInvariant == Spec => []IInv
  BY InitIInv, NextIInv, PTL DEF Spec

(* Every variable of the stage keeps its range.                            *)
THEOREM StageTypeOK == Spec => []TypeOK
<1>1. IInv => TypeOK
  BY DEF IInv
<1> QED BY <1>1, StageInvariant, PTL

(* A recovery that reports its blend done commands exactly the standing    *)
(* token, whatever the stream sent before it was lost and however many     *)
(* recoveries came before (control_arbiter.hpp:111-115, :143-154).         *)
THEOREM RecoveryAlwaysLands == Spec => []RecoveryLands
<1>1. IInv => RecoveryLands
  BY DEF IInv
<1> QED BY <1>1, StageInvariant, PTL

(* No change of source steps the commanded token, for every blend length   *)
(* and every token (control_arbiter.hpp:100-105, :129-153).                *)
THEOREM SourceChangesSlide == Spec => NoStepOnSourceChange
<1> DEFINE Slide == source # "none" /\ source' # source =>
       IF source' = "standing"
       THEN Distance(held_token', held_token) * RecoveryBlendTicks
              <= Distance(SafeStandingToken, held_token) + RecoveryBlendTicks
       ELSE held_token' = held_token
<1>1. IInv /\ [Next]_vars => [Slide]_vars
  <2> SUFFICES ASSUME IInv, Next, source # "none", source' # source
               PROVE  Slide
    BY DEF vars
  <2> USE TokensAssumption, BlendAssumption
  <2>1. PICK token \in Tokens : select_token(token)
    BY DEF Next, StepMode, arm_handoff, skip_select
  <2>2. /\ token \in Int /\ held_token \in Int /\ SafeStandingToken \in Int
        /\ recovery_blend_tick \in 0..RecoveryBlendTicks
        /\ RecoveryBlendTicks \in Nat \ {0} /\ HandoffBlendTicks \in Nat \ {0}
        /\ source' = source_of(mode)
    BY <2>1 DEF IInv, TypeOK, select_token
  <2>3. CASE mode = kRecovering
    <3>1. /\ source' = "standing"
          /\ standing_blend
      BY <2>1, <2>2, <2>3 DEF select_token, source_of, kVla, kRecovering
    <3>2. recovery_blend_tick = 0
      BY <2>2, <2>3 DEF IInv, BlendArmed
    <3> QED BY <2>2, <3>1, <3>2, BlendFirstStep DEF standing_blend
  <2>4. CASE mode # kRecovering
    <3>1. /\ source' # "standing"
          /\ crossfade(token)
      BY <2>1, <2>2, <2>4 DEF select_token, source_of, kVla, kRecovering
    <3>2. handoff_blend_ticks = HandoffBlendTicks
      BY <2>2, <2>4 DEF IInv, BlendArmed
    <3>3. held_token' = blend(held_token, token, 0, HandoffBlendTicks)
      BY <2>2, <3>1, <3>2 DEF crossfade, slide
    <3> QED BY <2>2, <3>1, <3>3, BlendEnds
  <2> QED BY <2>3, <2>4
<1> QED BY <1>1, StageInvariant, PTL DEF Spec, NoStepOnSourceChange

-----------------------------------------------------------------------------
(* A crossfade over its window                                             *)

(* The part of the gap that is left after k ticks is the product of the    *)
(* (n - j) / n for j below k.  The proofs use a bound of it that needs no  *)
(* product: 2 * n / reach(k, n), because (1 + x) * (1 - y) <= 1 + x - y.   *)
reach(k, n) == 2 * n + k * (k - 1)

(* A multiple of the divisor leaves the quotient.                          *)
LEMMA DivShift ==
  ASSUME NEW n \in Nat \ {0}, NEW a \in Int, NEW x \in Int
  PROVE  (n * a + x) \div n = a + (x \div n)
<1> DEFINE q == x \div n
           p == (n * a + x) \div n
<1>1. q \in Int /\ n * q <= x /\ x < n * q + n
  OBVIOUS
<1>2. n * a + x \in Int /\ n * a \in Int
  OBVIOUS
<1>3. p \in Int /\ n * p <= n * a + x /\ n * a + x < n * p + n
  BY <1>2
<1> HIDE DEF q, p
<1> DEFINE d == p - (a + q)
<1>4. d \in Int /\ n * d = n * p - n * a - n * q
  BY <1>1, <1>3
<1>5. n * d < n /\ -n < n * d
  BY <1>1, <1>2, <1>3, <1>4
<1>6. d = 0
  <2>1. d >= 1 => n * d >= n
    BY <1>4
  <2>2. d <= -1 => n * d <= -n
    BY <1>4
  <2> QED BY <1>4, <1>5, <2>1, <2>2
<1> QED BY <1>1, <1>3, <1>6 DEF p, q

(* What one tick of a slide moves.                                         *)
LEMMA BlendMoves ==
  ASSUME NEW n \in Nat \ {0}, NEW k \in Int, NEW from \in Int, NEW to \in Int
  PROVE  blend(from, to, k, n) = from + ((k * (to - from)) \div n)
<1>1. (n - k) * from + k * to = n * from + k * (to - from)
  OBVIOUS
<1>2. k * (to - from) \in Int
  OBVIOUS
<1> QED BY <1>1, <1>2, DivShift DEF blend

(* The factor of one tick.                                                 *)
LEMMA ReachGrows ==
  ASSUME NEW n \in Nat \ {0}, NEW k \in 1..(n - 1)
  PROVE  /\ reach(k, n) \in Nat \ {0} /\ reach(k + 1, n) \in Nat \ {0}
         /\ reach(k + 1, n) = reach(k, n) + 2 * k
         /\ reach(k + 1, n) = 2 * n + k * (k + 1)
         /\ (n - k) * reach(k + 1, n) = n * reach(k, n) - k * (k * (k + 1))
<1> DEFINE z == k * (k - 1)
<1>1. z \in Nat /\ k * (k + 1) = z + 2 * k /\ (k + 1) * ((k + 1) - 1) = k * (k + 1)
  OBVIOUS
<1>2. /\ reach(k, n) = 2 * n + z /\ reach(k + 1, n) = 2 * n + z + 2 * k
  BY <1>1 DEF reach
<1>3. (n - k) * (2 * n + k * (k + 1)) = n * (2 * n + k * (k - 1)) - k * (k * (k + 1))
  OBVIOUS
<1> QED BY <1>1, <1>2, <1>3 DEF reach

(* A slide upwards rounds its move down, so it falls behind by less than a *)
(* unit a tick: after k ticks the gap is what it would be had it been k    *)
(* units wider.                                                            *)
LEMMA SlideUp ==
  ASSUME NEW n \in Nat \ {0}, NEW k \in 1..(n - 1), NEW gap \in Nat, NEW e \in Nat,
         e * reach(k, n) <= 2 * n * (gap + k)
  PROVE  LET s == (k * e) \div n
         IN  s \in Nat /\ s <= e /\ (e - s) * reach(k + 1, n) <= 2 * n * (gap + k + 1)
<1> DEFINE s == (k * e) \div n
           w == reach(k, n)
           v == reach(k + 1, n)
           r == e - s
           b == 2 * n * (gap + k)
<1>1. k * e \in Nat /\ s \in Int /\ n * s <= k * e /\ k * e < n * s + n
  OBVIOUS
<1>2. /\ w \in Nat \ {0} /\ v \in Nat \ {0} /\ v = w + 2 * k
      /\ v = 2 * n + k * (k + 1) /\ (n - k) * v = n * w - k * (k * (k + 1))
  BY ReachGrows
<1>3. b \in Nat /\ 2 * n * (gap + k + 1) = b + 2 * n /\ e * w <= b
  OBVIOUS
<1> HIDE DEF s, w, v, b
<1>4. s \in Nat
  <2>1. s <= -1 => n * s <= -n
    BY <1>1
  <2> QED BY <1>1, <2>1
<1>5. s <= e
  <2>1. k * e <= n * e
    OBVIOUS
  <2>2. s >= e + 1 => n * s >= n * (e + 1)
    BY <1>4
  <2>3. n * (e + 1) = n * e + n
    OBVIOUS
  <2> QED BY <1>1, <1>4, <2>1, <2>2, <2>3
<1>6. CASE k * e < n
  <2>1. s = 0
    <3>1. s >= 1 => n * s >= n
      BY <1>4
    <3> QED BY <1>1, <1>4, <1>6, <3>1
  <2>2. e * v = e * w + 2 * (k * e)
    BY <1>2
  <2>3. e * v <= b + 2 * n
    BY <1>1, <1>2, <1>3, <1>6, <2>2
  <2> QED BY <1>3, <1>4, <1>5, <2>1, <2>3 DEF s, v
<1>7. CASE k * e >= n
  <2> DEFINE c == k * (k + 1)
  <2>1. c \in Nat /\ n * c <= (k * e) * c
    BY <1>1, <1>7
  <2>2. r \in Nat /\ n * r <= (n - k) * e + (n - 1)
    <3>1. n * r = n * e - n * s /\ (n - k) * e = n * e - k * e
      BY <1>4
    <3> QED BY <1>1, <1>4, <1>5, <3>1
  <2>3. (n * r) * v <= ((n - k) * e + (n - 1)) * v
    <3>1. n * r \in Nat /\ (n - k) * e + (n - 1) \in Nat
      BY <2>2
    <3> QED BY <1>2, <2>2, <3>1
  <2>4. ((n - k) * e + (n - 1)) * v = e * ((n - k) * v) + (n - 1) * v
    BY <1>2
  <2>5. e * ((n - k) * v) = n * (e * w) - (k * e) * c
    <3>1. e * ((n - k) * v) = e * (n * w - k * c)
      BY <1>2
    <3>2. e * (n * w - k * c) = n * (e * w) - (k * e) * c
      BY <1>2, <2>1
    <3> QED BY <3>1, <3>2
  <2>6. (n - 1) * v = n * (2 * n) - 2 * n + n * c - c
    <3>1. (n - 1) * (2 * n + c) = n * (2 * n) - 2 * n + n * c - c
      BY <2>1
    <3> QED BY <1>2, <3>1
  <2>7. n * (e * w) <= n * b
    BY <1>2, <1>3
  <2>8. n * (r * v) <= n * (b + 2 * n)
    <3>1. n * (r * v) = (n * r) * v
      BY <1>2, <2>2
    <3>2. n * (b + 2 * n) = n * b + n * (2 * n)
      BY <1>3
    <3>3. /\ n * (r * v) \in Int /\ n * b \in Int /\ n * (2 * n) \in Int
          /\ n * (e * w) \in Int /\ (k * e) * c \in Int /\ n * c \in Int
      BY <1>1, <1>2, <1>3, <2>1, <2>2
    <3> QED BY <2>1, <2>3, <2>4, <2>5, <2>6, <2>7, <3>1, <3>2, <3>3
  <2>9. r * v <= b + 2 * n
    <3>1. r * v \in Int /\ b + 2 * n \in Int
      BY <1>2, <1>3, <2>2
    <3> DEFINE x == r * v
               y == b + 2 * n
    <3> HIDE DEF x, y
    <3>2. x > y => n * x > n * y
      BY <3>1 DEF x, y
    <3> QED BY <2>8, <3>1, <3>2 DEF x, y
  <2> QED BY <1>3, <1>4, <1>5, <2>9 DEF s, v
<1> QED BY <1>1, <1>6, <1>7

(* A slide downwards rounds its move up, and falls behind by nothing.      *)
LEMMA SlideDown ==
  ASSUME NEW n \in Nat \ {0}, NEW k \in 1..(n - 1), NEW gap \in Nat, NEW e \in Nat,
         e * reach(k, n) <= 2 * n * gap
  PROVE  LET s == -((k * (-e)) \div n)
         IN  s \in Nat /\ s <= e /\ (e - s) * reach(k + 1, n) <= 2 * n * gap
<1> DEFINE q == (k * (-e)) \div n
           s == -q
           w == reach(k, n)
           v == reach(k + 1, n)
           r == e - s
           b == 2 * n * gap
<1>1. k * e \in Nat /\ k * (-e) = -(k * e)
  OBVIOUS
<1>2. q \in Int /\ n * q <= k * (-e) /\ k * (-e) < n * q + n
  OBVIOUS
<1>3. /\ w \in Nat \ {0} /\ v \in Nat \ {0}
      /\ (n - k) * v = n * w - k * (k * (k + 1))
  BY ReachGrows
<1>4. b \in Nat /\ e * w <= b
  OBVIOUS
<1> HIDE DEF q, w, v, b
<1>5. s \in Int /\ k * e <= n * s /\ n * s < k * e + n
  <2>1. n * s = -(n * q)
    BY <1>2
  <2> QED BY <1>1, <1>2, <2>1
<1> HIDE DEF s
<1>6. s \in Nat
  <2>1. s <= -1 => n * s <= -n
    BY <1>5
  <2> QED BY <1>1, <1>5, <2>1
<1>7. s <= e
  <2>1. (k + 1) * e <= n * e \/ e = 0
    OBVIOUS
  <2>2. k * e <= n * e
    OBVIOUS
  <2>3. s >= e + 1 => n * s >= n * (e + 1)
    BY <1>6
  <2>4. n * (e + 1) = n * e + n
    OBVIOUS
  <2> QED BY <1>1, <1>5, <1>6, <2>2, <2>3, <2>4
<1>8. r \in Nat /\ n * r <= (n - k) * e
  <2>1. n * r = n * e - n * s /\ (n - k) * e = n * e - k * e
    BY <1>6
  <2> QED BY <1>5, <1>6, <1>7, <2>1
<1>9. n * (r * v) <= n * (e * w)
  <2>1. n * r \in Nat /\ (n - k) * e \in Nat
    BY <1>8
  <2>2. (n * r) * v <= ((n - k) * e) * v
    BY <1>3, <1>8, <2>1
  <2>3. ((n - k) * e) * v = e * ((n - k) * v) /\ n * (r * v) = (n * r) * v
    BY <1>3, <1>8
  <2>4. e * ((n - k) * v) = n * (e * w) - e * (k * (k * (k + 1)))
    <3>1. e * ((n - k) * v) = e * (n * w - k * (k * (k + 1)))
      BY <1>3
    <3>2. e * (n * w - k * (k * (k + 1))) = n * (e * w) - e * (k * (k * (k + 1)))
      BY <1>3
    <3> QED BY <3>1, <3>2
  <2>5. e * (k * (k * (k + 1))) \in Nat
    <3>1. k * (k + 1) \in Nat
      OBVIOUS
    <3>2. k * (k * (k + 1)) \in Nat
      BY <3>1
    <3> QED BY <3>2
  <2> QED BY <1>3, <1>8, <2>2, <2>3, <2>4, <2>5
<1>10. r * v <= e * w
  <2>1. r * v \in Int /\ e * w \in Int
    BY <1>3, <1>8
  <2> DEFINE x == r * v
             y == e * w
  <2> HIDE DEF x, y
  <2>2. x > y => n * x > n * y
    BY <2>1 DEF x, y
  <2> QED BY <1>9, <2>1, <2>2 DEF x, y
<1> QED BY <1>3, <1>4, <1>6, <1>7, <1>8, <1>10 DEF s, v, b, q

-----------------------------------------------------------------------------
(* What is left of a gap after k ticks, by the direction of the slide.  A  *)
(* gap of a few units is crossed one unit at a time.                       *)
upward(k, left, gap) ==
  /\ gap \in Nat /\ left \in 0..gap
  /\ left * reach(k, HandoffBlendTicks) <= 2 * HandoffBlendTicks * (gap + k)
  /\ gap <= 5 => (k - 1) * left < HandoffBlendTicks

downward(k, left, gap) ==
  /\ gap \in Nat /\ left \in 0..gap
  /\ left * reach(k, HandoffBlendTicks) <= 2 * HandoffBlendTicks * gap

(* The gaps for which the bound lands within a unit.                       *)
narrow(gap) ==
  2 * gap <= HandoffBlendTicks * HandoffBlendTicks - 3 * HandoffBlendTicks + 4

(* A quarter of the gap is more than any tick of a long window moves.      *)
LEMMA Quarter ==
  ASSUME NEW n \in Nat, n >= 22, NEW k \in 1..(n - 1), NEW gap \in Nat
  PROVE  /\ gap >= 6 => 8 * (k * (gap + k)) <= (gap + 4) * reach(k, n)
         /\ 8 * (k * gap) <= gap * reach(k, n)
<1> DEFINE w == reach(k, n)
<1>1. w = 2 * n + k * k - k /\ k * k \in Nat
  BY DEF reach
<1>2. k * k - 9 * k + 20 >= 0
  <2>1. (k - 4) * (k - 5) >= 0
    <3>1. CASE k <= 4
      BY <3>1
    <3>2. CASE k >= 5
      BY <3>2
    <3> QED BY <3>1, <3>2
  <2> QED BY <2>1
<1>3. k * k - 29 * k + 210 >= 0
  <2>1. (k - 14) * (k - 15) >= 0
    <3>1. CASE k <= 14
      BY <3>1
    <3>2. CASE k >= 15
      BY <3>2
    <3> QED BY <3>1, <3>2
  <2> QED BY <2>1
<1> HIDE DEF w
<1>4. w - 8 * k \in Nat /\ 10 * w - 48 * k - 8 * (k * k) \in Nat
  BY <1>1, <1>2, <1>3
<1>5. ASSUME gap >= 6 PROVE 8 * (k * (gap + k)) <= (gap + 4) * w
  <2>1. (gap - 6) * (w - 8 * k) >= 0
    BY <1>4, <1>5
  <2>2. (gap + 4) * w - 8 * (k * (gap + k))
          = (gap - 6) * (w - 8 * k) + (10 * w - 48 * k - 8 * (k * k))
    BY <1>1
  <2>3. (gap + 4) * w \in Int /\ 8 * (k * (gap + k)) \in Int
    BY <1>1
  <2> QED BY <1>4, <2>1, <2>2, <2>3
<1>6. 8 * (k * gap) <= gap * w
  <2>1. gap * (w - 8 * k) >= 0 /\ gap * (w - 8 * k) = gap * w - 8 * (k * gap)
    BY <1>1, <1>4
  <2> QED BY <1>1, <2>1
<1> QED BY <1>5, <1>6 DEF w

(* The bound at the last tick of a window.                                 *)
LEMMA LastTick ==
  ASSUME NEW n \in Nat \ {0}, NEW left \in Nat, NEW gap \in Nat,
         2 * gap <= n * n - 3 * n + 4,
         left * reach(n - 1, n) <= 2 * n * (gap + (n - 1))
  PROVE  left <= n
<1> DEFINE w == reach(n - 1, n)
<1>1. w = n * n - n + 2 /\ n * n \in Nat /\ n * n >= n
  BY DEF reach
<1>2. 2 * n * (gap + (n - 1)) = n * (2 * gap + 2 * n - 2)
  OBVIOUS
<1>3. 2 * gap + 2 * n - 2 <= w
  BY <1>1
<1>4. w \in Nat \ {0}
  BY <1>1
<1> HIDE DEF w
<1>5. n * (2 * gap + 2 * n - 2) <= n * w
  BY <1>3, <1>4
<1>6. left >= n + 1 => left * w >= (n + 1) * w
  BY <1>4
<1>7. (n + 1) * w = n * w + w
  BY <1>4
<1>8. left * w <= n * (2 * gap + 2 * n - 2)
  BY <1>2 DEF w
<1> QED BY <1>4, <1>5, <1>6, <1>7, <1>8

LEMMA UpwardTick ==
  ASSUME HandoffBlendTicks >= 22, NEW k \in 1..(HandoffBlendTicks - 1),
         NEW left \in Nat, NEW gap \in Nat, upward(k, left, gap)
  PROVE  LET s == (k * left) \div HandoffBlendTicks
         IN  /\ s \in Nat /\ upward(k + 1, left - s, gap)
             /\ 4 * s <= gap + 4
             /\ k = HandoffBlendTicks - 1 /\ narrow(gap) => left - s <= 1
<1> DEFINE n == HandoffBlendTicks
           s == (k * left) \div n
           w == reach(k, n)
<1>1. n \in Nat \ {0} /\ n >= 22
  BY BlendAssumption
<1>2. /\ left <= gap /\ left * w <= 2 * n * (gap + k)
      /\ gap <= 5 => (k - 1) * left < n
  BY DEF upward
<1>3. s \in Nat /\ s <= left /\ (left - s) * reach(k + 1, n) <= 2 * n * (gap + k + 1)
  BY <1>1, <1>2, SlideUp
<1>4. k * left \in Nat /\ n * s <= k * left /\ k * left < n * s + n
  BY <1>1
<1>5. w \in Nat \ {0}
  BY <1>1, ReachGrows
<1>6. /\ gap >= 6 => 8 * (k * (gap + k)) <= (gap + 4) * w
      /\ k = n - 1 /\ narrow(gap) => left <= n
  BY <1>1, <1>2, Quarter, LastTick DEF narrow
<1>7. k \in 1..(n - 1)
  OBVIOUS
<1> HIDE DEF n, s, w
<1>8. (k - 1) * left = k * left - left
  BY <1>7
<1>9. ASSUME gap <= 5 PROVE k * (left - s) < n /\ s <= 1
  <2>1. CASE k * left < n
    <3>1. s = 0
      <4>1. s >= 1 => n * s >= n
        BY <1>1, <1>3
      <4> QED BY <1>1, <1>3, <1>4, <2>1, <4>1
    <3> QED BY <2>1, <3>1
  <2>2. CASE k * left >= n
    <3>1. s >= 1
      <4>1. s = 0 => n * s = 0
        BY <1>1
      <4> QED BY <1>1, <1>3, <1>4, <2>2, <4>1
    <3>2. left <= k
      <4>1. k <= 4 => k * left <= 4 * left
        BY <1>7
      <4> QED BY <1>1, <1>2, <1>7, <1>9, <2>2, <4>1
    <3>3. k * (left - s) <= k * left - k
      <4>1. k * (left - s) = k * left - k * s /\ k * s >= k
        BY <1>3, <1>7, <3>1
      <4> QED BY <1>3, <1>4, <1>7, <4>1
    <3>4. k * left < n + left
      BY <1>1, <1>2, <1>4, <1>8, <1>9
    <3>5. s <= 1
      <4>1. s >= 2 => n * s >= n * 2
        BY <1>1, <1>3
      <4> QED BY <1>1, <1>2, <1>3, <1>4, <1>9, <3>4, <4>1
    <3>6. k * (left - s) \in Int
      BY <1>3, <1>7
    <3> QED BY <1>1, <1>4, <1>7, <3>2, <3>3, <3>4, <3>5, <3>6
  <2> QED BY <1>1, <1>4, <2>1, <2>2
<1>10. ASSUME gap >= 6 PROVE 4 * s <= gap + 4
  <2> DEFINE x == s * w
             y == k * (gap + k)
  <2>1. n * x <= n * (2 * y)
    <3>1. (n * s) * w <= (k * left) * w
      <4>1. n * s \in Nat
        BY <1>1, <1>3
      <4> QED BY <1>4, <1>5, <4>1
    <3>2. (k * left) * w = k * (left * w) /\ n * x = (n * s) * w
      BY <1>1, <1>3, <1>5, <1>7
    <3>3. k * (left * w) <= k * (2 * n * (gap + k))
      <4>1. left * w \in Int /\ 2 * n * (gap + k) \in Int
        BY <1>1, <1>5, <1>7
      <4> QED BY <1>2, <1>7, <4>1
    <3>4. k * (2 * n * (gap + k)) = n * (2 * y)
      BY <1>1, <1>7
    <3>5. /\ n * x \in Int /\ k * (left * w) \in Int
          /\ n * (2 * y) \in Int
      BY <1>1, <1>3, <1>5, <1>7
    <3> QED BY <3>1, <3>2, <3>3, <3>4, <3>5
  <2>2. x \in Int /\ y \in Int
    BY <1>3, <1>5, <1>7
  <2> HIDE DEF x, y
  <2>3. x <= 2 * y
    <3>1. x > 2 * y => n * x > n * (2 * y)
      BY <1>1, <2>2
    <3>2. n * x \in Int /\ n * (2 * y) \in Int
      BY <1>1, <2>2
    <3> QED BY <2>1, <2>2, <3>1, <3>2
  <2>4. 4 * x <= (gap + 4) * w
    <3>1. (gap + 4) * w \in Int
      BY <1>5
    <3> QED BY <1>6, <1>10, <2>2, <2>3, <3>1 DEF y
  <2>5. 4 * s >= gap + 5 => (4 * s) * w >= (gap + 5) * w
    BY <1>3, <1>5
  <2>6. (4 * s) * w = 4 * x /\ (gap + 5) * w = (gap + 4) * w + w
    BY <1>3, <1>5 DEF x
  <2>7. (gap + 4) * w \in Int
    BY <1>5
  <2> QED BY <1>3, <1>5, <2>2, <2>4, <2>5, <2>6, <2>7
<1>11. ASSUME k = n - 1, narrow(gap) PROVE left - s <= 1
  <2>1. k * left = n * left - left
    BY <1>1, <1>11
  <2>2. left - s >= 2 => n * (left - s) >= n * 2
    BY <1>1, <1>3
  <2>3. n * (left - s) = n * left - n * s
    BY <1>1, <1>3
  <2>4. n * left \in Int /\ n * s \in Int
    BY <1>1, <1>3
  <2> QED BY <1>1, <1>3, <1>4, <1>6, <1>11, <2>1, <2>2, <2>3, <2>4
<1>12. upward(k + 1, left - s, gap)
  <2>1. (k + 1) - 1 = k /\ gap + (k + 1) = gap + k + 1 /\ left - s \in 0..gap
    BY <1>2, <1>3, <1>7
  <2> QED BY <1>3, <1>9, <2>1 DEF upward, n
<1>13. 4 * s <= gap + 4
  BY <1>3, <1>9, <1>10
<1> QED BY <1>3, <1>11, <1>12, <1>13 DEF s, n

LEMMA DownwardTick ==
  ASSUME HandoffBlendTicks >= 22, NEW k \in 1..(HandoffBlendTicks - 1),
         NEW left \in Nat, NEW gap \in Nat, downward(k, left, gap)
  PROVE  LET s == -((k * (-left)) \div HandoffBlendTicks)
         IN  /\ s \in Nat /\ downward(k + 1, left - s, gap)
             /\ 4 * s <= gap + 4
             /\ k = HandoffBlendTicks - 1 /\ narrow(gap) => left - s <= 1
<1> DEFINE n == HandoffBlendTicks
           q == (k * (-left)) \div n
           s == -q
           w == reach(k, n)
<1>1. n \in Nat \ {0} /\ n >= 22 /\ k \in 1..(n - 1)
  BY BlendAssumption
<1>2. left <= gap /\ left * w <= 2 * n * gap
  BY DEF downward
<1>3. s \in Nat /\ s <= left /\ (left - s) * reach(k + 1, n) <= 2 * n * gap
  BY <1>1, <1>2, SlideDown
<1>4. k * left \in Nat /\ k * (-left) = -(k * left)
      /\ q \in Int /\ n * q <= k * (-left) /\ k * (-left) < n * q + n
  BY <1>1
<1>5. w \in Nat \ {0}
  BY <1>1, ReachGrows
<1>6. 8 * (k * gap) <= gap * w
  BY <1>1, Quarter
<1>7. ASSUME k = n - 1, narrow(gap) PROVE left <= n
  <2>1. 2 * n * gap <= 2 * n * (gap + (n - 1))
    <3>1. 2 * n * (gap + (n - 1)) = 2 * n * gap + 2 * n * (n - 1) /\ 2 * n * (n - 1) \in Nat
      BY <1>1
    <3>2. 2 * n * gap \in Int
      BY <1>1
    <3> QED BY <3>1, <3>2
  <2>2. left * reach(n - 1, n) <= 2 * n * (gap + (n - 1))
    <3>1. /\ left * w \in Int /\ 2 * n * gap \in Int /\ 2 * n * (gap + (n - 1)) \in Int
          /\ left * reach(n - 1, n) = left * w
      BY <1>1, <1>5, <1>7
    <3> QED BY <1>2, <2>1, <3>1
  <2> QED BY <1>1, <1>7, <2>2, LastTick DEF narrow
<1> HIDE DEF n, q, w
<1>8. n * s = -(n * q) /\ n * s < k * left + n /\ k * left <= n * s
  BY <1>1, <1>4
<1> HIDE DEF s
<1>9. 4 * s <= gap + 4
  <2>2. 4 * (k * left) <= n * gap
    <3>1. (k * left) * w <= 2 * n * (k * gap)
      <4>1. k * (left * w) <= k * (2 * n * gap)
        <5>1. left * w \in Int /\ 2 * n * gap \in Int
          BY <1>1, <1>5
        <5> QED BY <1>1, <1>2, <5>1
      <4>2. (k * left) * w = k * (left * w) /\ k * (2 * n * gap) = 2 * n * (k * gap)
        BY <1>1, <1>5
      <4> QED BY <4>1, <4>2
    <3>2. n * (8 * (k * gap)) <= n * (gap * w)
      <4>1. 8 * (k * gap) \in Int /\ gap * w \in Int
        BY <1>1, <1>5
      <4> QED BY <1>1, <1>6, <4>1
    <3>3. n * (8 * (k * gap)) = 4 * (2 * n * (k * gap)) /\ n * (gap * w) = (n * gap) * w
      BY <1>1, <1>5
    <3>4. (4 * (k * left)) * w <= (n * gap) * w
      <4>1. /\ (k * left) * w \in Int /\ 2 * n * (k * gap) \in Int
            /\ (4 * (k * left)) * w = 4 * ((k * left) * w)
        BY <1>1, <1>5
      <4>2. (n * gap) * w \in Int
        BY <1>1, <1>5
      <4> QED BY <3>1, <3>2, <3>3, <4>1, <4>2
    <3> DEFINE x == 4 * (k * left)
               y == n * gap
    <3>5. x \in Int /\ y \in Int
      BY <1>1
    <3>6. x * w <= y * w
      BY <3>4
    <3> HIDE DEF x, y
    <3>7. x >= y + 1 => x * w >= (y + 1) * w
      BY <1>5, <3>5
    <3>8. (y + 1) * w = y * w + w /\ y * w \in Int /\ x * w \in Int
      BY <1>5, <3>5
    <3> QED BY <1>5, <3>5, <3>6, <3>7, <3>8 DEF x, y
  <2>3. n * (4 * s) < n * (gap + 4)
    <3>1. n * (4 * s) = 4 * (n * s) /\ n * (gap + 4) = n * gap + 4 * n
      BY <1>1, <1>3
    <3>2. n * s \in Int /\ n * gap \in Int
      BY <1>1, <1>3
    <3> QED BY <1>1, <1>4, <1>8, <2>2, <3>1, <3>2
  <2>4. 4 * s > gap + 4 => n * (4 * s) > n * (gap + 4)
    BY <1>1, <1>3
  <2>5. n * (4 * s) \in Int /\ n * (gap + 4) \in Int
    BY <1>1, <1>3
  <2> QED BY <1>3, <2>3, <2>4, <2>5
<1>10. ASSUME k = n - 1, narrow(gap) PROVE left - s <= 1
  <2>1. k * left = n * left - left
    BY <1>1, <1>10
  <2>2. left - s >= 2 => n * (left - s) >= n * 2
    BY <1>1, <1>3
  <2>3. n * (left - s) = n * left - n * s
    BY <1>1, <1>3
  <2>4. n * left \in Int /\ n * s \in Int
    BY <1>1, <1>3
  <2> QED BY <1>1, <1>3, <1>7, <1>8, <1>10, <2>1, <2>2, <2>3, <2>4
<1>11. downward(k + 1, left - s, gap)
  BY <1>2, <1>3 DEF downward, n
<1> QED BY <1>3, <1>9, <1>10, <1>11 DEF s, q, n

-----------------------------------------------------------------------------
(* The strengthening of the two window properties: while a window runs     *)
(* undisturbed, the last token lies between the window's ends and no       *)
(* further from its target than the closed form allows after the ticks     *)
(* that were taken.                                                        *)
taken == HandoffBlendTicks - handoff_blend_ticks

SlideInv ==
  steady /\ mode # kRecovering /\ in_window =>
    \/ upward(taken, window.to - held_token, window.to - window.from)
    \/ downward(taken, held_token - window.to, window.from - window.to)

WindowInv ==
  /\ IInv /\ steady \in BOOLEAN /\ window \in [from : Int, to : Int] /\ SlideInv

\* A token, a held one included, of the values between lo and hi.
Spans(lo, hi) == {held_token, window.from, window.to} \subseteq lo..hi

LEMMA WindowAtStart == WindowInit => WindowInv
<1> SUFFICES ASSUME WindowInit PROVE WindowInv
  OBVIOUS
<1>1. IInv /\ window \in [from : Int, to : Int] /\ steady \in BOOLEAN
  BY InitIInv, TokensAssumption DEF WindowInit
<1>2. ~in_window
  BY DEF WindowInit, Init, in_window
<1> QED BY <1>1, <1>2 DEF WindowInv, SlideInv

(* A blended tick of a steady source: it keeps the closed form, moves by a *)
(* quarter of the gap at most, and the last one lands.                     *)
LEMMA SlideTick ==
  ASSUME HandoffBlendTicks >= 22, WindowInv, NEW token \in Tokens, SteadySelect(token),
         mode # kRecovering, handoff_blend_ticks # 0
  PROVE  /\ \/ upward(taken', window'.to - held_token', window'.to - window'.from)
            \/ downward(taken', held_token' - window'.to, window'.from - window'.to)
         /\ 4 * Distance(held_token', held_token) <= Distance(window'.to, window'.from) + 4
         /\ handoff_blend_ticks = 1 /\ narrow(Distance(window.to, window.from)) =>
              Distance(held_token', window.to) <= 1
<1> DEFINE n == HandoffBlendTicks
           k == taken
           from == window.from
           to == window.to
           gap == Distance(to, from)
<1>1. /\ n \in Nat \ {0} /\ n >= 22 /\ handoff_blend_ticks \in 1..n /\ held_token \in Int
      /\ token \in Int /\ from \in Int /\ to \in Int /\ steady
  BY BlendAssumption, TokensAssumption DEF WindowInv, IInv, TypeOK, SteadySelect
<1>2. /\ held_token' = blend(held_token, token, k, n)
      /\ handoff_blend_ticks' = handoff_blend_ticks - 1
  BY <1>1 DEF SteadySelect, select_token, crossfade, slide, taken
<1>3. k \in 0..(n - 1) /\ taken' = k + 1 /\ (handoff_blend_ticks = 1 <=> k = n - 1)
  BY <1>1, <1>2 DEF taken
<1>4. held_token' = held_token + ((k * (token - held_token)) \div n)
  <2>1. taken \in Int /\ HandoffBlendTicks \in Nat \ {0} /\ held_token \in Int /\ token \in Int
    BY <1>1, <1>3
  <2>2. blend(held_token, token, taken, HandoffBlendTicks)
          = held_token + ((taken * (token - held_token)) \div HandoffBlendTicks)
    BY <2>1, BlendMoves
  <2> QED BY <1>2, <2>2
<1>5. CASE handoff_blend_ticks = n
  <2>1. k = 0 /\ held_token' = held_token
    <3>1. k = 0
      BY <1>1, <1>5 DEF taken
    <3>2. 0 * (token - held_token) = 0 /\ 0 \div n = 0
      BY <1>1
    <3> QED BY <1>1, <1>4, <3>1, <3>2
  <2>2. window' = [from |-> held_token, to |-> token]
    BY <1>5 DEF SteadySelect
  <2>3. taken' = 1 /\ handoff_blend_ticks # 1
    BY <1>1, <1>3, <1>5, <2>1
  <2>4. reach(1, n) = 2 * n
    BY <1>1 DEF reach
  <2>5. Distance(held_token, held_token) = 0 /\ Distance(token, held_token) \in Nat
    BY <1>1 DEF Distance
  <2>6. ASSUME NEW left \in Nat PROVE upward(1, left, left) /\ downward(1, left, left)
    <3>1. left * (2 * n) = 2 * n * left /\ 2 * n * left <= 2 * n * (left + 1)
          /\ (1 - 1) * left < n /\ left \in 0..left
      BY <1>1
    <3> HIDE DEF n
    <3>2. /\ left * reach(1, n) <= 2 * n * left
          /\ left * reach(1, n) <= 2 * n * (left + 1)
      <4>1. 2 * n * left \in Int
        BY <1>1
      <4> QED BY <2>4, <3>1, <4>1
    <3> QED BY <3>1, <3>2, Zenon DEF upward, downward, n
  <2>7. token - held_token \in Nat \/ held_token - token \in Nat
    BY <1>1
  <2> QED BY <1>1, <2>1, <2>2, <2>3, <2>5, <2>6, <2>7
<1>6. CASE handoff_blend_ticks # n
  <2>1. in_window /\ token = to /\ window' = window /\ k \in 1..(n - 1)
    BY <1>1, <1>3, <1>6 DEF in_window, SteadySelect, taken
  <2>2. CASE upward(k, to - held_token, to - from)
    <3> DEFINE left == to - held_token
               s == (k * left) \div n
    <3>1. left \in Nat /\ to - from \in Nat /\ gap = to - from
      BY <1>1, <2>2 DEF upward, Distance
    <3>2. /\ s \in Nat /\ upward(k + 1, left - s, to - from) /\ 4 * s <= (to - from) + 4
          /\ k = n - 1 /\ narrow(to - from) => left - s <= 1
      BY <1>1, <2>1, <2>2, <3>1, UpwardTick
    <3>3. held_token' = held_token + s
      BY <1>4, <2>1
    <3> HIDE DEF s
    <3>4. to - held_token' = left - s /\ Distance(held_token', held_token) = s
      BY <1>1, <3>2, <3>3 DEF Distance
    <3>5. left - s \in Nat /\ Distance(held_token', to) = left - s
      BY <1>1, <3>1, <3>2, <3>3, <3>4 DEF upward, Distance
    <3> QED BY <1>3, <2>1, <3>1, <3>2, <3>4, <3>5
  <2>3. CASE downward(k, held_token - to, from - to)
    <3> DEFINE left == held_token - to
               s == -((k * (-left)) \div n)
    <3>1. left \in Nat /\ from - to \in Nat /\ gap = from - to
      BY <1>1, <2>3 DEF downward, Distance
    <3>2. /\ s \in Nat /\ downward(k + 1, left - s, from - to) /\ 4 * s <= (from - to) + 4
          /\ k = n - 1 /\ narrow(from - to) => left - s <= 1
      BY <1>1, <2>1, <2>3, <3>1, DownwardTick
    <3>3. held_token' = held_token - s
      <4>1. token - held_token = -left
        BY <1>1, <2>1
      <4>2. (k * (-left)) \div n \in Int
        BY <1>1, <1>3, <3>1
      <4> QED BY <1>1, <1>4, <4>1, <4>2
    <3> HIDE DEF s
    <3>4. held_token' - to = left - s /\ Distance(held_token', held_token) = s
      BY <1>1, <3>2, <3>3 DEF Distance
    <3>5. left - s \in Nat
      BY <3>2 DEF downward
    <3>6. Distance(held_token', to) = left - s
      <4>1. held_token' \in Int
        BY <1>1, <3>2, <3>3
      <4> QED BY <1>1, <3>4, <3>5, <4>1 DEF Distance
    <3> QED BY <1>3, <2>1, <3>1, <3>2, <3>4, <3>6
  <2> QED BY <1>1, <2>1, <2>2, <2>3 DEF WindowInv, SlideInv
<1> QED BY <1>5, <1>6

LEMMA WindowStep ==
  ASSUME HandoffBlendTicks >= 22, WindowInv, [WindowNext]_windowVars
  PROVE  WindowInv'
<1>1. /\ IInv /\ mode \in Mode /\ held_token \in Int /\ handoff_blend_ticks \in 0..HandoffBlendTicks
      /\ HandoffBlendTicks \in Nat \ {0}
  BY BlendAssumption DEF WindowInv, IInv, TypeOK
<1>2. IInv'
  <2>1. [Next]_vars
    BY DEF WindowNext, windowVars, vars, Next, SteadySelect, FreeSelect
  <2> QED BY <1>1, <2>1, NextIInv
<1>3. steady' \in BOOLEAN /\ window' \in [from : Int, to : Int]
  BY <1>1, TokensAssumption DEF WindowInv, WindowNext, windowVars, SteadySelect, FreeSelect
<1>4. SlideInv'
  <2>1. CASE StepMode /\ UNCHANGED window /\ UNCHANGED steady
    <3> SUFFICES ASSUME steady', mode' # kRecovering, in_window'
                 PROVE  mode # kRecovering /\ in_window /\ UNCHANGED <<taken, held_token>>
      BY <2>1 DEF WindowInv, SlideInv
    <3>1. PICK f, a, c, d \in BOOLEAN : step_mode(f, a, c, d)
      BY <2>1 DEF StepMode
    <3>2. ~arms_handoff(mode, mode') /\ handoff_blend_ticks' = handoff_blend_ticks
      BY <1>1, <3>1 DEF step_mode, in_window
    <3>3. mode # kRecovering
      BY <3>1, <3>2 DEF step_mode, decide, arms_handoff, kRecovering, kNormal, kTeleop, kVla
    <3> QED BY <2>1, <3>2, <3>3 DEF StepMode, in_window, taken
  <2>2. CASE arm_handoff
    BY <1>1, <2>2 DEF arm_handoff, SlideInv, in_window
  <2>3. CASE skip_select /\ UNCHANGED window /\ UNCHANGED steady
    BY <2>3 DEF WindowInv, skip_select, SlideInv, in_window, taken
  <2>4. ASSUME NEW token \in Tokens, SteadySelect(token) PROVE SlideInv'
    <3>1. mode' = mode
      BY <2>4 DEF SteadySelect, select_token
    <3>2. CASE mode = kRecovering
      BY <3>1, <3>2 DEF SlideInv
    <3>3. CASE mode # kRecovering /\ handoff_blend_ticks = 0
      BY <2>4, <3>3 DEF SteadySelect, select_token, crossfade, SlideInv, in_window
    <3>4. CASE mode # kRecovering /\ handoff_blend_ticks # 0
      BY <2>4, <3>4, SlideTick DEF SlideInv
    <3> QED BY <3>2, <3>3, <3>4
  <2>5. ASSUME NEW token \in Tokens, FreeSelect(token), UNCHANGED steady PROVE SlideInv'
    BY <2>5 DEF FreeSelect, SlideInv
  <2>6. CASE UNCHANGED windowVars
    BY <2>6 DEF windowVars, vars, WindowInv, SlideInv, in_window, taken
  <2> QED BY <2>1, <2>2, <2>3, <2>4, <2>5, <2>6 DEF WindowNext
<1> QED BY <1>2, <1>3, <1>4 DEF WindowInv

(* A crossfade with a steady source, for every window of 22 ticks or more  *)
(* and all tokens, never moves the commanded token by more than a quarter  *)
(* of the gap it crosses: the weights compound, but they do not pile the   *)
(* motion up (control_arbiter.hpp:129-141).                                *)
THEOREM SlidesAreGentle ==
  ASSUME HandoffBlendTicks >= 22
  PROVE  WindowSpec => QuarterStep
<1> DEFINE Gentle == (/\ steady /\ source' \in {"encoder", "stream"}
                      /\ handoff_blend_ticks' < handoff_blend_ticks) =>
                       4 * Distance(held_token', held_token)
                         <= Distance(window'.to, window'.from) + 4
<1>1. WindowInv /\ [WindowNext]_windowVars => [Gentle]_windowVars
  <2> SUFFICES ASSUME WindowInv, WindowNext, steady, source' \in {"encoder", "stream"},
                      handoff_blend_ticks' < handoff_blend_ticks
               PROVE  4 * Distance(held_token', held_token)
                         <= Distance(window'.to, window'.from) + 4
    OBVIOUS
  <2>1. handoff_blend_ticks \in 0..HandoffBlendTicks /\ HandoffBlendTicks \in Nat \ {0}
    BY BlendAssumption DEF WindowInv, IInv, TypeOK
  <2>2. PICK token \in Tokens : SteadySelect(token)
    BY <2>1 DEF WindowNext, StepMode, step_mode, arm_handoff, skip_select, FreeSelect
  <2>3. mode # kRecovering
    BY <2>2 DEF SteadySelect, select_token, source_of, kVla, kRecovering
  <2>4. handoff_blend_ticks # 0
    BY <2>2, <2>3 DEF SteadySelect, select_token, crossfade
  <2> QED BY <2>2, <2>3, <2>4, SlideTick
<1>2. WindowInv /\ [WindowNext]_windowVars => WindowInv'
  BY WindowStep
<1> QED BY <1>1, <1>2, WindowAtStart, PTL DEF WindowSpec, QuarterStep

\* A blend lies between its ends.
LEMMA BlendWithin ==
  ASSUME NEW n \in Nat \ {0}, NEW k \in 0..n, NEW lo \in Int, NEW hi \in Int,
         NEW from \in lo..hi, NEW to \in lo..hi
  PROVE  blend(from, to, k, n) \in lo..hi
<1> DEFINE m == (n - k) * from + k * to
           b == m \div n
<1>1. m \in Int /\ n * lo <= m /\ m <= n * hi
  <2>1. /\ (n - k) * lo <= (n - k) * from /\ (n - k) * from <= (n - k) * hi
        /\ k * lo <= k * to /\ k * to <= k * hi
    OBVIOUS
  <2>2. /\ (n - k) * lo = n * lo - k * lo /\ (n - k) * hi = n * hi - k * hi
    OBVIOUS
  <2> QED BY <2>1, <2>2
<1> HIDE DEF m
<1>2. b \in Int /\ n * b <= m /\ m < n * b + n
  BY <1>1
<1> HIDE DEF b
<1>3. b <= lo - 1 => n * b <= n * (lo - 1)
  BY <1>2
<1>4. b >= hi + 1 => n * b >= n * (hi + 1)
  BY <1>2
<1>5. n * (lo - 1) = n * lo - n /\ n * (hi + 1) = n * hi + n
  OBVIOUS
<1>6. b \in lo..hi
  BY <1>1, <1>2, <1>3, <1>4, <1>5
<1> QED BY <1>6 DEF b, m, blend

LEMMA SpansStep ==
  ASSUME NEW lo \in Int, NEW hi \in Int, Tokens \cup {SafeStandingToken} \subseteq lo..hi,
         IInv, Spans(lo, hi), [WindowNext]_windowVars
  PROVE  Spans(lo, hi)'
<1>1. /\ handoff_blend_ticks \in 0..HandoffBlendTicks /\ HandoffBlendTicks \in Nat \ {0}
      /\ recovery_blend_tick \in 0..RecoveryBlendTicks /\ RecoveryBlendTicks \in Nat \ {0}
      /\ held_token \in lo..hi /\ SafeStandingToken \in lo..hi
  BY BlendAssumption DEF IInv, TypeOK, Spans
<1>2. ASSUME NEW token \in Tokens, select_token(token) PROVE held_token' \in lo..hi
  <2>1. token \in lo..hi
    OBVIOUS
  <2>2. CASE mode = kRecovering
    <3>1. recovery_blend_tick' \in 0..RecoveryBlendTicks
          /\ held_token' = blend(held_token, SafeStandingToken, recovery_blend_tick',
                                 RecoveryBlendTicks)
      BY <1>1, <1>2, <2>2 DEF select_token, standing_blend
    <3> QED BY <1>1, <3>1, BlendWithin
  <2>3. CASE mode # kRecovering /\ handoff_blend_ticks # 0
    <3>1. held_token' = blend(held_token, token, HandoffBlendTicks - handoff_blend_ticks,
                              HandoffBlendTicks)
      BY <1>1, <1>2, <2>3 DEF select_token, crossfade, slide
    <3>2. HandoffBlendTicks - handoff_blend_ticks \in 0..HandoffBlendTicks
      BY <1>1
    <3> QED BY <1>1, <2>1, <3>1, <3>2, BlendWithin
  <2>4. CASE mode # kRecovering /\ handoff_blend_ticks = 0
    BY <1>2, <2>1, <2>4 DEF select_token, crossfade
  <2> QED BY <2>2, <2>3, <2>4
<1>3. CASE \E token \in Tokens : SteadySelect(token) \/ FreeSelect(token)
  BY <1>1, <1>2, <1>3 DEF SteadySelect, FreeSelect, Spans
<1>4. CASE UNCHANGED <<held_token, window>>
  BY <1>4 DEF Spans
<1> QED BY <1>3, <1>4 DEF WindowNext, windowVars, vars, StepMode, arm_handoff, skip_select

(* A crossfade that is not interrupted has landed when it ends: the last   *)
(* blended token of a steady source is within a unit of it, so passing the *)
(* source through from then on is not a step of its own.  For every window *)
(* of 22 ticks or more, and all tokens within some hundred units of each   *)
(* other: with the 35 ticks of the code, 562 units.                        *)
THEOREM SlidesLand ==
  ASSUME HandoffBlendTicks >= 22, NEW CONSTANT lo \in Int, NEW CONSTANT hi \in Int,
         Tokens \cup {SafeStandingToken} \subseteq lo..hi, narrow(hi - lo)
  PROVE  WindowSpec => LandsOnTarget
<1> DEFINE Lands == (/\ steady /\ source' \in {"encoder", "stream"} /\ source' = source
                     /\ handoff_blend_ticks = 1 /\ handoff_blend_ticks' = 0) =>
                      Distance(held_token', window.to) <= 1
           Inv == WindowInv /\ Spans(lo, hi)
<1>1. WindowInit => Inv
  BY WindowAtStart DEF WindowInit, Init, Spans
<1>2. Inv /\ [WindowNext]_windowVars => Inv'
  BY WindowStep, SpansStep DEF WindowInv
<1>3. Inv /\ [WindowNext]_windowVars => [Lands]_windowVars
  <2> SUFFICES ASSUME Inv, WindowNext, steady, source' \in {"encoder", "stream"},
                      handoff_blend_ticks = 1, handoff_blend_ticks' = 0
               PROVE  Distance(held_token', window.to) <= 1
    OBVIOUS
  <2>1. HandoffBlendTicks \in Nat /\ window.from \in lo..hi /\ window.to \in lo..hi
    BY BlendAssumption DEF Spans
  <2>2. PICK token \in Tokens : SteadySelect(token)
    BY <2>1 DEF WindowNext, StepMode, step_mode, arm_handoff, skip_select, FreeSelect
  <2>3. mode # kRecovering
    BY <2>2 DEF SteadySelect, select_token, source_of, kVla, kRecovering
  <2>4. narrow(Distance(window.to, window.from))
    <3>1. Distance(window.to, window.from) \in Nat /\ Distance(window.to, window.from) <= hi - lo
      BY <2>1 DEF Distance
    <3> QED BY <2>1, <3>1 DEF narrow
  <2> QED BY <2>2, <2>3, <2>4, SlideTick
<1> HIDE DEF Inv
<1> QED BY <1>1, <1>2, <1>3, PTL DEF WindowSpec, LandsOnTarget

=============================================================================
