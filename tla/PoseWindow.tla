------------------------------ MODULE PoseWindow ------------------------------
(***************************************************************************)
(* The full-body window of one session of the flavor (teleop_tracker.cpp,  *)
(* smpl_resampler.hpp): irregular headset samples go through a resampler   *)
(* onto the 50 Hz grid, and the grid poses through a delay line into the   *)
(* frames the encoder reads.                                               *)
(*                                                                         *)
(* A pose is named by the instant it shows, in ms of the session: the pose *)
(* of a sample by its receive time, an interpolated one by what the        *)
(* interpolation gives.  A slot no tick of this session wrote holds Old.   *)
(***************************************************************************)
EXTENDS Integers, Sequences

CONSTANTS
  kRing,            \* samples the resampler keeps
  kHistory,         \* grid poses the delay line keeps
  kLookaheadTicks,  \* ticks the policy lags the operator
  kFrames,          \* frames of the window
  StaleMs,          \* kFullBodyStaleMs
  EngageAges,       \* how old the last sample may be at engage, ms
  ArrivalAges,      \* how old a new sample may be when its tick reads it
  MaxTicks          \* bound: ticks of a session

ASSUME PoseWindowAssumption ==
  /\ {kRing, kHistory, kFrames, MaxTicks} \subseteq Nat \ {0}
  /\ kLookaheadTicks \in 0..(kHistory - 1) /\ StaleMs \in Nat
  /\ EngageAges \subseteq Nat /\ ArrivalAges \subseteq Nat

VARIABLES
  fb_resampler,       \* fb_resampler_: times (and poses) of the ring, head, count, interval
  history,            \* history_: the delay line
  hist_head, hist_count,
  window,             \* smpl_window_buf: <<>> is empty
  session,            \* fullbody_engaged_, with the session's ticks so far
  last_sample,        \* receive time of the newest body sample
  \* ── ghosts
  samples, grid       \* every sample of the session; the pose each tick stands for

delay_line == <<history, hist_head, hist_count, window>>
ghosts     == <<samples, grid>>
window_vars == <<fb_resampler, delay_line, session, last_sample, ghosts>>

Old     == -100000
TickMs  == 20
Clamp(x, lo, hi) == IF x < lo THEN lo ELSE IF x > hi THEN hi ELSE x

-----------------------------------------------------------------------------
(* SmplResampler                                                           *)

seed_interval == 33  \* ms
min_delay     == 20
max_delay     == 100

fresh_resampler ==
  [times |-> [i \in 0..(kRing - 1) |-> Old], head |-> 0, count |-> 0,
   interval |-> seed_interval]

\* The k-th newest sample.
kept(r, k) == r.times[(r.head - k + kRing) % kRing]

\* The ring outlasts the longest delay, whatever the rate of the samples.
ASSUME RingSpan == max_delay <= TickMs * (kRing - 1)

delay(r) == Clamp((3 * r.interval) \div 2, min_delay, max_delay)

\* The measured interval: the first one as it is, then smoothed (ema 0.1).
estimate_Latest(r, dt) == dt  \* mutant: the smoothing lost
estimate(r, dt) == IF r.count = 1 THEN dt ELSE (9 * r.interval + dt) \div 10

push(r, t) ==
  LET next == (r.head + 1) % kRing
      dt   == t - kept(r, 0)
  IN  CASE r.count = 0            -> [r EXCEPT !.times[r.head] = t, !.count = 1]
        [] r.count > 0 /\ dt <= 0 -> r
        [] OTHER -> [times    |-> [r.times EXCEPT ![next] = t],
                     head     |-> next,
                     count    |-> IF r.count < kRing THEN r.count + 1 ELSE kRing,
                     interval |-> estimate(r, dt)]

\* Between two samples, the pose in proportion of the time (alpha_for, lerp).
lerp(older, newer, target) ==
  IF newer <= older THEN newer
  ELSE older + ((newer - older) * Clamp(target - older, 0, newer - older))
                 \div (newer - older)

\* Walk back from the newest to the first sample at or before the target.
sample(r, now) ==
  LET target  == now - delay(r)
      at_or_before == {k \in 0..(r.count - 1) : kept(r, k) <= target}
      k == CHOOSE k \in at_or_before : \A j \in at_or_before : k <= j
  IN  CASE at_or_before = {} -> kept(r, r.count - 1)
        [] 0 \in at_or_before -> kept(r, 0)
        [] OTHER -> lerp(kept(r, k), kept(r, k - 1), target)

-----------------------------------------------------------------------------
(* The delay line                                                          *)

\* How far behind the newest grid pose frame f of the window reads.
depth_NoWarmup(f, count) ==  \* mutant: the warm-up clamp lost
  IF kLookaheadTicks > f THEN kLookaheadTicks - f ELSE 0
depth(f, count) == Clamp(kLookaheadTicks - f, 0, count - 1)

\* process_fullbody: one grid pose in, the window out.
process_fullbody(pose) ==
  /\ hist_head' = IF hist_count = 0 THEN 0 ELSE (hist_head + 1) % kHistory
  /\ history' = [history EXCEPT ![hist_head'] = pose]
  /\ hist_count' = IF hist_count < kHistory THEN hist_count + 1 ELSE kHistory
  /\ window' = [f \in 1..kFrames |->
                  history'[(hist_head' - depth(f - 1, hist_count') + kHistory) % kHistory]]

\* disengage_fullbody.
let_go ==
  /\ session' = [on |-> FALSE, ticks |-> 0]
  /\ hist_count' = 0 /\ window' = <<>>
  /\ UNCHANGED <<fb_resampler, history, hist_head, ghosts>>

-----------------------------------------------------------------------------

WindowInit ==
  /\ fb_resampler = fresh_resampler
  /\ history = [i \in 0..(kHistory - 1) |-> Old] /\ hist_head = 0 /\ hist_count = 0
  /\ window = <<>> /\ session = [on |-> FALSE, ticks |-> 0] /\ last_sample = 0
  /\ samples = <<>> /\ grid = <<>>

\* The A hold engages; the session's clock starts with this very tick, and
\* what the rings hold from now on belongs to no session.
Engage ==
  /\ ~session.on
  /\ session' = [on |-> TRUE, ticks |-> 0]
  /\ hist_count' = 0 /\ fb_resampler' = fresh_resampler
  /\ history' = [i \in 0..(kHistory - 1) |-> Old]
  /\ last_sample' \in {-a : a \in EngageAges}
  /\ samples' = <<>> /\ grid' = <<>>
  /\ UNCHANGED <<hist_head, window>>

\* The sample a tick reads: the last one again, or a new one.
arrivals(now) ==
  {last_sample} \union {t \in {now - a : a \in ArrivalAges} : t > last_sample}

FullbodyTick ==
  /\ session.on /\ session.ticks < MaxTicks
  /\ LET now == TickMs * session.ticks
     IN  \E t \in arrivals(now) :
           /\ last_sample' = t
           /\ \/ now - t > StaleMs /\ let_go
              \/ /\ now - t <= StaleMs
                 /\ LET ingest == t # last_sample \/ fb_resampler.count = 0
                    IN  /\ fb_resampler' = IF ingest THEN push(fb_resampler, t)
                                           ELSE fb_resampler
                        /\ samples' = IF ingest THEN Append(samples, t) ELSE samples
                 /\ process_fullbody(sample(fb_resampler', now))
                 /\ grid' = Append(grid, Clamp(now - delay(fb_resampler'), samples'[1],
                                               samples'[Len(samples')]))
                 /\ session' = [session EXCEPT !.ticks = @ + 1]

\* The gesture again, or a reset asked for by the stream.
LetGo == session.on /\ let_go /\ UNCHANGED last_sample

WindowNext == Engage \/ FullbodyTick \/ LetGo

WindowSpec == WindowInit /\ [][WindowNext]_window_vars

-----------------------------------------------------------------------------
(* Properties                                                              *)

(* Frame differences are the policy's reference velocities: within a       *)
(* session the newest grid pose never shows an earlier instant than the    *)
(* one before it, although the delay adapts to the measured interval       *)
(* between any two ticks (smpl_resampler.hpp:13-24).                       *)
NeverBackwards ==
  \A i \in 2..Len(grid) : grid[i - 1] <= grid[i]

(* Frame f of the window is the pose the session's grid stood at           *)
(* kLookaheadTicks - f ticks ago, the newest beyond it and the oldest      *)
(* during warm-up (teleop_tracker.cpp:269-272), for the grid taken over    *)
(* every sample of the session: the ring always brackets the target        *)
(* (smpl_resampler.hpp:26-28), neither ring drops a pose a frame needs,    *)
(* and no frame shows an earlier session.                                  *)
WindowShowsGrid ==
  window # <<>> =>
    \A f \in 1..kFrames :
      window[f] = grid[Len(grid) - Clamp(kLookaheadTicks - (f - 1), 0, Len(grid) - 1)]

=============================================================================
