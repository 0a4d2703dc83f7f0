----------------------------- MODULE FrameRate -----------------------------
(***************************************************************************)
(* The measurement of the input's frame rate (hws_calc.h, hws_frame_end()  *)
(* and hws_input_timeperframe() in hws_video.c): frame ends arrive with    *)
(* jitter, some are missed, capture stops and starts, the input changes    *)
(* its mode and the system sleeps.                                         *)
(*                                                                         *)
(* Time is counted in ticks of 1/240000 s, in which the periods of the     *)
(* rates used here are whole numbers.  No clock is kept: every time the    *)
(* code stores is kept as the time that has passed since.  An interval is  *)
(* kept as the ticks and frames whose quotient the code takes, its         *)
(* truncation to a nanosecond is left out.                                 *)
(***************************************************************************)
EXTENDS Integers, Sequences

CONSTANTS
  Sources,     \* the modes of the input: indices of hws_std_intervals
  Jitters,     \* how late, in ticks, a frame end may be stamped
  Pauses,      \* frames that pass while capture is stopped
  Gaps,        \* ticks without a frame while the receiver locks to a new mode
  HasRegister, \* the FPGA has the rate register
  MaxMissed,   \* bound: frame ends missed in a row
  MaxEvents,   \* bound: misses, stops, changes and sleeps of a behaviour
  Moments      \* bound: the frames counted in a window when they happen

Second == 240000
Restart == 48000        \* 200 ms
StaleAfter == 2 * Second

VARIABLES
  source,      \* the input's mode
  capturing,   \* m_bVCapStarted
  wait,        \* ticks since the last frame end, in whole frames of the input
  late,        \* what the last frame end's stamp was late
  win,         \* m_RateWin
  meas,        \* m_FrameIntervalNs, and when: m_RateUpdatedNs
  since,       \* ticks since the input changed, up to StaleAfter + 1
  events       \* misses, stops, changes and sleeps so far

rateVars == <<source, capturing, wait, late, win, meas, since, events>>

\* Not the code's: what it goes through besides frame ends is bounded.
Happens == events < MaxEvents /\ win.frames \in Moments /\ events' = events + 1

NoMeas == [none |-> TRUE]

\* Standard frame intervals: seconds as a fraction, and in ticks.
hws_std_intervals ==
  << <<1001, 24000>>, <<1, 24>>, <<1, 25>>, <<1001, 30000>>, <<1, 30>>, <<1, 50>>,
     <<1001, 60000>>, <<1, 60>>, <<1, 100>>, <<1001, 120000>>, <<1, 120>>, <<1, 144>>,
     <<1, 240>> >>

Std == DOMAIN hws_std_intervals

Period(i) == (hws_std_intervals[i][1] * Second) \div hws_std_intervals[i][2]

(***************************************************************************)
(* The receiver keeps its lock through a shorter gap, and frame ends are   *)
(* stamped well before the next one: jitter that grows with the frames an  *)
(* interval may span would be counted as a frame.                          *)
(***************************************************************************)
ASSUME RateAssumption ==
  /\ Sources \subseteq Std
  /\ Pauses \subseteq Nat /\ MaxEvents \in Nat
  /\ \A g \in Gaps : g \in Nat /\ g > Restart
  /\ Jitters \subseteq Nat
  /\ \E J \in Jitters :
       /\ \A j \in Jitters : j <= J
       /\ 2003 * J < Second
       /\ \A s \in Sources : (2 * (Restart \div Period(s)) + 5) * J < Period(s)

RateTypeOK ==
  /\ source \in Sources
  /\ capturing \in BOOLEAN
  /\ wait \in Nat /\ late \in Jitters
  /\ win \in [seen : BOOLEAN, elapsed : Nat, min_delta : Nat, frames : Nat, blind : BOOLEAN]
  /\ meas = NoMeas \/ meas \in [elapsed : Nat, frames : Nat \ {0}, age : Nat,
                                 of : Sources, blind : BOOLEAN]
  /\ since \in 0 .. StaleAfter + 1
  /\ events \in 0 .. MaxEvents

-----------------------------------------------------------------------------
(***************************************************************************)
(* hws_snap_interval(): the standard interval closest to t / n, 0 if it is *)
(* not within 1 / tol of it.  The code takes the first of two equally      *)
(* close ones; no two of the table are that close.                         *)
(***************************************************************************)
Off(t, n, i) ==
  LET s == n * Period(i) IN IF t > s THEN t - s ELSE s - t

hws_snap_interval(t, n, tol) ==
  LET best == CHOOSE i \in Std : \A k \in Std : Off(t, n, i) <= Off(t, n, k)
  IN  IF Off(t, n, best) <= (n * Period(best)) \div tol THEN best ELSE 0

\* Mutant: every interval counts as one frame.
CountEachOnce(w, d) == 1

\* How many frames an interval spans, against the shortest one seen.
Spans(w, d) ==
  LET n == (d + w.min_delta \div 2) \div w.min_delta IN IF n > 0 THEN n ELSE 1

(***************************************************************************)
(* hws_rate_frame_end(): one frame end, d ticks after the one before, of   *)
(* which "skipped" says that frames in between were missed.  blind is not  *)
(* the code's: an interval of several frames was counted in this window    *)
(* before any of a single frame was seen, so its length is not known.      *)
(***************************************************************************)
Restarted == [seen |-> TRUE, elapsed |-> 0, min_delta |-> 0, frames |-> 0, blind |-> FALSE]

hws_rate_frame_end(w, d, skipped) ==
  IF ~w.seen \/ d > Restart
  THEN Restarted
  ELSE LET least == IF w.min_delta = 0 \/ d < w.min_delta THEN d ELSE w.min_delta
           v == [w EXCEPT !.min_delta = least]
       IN  [v EXCEPT !.elapsed = @ + d, !.frames = @ + Spans(v, d),
                     !.blind = @ \/ (skipped /\ 2 * least > 3 * Period(source))]

Cap(t) == IF t > StaleAfter THEN StaleAfter + 1 ELSE t

Older(m, t) == IF m = NoMeas THEN m ELSE [m EXCEPT !.age = Cap(@ + t)]

-----------------------------------------------------------------------------
RateInit ==
  /\ source \in Sources
  /\ capturing = FALSE
  /\ wait = 0 /\ late \in Jitters
  /\ win = [Restarted EXCEPT !.seen = FALSE]
  /\ meas = NoMeas
  /\ since = StaleAfter + 1
  /\ events = 0

\* hws_frame_end() at the half-done event of a bottom half.
hws_frame_end(j) ==
  /\ capturing
  /\ LET d == wait + Period(source) + j - late
         w == hws_rate_frame_end(win, d, wait > 0)
     IN  /\ IF w.elapsed < Second
            THEN /\ win' = w
                 /\ meas' = Older(meas, wait + Period(source))
            ELSE /\ win' = [w EXCEPT !.elapsed = 0, !.frames = 0, !.blind = FALSE]
                 /\ meas' = [elapsed |-> w.elapsed, frames |-> w.frames, age |-> 0,
                             of |-> source, blind |-> w.blind]
         /\ since' = Cap(since + wait + Period(source))
  /\ late' = j
  /\ wait' = 0
  /\ UNCHANGED <<source, capturing, events>>

\* Both halves complete before the handler reads the toggle.
MissFrameEnd ==
  /\ Happens
  /\ capturing
  /\ wait < MaxMissed * Period(source)
  /\ wait' = wait + Period(source)
  /\ UNCHANGED <<source, capturing, late, win, meas, since>>

StopVideoCapture ==
  /\ Happens
  /\ capturing
  /\ capturing' = FALSE
  /\ UNCHANGED <<source, wait, late, win, meas, since>>

\* Capture starts again k frames of the input later.
StartVideoCapture(k) ==
  /\ ~capturing
  /\ capturing' = TRUE
  /\ wait' = wait + k * Period(source)
  /\ UNCHANGED <<source, late, win, meas, since, events>>

(***************************************************************************)
(* The source changes its mode: the receiver has no lock, and so the card  *)
(* no frames, for longer than 200 ms.  Capture may be stopped meanwhile.   *)
(***************************************************************************)
ChangeMode(s, gap) ==
  /\ Happens
  /\ s # source
  /\ source' = s
  /\ wait' = gap
  /\ meas' = Older(meas, wait)
  /\ since' = 0
  /\ UNCHANGED <<capturing, late, win>>

(***************************************************************************)
(* Sleep and resume: the clock of the stamps stands still, the source may  *)
(* be another one, and capture goes on if it was on.                       *)
(***************************************************************************)
hws_resume(s) ==
  /\ Happens
  /\ source' = s
  /\ wait' = 0
  /\ win' = [win EXCEPT !.seen = FALSE]
  /\ meas' = Older(meas, wait)
  /\ since' = 0
  /\ UNCHANGED <<capturing, late>>

RateNext ==
  \/ \E j \in Jitters : hws_frame_end(j)
  \/ MissFrameEnd
  \/ StopVideoCapture
  \/ \E k \in Pauses : StartVideoCapture(k)
  \/ \E s \in Sources, gap \in Gaps : ChangeMode(s, gap)
  \/ \E s \in Sources : hws_resume(s)

RateSpec == RateInit /\ [][RateNext]_rateVars

-----------------------------------------------------------------------------
(***************************************************************************)
(* The answer of G_PARM, ENUM_FRAMEINTERVALS and QUERY_DV_TIMINGS.         *)
(* Register 110 shows the rate in whole fps: a little over a whole rate    *)
(* reads as one more (docs/results.md: 60 reads 60 or 61, 119.88 reads     *)
(* 120).                                                                   *)
(***************************************************************************)
hws_hw_fps ==
  LET p == Period(source)
  IN  IF ~HasRegister THEN {0}
      ELSE IF Second % p = 0 THEN {Second \div p, Second \div p + 1} ELSE {Second \div p + 1}

\* Mutant: a measurement is never too old.
NeverTooOld(fps) ==
  IF fps # 0 /\ (meas = NoMeas \/ ~capturing)
  THEN hws_snap_interval(Second, fps, 50)
  ELSE IF meas = NoMeas THEN 0 ELSE hws_snap_interval(meas.elapsed, meas.frames, 200)

hws_input_timeperframe(fps) ==
  IF fps # 0 /\ (meas = NoMeas \/ ~capturing \/ meas.age + wait > StaleAfter)
  THEN hws_snap_interval(Second, fps, 50)
  ELSE IF meas = NoMeas THEN 0 ELSE hws_snap_interval(meas.elapsed, meas.frames, 200)

-----------------------------------------------------------------------------
(***************************************************************************)
(* A window that closes gives the source's own rate, 59.94 apart from 60   *)
(* and 23.976 from 24, through jitter, missed frame ends, pauses of        *)
(* capture, changes of the mode and sleep (hws_video.c:3578).  Except when *)
(* frames were missed in the window before it saw two frames in a row.     *)
(***************************************************************************)
RateExact ==
  meas # NoMeas /\ ~meas.blind
    => hws_snap_interval(meas.elapsed, meas.frames, 200) = meas.of

\* Rates not more than one frame per second apart.
Near(i, k) ==
  LET p == Period(i) q == Period(k)
  IN  (IF p > q THEN p - q ELSE q - p) <= (p * q) \div Second

(***************************************************************************)
(* With the rate register, whatever is asked more than two seconds after   *)
(* the last change is answered with the rate of the input there is, to one *)
(* frame per second, whether or not anything captures (hws_video.c:3610).  *)
(* Of 25 and 30 fps one more is further than 2% away: if the register reads*)
(* that, the answer is no standard rate.                                   *)
(***************************************************************************)
AnswerFollowsInput ==
  HasRegister /\ since + wait > StaleAfter /\ (capturing /\ meas # NoMeas => ~meas.blind)
    => \A fps \in hws_hw_fps :
         LET i == hws_input_timeperframe(fps) IN i # 0 /\ Near(i, source)
=============================================================================
