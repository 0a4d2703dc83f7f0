-------------------------- MODULE FrameMath_proofs --------------------------
(***************************************************************************)
(* The arithmetic of hws_calc.h.  First what tests/unit/test_calc.c tries  *)
(* for each even size up to 4096 x 2160, for every size, and that the      *)
(* counters of events may wrap.  Then the measured frame rate, for windows *)
(* of any length.  Last, rendering: line doubling and every scaler.        *)
(***************************************************************************)
EXTENDS MCFrameMath, TLAPS

\* What truncated division by a constant returns.
LEMMA Division ==
  ASSUME NEW a \in Nat, NEW b \in Nat \ {0}
  PROVE  /\ a \div b \in Nat
         /\ a % b \in 0 .. b - 1
         /\ a = b * (a \div b) + (a % b)
  OBVIOUS

\* A number less than the modulus, or its negative, is its own remainder.
LEMMA Residue ==
  ASSUME NEW m \in Nat \ {0}, NEW d \in -(m - 1) .. m - 1
  PROVE  d % m = IF d >= 0 THEN d ELSE d + m
  OBVIOUS

\* Multiplication by a natural number keeps the order.
LEMMA Products ==
  ASSUME NEW m \in Nat, NEW i \in Nat, NEW j \in Nat, i >= j + 2
  PROVE  m * i >= m * j + 2 * m
<1>1. PICK k \in Nat : i = j + 2 + k
  <2>1. i - j - 2 \in Nat /\ i = j + 2 + (i - j - 2)
    OBVIOUS
  <2>2. QED
    BY <2>1
<1>2. m * i = m * j + 2 * m + m * k /\ m * k \in Nat /\ m * j \in Nat
  BY <1>1
<1>3. QED
  BY <1>2

\* The bytes of a frame are a natural number.
LEMMA FrameBytes_Nat ==
  ASSUME NEW w \in Nat, NEW h \in Nat
  PROVE  FrameBytes(w, h) \in Nat
  BY DEF FrameBytes

(***************************************************************************)
(* The quarters are whole blocks, the last is the longest and never empty, *)
(* and together they cover the frame with at most one block more           *)
(* (hws_calc.h:28): no pixel is left out whatever the size, and the        *)
(* function never takes its error return.                                  *)
(***************************************************************************)
THEOREM QuartersCoverFrame ==
  ASSUME NEW w \in Nat, NEW h \in Nat
  PROVE  LET f == FrameBytes(w, h)
             n == Quarter(w, h)
             l == LastQuarter(w, h)
         IN  /\ n \in Nat /\ l \in Nat
             /\ n % HWS_DMA_BLOCK = 0 /\ l % HWS_DMA_BLOCK = 0
             /\ 3 * n <= f
             /\ n < l
             /\ f < 3 * n + l
             /\ 3 * n + l <= f + HWS_DMA_BLOCK
             /\ l <= n + 4 * HWS_DMA_BLOCK
<1> DEFINE f == FrameBytes(w, h)
           k == f \div 8192
           rest == f - 3 * (k * 2048)
           m == rest \div 2048
<1>1. f \in Nat
  BY FrameBytes_Nat
<1>2. k \in Nat /\ 8192 * k <= f /\ f < 8192 * k + 8192
  <2> HIDE DEF f
  <2> QED BY <1>1
<1>3. rest \in Nat /\ 2048 * k <= rest /\ rest < 2048 * k + 8192
  <2> HIDE DEF f, k
  <2> QED BY <1>1, <1>2
<1>4. m \in Nat /\ 2048 * m <= rest /\ rest < 2048 * m + 2048
  <2> HIDE DEF rest
  <2> QED BY <1>3
<1>5. k <= m /\ m <= k + 3
  <2> HIDE DEF rest, m, k
  <2> QED BY <1>2, <1>3, <1>4
<1>6. Quarter(w, h) = k * 2048 /\ LastQuarter(w, h) = (m + 1) * 2048
  BY DEF Quarter, LastQuarter, HWS_DMA_BLOCK
<1>7. (k * 2048) % 2048 = 0 /\ ((m + 1) * 2048) % 2048 = 0
  <2> HIDE DEF rest, m, k
  <2> QED BY <1>2, <1>4
<1>8. QED
  <2> HIDE DEF m, k, f
  <2> QED BY <1>1, <1>2, <1>3, <1>4, <1>5, <1>6, <1>7 DEF HWS_DMA_BLOCK, f

(***************************************************************************)
(* Zero-copy buffers are the frame and HWS_ZC_SLACK (hws_video.c:1202): the*)
(* longest run the card can make from quarter 3's offset ends inside them, *)
(* for every size.  Half the slack is enough.                              *)
(***************************************************************************)
THEOREM RunFitsBuffer ==
  ASSUME NEW w \in Nat, NEW h \in Nat
  PROVE  /\ hws_zc_span(hws_quarter_sizes(w, h)) <= FrameBytes(w, h) + 4096
         /\ hws_zc_span(hws_quarter_sizes(w, h)) <= FrameBytes(w, h) + HWS_ZC_SLACK
<1> DEFINE n == Quarter(w, h)
           l == LastQuarter(w, h)
           len == hws_quarter_sizes(w, h)
<1>1. len[0] = n /\ len[1] = n /\ len[2] = n /\ len[3] = l
  BY DEF hws_quarter_sizes
<1>2. n \in Nat /\ l \in Nat /\ n < l /\ 3 * n + l <= FrameBytes(w, h) + HWS_DMA_BLOCK
  BY QuartersCoverFrame
<1>3. hws_zc_span(len) = 3 * n + l + HWS_DMA_BLOCK
  <2> HIDE DEF n, l, len
  <2> QED BY <1>1, <1>2 DEF hws_zc_span, HWS_DMA_BLOCK
<1>4. FrameBytes(w, h) \in Nat
  BY FrameBytes_Nat
<1>5. QED
  <2> HIDE DEF n, l, len
  <2> QED BY <1>2, <1>3, <1>4 DEF HWS_DMA_BLOCK, HWS_ZC_SLACK, len

(***************************************************************************)
(* A buffer's release mark and the counter of events are compared modulo   *)
(* their width (hws_calc.h:169).  As long as fewer than HalfWrap events lie*)
(* between them the answer is the one the unbounded counters would give,   *)
(* however often either has wrapped.                                       *)
(***************************************************************************)
THEOREM WrapIsHarmless ==
  ASSUME NEW a \in Nat, NEW b \in Nat, a - b < HalfWrap, b - a <= HalfWrap
  PROVE  hws_ev_before(a % EventWrap, b % EventWrap) <=> a < b
<1> DEFINE W == EventWrap
           d == (a % W) - (b % W)
<1>1. W \in Nat \ {0} /\ W = 2 * HalfWrap /\ HalfWrap \in Nat \ {0}
  BY HalfWrapAssumption DEF EventWrap
<1>2. PICK i \in Nat : a = W * i + (a % W)
  <2> HIDE DEF W
  <2> QED BY <1>1, Division
<1>3. PICK j \in Nat : b = W * j + (b % W)
  <2> HIDE DEF W
  <2> QED BY <1>1, Division
<1>4. a % W \in 0 .. W - 1 /\ b % W \in 0 .. W - 1
  <2> HIDE DEF W
  <2> QED BY <1>1, Division
<1>5. i - j \in {-1, 0, 1}
  <2>1. i >= j + 2 => W * i >= W * j + 2 * W
    <3> HIDE DEF W
    <3> QED BY <1>1, Products
  <2>2. j >= i + 2 => W * j >= W * i + 2 * W
    <3> HIDE DEF W
    <3> QED BY <1>1, Products
  <2>3. QED
    <3> DEFINE xx == W * i
               yy == W * j
               ar == a % W
               br == b % W
    <3>1. xx \in Nat /\ yy \in Nat /\ ar \in 0 .. W - 1 /\ br \in 0 .. W - 1
      <4> HIDE DEF W
      <4> QED BY <1>1, <1>4
    <3>2. a = xx + ar /\ b = yy + br
      BY <1>2, <1>3
    <3>3. (i >= j + 2 => xx >= yy + 2 * W) /\ (j >= i + 2 => yy >= xx + 2 * W)
      BY <2>1, <2>2
    <3>4. QED
      <4> HIDE DEF W, xx, yy, ar, br
      <4> QED BY <1>1, <3>1, <3>2, <3>3
<1>6. d = a - b - W * (i - j) /\ d \in -(W - 1) .. W - 1
  <2> HIDE DEF W
  <2> QED BY <1>1, <1>2, <1>3, <1>4
<1>7. hws_ev_before(a % EventWrap, b % EventWrap) <=> d % W >= HalfWrap
  BY DEF hws_ev_before
<1>8. d % W = IF d >= 0 THEN d ELSE d + W
  <2> HIDE DEF W, d
  <2> QED BY <1>1, <1>6, Residue
<1>9. d = a - b \/ d = a - b + W \/ d = a - b - W
  <2> HIDE DEF W, d
  <2> QED BY <1>1, <1>5, <1>6
<1>10. QED
  <2> HIDE DEF W, d
  <2> QED BY <1>1, <1>6, <1>7, <1>8, <1>9

-----------------------------------------------------------------------------
\* The table of the rates, in ticks.
LEMMA StdPeriods ==
  /\ Std = 1 .. 13
  /\ Period(1) = 10010 /\ Period(2) = 10000 /\ Period(3) = 9600 /\ Period(4) = 8008
  /\ Period(5) = 8000 /\ Period(6) = 4800 /\ Period(7) = 4004 /\ Period(8) = 4000
  /\ Period(9) = 2400 /\ Period(10) = 2002 /\ Period(11) = 2000 /\ Period(12) = 1666
  /\ Period(13) = 1000
<1>1. Std = 1 .. 13
  BY DEF Std, hws_std_intervals
<1>2. Period(1) = 10010 /\ Period(2) = 10000 /\ Period(3) = 9600 /\ Period(4) = 8008
  BY DEF Period, hws_std_intervals, Second
<1>3. Period(5) = 8000 /\ Period(6) = 4800 /\ Period(7) = 4004 /\ Period(8) = 4000
  BY DEF Period, hws_std_intervals, Second
<1>4. Period(9) = 2400 /\ Period(10) = 2002 /\ Period(11) = 2000 /\ Period(12) = 1666
  BY DEF Period, hws_std_intervals, Second
<1>5. Period(13) = 1000
  BY DEF Period, hws_std_intervals, Second
<1>6. QED
  BY <1>1, <1>2, <1>3, <1>4, <1>5

(***************************************************************************)
(* Any two rates of the table are at least one part in 1001 apart.         *)
(***************************************************************************)
LEMMA PeriodsApart ==
  ASSUME NEW i \in Std, NEW k \in Std, i # k
  PROVE  \/ 1001 * (Period(i) - Period(k)) >= Period(i)
         \/ 1001 * (Period(k) - Period(i)) >= Period(i)
<1>1. i \in 1 .. 13 /\ k \in 1 .. 13
  BY StdPeriods
<1>2. QED
  BY <1>1, StdPeriods

\* Every period is a whole number of ticks.
LEMMA PeriodNat ==
  ASSUME NEW i \in Std
  PROVE  Period(i) \in Nat /\ Period(i) >= 1000
<1>1. i \in 1 .. 13
  BY StdPeriods
<1>2. QED
  BY <1>1, StdPeriods

\* Two rates are as far apart after n frames as n times after one.
LEMMA PeriodsApartScaled ==
  ASSUME NEW i \in Std, NEW k \in Std, i # k, NEW n \in Nat
  PROVE  \/ 1001 * (n * Period(i) - n * Period(k)) >= n * Period(i)
         \/ 1001 * (n * Period(k) - n * Period(i)) >= n * Period(i)
<1> DEFINE p == Period(i)
           q == Period(k)
<1>1. p \in Nat /\ q \in Nat
  BY PeriodNat
<1>2. 1001 * (p - q) >= p \/ 1001 * (q - p) >= p
  BY PeriodsApart
<1> HIDE DEF p, q
<1>3. CASE 1001 * (p - q) >= p
  <2>1. PICK x \in Nat : 1001 * (p - q) = p + x
    <3>1. 1001 * (p - q) - p \in Nat /\ 1001 * (p - q) = p + (1001 * (p - q) - p)
      BY <1>1, <1>3
    <3>2. QED
      BY <3>1
  <2>2. n * (1001 * (p - q)) = n * p + n * x /\ n * x \in Nat
    BY <1>1, <2>1
  <2>3. n * (1001 * (p - q)) = 1001 * (n * p - n * q) /\ n * p \in Nat /\ n * q \in Nat
    BY <1>1
  <2>4. QED
    BY <1>1, <2>2, <2>3 DEF p, q
<1>4. CASE 1001 * (q - p) >= p
  <2>1. PICK x \in Nat : 1001 * (q - p) = p + x
    <3>1. 1001 * (q - p) - p \in Nat /\ 1001 * (q - p) = p + (1001 * (q - p) - p)
      BY <1>1, <1>4
    <3>2. QED
      BY <3>1
  <2>2. n * (1001 * (q - p)) = n * p + n * x /\ n * x \in Nat
    BY <1>1, <2>1
  <2>3. n * (1001 * (q - p)) = 1001 * (n * q - n * p) /\ n * p \in Nat /\ n * q \in Nat
    BY <1>1
  <2>4. QED
    BY <1>1, <2>2, <2>3 DEF p, q
<1>5. QED
  BY <1>2, <1>3, <1>4

\* What the snap returns: the closest rate, if it is close enough.
LEMMA SnapIs ==
  ASSUME NEW t, NEW n, NEW tol, NEW b \in Std,
         \A k \in Std : k # b => Off(t, n, b) < Off(t, n, k),
         \A k \in Std : Off(t, n, k) \in Nat,
         Off(t, n, b) <= (n * Period(b)) \div tol
  PROVE  hws_snap_interval(t, n, tol) = b
<1>1. \A k \in Std : Off(t, n, b) <= Off(t, n, k)
  <2> SUFFICES ASSUME NEW k \in Std PROVE Off(t, n, b) <= Off(t, n, k)
    OBVIOUS
  <2>1. Off(t, n, b) \in Nat /\ Off(t, n, k) \in Nat
    OBVIOUS
  <2>2. k = b \/ Off(t, n, b) < Off(t, n, k)
    OBVIOUS
  <2>3. QED
    BY <2>1, <2>2
<1>2. \A c \in Std : (\A k \in Std : Off(t, n, c) <= Off(t, n, k)) => c = b
  <2> SUFFICES ASSUME NEW c \in Std, Off(t, n, c) <= Off(t, n, b), c # b PROVE FALSE
    OBVIOUS
  <2>1. Off(t, n, b) < Off(t, n, c) /\ Off(t, n, b) \in Nat /\ Off(t, n, c) \in Nat
    OBVIOUS
  <2>2. QED
    BY <2>1
<1> DEFINE best == CHOOSE i \in Std : \A k \in Std : Off(t, n, i) <= Off(t, n, k)
<1>3. best = b
  BY <1>1, <1>2
<1>4. hws_snap_interval(t, n, tol)
        = IF Off(t, n, best) <= (n * Period(best)) \div tol THEN best ELSE 0
  BY DEF hws_snap_interval
<1> HIDE DEF best
<1>5. QED
  BY <1>3, <1>4

(***************************************************************************)
(* A window of at least a second whose ends are not more than e ticks off  *)
(* snaps to its own rate, however many frames it has.                      *)
(***************************************************************************)
LEMMA SnapExact ==
  ASSUME NEW i \in Std, NEW t \in Nat, NEW n \in Nat \ {0}, NEW e \in Nat,
         2003 * e < Second, t >= Second, t <= n * Period(i) + e, n * Period(i) <= t + e
  PROVE  hws_snap_interval(t, n, 200) = i
<1> DEFINE s == n * Period(i)
<1>1. s \in Nat
  BY PeriodNat
<1>2. Off(t, n, i) <= e /\ Off(t, n, i) \in Nat
  BY <1>1 DEF Off
<1>3. ASSUME NEW k \in Std, k # i
      PROVE  Off(t, n, i) < Off(t, n, k) /\ Off(t, n, k) \in Nat
  <2> DEFINE r == n * Period(k)
  <2>1. r \in Nat
    BY PeriodNat
  <2>2. 1001 * (s - r) >= s \/ 1001 * (r - s) >= s
    BY <1>3, PeriodsApartScaled
  <2>3. Off(t, n, k) = IF t > r THEN t - r ELSE r - t
    BY DEF Off
  <2>4. t <= s + e /\ s <= t + e
    OBVIOUS
  <2>5. QED
    <3> HIDE DEF s, r
    <3> QED BY <1>1, <1>2, <2>1, <2>2, <2>3, <2>4 DEF Second
<1>4. \A k \in Std : Off(t, n, k) \in Nat
  BY <1>2, <1>3
<1>5. Off(t, n, i) <= s \div 200
  <2>1. s >= 200 * e
    <3>1. t <= s + e
      OBVIOUS
    <3>2. QED
      <4> HIDE DEF s
      <4> QED BY <1>1, <3>1 DEF Second
  <2>2. s \div 200 \in Nat /\ s < 200 * (s \div 200) + 200
    <3> HIDE DEF s
    <3> QED BY <1>1
  <2>3. QED
    <3> HIDE DEF s
    <3> QED BY <1>1, <1>2, <2>1, <2>2
<1>6. \A k \in Std : k # i => Off(t, n, i) < Off(t, n, k)
  BY <1>3
<1>7. QED
  BY <1>4, <1>5, <1>6, SnapIs

-----------------------------------------------------------------------------
\* A product grows with its factor, and a smaller product has a smaller factor.
LEMMA ProductGrows ==
  ASSUME NEW a \in Int, NEW b \in Int, NEW c \in Nat, a <= b
  PROVE  a * c <= b * c
<1>1. PICK x \in Nat : b = a + x
  <2>1. b - a \in Nat /\ b = a + (b - a)
    OBVIOUS
  <2>2. QED
    BY <2>1
<1>2. b * c = a * c + x * c /\ x * c \in Nat /\ a * c \in Int
  BY <1>1
<1>3. QED
  BY <1>2

\* The quotient is the number whose multiples enclose the dividend.
LEMMA QuotientIs ==
  ASSUME NEW a \in Nat, NEW b \in Nat \ {0}, NEW q \in Nat, q * b <= a, a < q * b + b
  PROVE  a \div b = q
<1> DEFINE z == a \div b
<1>1. z \in Nat /\ b * z <= a /\ a < b * z + b
  OBVIOUS
<1> HIDE DEF z
<1>2. z * b = b * z /\ z * b \in Nat /\ q * b \in Nat
  BY <1>1
<1>3. ~(z + 1 <= q)
  <2> SUFFICES ASSUME z + 1 <= q PROVE FALSE
    OBVIOUS
  <2>1. (z + 1) * b <= q * b
    BY <1>1, ProductGrows
  <2>2. (z + 1) * b = z * b + b
    BY <1>1
  <2>3. QED
    BY <1>1, <1>2, <2>1, <2>2
<1>4. ~(q + 1 <= z)
  <2> SUFFICES ASSUME q + 1 <= z PROVE FALSE
    OBVIOUS
  <2>1. (q + 1) * b <= z * b
    BY <1>1, ProductGrows
  <2>2. (q + 1) * b = q * b + b
    OBVIOUS
  <2>3. QED
    BY <1>1, <1>2, <2>1, <2>2
<1>5. z = q
  BY <1>1, <1>3, <1>4
<1>6. QED
  BY <1>5 DEF z

(***************************************************************************)
(* Against the length m of one frame, an interval of n frames counts as n, *)
(* if the jitter of both stays below half a frame.                         *)
(***************************************************************************)
LEMMA SpansExact ==
  ASSUME NEW w, NEW p \in Nat, NEW J \in Nat, NEW n \in Nat \ {0}, NEW d \in Nat,
         NEW m \in Nat, w.min_delta = m,
         (2 * n + 3) * J < p, d + J >= n * p, d <= n * p + J, m + J >= p, m <= p + J
  PROVE  m > 0 /\ Spans(w, d) = n
<1> DEFINE e == m - p
           h == m \div 2
<1>1. e \in -J .. J /\ m = p + e
  OBVIOUS
<1>2. h \in Nat /\ 2 * h <= m /\ m <= 2 * h + 1
  OBVIOUS
<1> HIDE DEF e, h
<1>3. n * J \in Nat /\ n * p \in Nat /\ (2 * n + 3) * J = 2 * (n * J) + 3 * J
  OBVIOUS
<1>4. m > 0
  BY <1>3
<1>5. n * m \in Nat /\ n * m <= n * p + n * J /\ n * p <= n * m + n * J
  <2>1. n * m = n * p + n * e /\ n * e \in Int
    BY <1>1
  <2>2. e * n <= J * n /\ (-J) * n <= e * n
    BY <1>1, ProductGrows
  <2>3. e * n = n * e /\ J * n = n * J /\ (-J) * n = -(n * J)
    BY <1>1
  <2>4. QED
    BY <1>3, <2>1, <2>2, <2>3
<1>6. n * m <= d + h
  BY <1>2, <1>3, <1>5
<1>7. d + h < n * m + m
  BY <1>2, <1>3, <1>5
<1>8. (d + h) \div m = n
  <2>1. d + h \in Nat
    BY <1>2
  <2>2. QED
    BY <1>4, <1>6, <1>7, <2>1, QuotientIs
<1>9. QED
  BY <1>4, <1>8 DEF Spans, h

\* An interval counts as at least one frame.
LEMMA SpansSome ==
  ASSUME NEW w, NEW d \in Nat, w.min_delta \in Nat, w.min_delta > 0
  PROVE  Spans(w, d) \in Nat \ {0}
<1> DEFINE m == w.min_delta
           a == d + m \div 2
<1>1. m \in Nat \ {0}
  OBVIOUS
<1>2. a \in Nat
  <2> HIDE DEF m
  <2> QED BY <1>1
<1>3. a \div m \in Nat
  <2> HIDE DEF m, a
  <2> QED BY <1>1, <1>2
<1>4. Spans(w, d) = IF a \div m > 0 THEN a \div m ELSE 1
  BY DEF Spans
<1>5. QED
  <2> HIDE DEF m, a
  <2> QED BY <1>3, <1>4

-----------------------------------------------------------------------------
\* The largest jitter.
MaxJitter ==
  CHOOSE J \in Jitters :
    /\ \A j \in Jitters : j <= J
    /\ 2003 * J < Second
    /\ \A s \in Sources : (2 * (Restart \div Period(s)) + 5) * J < Period(s)

\* What is assumed of it.
LEMMA JitterFacts ==
  /\ MaxJitter \in Nat /\ 2003 * MaxJitter < Second
  /\ \A j \in Jitters : j \in Nat /\ j <= MaxJitter
  /\ \A s \in Sources : (2 * (Restart \div Period(s)) + 5) * MaxJitter < Period(s)
<1>1. \E J \in Jitters :
        /\ \A j \in Jitters : j <= J
        /\ 2003 * J < Second
        /\ \A s \in Sources : (2 * (Restart \div Period(s)) + 5) * J < Period(s)
  BY RateAssumption
<1>2. /\ MaxJitter \in Jitters
      /\ \A j \in Jitters : j <= MaxJitter
      /\ 2003 * MaxJitter < Second
      /\ \A s \in Sources : (2 * (Restart \div Period(s)) + 5) * MaxJitter < Period(s)
  BY <1>1 DEF MaxJitter
<1>3. Jitters \subseteq Nat
  BY RateAssumption
<1>4. QED
  BY <1>2, <1>3

\* A period of a source, and how it compares with the jitter.
LEMMA SourcePeriod ==
  ASSUME NEW s \in Sources
  PROVE  /\ s \in Std /\ Period(s) \in Nat /\ Period(s) >= 1000
         /\ 5 * MaxJitter < Period(s)
<1>1. s \in Std /\ Period(s) \in Nat /\ Period(s) >= 1000
  BY RateAssumption, PeriodNat
<1>2. (2 * (Restart \div Period(s)) + 5) * MaxJitter < Period(s) /\ MaxJitter \in Nat
  BY JitterFacts
<1>3. ASSUME NEW r \in Nat, NEW J \in Nat PROVE 5 * J <= (2 * r + 5) * J
  <2>1. (2 * r + 5) * J = 2 * (r * J) + 5 * J /\ r * J \in Nat
    OBVIOUS
  <2>2. QED
    BY <2>1
<1>4. Restart \div Period(s) \in Nat
  <2> DEFINE p == Period(s)
  <2> HIDE DEF p
  <2>1. p \in Nat /\ p >= 1000 => 48000 \div p \in Nat
    OBVIOUS
  <2>2. QED
    BY <1>1, <2>1 DEF Restart, p
<1>5. 5 * MaxJitter <= (2 * (Restart \div Period(s)) + 5) * MaxJitter
  BY <1>2, <1>3, <1>4
<1>6. QED
  <2> DEFINE x == (2 * (Restart \div Period(s)) + 5) * MaxJitter
             p == Period(s)
  <2>1. x \in Int
    BY <1>2, <1>4
  <2>2. 5 * MaxJitter <= x /\ x < p /\ p \in Nat
    BY <1>1, <1>2, <1>5
  <2> HIDE DEF x, p
  <2>3. 5 * MaxJitter < p
    BY <1>2, <2>1, <2>2
  <2>4. QED
    BY <1>1, <2>3 DEF p

(***************************************************************************)
(* An interval short enough not to restart the window has few enough frames*)
(* to be counted.                                                          *)
(***************************************************************************)
LEMMA FewFrames ==
  ASSUME NEW s \in Sources, NEW n \in Nat, n * Period(s) <= Restart + MaxJitter
  PROVE  (2 * n + 3) * MaxJitter < Period(s)
<1> DEFINE p == Period(s)
           J == MaxJitter
           r == Restart \div p
<1>1. p \in Nat /\ p >= 1000 /\ J \in Nat /\ 5 * J < p
  BY SourcePeriod, JitterFacts
<1>2. (2 * r + 5) * J < p
  BY JitterFacts
<1>3. n * p <= 48000 + J
  BY DEF Restart
<1>4. r = 48000 \div p
  BY DEF Restart
<1> HIDE DEF p, J, r
<1>5. r \in Nat /\ 48000 < p * r + p
  BY <1>1, <1>4
<1>6. n <= r + 1
  <2> SUFFICES ASSUME r + 2 <= n PROVE FALSE
    BY <1>5
  <2>1. (r + 2) * p <= n * p
    BY <1>1, <1>5, ProductGrows
  <2>2. (r + 2) * p = p * r + p + p /\ p * r \in Nat /\ n * p \in Nat
    BY <1>1, <1>5
  <2>3. QED
    BY <1>1, <1>3, <1>5, <2>1, <2>2
<1>7. (2 * n + 3) * J <= (2 * r + 5) * J
  <2>1. 2 * n + 3 <= 2 * r + 5 /\ 2 * n + 3 \in Int /\ 2 * r + 5 \in Int
    BY <1>5, <1>6
  <2>2. QED
    BY <1>1, <2>1, ProductGrows
<1>8. (2 * n + 3) * J < p
  <2>1. (2 * n + 3) * J \in Int /\ (2 * r + 5) * J \in Int
    BY <1>1, <1>5
  <2>2. QED
    BY <1>1, <1>2, <1>7, <2>1
<1>9. QED
  BY <1>8 DEF p, J

-----------------------------------------------------------------------------
Meter == [seen : BOOLEAN, elapsed : Nat, min_delta : Nat, frames : Nat, blind : BOOLEAN]

\* The shortest interval seen is one frame's, or two frames' or more; or none was seen.
Least(m, p) ==
  \/ m = 0
  \/ m + MaxJitter >= p /\ m <= p + MaxJitter
  \/ m + MaxJitter >= 2 * p

\* The window is its frames' time, but for the jitter of its two ends, the last j.
WholeFrames(w, p, j) == \E c \in Jitters : w.elapsed + c = w.frames * p + j

\* What a frame end makes of a window, field by field.
LEMMA FrameEndWindow ==
  ASSUME NEW w \in Meter, NEW d \in Nat, NEW t \in Nat, w.seen, d <= Restart,
         NEW m \in Nat, m > 0,
         w.min_delta = 0 \/ d < w.min_delta => m = d,
         ~(w.min_delta = 0) /\ ~(d < w.min_delta) => m = w.min_delta,
         NEW v, v = hws_rate_frame_end(w, d, t > 0)
  PROVE  /\ v \in Meter /\ v.seen /\ v.min_delta = m
         /\ v.elapsed = w.elapsed + d
         /\ \E u : u.min_delta = m /\ v.frames = w.frames + Spans(u, d)
         /\ v.blind <=> w.blind \/ (t > 0 /\ 2 * m > 3 * Period(source))
<1> DEFINE u == [w EXCEPT !.min_delta = m]
           s == Spans(u, d)
           b == t > 0 /\ 2 * m > 3 * Period(source)
<1>1. ~(d > Restart)
  BY DEF Restart
<1>2. v = [u EXCEPT !.elapsed = @ + d, !.frames = @ + s, !.blind = @ \/ b]
  BY <1>1 DEF hws_rate_frame_end
<1>3. u \in Meter /\ u.min_delta = m /\ u.elapsed = w.elapsed /\ u.frames = w.frames
  BY DEF Meter
<1>4. (u.seen <=> w.seen) /\ (u.blind <=> w.blind)
  BY DEF Meter
<1>5. s \in Nat
  BY <1>3, SpansSome
<1>6. b \in BOOLEAN
  OBVIOUS
<1>7. v.min_delta = m /\ v.elapsed = w.elapsed + d /\ v.frames = w.frames + s
  <2> HIDE DEF u, s, b
  <2> QED BY <1>2, <1>3 DEF Meter
<1>8. v.seen
  <2> HIDE DEF u, s, b
  <2> QED BY <1>2, <1>3, <1>4 DEF Meter
<1>9. v.blind <=> w.blind \/ b
  <2> HIDE DEF u, s, b
  <2> QED BY <1>2, <1>3, <1>4 DEF Meter
<1>10. v \in Meter
  <2> DEFINE f == u.elapsed + d
             g == u.frames + s
             c == u.blind \/ b
  <2>1. v = [u EXCEPT !.elapsed = f, !.frames = g, !.blind = c]
    <3> HIDE DEF u, s, b
    <3> QED BY <1>2
  <2>2. f \in Nat /\ g \in Nat /\ c \in BOOLEAN
    <3> HIDE DEF u, s, b
    <3> QED BY <1>3, <1>5 DEF Meter
  <2> HIDE DEF u, s, b, f, g, c
  <2>3. QED
    BY <1>3, <2>1, <2>2 DEF Meter
<1>11. \E x : x.min_delta = m /\ v.frames = w.frames + Spans(x, d)
  <2> HIDE DEF u
  <2> QED BY <1>3, <1>7
<1>12. QED
  BY <1>7, <1>8, <1>9, <1>10, <1>11

(***************************************************************************)
(* A frame end k + 1 frames after the one before keeps the window whole:   *)
(* either it is blind, or the interval is counted as k + 1 frames.         *)
(***************************************************************************)
LEMMA WindowGoes ==
  ASSUME source \in Sources, NEW w \in Meter, w.seen,
         NEW l \in Jitters, NEW j \in Jitters, NEW k \in Nat,
         NEW t \in Nat, t = k * Period(source),
         Least(w.min_delta, Period(source)),
         ~w.blind => WholeFrames(w, Period(source), l),
         NEW d, d = t + Period(source) + j - l, d <= Restart,
         NEW v, v = hws_rate_frame_end(w, d, t > 0)
  PROVE  /\ v \in Meter /\ v.seen /\ v.frames > 0
         /\ Least(v.min_delta, Period(source))
         /\ ~v.blind => WholeFrames(v, Period(source), j)
<1> DEFINE p == Period(source)
           J == MaxJitter
           m == IF w.min_delta = 0 \/ d < w.min_delta THEN d ELSE w.min_delta
           b == w.blind \/ (t > 0 /\ 2 * m > 3 * p)
           n == k + 1
<1>1. /\ p \in Nat /\ p >= 1000 /\ J \in Nat /\ 5 * J < p
      /\ j \in Nat /\ j <= J /\ l \in Nat /\ l <= J
  BY SourcePeriod, JitterFacts
<1>2. n * p = t + p /\ n \in Nat \ {0} /\ t \in Nat /\ (k = 0 => t = 0) /\ (k > 0 => t >= p)
  <2>1. n * p = k * p + p /\ t = k * p
    BY <1>1
  <2>2. k > 0 => 1 * p <= k * p
    BY <1>1, ProductGrows
  <2>3. k = 0 => k * p = 0
    BY <1>1
  <2>4. QED
    BY <1>1, <2>1, <2>2, <2>3
<1>3. d \in Nat /\ d > 0 /\ d + J >= n * p /\ d <= n * p + J
  <2>1. d = t + p + j - l
    OBVIOUS
  <2> HIDE DEF p, J, n
  <2> QED BY <1>1, <1>2, <2>1
<1>4. /\ w.elapsed \in Nat /\ w.min_delta \in Nat /\ w.frames \in Nat
      /\ w.blind \in BOOLEAN /\ w.seen \in BOOLEAN
  BY DEF Meter
<1>5. m \in Nat /\ m > 0 /\ m <= d
  <2> QED BY <1>3, <1>4
<1>6. /\ v \in Meter /\ v.seen /\ v.min_delta = m
      /\ v.elapsed = w.elapsed + d
      /\ \E u : u.min_delta = m /\ v.frames = w.frames + Spans(u, d)
      /\ v.blind <=> b
  <2>1. d <= Restart /\ v = hws_rate_frame_end(w, d, t > 0)
    OBVIOUS
  <2>2. m = IF w.min_delta = 0 \/ d < w.min_delta THEN d ELSE w.min_delta
    OBVIOUS
  <2>3. /\ v \in Meter /\ v.seen /\ v.min_delta = m
        /\ v.elapsed = w.elapsed + d
        /\ \E u : u.min_delta = m /\ v.frames = w.frames + Spans(u, d)
        /\ v.blind <=> w.blind \/ (t > 0 /\ 2 * m > 3 * Period(source))
    <3>1. w \in Meter /\ d \in Nat /\ t \in Nat /\ w.seen /\ m \in Nat /\ m > 0
      BY <1>3, <1>5
    <3>2. ~w.min_delta = 0 /\ ~d < w.min_delta => m = w.min_delta
      BY <2>2
    <3>3. w.min_delta = 0 \/ d < w.min_delta => m = d
      BY <2>2
    <3> HIDE DEF m, b, p, J, n
    <3>4. QED
      BY <2>1, <3>1, <3>2, <3>3, FrameEndWindow
  <2>4. QED
    BY <2>3
<1>7. PICK u, s : u.min_delta = m /\ s = Spans(u, d) /\ v.frames = w.frames + s
  BY <1>6
<1>8. s \in Nat \ {0}
  <2> HIDE DEF m
  <2> QED BY <1>3, <1>5, <1>7, SpansSome
<1>9. v.frames > 0
  <2> HIDE DEF m
  <2> QED BY <1>4, <1>7, <1>8
<1>10. Least(m, p)
  <2>1. Least(w.min_delta, p)
    OBVIOUS
  <2>2. CASE m = w.min_delta
    BY <2>1, <2>2
  <2>3. CASE m = d
    <3>1. k = 0 \/ k > 0
      OBVIOUS
    <3> HIDE DEF m, n, p, J
    <3>2. QED
      BY <1>1, <1>2, <1>3, <2>3, <3>1 DEF Least, J
  <2>4. QED
    BY <2>2, <2>3
<1>11. ~b => m + J >= p /\ m <= p + J
  <2> SUFFICES ASSUME ~b PROVE m + J >= p /\ m <= p + J
    OBVIOUS
  <2>1. Least(m, p) /\ ~(m = 0)
    BY <1>5, <1>10
  <2>2. k = 0 => m <= p + J
    <3> HIDE DEF m, p, J, n
    <3> QED BY <1>1, <1>2, <1>3, <1>5
  <2>3. k > 0 => ~(2 * m > 3 * p)
    <3>1. k > 0 => t > 0
      <4> HIDE DEF p, J, n
      <4> QED BY <1>1, <1>2
    <3>2. QED
      BY <3>1
  <2> HIDE DEF m, p, J, n
  <2>4. QED
    BY <1>1, <1>5, <2>1, <2>2, <2>3 DEF Least, J
<1>12. ~b => WholeFrames(v, p, j)
  <2> SUFFICES ASSUME ~b PROVE WholeFrames(v, p, j)
    OBVIOUS
  <2>1. (2 * n + 3) * J < p
    <3>1. d <= Restart
      OBVIOUS
    <3>2. n * p <= Restart + J
      <4> HIDE DEF p, J, n
      <4> QED BY <1>1, <1>2, <1>3, <3>1 DEF Restart
    <3>3. n \in Nat
      BY <1>2
    <3> HIDE DEF n
    <3>4. QED
      BY <3>2, <3>3, FewFrames
  <2>2. s = n
    <3>1. m + J >= p /\ m <= p + J
      BY <1>11
    <3>2. p \in Nat /\ J \in Nat /\ n \in Nat \ {0} /\ m \in Nat /\ u.min_delta = m
      BY <1>1, <1>2, <1>5, <1>7
    <3> HIDE DEF m, p, J, n
    <3>3. Spans(u, d) = n
      BY <1>3, <2>1, <3>1, <3>2, SpansExact
    <3>4. QED
      BY <1>7, <3>3
  <2>3. PICK c \in Jitters : w.elapsed + c = w.frames * p + l
    <3>1. ~w.blind
      OBVIOUS
    <3>2. QED
      BY <3>1 DEF WholeFrames
  <2>4. c \in Nat
    BY JitterFacts
  <2>5. (w.frames + n) * p = w.frames * p + n * p
    <3> HIDE DEF p, n
    <3> QED BY <1>1, <1>2, <1>4
  <2>6. (w.elapsed + d) + c = (w.frames + n) * p + j
    <3>1. d = t + p + j - l
      OBVIOUS
    <3>2. w.frames * p \in Nat
      <4> HIDE DEF p
      <4> QED BY <1>1, <1>4
    <3> HIDE DEF p, n
    <3>3. QED
      BY <1>1, <1>2, <1>3, <1>4, <2>3, <2>4, <2>5, <3>1, <3>2
  <2>7. v.elapsed = w.elapsed + d /\ v.frames = w.frames + n
    <3> HIDE DEF m, b, n
    <3> QED BY <1>6, <1>7, <2>2
  <2>8. QED
    <3> HIDE DEF n
    <3> QED BY <2>6, <2>7 DEF WholeFrames
<1>13. QED
  <2> HIDE DEF m, b
  <2> QED BY <1>6, <1>9, <1>10, <1>11, <1>12

-----------------------------------------------------------------------------
Reading == [elapsed : Nat, frames : Nat \ {0}, age : Nat, of : Sources, blind : BOOLEAN]

\* Frames that come again within 200 ms come whole periods apart.
WindowInv ==
  win.seen /\ ~(wait > Restart)
    => /\ \E k \in Nat : wait = k * Period(source)
       /\ Least(win.min_delta, Period(source))
       /\ ~win.blind => WholeFrames(win, Period(source), late)

\* A measurement younger than the last change is of the input there is.
YoungIsCurrent == meas # NoMeas /\ meas.age < since => meas.of = source

RateInv == RateTypeOK /\ WindowInv /\ RateExact /\ YoungIsCurrent

\* Times up to two seconds are told apart.
LEMMA CapFacts ==
  ASSUME NEW a \in Nat, NEW b \in Nat
  PROVE  /\ Cap(a) \in 0 .. StaleAfter + 1
         /\ Cap(a) < Cap(b) => a < b
<1>1. StaleAfter \in Nat
  BY DEF StaleAfter, Second
<1>2. QED
  BY <1>1 DEF Cap

\* They are natural numbers.
LEMMA CapNat ==
  ASSUME NEW a \in Nat
  PROVE  Cap(a) \in Nat
  BY DEF Cap, StaleAfter, Second

\* An older measurement is the same one.
LEMMA OlderFacts ==
  ASSUME NEW m, m = NoMeas \/ m \in Reading, NEW t \in Nat,
         NEW o, o = Older(m, t)
  PROVE  /\ o = NoMeas \/ o \in Reading
         /\ o # NoMeas => /\ m # NoMeas /\ m.age \in Nat
                          /\ o.elapsed = m.elapsed /\ o.frames = m.frames /\ o.of = m.of
                          /\ o.blind <=> m.blind
                          /\ o.age = Cap(m.age + t)
<1>1. CASE m = NoMeas
  BY <1>1, Zenon DEF Older
<1>2. CASE m # NoMeas
  <2> DEFINE a == Cap(m.age + t)
  <2>1. m \in Reading
    BY <1>2
  <2>2. m.age \in Nat
    BY <2>1 DEF Reading
  <2>3. o = [m EXCEPT !.age = a]
    BY <1>2, Zenon DEF Older
  <2>4. a \in Nat
    <3>1. m.age + t \in Nat
      BY <2>2
    <3>2. QED
      BY <3>1, CapNat, Zenon
  <2> HIDE DEF a
  <2>5. o \in Reading
    BY <2>1, <2>3, <2>4 DEF Reading
  <2>6. o.elapsed = m.elapsed /\ o.frames = m.frames /\ o.of = m.of /\ o.age = a
    BY <2>1, <2>3 DEF Reading
  <2>7. o.blind <=> m.blind
    BY <2>1, <2>3 DEF Reading
  <2>8. QED
    BY <1>2, <2>5, <2>6, <2>7, <2>2, Zenon DEF a
<1>3. QED
  BY <1>1, <1>2

(***************************************************************************)
(* A measurement that only grows older stays what it was: of the same      *)
(* input, and no younger than a change it was not.                         *)
(***************************************************************************)
LEMMA OlderKeeps ==
  ASSUME RateInv, NEW t \in Nat, meas' = Older(meas, t)
  PROVE  /\ meas' = NoMeas \/ meas' \in Reading
         /\ RateExact'
         /\ source' = source /\ since' = Cap(since + t) => YoungIsCurrent'
         /\ since' = 0 => YoungIsCurrent'
<1>1. meas = NoMeas \/ meas \in Reading
  BY DEF RateInv, RateTypeOK, Reading
<1>2. /\ meas' = NoMeas \/ meas' \in Reading
      /\ meas' # NoMeas =>
           /\ meas # NoMeas /\ meas.age \in Nat
           /\ meas'.elapsed = meas.elapsed /\ meas'.frames = meas.frames /\ meas'.of = meas.of
           /\ meas'.blind <=> meas.blind
           /\ meas'.age = Cap(meas.age + t)
  BY <1>1, OlderFacts
<1>3. RateExact'
  BY <1>2 DEF RateInv, RateExact
<1>4. since \in Nat
  BY DEF RateInv, RateTypeOK
<1>5. ASSUME source' = source, since' = Cap(since + t), meas' # NoMeas, meas'.age < since'
      PROVE  meas'.of = source'
  <2>1. meas.age + t \in Nat /\ since + t \in Nat
    BY <1>2, <1>4, <1>5
  <2>2. Cap(meas.age + t) < Cap(since + t)
    BY <1>2, <1>5
  <2>3. meas.age + t < since + t
    BY <2>1, <2>2, CapFacts
  <2>4. meas.age < since
    BY <1>2, <1>4, <1>5, <2>3
  <2>5. QED
    BY <1>2, <1>5, <2>4 DEF RateInv, YoungIsCurrent
<1>6. ASSUME since' = 0, meas' # NoMeas PROVE ~(meas'.age < since')
  <2>1. meas'.age \in Nat
    BY <1>2, <1>6 DEF Reading
  <2>2. QED
    BY <1>6, <2>1
<1>7. QED
  BY <1>2, <1>3, <1>5, <1>6 DEF YoungIsCurrent

-----------------------------------------------------------------------------
\* What is assumed of the constants besides the jitter.
LEMMA RateConstants ==
  /\ Sources \subseteq Std /\ Pauses \subseteq Nat /\ MaxEvents \in Nat
  /\ \A g \in Gaps : g \in Nat /\ g > Restart
<1>1. Sources \subseteq Std /\ Pauses \subseteq Nat /\ MaxEvents \in Nat
  BY RateAssumption
<1>2. \A g \in Gaps : g \in Nat /\ g > Restart
  BY RateAssumption
<1>3. QED
  BY <1>1, <1>2, Zenon

\* What happens is counted up to the bound.
LEMMA EventsGo ==
  ASSUME Happens, events \in 0 .. MaxEvents
  PROVE  events' \in 0 .. MaxEvents
  BY RateConstants DEF Happens

\* No time is a time.
LEMMA JustNow == 0 \in 0 .. StaleAfter + 1
<1>1. StaleAfter \in Nat
  BY DEF StaleAfter, Second
<1>2. QED
  BY <1>1

\* The types that a step starts from.
LEMMA RateTypes ==
  ASSUME RateInv
  PROVE  /\ source \in Sources /\ capturing \in BOOLEAN /\ wait \in Nat /\ late \in Jitters
         /\ win \in Meter /\ since \in Nat /\ since \in 0 .. StaleAfter + 1
         /\ events \in 0 .. MaxEvents
         /\ meas = NoMeas \/ meas \in Reading
<1>1. /\ source \in Sources /\ capturing \in BOOLEAN /\ wait \in Nat /\ late \in Jitters
      /\ win \in Meter /\ since \in 0 .. StaleAfter + 1 /\ events \in 0 .. MaxEvents
  BY Zenon DEF RateInv, RateTypeOK, Meter
<1>2. since \in Nat
  <2>1. StaleAfter \in Nat
    BY DEF StaleAfter, Second
  <2>2. QED
    BY <1>1, <2>1
<1>3. meas = NoMeas \/ meas \in Reading
  BY Zenon DEF RateInv, RateTypeOK, Reading
<1>4. QED
  BY <1>1, <1>2, <1>3, Zenon

\* And those it must end in.
LEMMA RateTypesGo ==
  ASSUME (source \in Sources)', (capturing \in BOOLEAN)', (wait \in Nat)', (late \in Jitters)',
         (win \in Meter)', (since \in 0 .. StaleAfter + 1)', (events \in 0 .. MaxEvents)',
         (meas = NoMeas \/ meas \in Reading)'
  PROVE  RateTypeOK'
  BY DEF RateTypeOK, Meter, Reading

\* A window that restarts is whole.
LEMMA RestartedWhole ==
  ASSUME NEW p \in Nat, NEW j \in Jitters
  PROVE  /\ Restarted \in Meter /\ Restarted.seen /\ Least(Restarted.min_delta, p)
         /\ Restarted.elapsed = 0 /\ WholeFrames(Restarted, p, j)
<1>1. Restarted \in Meter /\ Restarted.seen /\ Least(Restarted.min_delta, p)
  BY DEF Restarted, Meter, Least
<1>2. Restarted.elapsed = 0 /\ Restarted.frames = 0
  BY DEF Restarted
<1>3. j \in Nat /\ 0 + j = 0 * p + j
  BY JitterFacts
<1>4. QED
  BY <1>1, <1>2, <1>3 DEF WholeFrames

(***************************************************************************)
(* The window after a frame end is whole or blind, in any state of it:     *)
(* restarted by the first frame end of a capture and by a gap, or longer.  *)
(***************************************************************************)
LEMMA FrameEndWhole ==
  ASSUME RateInv, NEW j \in Jitters,
         NEW d, d = wait + Period(source) + j - late,
         NEW w, w = hws_rate_frame_end(win, d, wait > 0)
  PROVE  /\ w \in Meter /\ w.seen /\ Least(w.min_delta, Period(source))
         /\ ~w.blind => WholeFrames(w, Period(source), j)
         /\ w.elapsed >= Second => w.frames > 0
<1> DEFINE p == Period(source)
<1>1. /\ source \in Sources /\ wait \in Nat /\ late \in Jitters /\ win \in Meter
      /\ p \in Nat /\ 5 * MaxJitter < p /\ MaxJitter \in Nat
      /\ j \in Nat /\ late \in Nat /\ late <= MaxJitter
  BY RateTypes, SourcePeriod, JitterFacts
<1>2. d \in Nat /\ d > wait
  <2>1. d = wait + p + j - late
    OBVIOUS
  <2> HIDE DEF p
  <2>2. QED
    BY <1>1, <2>1
<1>3. CASE ~win.seen \/ d > Restart
  <2>1. w = Restarted
    BY <1>3 DEF hws_rate_frame_end
  <2>2. QED
    BY <1>1, <2>1, RestartedWhole DEF Second
<1>4. CASE win.seen /\ ~(d > Restart)
  <2>1. d <= Restart /\ ~(wait > Restart)
    BY <1>1, <1>2, <1>4 DEF Restart
  <2>2. /\ Least(win.min_delta, p)
        /\ ~win.blind => WholeFrames(win, p, late)
    BY <1>4, <2>1 DEF RateInv, WindowInv
  <2>3. PICK k \in Nat : wait = k * p
    BY <1>4, <2>1 DEF RateInv, WindowInv
  <2>4. w \in Meter /\ w.seen /\ w.frames > 0 /\ Least(w.min_delta, p)
    BY <1>1, <1>4, <2>1, <2>2, <2>3, WindowGoes
  <2>5. ~w.blind => WholeFrames(w, p, j)
    BY <1>1, <1>4, <2>1, <2>2, <2>3, WindowGoes
  <2>6. QED
    BY <2>4, <2>5
<1>5. QED
  BY <1>3, <1>4

\* A whole window of a second or more measures its own rate.
LEMMA WholeMeasures ==
  ASSUME NEW s \in Sources, NEW w \in Meter, NEW j \in Jitters,
         WholeFrames(w, Period(s), j), w.elapsed >= Second, w.frames > 0
  PROVE  hws_snap_interval(w.elapsed, w.frames, 200) = s
<1> DEFINE x == w.frames * Period(s)
<1>1. w.elapsed \in Nat /\ w.frames \in Nat \ {0}
  BY DEF Meter
<1>2. s \in Std /\ Period(s) \in Nat
  BY SourcePeriod
<1>3. PICK c \in Jitters : w.elapsed + c = x + j
  BY DEF WholeFrames
<1>4. /\ c \in Nat /\ c <= MaxJitter /\ j \in Nat /\ j <= MaxJitter
      /\ MaxJitter \in Nat /\ 2003 * MaxJitter < Second
  BY JitterFacts
<1>5. x \in Nat
  BY <1>1, <1>2
<1>6. w.elapsed <= x + MaxJitter /\ x <= w.elapsed + MaxJitter
  <2> HIDE DEF x
  <2> QED BY <1>1, <1>3, <1>4, <1>5
<1>7. QED
  BY <1>1, <1>2, <1>4, <1>6, SnapExact

-----------------------------------------------------------------------------
\* A frame end keeps the window whole, and measures the input's own rate.
LEMMA RateFrameEnd ==
  ASSUME RateInv, NEW j \in Jitters, hws_frame_end(j)
  PROVE  RateInv'
<1> DEFINE p == Period(source)
           d == wait + p + j - late
           w == hws_rate_frame_end(win, d, wait > 0)
<1>1. /\ source \in Sources /\ capturing \in BOOLEAN /\ wait \in Nat /\ late \in Jitters
      /\ win \in Meter /\ since \in Nat /\ events \in 0 .. MaxEvents
      /\ meas = NoMeas \/ meas \in Reading
  BY RateTypes
<1>2. p \in Nat
  BY <1>1, SourcePeriod
<1>3. /\ w \in Meter /\ w.seen /\ Least(w.min_delta, p)
      /\ ~w.blind => WholeFrames(w, p, j)
      /\ w.elapsed >= Second => w.frames > 0
  BY FrameEndWhole
<1>4. /\ IF w.elapsed < Second
         THEN win' = w /\ meas' = Older(meas, wait + p)
         ELSE /\ win' = [w EXCEPT !.elapsed = 0, !.frames = 0, !.blind = FALSE]
              /\ meas' = [elapsed |-> w.elapsed, frames |-> w.frames, age |-> 0,
                          of |-> source, blind |-> w.blind]
      /\ since' = Cap(since + wait + p)
  <2> HIDE DEF RateInv
  <2> QED BY Zenon DEF hws_frame_end
<1>5. /\ late' = j /\ wait' = 0 /\ source' = source /\ capturing' = capturing
      /\ events' = events
  BY DEF hws_frame_end
<1> HIDE DEF w, d
<1>6. since' \in 0 .. StaleAfter + 1
  <2>1. since + wait + p \in Nat
    BY <1>1, <1>2
  <2>2. QED
    BY <1>4, <2>1, CapFacts
<1>7. w.elapsed \in Nat /\ w.frames \in Nat /\ w.blind \in BOOLEAN
  BY <1>3 DEF Meter
<1>8. /\ win' \in Meter
      /\ Least(win'.min_delta, p)
      /\ ~win'.blind => WholeFrames(win', p, j)
  <2>1. CASE w.elapsed < Second
    BY <1>3, <1>4, <2>1
  <2>2. CASE ~(w.elapsed < Second)
    <3>1. win' = [w EXCEPT !.elapsed = 0, !.frames = 0, !.blind = FALSE]
      BY <1>4, <2>2
    <3>2. /\ win' \in Meter /\ win'.min_delta = w.min_delta
          /\ win'.elapsed = 0 /\ win'.frames = 0
      BY <1>3, <3>1 DEF Meter
    <3>3. j \in Nat /\ 0 + j = 0 * p + j
      BY <1>2, JitterFacts
    <3>4. WholeFrames(win', p, j)
      BY <3>2, <3>3 DEF WholeFrames
    <3>5. QED
      BY <1>3, <3>2, <3>4
  <2>3. QED
    BY <2>1, <2>2
<1>9. WindowInv'
  <2>1. Period(source)' = p
    BY <1>5
  <2>2. 0 \in Nat /\ wait' = 0 * p
    BY <1>2, <1>5
  <2>3. Least(win.min_delta, Period(source))'
    BY <1>8, <2>1 DEF Least
  <2>4. (~win.blind => WholeFrames(win, Period(source), late))'
    BY <1>5, <1>8, <2>1 DEF WholeFrames
  <2>5. (\E k \in Nat : wait = k * Period(source))'
    BY <2>1, <2>2
  <2>6. QED
    BY <2>3, <2>4, <2>5 DEF WindowInv
<1>10. /\ meas' = NoMeas \/ meas' \in Reading
       /\ RateExact' /\ YoungIsCurrent'
  <2>1. CASE w.elapsed < Second
    <3>1. meas' = Older(meas, wait + p)
      BY <1>4, <2>1
    <3>2. wait + p \in Nat /\ since + wait + p = since + (wait + p)
      BY <1>1, <1>2
    <3>3. source' = source /\ since' = Cap(since + (wait + p))
      BY <1>4, <1>5, <3>2
    <3>4. QED
      BY <3>1, <3>2, <3>3, OlderKeeps
  <2>2. CASE ~(w.elapsed < Second)
    <3>1. meas' = [elapsed |-> w.elapsed, frames |-> w.frames, age |-> 0,
                   of |-> source, blind |-> w.blind]
      BY <1>4, <2>2
    <3>2. w.elapsed >= Second /\ w.frames \in Nat \ {0}
      BY <1>3, <1>7, <2>2 DEF Second
    <3>3. meas' \in Reading
      BY <1>1, <1>7, <3>1, <3>2 DEF Reading
    <3>4. meas'.elapsed = w.elapsed /\ meas'.frames = w.frames /\ meas'.of = source
      BY <3>1
    <3>5. meas'.blind <=> w.blind
      BY <1>7, <3>1
    <3>6. RateExact'
      <4>1. ~w.blind => hws_snap_interval(w.elapsed, w.frames, 200) = source
        BY <1>1, <1>3, <3>2, WholeMeasures
      <4>2. QED
        BY <3>4, <3>5, <4>1 DEF RateExact
    <3>7. YoungIsCurrent'
      BY <1>5, <3>4 DEF YoungIsCurrent
    <3>8. QED
      BY <3>3, <3>6, <3>7
  <2>3. QED
    BY <2>1, <2>2
<1>11. RateTypeOK'
  BY <1>1, <1>5, <1>6, <1>8, <1>10, RateTypesGo
<1>12. QED
  BY <1>9, <1>10, <1>11 DEF RateInv

(***************************************************************************)
(* While frames pass that nobody counts, of the same input, the window and *)
(* the measurement stay.                                                   *)
(***************************************************************************)
LEMMA RateWaits ==
  ASSUME RateInv, NEW k \in Nat, wait' = wait + k * Period(source),
         (capturing \in BOOLEAN)', (events \in 0 .. MaxEvents)',
         UNCHANGED <<source, late, win, meas, since>>
  PROVE  RateInv'
<1> DEFINE p == Period(source)
<1>1. /\ source \in Sources /\ wait \in Nat /\ late \in Jitters
      /\ win \in Meter /\ since \in 0 .. StaleAfter + 1
      /\ meas = NoMeas \/ meas \in Reading
  BY RateTypes
<1>2. p \in Nat /\ k * p \in Nat
  BY <1>1, SourcePeriod
<1>3. wait' \in Nat /\ wait' >= wait
  <2>1. wait' = wait + k * p
    OBVIOUS
  <2> HIDE DEF p
  <2>2. QED
    BY <1>1, <1>2, <2>1
<1>4. RateTypeOK'
  BY <1>1, <1>3, RateTypesGo
<1>5. WindowInv'
  <2> SUFFICES ASSUME win'.seen, ~(wait' > Restart)
               PROVE  /\ \E i \in Nat : wait' = i * Period(source)'
                      /\ Least(win.min_delta, Period(source))'
                      /\ (~win.blind => WholeFrames(win, Period(source), late))'
    BY DEF WindowInv
  <2>1. win.seen /\ ~(wait > Restart)
    BY <1>1, <1>3 DEF Restart
  <2>2. PICK i \in Nat : wait = i * p
    BY <2>1 DEF RateInv, WindowInv
  <2>3. wait' = (i + k) * p /\ i + k \in Nat
    <3>1. wait' = wait + k * p
      OBVIOUS
    <3> HIDE DEF p
    <3>2. QED
      BY <1>2, <2>2, <3>1
  <2>4. Period(source)' = p
    OBVIOUS
  <2>5. /\ Least(win.min_delta, Period(source))
        /\ ~win.blind => WholeFrames(win, Period(source), late)
    BY <2>1 DEF RateInv, WindowInv
  <2>6. Least(win.min_delta, Period(source))'
    BY <2>5 DEF Least
  <2>7. (~win.blind => WholeFrames(win, Period(source), late))'
    BY <2>5 DEF WholeFrames
  <2>8. QED
    BY <2>3, <2>4, <2>6, <2>7
<1>6. RateExact' /\ YoungIsCurrent'
  BY DEF RateInv, RateExact, YoungIsCurrent
<1>7. QED
  BY <1>4, <1>5, <1>6 DEF RateInv

-----------------------------------------------------------------------------
\* A change of the mode: nothing is counted before the window restarts.
LEMMA RateChange ==
  ASSUME RateInv, NEW s \in Sources, NEW gap \in Gaps, ChangeMode(s, gap)
  PROVE  RateInv'
<1>1. /\ wait \in Nat /\ late \in Jitters /\ win \in Meter /\ capturing \in BOOLEAN
      /\ events \in 0 .. MaxEvents
      /\ meas = NoMeas \/ meas \in Reading
  BY RateTypes
<1>2. /\ source' = s /\ wait' = gap /\ since' = 0 /\ meas' = Older(meas, wait)
      /\ late' = late /\ win' = win /\ capturing' = capturing
  BY DEF ChangeMode
<1>3. gap \in Nat /\ gap > Restart
  BY RateConstants
<1>4. events' \in 0 .. MaxEvents
  BY <1>1, EventsGo DEF ChangeMode
<1>5. (meas = NoMeas \/ meas \in Reading)' /\ RateExact' /\ YoungIsCurrent'
  BY <1>1, <1>2, OlderKeeps
<1>6. 0 \in 0 .. StaleAfter + 1
  BY JustNow
<1>7. RateTypeOK'
  BY <1>1, <1>2, <1>3, <1>4, <1>5, <1>6, RateTypesGo
<1>8. WindowInv'
  BY <1>2, <1>3 DEF WindowInv
<1>9. QED
  BY <1>5, <1>7, <1>8 DEF RateInv

\* Sleep: the next frame end restarts the window.
LEMMA RateResume ==
  ASSUME RateInv, NEW s \in Sources, hws_resume(s)
  PROVE  RateInv'
<1>1. /\ wait \in Nat /\ late \in Jitters /\ win \in Meter /\ capturing \in BOOLEAN
      /\ events \in 0 .. MaxEvents
      /\ meas = NoMeas \/ meas \in Reading
  BY RateTypes
<1>2. /\ source' = s /\ wait' = 0 /\ since' = 0 /\ meas' = Older(meas, wait)
      /\ late' = late /\ win' = [win EXCEPT !.seen = FALSE] /\ capturing' = capturing
  BY DEF hws_resume
<1>3. win' \in Meter /\ ~win'.seen
  BY <1>1, <1>2 DEF Meter
<1>4. events' \in 0 .. MaxEvents
  BY <1>1, EventsGo DEF hws_resume
<1>5. (meas = NoMeas \/ meas \in Reading)' /\ RateExact' /\ YoungIsCurrent'
  BY <1>1, <1>2, OlderKeeps
<1>6. 0 \in 0 .. StaleAfter + 1
  BY JustNow
<1>7. RateTypeOK'
  BY <1>1, <1>2, <1>3, <1>4, <1>5, <1>6, RateTypesGo
<1>8. WindowInv'
  BY <1>3 DEF WindowInv
<1>9. QED
  BY <1>5, <1>7, <1>8 DEF RateInv

\* Nothing was seen or measured yet.
LEMMA RateStart ==
  ASSUME RateInit
  PROVE  RateInv
<1>1. win \in Meter /\ ~win.seen
  BY DEF RateInit, Restarted, Meter
<1>2. since \in 0 .. StaleAfter + 1
  <2>1. StaleAfter \in Nat
    BY DEF StaleAfter, Second
  <2>2. QED
    BY <2>1 DEF RateInit
<1>3. meas = NoMeas /\ source \in Sources /\ late \in Jitters
  BY DEF RateInit
<1>4. wait \in Nat /\ capturing \in BOOLEAN /\ events \in 0 .. MaxEvents
  <2>1. wait = 0 /\ capturing = FALSE /\ events = 0
    BY DEF RateInit
  <2>2. MaxEvents \in Nat
    BY RateConstants, Zenon
  <2>3. wait \in Nat /\ events \in 0 .. MaxEvents
    BY <2>1, <2>2
  <2>4. capturing \in BOOLEAN
    BY <2>1
  <2>5. QED
    BY <2>3, <2>4
<1>5. RateTypeOK
  BY <1>1, <1>2, <1>3, <1>4 DEF RateTypeOK, Meter
<1>6. WindowInv
  BY <1>1 DEF WindowInv
<1>7. QED
  BY <1>3, <1>5, <1>6 DEF RateInv, RateExact, YoungIsCurrent

\* The invariant is inductive.
LEMMA RateStep ==
  ASSUME RateInv, [RateNext]_rateVars
  PROVE  RateInv'
<1>1. /\ source \in Sources /\ wait \in Nat /\ capturing \in BOOLEAN
      /\ events \in 0 .. MaxEvents
  BY RateTypes
<1>2. Period(source) \in Nat
  BY <1>1, SourcePeriod
<1>3. ASSUME NEW j \in Jitters, hws_frame_end(j) PROVE RateInv'
  BY <1>3, RateFrameEnd
<1>4. CASE MissFrameEnd
  <2>1. wait' = wait + 1 * Period(source)
    BY <1>2, <1>4 DEF MissFrameEnd
  <2>2. events' \in 0 .. MaxEvents
    BY <1>1, <1>4, EventsGo DEF MissFrameEnd
  <2>3. capturing' \in BOOLEAN /\ UNCHANGED <<source, late, win, meas, since>>
    BY <1>1, <1>4 DEF MissFrameEnd
  <2>4. QED
    BY <2>1, <2>2, <2>3, RateWaits
<1>5. CASE StopVideoCapture
  <2>1. wait' = wait + 0 * Period(source)
    BY <1>1, <1>2, <1>5 DEF StopVideoCapture
  <2>2. events' \in 0 .. MaxEvents
    BY <1>1, <1>5, EventsGo DEF StopVideoCapture
  <2>3. capturing' \in BOOLEAN /\ UNCHANGED <<source, late, win, meas, since>>
    BY <1>5 DEF StopVideoCapture
  <2>4. QED
    BY <2>1, <2>2, <2>3, RateWaits
<1>6. ASSUME NEW k \in Pauses, StartVideoCapture(k) PROVE RateInv'
  <2>1. k \in Nat
    BY RateConstants
  <2>2. /\ wait' = wait + k * Period(source)
        /\ capturing' \in BOOLEAN /\ events' \in 0 .. MaxEvents
        /\ UNCHANGED <<source, late, win, meas, since>>
    BY <1>1, <1>6 DEF StartVideoCapture
  <2>3. QED
    BY <2>1, <2>2, RateWaits
<1>7. ASSUME NEW s \in Sources, NEW gap \in Gaps, ChangeMode(s, gap) PROVE RateInv'
  BY <1>7, RateChange
<1>8. ASSUME NEW s \in Sources, hws_resume(s) PROVE RateInv'
  BY <1>8, RateResume
<1>9. CASE UNCHANGED rateVars
  <2>1. /\ wait' = wait + 0 * Period(source)
        /\ capturing' \in BOOLEAN /\ events' \in 0 .. MaxEvents
        /\ UNCHANGED <<source, late, win, meas, since>>
    BY <1>1, <1>2, <1>9 DEF rateVars
  <2>2. QED
    BY <2>1, RateWaits
<1>10. QED
  BY <1>3, <1>4, <1>5, <1>6, <1>7, <1>8, <1>9 DEF RateNext

\* The invariant holds throughout.
LEMMA RateInvAlways == RateSpec => []RateInv
<1>1. RateInit => RateInv
  BY RateStart
<1>2. RateInv /\ [RateNext]_rateVars => RateInv'
  BY RateStep
<1>3. QED
  BY <1>1, <1>2, PTL DEF RateSpec

(***************************************************************************)
(* A window that closes measures the source's own rate (hws_video.c:3578), *)
(* 59.94 apart from 60, through jitter, missed frame ends, stops, changes  *)
(* of the mode and sleep, for any of the standard rates, any number of     *)
(* events and any window: RateInv with the window's arithmetic.            *)
(***************************************************************************)
THEOREM RateExactAlways == RateSpec => []RateExact
<1>1. RateInv => RateExact
  BY DEF RateInv
<1>2. QED
  BY <1>1, RateInvAlways, PTL

-----------------------------------------------------------------------------
\* How far each rate is from the register's.
LEMMA RegisterOff ==
  ASSUME NEW n \in Nat, NEW k \in Std
  PROVE  /\ Off(Second, n, k) \in Nat
         /\ Off(Second, n, k) = n * Period(k) - Second \/ Off(Second, n, k) = Second - n * Period(k)
<1>1. Period(k) \in Nat
  BY PeriodNat
<1>2. n * Period(k) \in Nat
  BY <1>1
<1>3. QED
  BY <1>2 DEF Off, Second

\* The same for the register's whole rates.
LEMMA RegisterSnapIs ==
  ASSUME NEW n \in Nat, NEW b \in Std,
         \A k \in Std : k # b => Off(Second, n, b) < Off(Second, n, k),
         Off(Second, n, b) <= (n * Period(b)) \div 50
  PROVE  hws_snap_interval(Second, n, 50) = b
<1>1. \A k \in Std : Off(Second, n, k) \in Nat
  BY RegisterOff
<1>2. QED
  BY <1>1, SnapIs

(***************************************************************************)
(* What the register's readings snap to, within one part in 50.            *)
(***************************************************************************)
LEMMA RegisterSnaps ==
  /\ hws_snap_interval(Second, 24, 50) = 2
  /\ hws_snap_interval(Second, 25, 50) = 3
  /\ hws_snap_interval(Second, 30, 50) = 5
  /\ hws_snap_interval(Second, 50, 50) = 6
  /\ hws_snap_interval(Second, 51, 50) = 6
  /\ hws_snap_interval(Second, 60, 50) = 8
  /\ hws_snap_interval(Second, 61, 50) = 8
  /\ hws_snap_interval(Second, 100, 50) = 9
  /\ hws_snap_interval(Second, 101, 50) = 9
  /\ hws_snap_interval(Second, 120, 50) = 11
  /\ hws_snap_interval(Second, 121, 50) = 11
  /\ hws_snap_interval(Second, 145, 50) = 12
  /\ hws_snap_interval(Second, 240, 50) = 13
  /\ hws_snap_interval(Second, 241, 50) = 13
<1>1. hws_snap_interval(Second, 24, 50) = 2
  <2>1. 2 \in Std /\ \A k \in Std : k # 2 => Off(Second, 24, 2) < Off(Second, 24, k)
    BY StdPeriods DEF Off, Second
  <2>2. Off(Second, 24, 2) <= (24 * Period(2)) \div 50
    BY StdPeriods DEF Off, Second
  <2>3. QED
    BY <2>1, <2>2, RegisterSnapIs
<1>2. hws_snap_interval(Second, 25, 50) = 3
  <2>1. 3 \in Std /\ \A k \in Std : k # 3 => Off(Second, 25, 3) < Off(Second, 25, k)
    BY StdPeriods DEF Off, Second
  <2>2. Off(Second, 25, 3) <= (25 * Period(3)) \div 50
    BY StdPeriods DEF Off, Second
  <2>3. QED
    BY <2>1, <2>2, RegisterSnapIs
<1>3. hws_snap_interval(Second, 30, 50) = 5
  <2>1. 5 \in Std /\ \A k \in Std : k # 5 => Off(Second, 30, 5) < Off(Second, 30, k)
    BY StdPeriods DEF Off, Second
  <2>2. Off(Second, 30, 5) <= (30 * Period(5)) \div 50
    BY StdPeriods DEF Off, Second
  <2>3. QED
    BY <2>1, <2>2, RegisterSnapIs
<1>4. hws_snap_interval(Second, 50, 50) = 6
  <2>1. 6 \in Std /\ \A k \in Std : k # 6 => Off(Second, 50, 6) < Off(Second, 50, k)
    BY StdPeriods DEF Off, Second
  <2>2. Off(Second, 50, 6) <= (50 * Period(6)) \div 50
    BY StdPeriods DEF Off, Second
  <2>3. QED
    BY <2>1, <2>2, RegisterSnapIs
<1>5. hws_snap_interval(Second, 51, 50) = 6
  <2>1. 6 \in Std /\ \A k \in Std : k # 6 => Off(Second, 51, 6) < Off(Second, 51, k)
    BY StdPeriods DEF Off, Second
  <2>2. Off(Second, 51, 6) <= (51 * Period(6)) \div 50
    BY StdPeriods DEF Off, Second
  <2>3. QED
    BY <2>1, <2>2, RegisterSnapIs
<1>6. hws_snap_interval(Second, 60, 50) = 8
  <2>1. 8 \in Std /\ \A k \in Std : k # 8 => Off(Second, 60, 8) < Off(Second, 60, k)
    BY StdPeriods DEF Off, Second
  <2>2. Off(Second, 60, 8) <= (60 * Period(8)) \div 50
    BY StdPeriods DEF Off, Second
  <2>3. QED
    BY <2>1, <2>2, RegisterSnapIs
<1>7. hws_snap_interval(Second, 61, 50) = 8
  <2>1. 8 \in Std /\ \A k \in Std : k # 8 => Off(Second, 61, 8) < Off(Second, 61, k)
    BY StdPeriods DEF Off, Second
  <2>2. Off(Second, 61, 8) <= (61 * Period(8)) \div 50
    BY StdPeriods DEF Off, Second
  <2>3. QED
    BY <2>1, <2>2, RegisterSnapIs
<1>8. hws_snap_interval(Second, 100, 50) = 9
  <2>1. 9 \in Std /\ \A k \in Std : k # 9 => Off(Second, 100, 9) < Off(Second, 100, k)
    BY StdPeriods DEF Off, Second
  <2>2. Off(Second, 100, 9) <= (100 * Period(9)) \div 50
    BY StdPeriods DEF Off, Second
  <2>3. QED
    BY <2>1, <2>2, RegisterSnapIs
<1>9. hws_snap_interval(Second, 101, 50) = 9
  <2>1. 9 \in Std /\ \A k \in Std : k # 9 => Off(Second, 101, 9) < Off(Second, 101, k)
    BY StdPeriods DEF Off, Second
  <2>2. Off(Second, 101, 9) <= (101 * Period(9)) \div 50
    BY StdPeriods DEF Off, Second
  <2>3. QED
    BY <2>1, <2>2, RegisterSnapIs
<1>10. hws_snap_interval(Second, 120, 50) = 11
  <2>1. 11 \in Std /\ \A k \in Std : k # 11 => Off(Second, 120, 11) < Off(Second, 120, k)
    BY StdPeriods DEF Off, Second
  <2>2. Off(Second, 120, 11) <= (120 * Period(11)) \div 50
    BY StdPeriods DEF Off, Second
  <2>3. QED
    BY <2>1, <2>2, RegisterSnapIs
<1>11. hws_snap_interval(Second, 121, 50) = 11
  <2>1. 11 \in Std /\ \A k \in Std : k # 11 => Off(Second, 121, 11) < Off(Second, 121, k)
    BY StdPeriods DEF Off, Second
  <2>2. Off(Second, 121, 11) <= (121 * Period(11)) \div 50
    BY StdPeriods DEF Off, Second
  <2>3. QED
    BY <2>1, <2>2, RegisterSnapIs
<1>12. hws_snap_interval(Second, 145, 50) = 12
  <2>1. 12 \in Std /\ \A k \in Std : k # 12 => Off(Second, 145, 12) < Off(Second, 145, k)
    BY StdPeriods DEF Off, Second
  <2>2. Off(Second, 145, 12) <= (145 * Period(12)) \div 50
    BY StdPeriods DEF Off, Second
  <2>3. QED
    BY <2>1, <2>2, RegisterSnapIs
<1>13. hws_snap_interval(Second, 240, 50) = 13
  <2>1. 13 \in Std /\ \A k \in Std : k # 13 => Off(Second, 240, 13) < Off(Second, 240, k)
    BY StdPeriods DEF Off, Second
  <2>2. Off(Second, 240, 13) <= (240 * Period(13)) \div 50
    BY StdPeriods DEF Off, Second
  <2>3. QED
    BY <2>1, <2>2, RegisterSnapIs
<1>14. hws_snap_interval(Second, 241, 50) = 13
  <2>1. 13 \in Std /\ \A k \in Std : k # 13 => Off(Second, 241, 13) < Off(Second, 241, k)
    BY StdPeriods DEF Off, Second
  <2>2. Off(Second, 241, 13) <= (241 * Period(13)) \div 50
    BY StdPeriods DEF Off, Second
  <2>3. QED
    BY <2>1, <2>2, RegisterSnapIs
<1>15. QED
  BY <1>1, <1>2, <1>3, <1>4, <1>5, <1>6, <1>7, <1>8, <1>9, <1>10, <1>11, <1>12, <1>13, <1>14

(***************************************************************************)
(* The register's answer is the input's rate to one frame per second, for  *)
(* every rate but 25 and 30: one more than those is further away than one  *)
(* part in 50, and snaps to nothing.                                       *)
(***************************************************************************)
LEMMA RegisterAnswers ==
  ASSUME HasRegister, source \in Std, source \notin {3, 5}, NEW fps \in hws_hw_fps
  PROVE  /\ fps # 0
         /\ hws_snap_interval(Second, fps, 50) # 0
         /\ Near(hws_snap_interval(Second, fps, 50), source)
<1>1. CASE source = 1
  <2>1. fps \in {24}
    BY <1>1, StdPeriods DEF hws_hw_fps, Second
  <2>2. Near(2, 1)
    BY StdPeriods DEF Near, Second
  <2>3. QED
    BY <1>1, <2>1, <2>2, RegisterSnaps
<1>2. CASE source = 2
  <2>1. fps \in {24, 25}
    BY <1>2, StdPeriods DEF hws_hw_fps, Second
  <2>2. Near(2, 2) /\ Near(3, 2)
    BY StdPeriods DEF Near, Second
  <2>3. QED
    BY <1>2, <2>1, <2>2, RegisterSnaps
<1>3. CASE source = 4
  <2>1. fps \in {30}
    BY <1>3, StdPeriods DEF hws_hw_fps, Second
  <2>2. Near(5, 4)
    BY StdPeriods DEF Near, Second
  <2>3. QED
    BY <1>3, <2>1, <2>2, RegisterSnaps
<1>4. CASE source = 6
  <2>1. fps \in {50, 51}
    BY <1>4, StdPeriods DEF hws_hw_fps, Second
  <2>2. Near(6, 6)
    BY StdPeriods DEF Near, Second
  <2>3. QED
    BY <1>4, <2>1, <2>2, RegisterSnaps
<1>5. CASE source = 7
  <2>1. fps \in {60}
    BY <1>5, StdPeriods DEF hws_hw_fps, Second
  <2>2. Near(8, 7)
    BY StdPeriods DEF Near, Second
  <2>3. QED
    BY <1>5, <2>1, <2>2, RegisterSnaps
<1>6. CASE source = 8
  <2>1. fps \in {60, 61}
    BY <1>6, StdPeriods DEF hws_hw_fps, Second
  <2>2. Near(8, 8)
    BY StdPeriods DEF Near, Second
  <2>3. QED
    BY <1>6, <2>1, <2>2, RegisterSnaps
<1>7. CASE source = 9
  <2>1. fps \in {100, 101}
    BY <1>7, StdPeriods DEF hws_hw_fps, Second
  <2>2. Near(9, 9)
    BY StdPeriods DEF Near, Second
  <2>3. QED
    BY <1>7, <2>1, <2>2, RegisterSnaps
<1>8. CASE source = 10
  <2>1. fps \in {120}
    BY <1>8, StdPeriods DEF hws_hw_fps, Second
  <2>2. Near(11, 10)
    BY StdPeriods DEF Near, Second
  <2>3. QED
    BY <1>8, <2>1, <2>2, RegisterSnaps
<1>9. CASE source = 11
  <2>1. fps \in {120, 121}
    BY <1>9, StdPeriods DEF hws_hw_fps, Second
  <2>2. Near(11, 11)
    BY StdPeriods DEF Near, Second
  <2>3. QED
    BY <1>9, <2>1, <2>2, RegisterSnaps
<1>10. CASE source = 12
  <2>1. fps \in {145}
    BY <1>10, StdPeriods DEF hws_hw_fps, Second
  <2>2. Near(12, 12)
    BY StdPeriods DEF Near, Second
  <2>3. QED
    BY <1>10, <2>1, <2>2, RegisterSnaps
<1>11. CASE source = 13
  <2>1. fps \in {240, 241}
    BY <1>11, StdPeriods DEF hws_hw_fps, Second
  <2>2. Near(13, 13)
    BY StdPeriods DEF Near, Second
  <2>3. QED
    BY <1>11, <2>1, <2>2, RegisterSnaps
<1>12. source \in 1 .. 13
  BY StdPeriods
<1>13. QED
  BY <1>1, <1>2, <1>3, <1>4, <1>5, <1>6, <1>7, <1>8, <1>9, <1>10, <1>11, <1>12

(***************************************************************************)
(* With the rate register, whatever is asked more than two seconds after   *)
(* the last change of the input is answered with the rate there is, to one *)
(* frame per second, whether or not anything captures (hws_video.c:3610):  *)
(* a measurement in use is younger than the change, so of this input.      *)
(* Without 25 and 30 fps, see RegisterAnswers.                             *)
(***************************************************************************)
THEOREM AnswerFollowsInputAlways ==
  ASSUME Sources \cap {3, 5} = {}
  PROVE  RateSpec => []AnswerFollowsInput
<1>1. ASSUME RateInv PROVE AnswerFollowsInput
  <2> SUFFICES ASSUME HasRegister, since + wait > StaleAfter,
                      capturing /\ meas # NoMeas => ~meas.blind,
                      NEW fps \in hws_hw_fps
               PROVE  /\ hws_input_timeperframe(fps) # 0
                      /\ Near(hws_input_timeperframe(fps), source)
    BY DEF AnswerFollowsInput
  <2>1. /\ source \in Sources /\ wait \in Nat /\ since \in Nat
        /\ meas = NoMeas \/ meas \in Reading
    BY <1>1, RateTypes
  <2>2. source \in Std /\ source \notin {3, 5} /\ Period(source) \in Nat
    BY <2>1, SourcePeriod
  <2>3. /\ fps # 0
        /\ hws_snap_interval(Second, fps, 50) # 0
        /\ Near(hws_snap_interval(Second, fps, 50), source)
    BY <2>2, RegisterAnswers
  <2>4. CASE meas = NoMeas \/ ~capturing \/ meas.age + wait > StaleAfter
    <3>1. hws_input_timeperframe(fps) = hws_snap_interval(Second, fps, 50)
      BY <2>3, <2>4 DEF hws_input_timeperframe
    <3>2. QED
      BY <2>3, <3>1
  <2>5. CASE meas # NoMeas /\ capturing /\ ~(meas.age + wait > StaleAfter)
    <3>1. hws_input_timeperframe(fps) = hws_snap_interval(meas.elapsed, meas.frames, 200)
      BY <2>5 DEF hws_input_timeperframe
    <3>2. meas.age < since
      <4>1. meas.age \in Nat /\ StaleAfter \in Nat
        BY <2>1, <2>5 DEF Reading, StaleAfter, Second
      <4>2. QED
        BY <2>1, <2>5, <4>1
    <3>3. meas.of = source
      BY <1>1, <2>5, <3>2 DEF RateInv, YoungIsCurrent
    <3>4. hws_input_timeperframe(fps) = source
      BY <1>1, <2>5, <3>1, <3>3 DEF RateInv, RateExact
    <3>5. Near(source, source)
      <4> DEFINE p == Period(source)
      <4>1. p \in Nat /\ p * p \in Nat
        BY <2>2
      <4>2. \A x \in Nat : 0 <= x \div Second
        BY DEF Second
      <4>3. p - p <= (p * p) \div Second
        <5> HIDE DEF p
        <5> QED BY <4>1, <4>2
      <4>4. QED
        BY <4>1, <4>3 DEF Near
    <3>6. source # 0
      BY <2>2, StdPeriods
    <3>7. QED
      BY <3>4, <3>5, <3>6
  <2>6. QED
    BY <2>4, <2>5
<1>2. QED
  BY <1>1, RateInvAlways, PTL

-----------------------------------------------------------------------------
\* What is left of whole rows and part of one.
LEMMA WholeRows ==
  ASSUME NEW a \in Nat, NEW m \in Nat \ {0}, NEW c \in 0 .. m - 1
  PROVE  (a * m + c) \div m = a /\ (a * m + c) % m = c
<1> DEFINE x == a * m + c
<1>1. a * m \in Nat /\ x \in Nat /\ x = a * m + c
  OBVIOUS
<1> HIDE DEF x
<1>2. x \div m = a
  BY <1>1, QuotientIs
<1>3. x = m * (x \div m) + (x % m) /\ x % m \in 0 .. m - 1
  BY <1>1, Division
<1>4. m * a = a * m
  OBVIOUS
<1>5. x % m = c
  BY <1>1, <1>2, <1>3, <1>4
<1>6. QED
  BY <1>2, <1>5 DEF x

\* A row before the last ends inside.
LEMMA RowEnds ==
  ASSUME NEW a \in Nat, NEW b \in Nat, NEW m \in Nat, a + 1 <= b
  PROVE  a * m + m <= b * m
<1>1. (a + 1) * m <= b * m
  BY ProductGrows
<1>2. (a + 1) * m = a * m + m
  OBVIOUS
<1>3. QED
  BY <1>1, <1>2

\* The sizes of a job.
LEMMA JobFacts ==
  ASSUME NEW j \in Jobs
  PROVE  /\ j.w \in Nat \ {0} /\ j.h \in Nat \ {0} /\ j.il \in BOOLEAN
         /\ j.out_w \in Nat \ {0} /\ j.out_h \in Nat \ {0}
         /\ InH(j) \in Nat \ {0} /\ (j.il => InH(j) = 2 * j.h)
<1>1. /\ j.w \in Nat \ {0} /\ j.h \in Nat \ {0} /\ j.il \in BOOLEAN
      /\ j.out_w \in Nat \ {0} /\ j.out_h \in Nat \ {0}
  BY JobsAssumption
<1>2. InH(j) \in Nat \ {0} /\ (j.il => InH(j) = 2 * j.h)
  BY <1>1 DEF InH
<1>3. QED
  BY <1>1, <1>2

-----------------------------------------------------------------------------
(***************************************************************************)
(* Line doubling: the source is at the start of a line, the output at the  *)
(* start of the first of the two it goes to.                               *)
(***************************************************************************)
AtLine ==
  \E r \in 0 .. job.h : src = r * (2 * job.w) /\ out = (2 * r) * (2 * job.w)

\* A byte of line r, column c, is written to lines 2 r and 2 r + 1.
DoubledByte(from, to, p) == from = (to \div (2 * p)) * p + (to % p)

\* Both copies of it are.
LEMMA BothLines ==
  ASSUME NEW r \in Nat, NEW p \in Nat \ {0}, NEW c \in 0 .. p - 1
  PROVE  /\ DoubledByte(r * p + c, (2 * r) * p + c, p)
         /\ DoubledByte(r * p + c, (2 * r) * p + p + c, p)
<1>1. /\ (2 * r) * p = r * (2 * p) /\ (2 * r) * p + p = (2 * r + 1) * p
      /\ 2 * p \in Nat \ {0} /\ 2 * r \in Nat /\ 2 * r + 1 \in Nat
  OBVIOUS
<1>2. c \in 0 .. 2 * p - 1 /\ p + c \in 0 .. 2 * p - 1
  OBVIOUS
<1>3. (r * (2 * p) + c) \div (2 * p) = r /\ (r * (2 * p) + (p + c)) \div (2 * p) = r
  BY <1>1, <1>2, WholeRows
<1>4. ((2 * r) * p + c) % p = c /\ ((2 * r + 1) * p + c) % p = c
  BY <1>1, WholeRows
<1>5. ((2 * r) * p + c) \div (2 * p) = r
  BY <1>1, <1>3
<1>6. ((2 * r) * p + p + c) \div (2 * p) = r
  <2>1. (2 * r) * p + p + c = r * (2 * p) + (p + c)
    BY <1>1
  <2>2. QED
    BY <1>3, <2>1
<1>7. ((2 * r) * p + p + c) % p = c
  BY <1>1, <1>4
<1>8. QED
  BY <1>4, <1>5, <1>6, <1>7 DEF DoubledByte

\* The ends of a piece go where they belong.
PieceFits(s, p) ==
  \A i \in {0, s.n - 1} : s.from + i = ((s.to + i) \div (2 * p)) * p + ((s.to + i) % p)

\* A piece of line r from column c on.
LEMMA PieceDoubled ==
  ASSUME NEW r \in Nat, NEW p \in Nat \ {0}, NEW c \in 0 .. p - 1, NEW n \in Nat \ {0},
         c + n <= p, NEW l \in {0, p}
  PROVE  PieceFits(Piece(r * p + c, (2 * r) * p + l + c, n), p)
<1> DEFINE s == Piece(r * p + c, (2 * r) * p + l + c, n)
<1> SUFFICES ASSUME NEW i \in {0, s.n - 1}
             PROVE  s.from + i = ((s.to + i) \div (2 * p)) * p + ((s.to + i) % p)
  BY DEF PieceFits
<1>1. s.from = r * p + c /\ s.to = (2 * r) * p + l + c /\ s.n = n
  BY DEF Piece
<1> HIDE DEF s
<1>2. i \in Nat /\ c + i \in 0 .. p - 1
  BY <1>1
<1>3. r * p \in Nat /\ (2 * r) * p \in Nat
  OBVIOUS
<1>4. s.from + i = r * p + (c + i)
  BY <1>1, <1>2, <1>3
<1>5. CASE l = 0
  <2>1. s.to + i = (2 * r) * p + (c + i)
    BY <1>1, <1>2, <1>3, <1>5
  <2>2. DoubledByte(r * p + (c + i), (2 * r) * p + (c + i), p)
    BY <1>2, BothLines
  <2>3. QED
    BY <1>4, <2>1, <2>2 DEF DoubledByte
<1>6. CASE l = p
  <2>1. s.to + i = (2 * r) * p + p + (c + i)
    BY <1>1, <1>2, <1>3, <1>6
  <2>2. DoubledByte(r * p + (c + i), (2 * r) * p + p + (c + i), p)
    BY <1>2, BothLines
  <2>3. QED
    BY <1>4, <2>1, <2>2 DEF DoubledByte
<1>7. QED
  BY <1>5, <1>6

\* The quarters of a field end inside it.
LEMMA QuarterEnds ==
  ASSUME job \in Jobs, NEW q \in 0 .. 3
  PROVE  /\ EndOf(q) \in Nat /\ EndOf(q) <= job.h * (2 * job.w)
         /\ EndOf(3) = job.h * (2 * job.w)
<1> DEFINE n == Quarter(job.w, job.h)
           f == FrameBytes(job.w, job.h)
           e == job.h * (2 * job.w)
<1>1. job.w \in Nat /\ job.h \in Nat
  BY JobFacts
<1>2. n \in Nat /\ 3 * n <= f
  BY <1>1, QuartersCoverFrame
<1>3. f = e /\ e \in Nat
  BY <1>1 DEF FrameBytes
<1>4. EndOf(q) = IF q < 3 THEN (q + 1) * n ELSE f
  BY DEF EndOf
<1>5. EndOf(3) = f
  BY DEF EndOf
<1> HIDE DEF n, f, e
<1>6. q < 3 => (q + 1) * n <= 3 * n /\ (q + 1) * n \in Nat
  BY <1>2, ProductGrows
<1>7. QED
  BY <1>2, <1>3, <1>4, <1>5, <1>6 DEF e

(***************************************************************************)
(* The invariant of line doubling: before each line the source stands at   *)
(* the start of a line and the output at twice as many.                    *)
(***************************************************************************)
LineInv ==
  /\ phase \in {"double", "scale", "done", "failed"}
  /\ phase \in {"double", "scale"} => job \in Jobs
  /\ phase = "double" => y \in 0 .. 3 /\ AtLine
  /\ LinesDoubled

\* A line more, within the field: what the two actions that double a line share.
LEMMA NextLine ==
  ASSUME job \in Jobs, NEW r \in 0 .. job.h, NEW p, p = 2 * job.w,
         src = r * p, out = (2 * r) * p, src < job.h * p,
         src' = src + p, out' = out + 2 * p, job' = job
  PROVE  AtLine' /\ r < job.h
<1>1. job.h \in Nat /\ r \in Nat /\ p \in Nat \ {0}
  BY JobFacts
<1>2. r < job.h
  <2> SUFFICES ASSUME job.h <= r PROVE FALSE
    BY <1>1
  <2>1. job.h * p <= r * p
    BY <1>1, ProductGrows
  <2>2. job.h * p \in Nat /\ r * p \in Nat
    BY <1>1
  <2>3. QED
    BY <2>1, <2>2
<1>3. src' = (r + 1) * p /\ out' = (2 * (r + 1)) * p
  BY <1>1
<1>4. r + 1 \in 0 .. job.h
  BY <1>1, <1>2
<1>5. QED
  BY <1>2, <1>3, <1>4 DEF AtLine

\* A line within one quarter.
LEMMA LineDoubled ==
  ASSUME LineInv, DoubleLine
  PROVE  LineInv'
<1> DEFINE p == 2 * job.w
<1>1. /\ phase = "double" /\ job \in Jobs /\ y \in 0 .. 3 /\ AtLine
      /\ src + p <= EndOf(y)
      /\ last' = {Piece(src, out, p), Piece(src, out + p, p)}
      /\ src' = src + p /\ out' = out + 2 * p
      /\ job' = job /\ phase' = phase /\ y' = y
  BY DEF DoubleLine, LineInv
<1>2. job.h \in Nat /\ p \in Nat \ {0}
  BY <1>1, JobFacts
<1>3. PICK r \in 0 .. job.h : src = r * p /\ out = (2 * r) * p
  BY <1>1 DEF AtLine
<1>4. r \in Nat /\ r * p \in Nat /\ (2 * r) * p \in Nat /\ p = 2 * job.w
  <2>1. r \in Nat
    BY <1>2
  <2> HIDE DEF p
  <2>2. r * p \in Nat /\ (2 * r) * p \in Nat
    BY <1>2, <2>1
  <2>3. QED
    BY <2>1, <2>2 DEF p
<1>5. EndOf(y) \in Nat /\ EndOf(y) <= job.h * p
  BY <1>1, QuarterEnds
<1> HIDE DEF p
<1>6. src < job.h * p
  <2>1. job.h * p \in Nat
    BY <1>2
  <2>2. QED
    BY <1>1, <1>2, <1>3, <1>4, <1>5, <2>1
<1>7. AtLine'
  BY <1>1, <1>3, <1>4, <1>6, NextLine
<1>8. \A s \in last' : PieceFits(s, p)
  <2>1. /\ src = r * p + 0 /\ out = (2 * r) * p + 0 + 0
        /\ out + p = (2 * r) * p + p + 0
    BY <1>2, <1>3, <1>4
  <2>2. 0 \in 0 .. p - 1 /\ 0 + p <= p /\ 0 \in {0, p} /\ p \in {0, p}
    BY <1>2
  <2>3. PieceFits(Piece(r * p + 0, (2 * r) * p + 0 + 0, p), p)
    BY <1>2, <1>4, <2>2, PieceDoubled, Zenon
  <2>4. PieceFits(Piece(r * p + 0, (2 * r) * p + p + 0, p), p)
    BY <1>2, <1>4, <2>2, PieceDoubled, Zenon
  <2>5. PieceFits(Piece(src, out, p), p) /\ PieceFits(Piece(src, out + p, p), p)
    BY <2>1, <2>3, <2>4
  <2>6. QED
    BY <1>1, <2>5
<1>9. LinesDoubled'
  BY <1>1, <1>8 DEF LinesDoubled, PieceFits, p
<1>10. QED
  BY <1>1, <1>7, <1>9 DEF LineInv

\* A line across two quarters, in four pieces.
LEMMA LineJoined ==
  ASSUME LineInv, JoinLine
  PROVE  LineInv'
<1> DEFINE p == 2 * job.w
           res == EndOf(y) - src
<1>1. /\ phase = "double" /\ job \in Jobs /\ y \in 0 .. 3 /\ AtLine
      /\ y < 3 /\ 0 < res /\ res < p
      /\ last' = {Piece(src, out, res), Piece(src + res, out + res, p - res),
                  Piece(src, out + p, res), Piece(src + res, out + p + res, p - res)}
      /\ src' = src + p /\ out' = out + 2 * p
      /\ job' = job /\ phase' = phase /\ y' = y + 1
  BY DEF JoinLine, LineInv
<1>2. job.h \in Nat /\ p \in Nat \ {0}
  BY <1>1, JobFacts
<1>3. PICK r \in 0 .. job.h : src = r * p /\ out = (2 * r) * p
  BY <1>1 DEF AtLine
<1>4. r \in Nat /\ r * p \in Nat /\ (2 * r) * p \in Nat /\ p = 2 * job.w
  <2>1. r \in Nat
    BY <1>2
  <2> HIDE DEF p
  <2>2. r * p \in Nat /\ (2 * r) * p \in Nat
    BY <1>2, <2>1
  <2>3. QED
    BY <2>1, <2>2 DEF p
<1>5. EndOf(y) \in Nat /\ EndOf(y) <= job.h * p
  BY <1>1, QuarterEnds
<1>6. res = EndOf(y) - src
  OBVIOUS
<1> HIDE DEF p, res
<1>7. res \in Nat \ {0} /\ res \in 0 .. p - 1 /\ p - res \in Nat \ {0}
  BY <1>1, <1>2, <1>3, <1>4, <1>5, <1>6
<1>8. src < job.h * p
  <2>1. job.h * p \in Nat
    BY <1>2
  <2>2. QED
    BY <1>1, <1>3, <1>4, <1>5, <1>6, <1>7, <2>1
<1>9. AtLine'
  BY <1>1, <1>3, <1>4, <1>8, NextLine
<1>10. \A s \in last' : PieceFits(s, p)
  <2>1. /\ src = r * p + 0 /\ src + res = r * p + res
        /\ out = (2 * r) * p + 0 + 0 /\ out + res = (2 * r) * p + 0 + res
        /\ out + p = (2 * r) * p + p + 0 /\ out + p + res = (2 * r) * p + p + res
    BY <1>2, <1>3, <1>4, <1>7
  <2>2. /\ 0 \in 0 .. p - 1 /\ 0 + res <= p /\ res + (p - res) <= p
        /\ 0 \in {0, p} /\ p \in {0, p}
    BY <1>2, <1>7
  <2>3. PieceFits(Piece(r * p + 0, (2 * r) * p + 0 + 0, res), p)
    BY <1>2, <1>4, <1>7, <2>2, PieceDoubled, Zenon
  <2>4. PieceFits(Piece(r * p + 0, (2 * r) * p + p + 0, res), p)
    BY <1>2, <1>4, <1>7, <2>2, PieceDoubled, Zenon
  <2>5. PieceFits(Piece(r * p + res, (2 * r) * p + 0 + res, p - res), p)
    BY <1>2, <1>4, <1>7, <2>2, PieceDoubled, Zenon
  <2>6. PieceFits(Piece(r * p + res, (2 * r) * p + p + res, p - res), p)
    BY <1>2, <1>4, <1>7, <2>2, PieceDoubled, Zenon
  <2>7. /\ PieceFits(Piece(src, out, res), p)
        /\ PieceFits(Piece(src + res, out + res, p - res), p)
        /\ PieceFits(Piece(src, out + p, res), p)
        /\ PieceFits(Piece(src + res, out + p + res, p - res), p)
    BY <2>1, <2>3, <2>4, <2>5, <2>6
  <2>8. QED
    BY <1>1, <2>7
<1>11. LinesDoubled'
  BY <1>1, <1>10 DEF LinesDoubled, PieceFits, p
<1>12. y' \in 0 .. 3
  BY <1>1
<1>13. QED
  BY <1>1, <1>9, <1>11, <1>12 DEF LineInv

\* A frame starts to be scaled, or a field to be doubled.
LEMMA LineStarts ==
  ASSUME LineInv, NEW j \in Jobs, hws_render_staged(j)
  PROVE  LineInv'
<1>1. job' = j
  BY DEF hws_render_staged
<1>2. CASE ~j.il
  <2>1. phase' = "scale"
    BY <1>2 DEF hws_render_staged, StartScaler
  <2>2. QED
    BY <1>1, <2>1 DEF LineInv, LinesDoubled
<1>3. CASE j.il
  <2>1. /\ phase' \in {"double", "failed"}
        /\ y' = 0 /\ src' = 0 /\ out' = 0 /\ last' = {}
    BY <1>3 DEF hws_render_staged
  <2>2. j.h \in Nat /\ 2 * j.w \in Nat
    BY JobFacts
  <2>3. 0 \in 0 .. j.h /\ 0 = 0 * (2 * j.w) /\ 0 = (2 * 0) * (2 * j.w)
    BY <2>2
  <2>4. AtLine'
    BY <1>1, <2>1, <2>3 DEF AtLine
  <2>5. LinesDoubled'
    BY <2>1 DEF LinesDoubled
  <2>6. QED
    BY <1>1, <2>1, <2>4, <2>5 DEF LineInv
<1>4. QED
  BY <1>2, <1>3

\* Doubling is inductive by itself.
LEMMA LineStep ==
  ASSUME LineInv, [RenderNext]_renderVars
  PROVE  LineInv'
<1>1. ASSUME NEW j \in Jobs, hws_render_staged(j) PROVE LineInv'
  BY <1>1, LineStarts
<1>2. CASE DoubleLine
  BY <1>2, LineDoubled
<1>3. CASE JoinLine
  BY <1>3, LineJoined
<1>4. CASE NextQuarter
  <2>1. /\ phase = "double" /\ y \in 0 .. 3 /\ y < 3 /\ y' = y + 1 /\ last' = {}
        /\ job' = job /\ phase' = phase /\ src' = src /\ out' = out
    BY <1>4 DEF NextQuarter, LineInv
  <2>2. y' \in 0 .. 3
    BY <2>1
  <2>3. QED
    BY <2>1, <2>2 DEF LineInv, AtLine, LinesDoubled
<1>5. CASE Doubled
  <2>1. phase' \in {"done", "scale"} /\ job' = job /\ job \in Jobs
    BY <1>5 DEF Doubled, StartScaler, LineInv
  <2>2. QED
    BY <2>1 DEF LineInv, LinesDoubled
<1>6. CASE ScaleRow
  <2>1. phase = "scale" /\ phase' = phase /\ job' = job /\ job \in Jobs
    BY <1>6 DEF ScaleRow, LineInv
  <2>2. QED
    BY <2>1 DEF LineInv, LinesDoubled
<1>7. CASE Scaled
  <2>1. phase' = "done" /\ job' = job
    BY <1>7 DEF Scaled
  <2>2. QED
    BY <2>1 DEF LineInv, LinesDoubled
<1>8. CASE UNCHANGED renderVars
  BY <1>8 DEF renderVars, LineInv, AtLine, LinesDoubled
<1>9. QED
  BY <1>1, <1>2, <1>3, <1>4, <1>5, <1>6, <1>7, <1>8 DEF RenderNext

\* It holds of every frame in every order.
LEMMA LineInvAlways == RenderSpec => []LineInv
<1>1. RenderInit => LineInv
  BY DEF RenderInit, LineInv, LinesDoubled
<1>2. LineInv /\ [RenderNext]_renderVars => LineInv'
  BY LineStep
<1>3. QED
  BY <1>1, <1>2, PTL DEF RenderSpec

(***************************************************************************)
(* MemCopyFrame() writes each line of a field of any size to two lines of  *)
(* the frame, byte by byte at its column, and joins the line that lies     *)
(* across two quarters (LinesDoubled).                                     *)
(***************************************************************************)
THEOREM LinesDoubledAlways == RenderSpec => []LinesDoubled
<1>1. LineInv => LinesDoubled
  BY DEF LineInv
<1>2. QED
  BY <1>1, LineInvAlways, PTL

-----------------------------------------------------------------------------
(***************************************************************************)
(* Scaling.  Rows of the source (s) and of the output (o) that are behind  *)
(* the loop before turn k of a period.                                     *)
(***************************************************************************)
Turns(p, s, o) ==
  /\ s \in [0 .. p.period -> Nat] /\ o \in [0 .. p.period -> Nat]
  /\ s[0] = 0 /\ o[0] = 0
  /\ \A k \in 0 .. p.period - 1 :
       /\ ~(k \in p.take /\ k \in p.again)
       /\ s[k + 1] = IF k \in p.again THEN s[k] ELSE s[k] + 1
       /\ o[k + 1] = IF k \in p.take \cup p.again THEN o[k] + 1 ELSE o[k]
       /\ s[k + 1] <= s[p.period] /\ o[k + 1] <= o[p.period]

\* A plan's bytes as periods and rows: w and ow are the widths in pixels.
Periods(p) == p.rows \div p.period
FirstRow(p, w) == p.top \div (2 * w)
Stride(p, w) == p.pitch \div (2 * w)
Above(p, ow) == p.barTop \div (2 * ow)
Below(p, ow) == p.barBottom \div (2 * ow)

\* The types of its numbers.
PlanTypeOK(p) ==
  /\ p.rows \in Nat /\ p.period \in Nat \ {0}
  /\ p.top \in Nat /\ p.left \in Nat /\ p.pitch \in Nat
  /\ p.step \in Nat \ {0} /\ p.units \in Nat \ {0} /\ Len(p.picks) \in Nat
  /\ p.barTop \in Nat /\ p.barBottom \in Nat /\ p.barSide \in Nat

\* A period takes S rows of the source and makes O of the output.
Loop(p, S, O) == \E s, o : Turns(p, s, o) /\ s[p.period] = S /\ o[p.period] = O

\* Whole periods and whole rows, which with the bars make up the output.
Whole(p, w, ow, oh, O) ==
  /\ PlanTypeOK(p)
  /\ p.rows = Periods(p) * p.period
  /\ p.top = FirstRow(p, w) * (2 * w) /\ p.pitch = Stride(p, w) * (2 * w)
  /\ p.barTop = Above(p, ow) * (2 * ow) /\ p.barBottom = Below(p, ow) * (2 * ow)
  /\ FirstRow(p, w) \in Nat /\ Above(p, ow) \in Nat /\ Below(p, ow) \in Nat
  /\ Periods(p) \in Nat /\ Stride(p, w) \in Nat \ {0}
  /\ Above(p, ow) + O * Periods(p) + Below(p, ow) = oh
  /\ p.units * Len(p.picks) + 2 * p.barSide = 2 * ow

\* Its groups end inside the row, its rows inside the source.
Inside(p, w, h, S) ==
  /\ p.left + p.units * p.step <= 2 * w
  /\ FirstRow(p, w) + Stride(p, w) * (S * Periods(p)) <= h + Stride(p, w) - 1

\* Each byte of a group comes from one of its channel.
Kernel(k) ==
  /\ Len(k) % 4 = 0 /\ DOMAIN k \subseteq Nat
  /\ \A i \in DOMAIN k : k[i] \in Nat /\ Channel(i - 1) = Channel(k[i])

\* The rows written lie a multiple of four bytes from those read, and so do the groups.
Coloured(p) ==
  \/ /\ p.step = 2 /\ p.picks = <<0, 1>>
     /\ (p.barSide - p.left) % 4 = 0
  \/ /\ p.step % 4 = 0 /\ Kernel(p.picks)
     /\ p.left % 4 = 0 /\ p.barSide % 4 = 0

\* A scaler that fits its two sizes.
Laid(in, size, p) ==
  /\ \E S \in Nat, O \in Nat :
       /\ Loop(p, S, O)
       /\ Whole(p, in[1], size[1], size[2], O)
       /\ Inside(p, in[1], in[2], S)
  /\ Coloured(p)
  /\ in[1] % 2 = 0 /\ size[1] % 2 = 0

-----------------------------------------------------------------------------
(***************************************************************************)
(* The loops there are, by what they do with the turns of a period.        *)
(***************************************************************************)
\* Every row.
LEMMA EveryRow ==
  ASSUME NEW p, p.period = 1, p.take = {0}, p.again = {}
  PROVE  Loop(p, 1, 1)
<1> DEFINE s == [k \in 0 .. 1 |-> k]
<1>1. Turns(p, s, s) /\ s[1] = 1
  BY DEF Turns
<1>2. QED
  BY <1>1 DEF Loop

\* Each row twice.
LEMMA EveryRowTwice ==
  ASSUME NEW p, p.period = 2, p.take = {0}, p.again = {1}
  PROVE  Loop(p, 1, 2)
<1> DEFINE s == [k \in 0 .. 2 |-> IF k = 0 THEN 0 ELSE 1]
           o == [k \in 0 .. 2 |-> k]
<1>1. Turns(p, s, o) /\ s[2] = 1 /\ o[2] = 2
  BY DEF Turns
<1>2. QED
  BY <1>1 DEF Loop

\* One row of three.
LEMMA OneOfThree ==
  ASSUME NEW p, p.period = 3, p.take = {0}, p.again = {}
  PROVE  Loop(p, 3, 1)
<1> DEFINE s == [k \in 0 .. 3 |-> k]
           o == [k \in 0 .. 3 |-> IF k = 0 THEN 0 ELSE 1]
<1>1. Turns(p, s, o) /\ s[3] = 3 /\ o[3] = 1
  BY DEF Turns
<1>2. QED
  BY <1>1 DEF Loop

\* Two rows of three.
LEMMA TwoOfThree ==
  ASSUME NEW p, p.period = 3, p.take = {0, 1}, p.again = {}
  PROVE  Loop(p, 3, 2)
<1> DEFINE s == [k \in 0 .. 3 |-> k]
           o == [k \in 0 .. 3 |-> IF k = 3 THEN 2 ELSE k]
<1>1. Turns(p, s, o) /\ s[3] = 3 /\ o[3] = 2
  BY DEF Turns
<1>2. QED
  BY <1>1 DEF Loop

\* Three rows from two.
LEMMA ThreeFromTwo ==
  ASSUME NEW p, p.period = 3, p.take = {0, 1}, p.again = {2}
  PROVE  Loop(p, 2, 3)
<1> DEFINE s == [k \in 0 .. 3 |-> IF k = 3 THEN 2 ELSE k]
           o == [k \in 0 .. 3 |-> k]
<1>1. Turns(p, s, o) /\ s[3] = 2 /\ o[3] = 3
  BY DEF Turns
<1>2. QED
  BY <1>1 DEF Loop

\* Three rows of four.
LEMMA ThreeOfFour ==
  ASSUME NEW p, p.period = 4, p.take = {0, 1, 2}, p.again = {}
  PROVE  Loop(p, 4, 3)
<1> DEFINE s == [k \in 0 .. 4 |-> k]
           o == [k \in 0 .. 4 |-> IF k = 4 THEN 3 ELSE k]
<1>1. Turns(p, s, o) /\ s[4] = 4 /\ o[4] = 3
  BY DEF Turns
<1>2. QED
  BY <1>1 DEF Loop

\* Four rows of six.
LEMMA FourOfSix ==
  ASSUME NEW p, p.period = 6, p.take = {0, 2, 4, 5}, p.again = {}
  PROVE  Loop(p, 6, 4)
<1> DEFINE s == [k \in 0 .. 6 |-> k]
           o == [k \in 0 .. 6 |-> IF k = 6 THEN 4 ELSE (k + 1) \div 2]
<1>1. Turns(p, s, o) /\ s[6] = 6 /\ o[6] = 4
  BY DEF Turns
<1>2. QED
  BY <1>1 DEF Loop

\* Five rows of nine.
LEMMA FiveOfNine ==
  ASSUME NEW p, p.period = 9, p.take = {0, 2, 4, 6, 8}, p.again = {}
  PROVE  Loop(p, 9, 5)
<1> DEFINE s == [k \in 0 .. 9 |-> k]
           o == [k \in 0 .. 9 |-> (k + 1) \div 2]
<1>1. Turns(p, s, o) /\ s[9] = 9 /\ o[9] = 5
  BY DEF Turns
<1>2. QED
  BY <1>1 DEF Loop

\* Five rows of 18.
LEMMA FiveOfEighteen ==
  ASSUME NEW p, p.period = 18, p.take = {0, 4, 8, 12, 16}, p.again = {}
  PROVE  Loop(p, 18, 5)
<1> DEFINE s == [k \in 0 .. 18 |-> k]
           o == [k \in 0 .. 18 |-> (k + 3) \div 4]
<1>1. Turns(p, s, o) /\ s[18] = 18 /\ o[18] = 5
  BY DEF Turns
<1>2. QED
  BY <1>1 DEF Loop

-----------------------------------------------------------------------------
(***************************************************************************)
(* The scalers made for a pair of sizes, one by one: the numbers of each   *)
(* loop, of its bars and of its groups make up the output and stay in the  *)
(* source (tests/unit/test_scale.c runs each of them once).                *)
(***************************************************************************)
\* The groups of bytes they copy, other than pairs.
LEMMA Kernels ==
  /\ Kernel(<<0, 1, 2, 3, 6, 9, 8, 7>>)
  /\ Kernel(<<0, 1, 2, 3, 8, 9, 10, 11, 16, 17, 18, 19, 24, 25, 26, 27, 32, 33, 34, 35>>)
  /\ Kernel(TenOf36)
  /\ Kernel(<<0, 1, 2, 3, 4, 5, 4, 7, 6, 5, 6, 7>>)
  /\ Kernel(DoublePicks)
  /\ Kernel(HalfPicks)
  /\ Kernel(<<0, 1, 4, 7, 8, 9, 10, 11>>)
  /\ Kernel(<<0, 1, 6, 7>>)
  /\ Kernel(<<0, 1, 4, 7>>)
  /\ Kernel(<<0, 1, 2, 3, 4, 5, 8, 7, 10, 9, 14, 15>>)
<1>1. Kernel(<<0, 1, 2, 3, 6, 9, 8, 7>>)
  BY DEF Kernel, Channel
<1>2. Kernel(<<0, 1, 2, 3, 8, 9, 10, 11, 16, 17, 18, 19, 24, 25, 26, 27, 32, 33, 34, 35>>)
  BY DEF Kernel, Channel
<1>3. Kernel(TenOf36)
  BY DEF Kernel, Channel, TenOf36
<1>4. Kernel(<<0, 1, 2, 3, 4, 5, 4, 7, 6, 5, 6, 7>>)
  BY DEF Kernel, Channel
<1>5. Kernel(DoublePicks)
  BY DEF Kernel, Channel, DoublePicks
<1>6. Kernel(HalfPicks)
  BY DEF Kernel, Channel, HalfPicks
<1>7. Kernel(<<0, 1, 4, 7, 8, 9, 10, 11>>)
  BY DEF Kernel, Channel
<1>8. Kernel(<<0, 1, 6, 7>>)
  BY DEF Kernel, Channel
<1>9. Kernel(<<0, 1, 4, 7>>)
  BY DEF Kernel, Channel
<1>10. Kernel(<<0, 1, 2, 3, 4, 5, 8, 7, 10, 9, 14, 15>>)
  BY DEF Kernel, Channel
<1>11. QED
  BY <1>1, <1>2, <1>3, <1>4, <1>5, <1>6, <1>7, <1>8, <1>9, <1>10

\* 1920 x 1080 to 1280 x 720: two rows of three.
LEMMA FHD_To_HD_Scaler_Laid == Laid(FHD, HD, FHD_To_HD_Scaler)
<1> DEFINE p == FHD_To_HD_Scaler
<1>1. /\ p.rows = 1080 /\ p.period = 3 /\ p.take = {0, 1} /\ p.again = {}
      /\ p.top = 0 /\ p.left = 0 /\ p.pitch = 3840
      /\ p.step = 12 /\ p.units = 320
      /\ p.barTop = 0 /\ p.barBottom = 0 /\ p.barSide = 0
  BY DEF FHD_To_HD_Scaler, Copy
<1>2. p.picks = <<0, 1, 2, 3, 6, 9, 8, 7>>
  BY DEF FHD_To_HD_Scaler, Copy
<1> HIDE DEF p
<1>3. Loop(p, 3, 2)
  BY <1>1, TwoOfThree
<1>4. Len(p.picks) = 8
  BY <1>2
<1>5. Coloured(p)
  BY <1>1, <1>2, <1>4, Kernels DEF Coloured
<1>6. Whole(p, 1920, 1280, 720, 2) /\ Inside(p, 1920, 1080, 3)
  BY <1>1, <1>4 DEF Whole, Inside, PlanTypeOK, Periods, FirstRow, Stride, Above, Below
<1>7. QED
  BY <1>3, <1>5, <1>6 DEF Laid, FHD, HD, p

\* 1920 x 1080 to 800 x 600: five rows of nine.
LEMMA FHD_To_800X600_Scaler_Laid == Laid(FHD, SVGA, FHD_To_800X600_Scaler)
<1> DEFINE p == FHD_To_800X600_Scaler
<1>1. /\ p.rows = 1080 /\ p.period = 9 /\ p.take = {0, 2, 4, 6, 8} /\ p.again = {}
      /\ p.top = 0 /\ p.left = 480 /\ p.pitch = 3840
      /\ p.step = 36 /\ p.units = 80
      /\ p.barTop = 0 /\ p.barBottom = 0 /\ p.barSide = 0
  BY DEF FHD_To_800X600_Scaler, Copy
<1>2. p.picks = <<0, 1, 2, 3, 8, 9, 10, 11, 16, 17, 18, 19, 24, 25, 26, 27, 32, 33, 34, 35>>
  BY DEF FHD_To_800X600_Scaler, Copy
<1> HIDE DEF p
<1>3. Loop(p, 9, 5)
  BY <1>1, FiveOfNine
<1>4. Len(p.picks) = 20
  BY <1>2
<1>5. Coloured(p)
  BY <1>1, <1>2, <1>4, Kernels DEF Coloured
<1>6. Whole(p, 1920, 800, 600, 5) /\ Inside(p, 1920, 1080, 9)
  BY <1>1, <1>4 DEF Whole, Inside, PlanTypeOK, Periods, FirstRow, Stride, Above, Below
<1>7. QED
  BY <1>3, <1>5, <1>6 DEF Laid, FHD, SVGA, p

\* 3840 x 2160 to 800 x 600: five rows of 18.
LEMMA UHD_To_800X600_Scaler_Laid == Laid(UHD, SVGA, UHD_To_800X600_Scaler)
<1> DEFINE p == UHD_To_800X600_Scaler
<1>1. /\ p.rows = 2160 /\ p.period = 18 /\ p.take = {0, 4, 8, 12, 16} /\ p.again = {}
      /\ p.top = 0 /\ p.left = 960 /\ p.pitch = 7680
      /\ p.step = 72 /\ p.units = 80
      /\ p.barTop = 0 /\ p.barBottom = 0 /\ p.barSide = 0
  BY DEF UHD_To_800X600_Scaler, Copy
<1>2. p.picks = TenOf36
  BY DEF UHD_To_800X600_Scaler, Copy
<1> HIDE DEF p
<1>3. Loop(p, 18, 5)
  BY <1>1, FiveOfEighteen
<1>4. Len(p.picks) = 20
  BY <1>2 DEF TenOf36
<1>5. Coloured(p)
  BY <1>1, <1>2, <1>4, Kernels DEF Coloured
<1>6. Whole(p, 3840, 800, 600, 5) /\ Inside(p, 3840, 2160, 18)
  BY <1>1, <1>4 DEF Whole, Inside, PlanTypeOK, Periods, FirstRow, Stride, Above, Below
<1>7. QED
  BY <1>3, <1>5, <1>6 DEF Laid, UHD, SVGA, p

\* 4096 x 2160 to 800 x 600: five rows of 18.
LEMMA UHDW_To_800X600_Scaler_Laid == Laid(UHDW, SVGA, UHDW_To_800X600_Scaler)
<1> DEFINE p == UHDW_To_800X600_Scaler
<1>1. /\ p.rows = 2160 /\ p.period = 18 /\ p.take = {0, 4, 8, 12, 16} /\ p.again = {}
      /\ p.top = 0 /\ p.left = 1216 /\ p.pitch = 8192
      /\ p.step = 72 /\ p.units = 80
      /\ p.barTop = 0 /\ p.barBottom = 0 /\ p.barSide = 0
  BY DEF UHDW_To_800X600_Scaler, UHD_To_800X600_Scaler, Copy
<1>2. p.picks = TenOf36
  BY DEF UHDW_To_800X600_Scaler, UHD_To_800X600_Scaler, Copy
<1> HIDE DEF p
<1>3. Loop(p, 18, 5)
  BY <1>1, FiveOfEighteen
<1>4. Len(p.picks) = 20
  BY <1>2 DEF TenOf36
<1>5. Coloured(p)
  BY <1>1, <1>2, <1>4, Kernels DEF Coloured
<1>6. Whole(p, 4096, 800, 600, 5) /\ Inside(p, 4096, 2160, 18)
  BY <1>1, <1>4 DEF Whole, Inside, PlanTypeOK, Periods, FirstRow, Stride, Above, Below
<1>7. QED
  BY <1>3, <1>5, <1>6 DEF Laid, UHDW, SVGA, p

\* 1280 x 720 to 1920 x 1080: three rows from two.
LEMMA HD_To_FHD_Scaler_Laid == Laid(HD, FHD, HD_To_FHD_Scaler)
<1> DEFINE p == HD_To_FHD_Scaler
<1>1. /\ p.rows = 1080 /\ p.period = 3 /\ p.take = {0, 1} /\ p.again = {2}
      /\ p.top = 0 /\ p.left = 0 /\ p.pitch = 2560
      /\ p.step = 8 /\ p.units = 320
      /\ p.barTop = 0 /\ p.barBottom = 0 /\ p.barSide = 0
  BY DEF HD_To_FHD_Scaler, Copy
<1>2. p.picks = <<0, 1, 2, 3, 4, 5, 4, 7, 6, 5, 6, 7>>
  BY DEF HD_To_FHD_Scaler, Copy
<1> HIDE DEF p
<1>3. Loop(p, 2, 3)
  BY <1>1, ThreeFromTwo
<1>4. Len(p.picks) = 12
  BY <1>2
<1>5. Coloured(p)
  BY <1>1, <1>2, <1>4, Kernels DEF Coloured
<1>6. Whole(p, 1280, 1920, 1080, 3) /\ Inside(p, 1280, 720, 2)
  BY <1>1, <1>4 DEF Whole, Inside, PlanTypeOK, Periods, FirstRow, Stride, Above, Below
<1>7. QED
  BY <1>3, <1>5, <1>6 DEF Laid, HD, FHD, p

\* 1280 x 720 to 800 x 600: rows as they are.
LEMMA HD_To_800X600_Scaler_Laid == Laid(HD, SVGA, HD_To_800X600_Scaler)
<1> DEFINE p == HD_To_800X600_Scaler
<1>1. /\ p.rows = 600 /\ p.period = 1 /\ p.take = {0} /\ p.again = {}
      /\ p.top = 153600 /\ p.left = 0 /\ p.pitch = 2560
      /\ p.step = 2 /\ p.units = 800
      /\ p.barTop = 0 /\ p.barBottom = 0 /\ p.barSide = 0
  BY DEF HD_To_800X600_Scaler, Copy
<1>2. p.picks = <<0, 1>>
  BY DEF HD_To_800X600_Scaler, Copy
<1> HIDE DEF p
<1>3. Loop(p, 1, 1)
  BY <1>1, EveryRow
<1>4. Len(p.picks) = 2
  BY <1>2
<1>5. Coloured(p)
  BY <1>1, <1>2, <1>4 DEF Coloured
<1>6. Whole(p, 1280, 800, 600, 1) /\ Inside(p, 1280, 720, 1)
  BY <1>1, <1>4 DEF Whole, Inside, PlanTypeOK, Periods, FirstRow, Stride, Above, Below
<1>7. QED
  BY <1>3, <1>5, <1>6 DEF Laid, HD, SVGA, p

\* 720 x 576 to 720 x 480: rows as they are.
LEMMA SD_PAL_To_SD_NTSC_Scaler_Laid == Laid(PAL, NTSC, SD_PAL_To_SD_NTSC_Scaler)
<1> DEFINE p == SD_PAL_To_SD_NTSC_Scaler
<1>1. /\ p.rows = 480 /\ p.period = 1 /\ p.take = {0} /\ p.again = {}
      /\ p.top = 69120 /\ p.left = 0 /\ p.pitch = 1440
      /\ p.step = 2 /\ p.units = 720
      /\ p.barTop = 0 /\ p.barBottom = 0 /\ p.barSide = 0
  BY DEF SD_PAL_To_SD_NTSC_Scaler, Copy
<1>2. p.picks = <<0, 1>>
  BY DEF SD_PAL_To_SD_NTSC_Scaler, Copy
<1> HIDE DEF p
<1>3. Loop(p, 1, 1)
  BY <1>1, EveryRow
<1>4. Len(p.picks) = 2
  BY <1>2
<1>5. Coloured(p)
  BY <1>1, <1>2, <1>4 DEF Coloured
<1>6. Whole(p, 720, 720, 480, 1) /\ Inside(p, 720, 576, 1)
  BY <1>1, <1>4 DEF Whole, Inside, PlanTypeOK, Periods, FirstRow, Stride, Above, Below
<1>7. QED
  BY <1>3, <1>5, <1>6 DEF Laid, PAL, NTSC, p

\* 720 x 480 to 720 x 576: rows as they are.
LEMMA SD_NTSC_To_SD_PAL_Scaler_Laid == Laid(NTSC, PAL, SD_NTSC_To_SD_PAL_Scaler)
<1> DEFINE p == SD_NTSC_To_SD_PAL_Scaler
<1>1. /\ p.rows = 480 /\ p.period = 1 /\ p.take = {0} /\ p.again = {}
      /\ p.top = 0 /\ p.left = 0 /\ p.pitch = 1440
      /\ p.step = 2 /\ p.units = 720
      /\ p.barTop = 69120 /\ p.barBottom = 69120 /\ p.barSide = 0
  BY DEF SD_NTSC_To_SD_PAL_Scaler, Copy
<1>2. p.picks = <<0, 1>>
  BY DEF SD_NTSC_To_SD_PAL_Scaler, Copy
<1> HIDE DEF p
<1>3. Loop(p, 1, 1)
  BY <1>1, EveryRow
<1>4. Len(p.picks) = 2
  BY <1>2
<1>5. Coloured(p)
  BY <1>1, <1>2, <1>4 DEF Coloured
<1>6. Whole(p, 720, 720, 576, 1) /\ Inside(p, 720, 480, 1)
  BY <1>1, <1>4 DEF Whole, Inside, PlanTypeOK, Periods, FirstRow, Stride, Above, Below
<1>7. QED
  BY <1>3, <1>5, <1>6 DEF Laid, NTSC, PAL, p

\* 720 x 576 to 1920 x 1080: each row twice.
LEMMA SD_PAL_To_FHD_Scaler_Laid == Laid(PAL, FHD, SD_PAL_To_FHD_Scaler)
<1> DEFINE p == SD_PAL_To_FHD_Scaler
<1>1. /\ p.rows = 1080 /\ p.period = 2 /\ p.take = {0} /\ p.again = {1}
      /\ p.top = 25920 /\ p.left = 0 /\ p.pitch = 1440
      /\ p.step = 4 /\ p.units = 360
      /\ p.barTop = 0 /\ p.barBottom = 0 /\ p.barSide = 480
  BY DEF SD_PAL_To_FHD_Scaler, Copy
<1>2. p.picks = DoublePicks
  BY DEF SD_PAL_To_FHD_Scaler, Copy
<1> HIDE DEF p
<1>3. Loop(p, 1, 2)
  BY <1>1, EveryRowTwice
<1>4. Len(p.picks) = 8
  BY <1>2 DEF DoublePicks
<1>5. Coloured(p)
  BY <1>1, <1>2, <1>4, Kernels DEF Coloured
<1>6. Whole(p, 720, 1920, 1080, 2) /\ Inside(p, 720, 576, 1)
  BY <1>1, <1>4 DEF Whole, Inside, PlanTypeOK, Periods, FirstRow, Stride, Above, Below
<1>7. QED
  BY <1>3, <1>5, <1>6 DEF Laid, PAL, FHD, p

\* 720 x 480 to 1920 x 1080: each row twice.
LEMMA SD_NTSC_To_FHD_Scaler_Laid == Laid(NTSC, FHD, SD_NTSC_To_FHD_Scaler)
<1> DEFINE p == SD_NTSC_To_FHD_Scaler
<1>1. /\ p.rows = 960 /\ p.period = 2 /\ p.take = {0} /\ p.again = {1}
      /\ p.top = 0 /\ p.left = 0 /\ p.pitch = 1440
      /\ p.step = 4 /\ p.units = 360
      /\ p.barTop = 230400 /\ p.barBottom = 230400 /\ p.barSide = 480
  BY DEF SD_NTSC_To_FHD_Scaler, SD_PAL_To_FHD_Scaler, Copy
<1>2. p.picks = DoublePicks
  BY DEF SD_NTSC_To_FHD_Scaler, SD_PAL_To_FHD_Scaler, Copy
<1> HIDE DEF p
<1>3. Loop(p, 1, 2)
  BY <1>1, EveryRowTwice
<1>4. Len(p.picks) = 8
  BY <1>2 DEF DoublePicks
<1>5. Coloured(p)
  BY <1>1, <1>2, <1>4, Kernels DEF Coloured
<1>6. Whole(p, 720, 1920, 1080, 2) /\ Inside(p, 720, 480, 1)
  BY <1>1, <1>4 DEF Whole, Inside, PlanTypeOK, Periods, FirstRow, Stride, Above, Below
<1>7. QED
  BY <1>3, <1>5, <1>6 DEF Laid, NTSC, FHD, p

\* 720 x 576 to 1280 x 720: each row twice.
LEMMA SD_PAL_To_HD_Scaler_Laid == Laid(PAL, HD, SD_PAL_To_HD_Scaler)
<1> DEFINE p == SD_PAL_To_HD_Scaler
<1>1. /\ p.rows = 720 /\ p.period = 2 /\ p.take = {0} /\ p.again = {1}
      /\ p.top = 155520 /\ p.left = 80 /\ p.pitch = 1440
      /\ p.step = 4 /\ p.units = 320
      /\ p.barTop = 0 /\ p.barBottom = 0 /\ p.barSide = 0
  BY DEF SD_PAL_To_HD_Scaler, Copy
<1>2. p.picks = DoublePicks
  BY DEF SD_PAL_To_HD_Scaler, Copy
<1> HIDE DEF p
<1>3. Loop(p, 1, 2)
  BY <1>1, EveryRowTwice
<1>4. Len(p.picks) = 8
  BY <1>2 DEF DoublePicks
<1>5. Coloured(p)
  BY <1>1, <1>2, <1>4, Kernels DEF Coloured
<1>6. Whole(p, 720, 1280, 720, 2) /\ Inside(p, 720, 576, 1)
  BY <1>1, <1>4 DEF Whole, Inside, PlanTypeOK, Periods, FirstRow, Stride, Above, Below
<1>7. QED
  BY <1>3, <1>5, <1>6 DEF Laid, PAL, HD, p

\* 720 x 480 to 1280 x 720: each row twice.
LEMMA SD_NTSC_To_HD_Scaler_Laid == Laid(NTSC, HD, SD_NTSC_To_HD_Scaler)
<1> DEFINE p == SD_NTSC_To_HD_Scaler
<1>1. /\ p.rows = 720 /\ p.period = 2 /\ p.take = {0} /\ p.again = {1}
      /\ p.top = 86400 /\ p.left = 80 /\ p.pitch = 1440
      /\ p.step = 4 /\ p.units = 320
      /\ p.barTop = 0 /\ p.barBottom = 0 /\ p.barSide = 0
  BY DEF SD_NTSC_To_HD_Scaler, SD_PAL_To_HD_Scaler, Copy
<1>2. p.picks = DoublePicks
  BY DEF SD_NTSC_To_HD_Scaler, SD_PAL_To_HD_Scaler, Copy
<1> HIDE DEF p
<1>3. Loop(p, 1, 2)
  BY <1>1, EveryRowTwice
<1>4. Len(p.picks) = 8
  BY <1>2 DEF DoublePicks
<1>5. Coloured(p)
  BY <1>1, <1>2, <1>4, Kernels DEF Coloured
<1>6. Whole(p, 720, 1280, 720, 2) /\ Inside(p, 720, 480, 1)
  BY <1>1, <1>4 DEF Whole, Inside, PlanTypeOK, Periods, FirstRow, Stride, Above, Below
<1>7. QED
  BY <1>3, <1>5, <1>6 DEF Laid, NTSC, HD, p

\* 1280 x 1024 to 1920 x 1080: three rows from two.
LEMMA V1280X1024_To_FHD_Scaler_Laid == Laid(SXGA, FHD, V1280X1024_To_FHD_Scaler)
<1> DEFINE p == V1280X1024_To_FHD_Scaler
<1>1. /\ p.rows = 1080 /\ p.period = 3 /\ p.take = {0, 1} /\ p.again = {2}
      /\ p.top = 389120 /\ p.left = 0 /\ p.pitch = 2560
      /\ p.step = 8 /\ p.units = 320
      /\ p.barTop = 0 /\ p.barBottom = 0 /\ p.barSide = 0
  BY DEF V1280X1024_To_FHD_Scaler, HD_To_FHD_Scaler, Copy
<1>2. p.picks = <<0, 1, 2, 3, 4, 5, 4, 7, 6, 5, 6, 7>>
  BY DEF V1280X1024_To_FHD_Scaler, HD_To_FHD_Scaler, Copy
<1> HIDE DEF p
<1>3. Loop(p, 2, 3)
  BY <1>1, ThreeFromTwo
<1>4. Len(p.picks) = 12
  BY <1>2
<1>5. Coloured(p)
  BY <1>1, <1>2, <1>4, Kernels DEF Coloured
<1>6. Whole(p, 1280, 1920, 1080, 3) /\ Inside(p, 1280, 1024, 2)
  BY <1>1, <1>4 DEF Whole, Inside, PlanTypeOK, Periods, FirstRow, Stride, Above, Below
<1>7. QED
  BY <1>3, <1>5, <1>6 DEF Laid, SXGA, FHD, p

\* 1280 x 1024 to 1280 x 720: rows as they are.
LEMMA V1280X1024_To_HD_Scaler_Laid == Laid(SXGA, HD, V1280X1024_To_HD_Scaler)
<1> DEFINE p == V1280X1024_To_HD_Scaler
<1>1. /\ p.rows = 720 /\ p.period = 1 /\ p.take = {0} /\ p.again = {}
      /\ p.top = 389120 /\ p.left = 0 /\ p.pitch = 2560
      /\ p.step = 2 /\ p.units = 1280
      /\ p.barTop = 0 /\ p.barBottom = 0 /\ p.barSide = 0
  BY DEF V1280X1024_To_HD_Scaler, Copy
<1>2. p.picks = <<0, 1>>
  BY DEF V1280X1024_To_HD_Scaler, Copy
<1> HIDE DEF p
<1>3. Loop(p, 1, 1)
  BY <1>1, EveryRow
<1>4. Len(p.picks) = 2
  BY <1>2
<1>5. Coloured(p)
  BY <1>1, <1>2, <1>4 DEF Coloured
<1>6. Whole(p, 1280, 1280, 720, 1) /\ Inside(p, 1280, 1024, 1)
  BY <1>1, <1>4 DEF Whole, Inside, PlanTypeOK, Periods, FirstRow, Stride, Above, Below
<1>7. QED
  BY <1>3, <1>5, <1>6 DEF Laid, SXGA, HD, p

\* 1280 x 1024 to 800 x 600: rows as they are.
LEMMA V1280X1024_To_800X600_Scaler_Laid == Laid(SXGA, SVGA, V1280X1024_To_800X600_Scaler)
<1> DEFINE p == V1280X1024_To_800X600_Scaler
<1>1. /\ p.rows = 600 /\ p.period = 1 /\ p.take = {0} /\ p.again = {}
      /\ p.top = 542720 /\ p.left = 0 /\ p.pitch = 2560
      /\ p.step = 2 /\ p.units = 800
      /\ p.barTop = 0 /\ p.barBottom = 0 /\ p.barSide = 0
  BY DEF V1280X1024_To_800X600_Scaler, HD_To_800X600_Scaler, Copy
<1>2. p.picks = <<0, 1>>
  BY DEF V1280X1024_To_800X600_Scaler, HD_To_800X600_Scaler, Copy
<1> HIDE DEF p
<1>3. Loop(p, 1, 1)
  BY <1>1, EveryRow
<1>4. Len(p.picks) = 2
  BY <1>2
<1>5. Coloured(p)
  BY <1>1, <1>2, <1>4 DEF Coloured
<1>6. Whole(p, 1280, 800, 600, 1) /\ Inside(p, 1280, 1024, 1)
  BY <1>1, <1>4 DEF Whole, Inside, PlanTypeOK, Periods, FirstRow, Stride, Above, Below
<1>7. QED
  BY <1>3, <1>5, <1>6 DEF Laid, SXGA, SVGA, p

\* 1920 x 1080 to 720 x 480: every other row.
LEMMA FHD_To_SD_NTSC_Scaler_Laid == Laid(FHD, NTSC, FHD_To_SD_NTSC_Scaler)
<1> DEFINE p == FHD_To_SD_NTSC_Scaler
<1>1. /\ p.rows = 480 /\ p.period = 1 /\ p.take = {0} /\ p.again = {}
      /\ p.top = 230400 /\ p.left = 480 /\ p.pitch = 7680
      /\ p.step = 8 /\ p.units = 360
      /\ p.barTop = 0 /\ p.barBottom = 0 /\ p.barSide = 0
  BY DEF FHD_To_SD_NTSC_Scaler, Copy
<1>2. p.picks = HalfPicks
  BY DEF FHD_To_SD_NTSC_Scaler, Copy
<1> HIDE DEF p
<1>3. Loop(p, 1, 1)
  BY <1>1, EveryRow
<1>4. Len(p.picks) = 4
  BY <1>2 DEF HalfPicks
<1>5. Coloured(p)
  BY <1>1, <1>2, <1>4, Kernels DEF Coloured
<1>6. Whole(p, 1920, 720, 480, 1) /\ Inside(p, 1920, 1080, 1)
  BY <1>1, <1>4 DEF Whole, Inside, PlanTypeOK, Periods, FirstRow, Stride, Above, Below
<1>7. QED
  BY <1>3, <1>5, <1>6 DEF Laid, FHD, NTSC, p

\* 1920 x 1080 to 720 x 576: every other row.
LEMMA FHD_To_SD_PAL_Scaler_Laid == Laid(FHD, PAL, FHD_To_SD_PAL_Scaler)
<1> DEFINE p == FHD_To_SD_PAL_Scaler
<1>1. /\ p.rows = 540 /\ p.period = 1 /\ p.take = {0} /\ p.again = {}
      /\ p.top = 0 /\ p.left = 480 /\ p.pitch = 7680
      /\ p.step = 8 /\ p.units = 360
      /\ p.barTop = 25920 /\ p.barBottom = 25920 /\ p.barSide = 0
  BY DEF FHD_To_SD_PAL_Scaler, FHD_To_SD_NTSC_Scaler, Copy
<1>2. p.picks = HalfPicks
  BY DEF FHD_To_SD_PAL_Scaler, FHD_To_SD_NTSC_Scaler, Copy
<1> HIDE DEF p
<1>3. Loop(p, 1, 1)
  BY <1>1, EveryRow
<1>4. Len(p.picks) = 4
  BY <1>2 DEF HalfPicks
<1>5. Coloured(p)
  BY <1>1, <1>2, <1>4, Kernels DEF Coloured
<1>6. Whole(p, 1920, 720, 576, 1) /\ Inside(p, 1920, 1080, 1)
  BY <1>1, <1>4 DEF Whole, Inside, PlanTypeOK, Periods, FirstRow, Stride, Above, Below
<1>7. QED
  BY <1>3, <1>5, <1>6 DEF Laid, FHD, PAL, p

\* 1280 x 720 to 720 x 480: rows as they are.
LEMMA HD_To_SD_NTSC_Scaler_Laid == Laid(HD, NTSC, HD_To_SD_NTSC_Scaler)
<1> DEFINE p == HD_To_SD_NTSC_Scaler
<1>1. /\ p.rows = 480 /\ p.period = 1 /\ p.take = {0} /\ p.again = {}
      /\ p.top = 307200 /\ p.left = 560 /\ p.pitch = 2560
      /\ p.step = 2 /\ p.units = 720
      /\ p.barTop = 0 /\ p.barBottom = 0 /\ p.barSide = 0
  BY DEF HD_To_SD_NTSC_Scaler, Copy
<1>2. p.picks = <<0, 1>>
  BY DEF HD_To_SD_NTSC_Scaler, Copy
<1> HIDE DEF p
<1>3. Loop(p, 1, 1)
  BY <1>1, EveryRow
<1>4. Len(p.picks) = 2
  BY <1>2
<1>5. Coloured(p)
  BY <1>1, <1>2, <1>4 DEF Coloured
<1>6. Whole(p, 1280, 720, 480, 1) /\ Inside(p, 1280, 720, 1)
  BY <1>1, <1>4 DEF Whole, Inside, PlanTypeOK, Periods, FirstRow, Stride, Above, Below
<1>7. QED
  BY <1>3, <1>5, <1>6 DEF Laid, HD, NTSC, p

\* 1280 x 720 to 720 x 576: rows as they are.
LEMMA HD_To_SD_PAL_Scaler_Laid == Laid(HD, PAL, HD_To_SD_PAL_Scaler)
<1> DEFINE p == HD_To_SD_PAL_Scaler
<1>1. /\ p.rows = 576 /\ p.period = 1 /\ p.take = {0} /\ p.again = {}
      /\ p.top = 184320 /\ p.left = 560 /\ p.pitch = 2560
      /\ p.step = 2 /\ p.units = 720
      /\ p.barTop = 0 /\ p.barBottom = 0 /\ p.barSide = 0
  BY DEF HD_To_SD_PAL_Scaler, Copy
<1>2. p.picks = <<0, 1>>
  BY DEF HD_To_SD_PAL_Scaler, Copy
<1> HIDE DEF p
<1>3. Loop(p, 1, 1)
  BY <1>1, EveryRow
<1>4. Len(p.picks) = 2
  BY <1>2
<1>5. Coloured(p)
  BY <1>1, <1>2, <1>4 DEF Coloured
<1>6. Whole(p, 1280, 720, 576, 1) /\ Inside(p, 1280, 720, 1)
  BY <1>1, <1>4 DEF Whole, Inside, PlanTypeOK, Periods, FirstRow, Stride, Above, Below
<1>7. QED
  BY <1>3, <1>5, <1>6 DEF Laid, HD, PAL, p

\* 1280 x 1024 to 720 x 480: rows as they are.
LEMMA V1280X1024_NTSC_Scaler_Laid == Laid(SXGA, NTSC, V1280X1024_NTSC_Scaler)
<1> DEFINE p == V1280X1024_NTSC_Scaler
<1>1. /\ p.rows = 480 /\ p.period = 1 /\ p.take = {0} /\ p.again = {}
      /\ p.top = 696320 /\ p.left = 560 /\ p.pitch = 2560
      /\ p.step = 2 /\ p.units = 720
      /\ p.barTop = 0 /\ p.barBottom = 0 /\ p.barSide = 0
  BY DEF V1280X1024_NTSC_Scaler, Copy
<1>2. p.picks = <<0, 1>>
  BY DEF V1280X1024_NTSC_Scaler, Copy
<1> HIDE DEF p
<1>3. Loop(p, 1, 1)
  BY <1>1, EveryRow
<1>4. Len(p.picks) = 2
  BY <1>2
<1>5. Coloured(p)
  BY <1>1, <1>2, <1>4 DEF Coloured
<1>6. Whole(p, 1280, 720, 480, 1) /\ Inside(p, 1280, 1024, 1)
  BY <1>1, <1>4 DEF Whole, Inside, PlanTypeOK, Periods, FirstRow, Stride, Above, Below
<1>7. QED
  BY <1>3, <1>5, <1>6 DEF Laid, SXGA, NTSC, p

\* 1280 x 1024 to 720 x 576: rows as they are.
LEMMA V1280X1024_PAL_Scaler_Laid == Laid(SXGA, PAL, V1280X1024_PAL_Scaler)
<1> DEFINE p == V1280X1024_PAL_Scaler
<1>1. /\ p.rows = 576 /\ p.period = 1 /\ p.take = {0} /\ p.again = {}
      /\ p.top = 573440 /\ p.left = 560 /\ p.pitch = 2560
      /\ p.step = 2 /\ p.units = 720
      /\ p.barTop = 0 /\ p.barBottom = 0 /\ p.barSide = 0
  BY DEF V1280X1024_PAL_Scaler, Copy
<1>2. p.picks = <<0, 1>>
  BY DEF V1280X1024_PAL_Scaler, Copy
<1> HIDE DEF p
<1>3. Loop(p, 1, 1)
  BY <1>1, EveryRow
<1>4. Len(p.picks) = 2
  BY <1>2
<1>5. Coloured(p)
  BY <1>1, <1>2, <1>4 DEF Coloured
<1>6. Whole(p, 1280, 720, 576, 1) /\ Inside(p, 1280, 1024, 1)
  BY <1>1, <1>4 DEF Whole, Inside, PlanTypeOK, Periods, FirstRow, Stride, Above, Below
<1>7. QED
  BY <1>3, <1>5, <1>6 DEF Laid, SXGA, PAL, p

\* 3840 x 2160 to 1920 x 1080: every other row.
LEMMA UHD_TO_FHD_Scaler_Laid == Laid(UHD, FHD, UHD_TO_FHD_Scaler)
<1> DEFINE p == UHD_TO_FHD_Scaler
<1>1. /\ p.rows = 1080 /\ p.period = 1 /\ p.take = {0} /\ p.again = {}
      /\ p.top = 0 /\ p.left = 0 /\ p.pitch = 15360
      /\ p.step = 8 /\ p.units = 960
      /\ p.barTop = 0 /\ p.barBottom = 0 /\ p.barSide = 0
  BY DEF UHD_TO_FHD_Scaler, Copy
<1>2. p.picks = HalfPicks
  BY DEF UHD_TO_FHD_Scaler, Copy
<1> HIDE DEF p
<1>3. Loop(p, 1, 1)
  BY <1>1, EveryRow
<1>4. Len(p.picks) = 4
  BY <1>2 DEF HalfPicks
<1>5. Coloured(p)
  BY <1>1, <1>2, <1>4, Kernels DEF Coloured
<1>6. Whole(p, 3840, 1920, 1080, 1) /\ Inside(p, 3840, 2160, 1)
  BY <1>1, <1>4 DEF Whole, Inside, PlanTypeOK, Periods, FirstRow, Stride, Above, Below
<1>7. QED
  BY <1>3, <1>5, <1>6 DEF Laid, UHD, FHD, p

\* 3840 x 2160 to 2560 x 1440: four rows of six.
LEMMA UHD_To_2560x1440_Scaler_Laid == Laid(UHD, QHD, UHD_To_2560x1440_Scaler)
<1> DEFINE p == UHD_To_2560x1440_Scaler
<1>1. /\ p.rows = 2160 /\ p.period = 6 /\ p.take = {0, 2, 4, 5} /\ p.again = {}
      /\ p.top = 0 /\ p.left = 0 /\ p.pitch = 7680
      /\ p.step = 12 /\ p.units = 640
      /\ p.barTop = 0 /\ p.barBottom = 0 /\ p.barSide = 0
  BY DEF UHD_To_2560x1440_Scaler, Copy
<1>2. p.picks = <<0, 1, 4, 7, 8, 9, 10, 11>>
  BY DEF UHD_To_2560x1440_Scaler, Copy
<1> HIDE DEF p
<1>3. Loop(p, 6, 4)
  BY <1>1, FourOfSix
<1>4. Len(p.picks) = 8
  BY <1>2
<1>5. Coloured(p)
  BY <1>1, <1>2, <1>4, Kernels DEF Coloured
<1>6. Whole(p, 3840, 2560, 1440, 4) /\ Inside(p, 3840, 2160, 6)
  BY <1>1, <1>4 DEF Whole, Inside, PlanTypeOK, Periods, FirstRow, Stride, Above, Below
<1>7. QED
  BY <1>3, <1>5, <1>6 DEF Laid, UHD, QHD, p

\* 3840 x 2160 to 1280 x 720: one row of three.
LEMMA UHD_To_HD_Scaler_Laid == Laid(UHD, HD, UHD_To_HD_Scaler)
<1> DEFINE p == UHD_To_HD_Scaler
<1>1. /\ p.rows = 2160 /\ p.period = 3 /\ p.take = {0} /\ p.again = {}
      /\ p.top = 0 /\ p.left = 0 /\ p.pitch = 7680
      /\ p.step = 12 /\ p.units = 640
      /\ p.barTop = 0 /\ p.barBottom = 0 /\ p.barSide = 0
  BY DEF UHD_To_HD_Scaler, Copy
<1>2. p.picks = <<0, 1, 6, 7>>
  BY DEF UHD_To_HD_Scaler, Copy
<1> HIDE DEF p
<1>3. Loop(p, 3, 1)
  BY <1>1, OneOfThree
<1>4. Len(p.picks) = 4
  BY <1>2
<1>5. Coloured(p)
  BY <1>1, <1>2, <1>4, Kernels DEF Coloured
<1>6. Whole(p, 3840, 1280, 720, 1) /\ Inside(p, 3840, 2160, 3)
  BY <1>1, <1>4 DEF Whole, Inside, PlanTypeOK, Periods, FirstRow, Stride, Above, Below
<1>7. QED
  BY <1>3, <1>5, <1>6 DEF Laid, UHD, HD, p

\* 4096 x 2160 to 1920 x 1080: every other row.
LEMMA UHDW_TO_FHD_Scaler_Laid == Laid(UHDW, FHD, UHDW_TO_FHD_Scaler)
<1> DEFINE p == UHDW_TO_FHD_Scaler
<1>1. /\ p.rows = 1080 /\ p.period = 1 /\ p.take = {0} /\ p.again = {}
      /\ p.top = 0 /\ p.left = 256 /\ p.pitch = 16384
      /\ p.step = 8 /\ p.units = 960
      /\ p.barTop = 0 /\ p.barBottom = 0 /\ p.barSide = 0
  BY DEF UHDW_TO_FHD_Scaler, UHD_TO_FHD_Scaler, Copy
<1>2. p.picks = HalfPicks
  BY DEF UHDW_TO_FHD_Scaler, UHD_TO_FHD_Scaler, Copy
<1> HIDE DEF p
<1>3. Loop(p, 1, 1)
  BY <1>1, EveryRow
<1>4. Len(p.picks) = 4
  BY <1>2 DEF HalfPicks
<1>5. Coloured(p)
  BY <1>1, <1>2, <1>4, Kernels DEF Coloured
<1>6. Whole(p, 4096, 1920, 1080, 1) /\ Inside(p, 4096, 2160, 1)
  BY <1>1, <1>4 DEF Whole, Inside, PlanTypeOK, Periods, FirstRow, Stride, Above, Below
<1>7. QED
  BY <1>3, <1>5, <1>6 DEF Laid, UHDW, FHD, p

\* 4096 x 2160 to 1280 x 720: one row of three.
LEMMA UHDW_To_HD_Scaler_Laid == Laid(UHDW, HD, UHDW_To_HD_Scaler)
<1> DEFINE p == UHDW_To_HD_Scaler
<1>1. /\ p.rows = 2160 /\ p.period = 3 /\ p.take = {0} /\ p.again = {}
      /\ p.top = 0 /\ p.left = 256 /\ p.pitch = 8192
      /\ p.step = 12 /\ p.units = 640
      /\ p.barTop = 0 /\ p.barBottom = 0 /\ p.barSide = 0
  BY DEF UHDW_To_HD_Scaler, Copy
<1>2. p.picks = <<0, 1, 4, 7>>
  BY DEF UHDW_To_HD_Scaler, Copy
<1> HIDE DEF p
<1>3. Loop(p, 3, 1)
  BY <1>1, OneOfThree
<1>4. Len(p.picks) = 4
  BY <1>2
<1>5. Coloured(p)
  BY <1>1, <1>2, <1>4, Kernels DEF Coloured
<1>6. Whole(p, 4096, 1280, 720, 1) /\ Inside(p, 4096, 2160, 3)
  BY <1>1, <1>4 DEF Whole, Inside, PlanTypeOK, Periods, FirstRow, Stride, Above, Below
<1>7. QED
  BY <1>3, <1>5, <1>6 DEF Laid, UHDW, HD, p

\* 2560 x 1440 to 1920 x 1080: three rows of four.
LEMMA V2560X1440_To_FHD_Scaler_Laid == Laid(QHD, FHD, V2560X1440_To_FHD_Scaler)
<1> DEFINE p == V2560X1440_To_FHD_Scaler
<1>1. /\ p.rows = 1440 /\ p.period = 4 /\ p.take = {0, 1, 2} /\ p.again = {}
      /\ p.top = 0 /\ p.left = 0 /\ p.pitch = 5120
      /\ p.step = 16 /\ p.units = 320
      /\ p.barTop = 0 /\ p.barBottom = 0 /\ p.barSide = 0
  BY DEF V2560X1440_To_FHD_Scaler, Copy
<1>2. p.picks = <<0, 1, 2, 3, 4, 5, 8, 7, 10, 9, 14, 15>>
  BY DEF V2560X1440_To_FHD_Scaler, Copy
<1> HIDE DEF p
<1>3. Loop(p, 4, 3)
  BY <1>1, ThreeOfFour
<1>4. Len(p.picks) = 12
  BY <1>2
<1>5. Coloured(p)
  BY <1>1, <1>2, <1>4, Kernels DEF Coloured
<1>6. Whole(p, 2560, 1920, 1080, 3) /\ Inside(p, 2560, 1440, 4)
  BY <1>1, <1>4 DEF Whole, Inside, PlanTypeOK, Periods, FirstRow, Stride, Above, Below
<1>7. QED
  BY <1>3, <1>5, <1>6 DEF Laid, QHD, FHD, p

\* 2560 x 1440 to 1280 x 720: every other row.
LEMMA V2560X1440_To_HD_Scaler_Laid == Laid(QHD, HD, V2560X1440_To_HD_Scaler)
<1> DEFINE p == V2560X1440_To_HD_Scaler
<1>1. /\ p.rows = 720 /\ p.period = 1 /\ p.take = {0} /\ p.again = {}
      /\ p.top = 0 /\ p.left = 0 /\ p.pitch = 10240
      /\ p.step = 8 /\ p.units = 640
      /\ p.barTop = 0 /\ p.barBottom = 0 /\ p.barSide = 0
  BY DEF V2560X1440_To_HD_Scaler, Copy
<1>2. p.picks = HalfPicks
  BY DEF V2560X1440_To_HD_Scaler, Copy
<1> HIDE DEF p
<1>3. Loop(p, 1, 1)
  BY <1>1, EveryRow
<1>4. Len(p.picks) = 4
  BY <1>2 DEF HalfPicks
<1>5. Coloured(p)
  BY <1>1, <1>2, <1>4, Kernels DEF Coloured
<1>6. Whole(p, 2560, 1280, 720, 1) /\ Inside(p, 2560, 1440, 1)
  BY <1>1, <1>4 DEF Whole, Inside, PlanTypeOK, Periods, FirstRow, Stride, Above, Below
<1>7. QED
  BY <1>3, <1>5, <1>6 DEF Laid, QHD, HD, p

\* 2560 x 1440 to 800 x 600: every other row.
LEMMA V2560X1440_To_800X600_Scaler_Laid == Laid(QHD, SVGA, V2560X1440_To_800X600_Scaler)
<1> DEFINE p == V2560X1440_To_800X600_Scaler
<1>1. /\ p.rows = 600 /\ p.period = 1 /\ p.take = {0} /\ p.again = {}
      /\ p.top = 0 /\ p.left = 960 /\ p.pitch = 10240
      /\ p.step = 8 /\ p.units = 400
      /\ p.barTop = 0 /\ p.barBottom = 0 /\ p.barSide = 0
  BY DEF V2560X1440_To_800X600_Scaler, V2560X1440_To_HD_Scaler, Copy
<1>2. p.picks = HalfPicks
  BY DEF V2560X1440_To_800X600_Scaler, V2560X1440_To_HD_Scaler, Copy
<1> HIDE DEF p
<1>3. Loop(p, 1, 1)
  BY <1>1, EveryRow
<1>4. Len(p.picks) = 4
  BY <1>2 DEF HalfPicks
<1>5. Coloured(p)
  BY <1>1, <1>2, <1>4, Kernels DEF Coloured
<1>6. Whole(p, 2560, 800, 600, 1) /\ Inside(p, 2560, 1440, 1)
  BY <1>1, <1>4 DEF Whole, Inside, PlanTypeOK, Periods, FirstRow, Stride, Above, Below
<1>7. QED
  BY <1>3, <1>5, <1>6 DEF Laid, QHD, SVGA, p

\* All 29 of them.
LEMMA OwnLaid ==
  ASSUME NEW e \in OwnScaler
  PROVE  Laid(e[1], e[2], e[3])
  BY FHD_To_HD_Scaler_Laid, FHD_To_800X600_Scaler_Laid, UHD_To_800X600_Scaler_Laid,
     UHDW_To_800X600_Scaler_Laid, HD_To_FHD_Scaler_Laid, HD_To_800X600_Scaler_Laid,
     SD_PAL_To_SD_NTSC_Scaler_Laid, SD_NTSC_To_SD_PAL_Scaler_Laid, SD_PAL_To_FHD_Scaler_Laid,
     SD_NTSC_To_FHD_Scaler_Laid, SD_PAL_To_HD_Scaler_Laid, SD_NTSC_To_HD_Scaler_Laid,
     V1280X1024_To_FHD_Scaler_Laid, V1280X1024_To_HD_Scaler_Laid,
     V1280X1024_To_800X600_Scaler_Laid, FHD_To_SD_NTSC_Scaler_Laid, FHD_To_SD_PAL_Scaler_Laid,
     HD_To_SD_NTSC_Scaler_Laid, HD_To_SD_PAL_Scaler_Laid, V1280X1024_NTSC_Scaler_Laid,
     V1280X1024_PAL_Scaler_Laid, UHD_TO_FHD_Scaler_Laid, UHD_To_2560x1440_Scaler_Laid,
     UHD_To_HD_Scaler_Laid, UHDW_TO_FHD_Scaler_Laid, UHDW_To_HD_Scaler_Laid,
     V2560X1440_To_FHD_Scaler_Laid, V2560X1440_To_HD_Scaler_Laid,
     V2560X1440_To_800X600_Scaler_Laid DEF OwnScaler

-----------------------------------------------------------------------------
\* The sizes without a scaler of their own.
AnyOtherSize(j) == Own(j.w, InH(j), j.out_w, j.out_h) = {}

\* The bars around a smaller picture have the same width on both sides.
FitsEvenly(j) ==
  /\ j.w < j.out_w => (j.out_w - j.w) % 2 = 0
  /\ InH(j) < j.out_h => (j.out_h - InH(j)) % 2 = 0

\* Rows are whole pairs of pixels.
EvenWidths(j) == j.w % 2 = 0 /\ j.out_w % 2 = 0

\* Half of what one number has over another, rounded down.
LEMMA ExcessHalf ==
  ASSUME NEW a \in Nat, NEW b \in Nat
  PROVE  /\ Excess(a, b) \in Nat
         /\ a > b => 2 * Excess(a, b) <= a - b /\ a - b <= 2 * Excess(a, b) + 1
         /\ a > b /\ (a - b) % 2 = 0 => 2 * Excess(a, b) = a - b
         /\ a <= b => Excess(a, b) = 0
  BY DEF Excess

\* They go through All_VideoScaler().
LEMMA OtherPlan ==
  ASSUME NEW j \in Jobs, AnyOtherSize(j)
  PROVE  /\ Plan(j).rows = j.out_h - 2 * Excess(j.out_h, InH(j))
         /\ Plan(j).period = 1 /\ Plan(j).take = {0} /\ Plan(j).again = {}
         /\ Plan(j).top = Excess(InH(j), j.out_h) * 2 * j.w
         /\ Plan(j).left = 2 * Excess(j.w, j.out_w)
         /\ Plan(j).step = 2 /\ Plan(j).picks = <<0, 1>>
         /\ Plan(j).units = j.out_w - 2 * Excess(j.out_w, j.w)
         /\ Plan(j).pitch = 2 * j.w
         /\ Plan(j).barTop = Excess(j.out_h, InH(j)) * 2 * j.out_w
         /\ Plan(j).barBottom = Excess(j.out_h, InH(j)) * 2 * j.out_w
         /\ Plan(j).barSide = 2 * Excess(j.out_w, j.w)
<1>1. Plan(j) = All_VideoScaler(j.w, InH(j), j.out_w, j.out_h)
  BY DEF Plan, VideoScaler, AnyOtherSize
<1>2. QED
  BY <1>1 DEF All_VideoScaler, Copy

\* Its numbers fit the two sizes.
LEMMA OtherNumbers ==
  ASSUME NEW j \in Jobs, AnyOtherSize(j)
  PROVE  LET p == Plan(j)
             below == Excess(j.out_h, InH(j))
             above == Excess(InH(j), j.out_h)
         IN  /\ p.rows \in Nat /\ below \in Nat /\ above \in Nat
             /\ below + p.rows + below = j.out_h
             /\ p.units \in Nat \ {0} /\ p.left \in 0 .. 2 * j.w - 1
             /\ p.barSide \in Nat
             /\ 2 * p.units + 2 * p.barSide = 2 * j.out_w
             /\ FitsEvenly(j) => above + p.rows <= InH(j) /\ p.left + 2 * p.units <= 2 * j.w
             /\ EvenWidths(j) => p.barSide - p.left = j.out_w - j.w
<1> DEFINE p == Plan(j)
           h == InH(j)
           w == j.w
           ow == j.out_w
           oh == j.out_h
           eh == Excess(h, oh)
           eoh == Excess(oh, h)
           ew == Excess(w, ow)
           eow == Excess(ow, w)
<1>1. h \in Nat \ {0} /\ w \in Nat \ {0} /\ ow \in Nat \ {0} /\ oh \in Nat \ {0}
  BY JobFacts
<1>2. /\ FitsEvenly(j) => (w < ow => (ow - w) % 2 = 0) /\ (h < oh => (oh - h) % 2 = 0)
      /\ EvenWidths(j) => w % 2 = 0 /\ ow % 2 = 0
  BY DEF FitsEvenly, EvenWidths
<1>3. /\ p.rows = oh - 2 * eoh /\ p.left = 2 * ew /\ p.units = ow - 2 * eow
      /\ p.barSide = 2 * eow
  BY OtherPlan
<1> HIDE DEF p, h, w, ow, oh
<1>4. /\ eh \in Nat /\ (h > oh => 2 * eh <= h - oh) /\ (h <= oh => eh = 0)
      /\ eoh \in Nat /\ (oh > h => 2 * eoh <= oh - h) /\ (oh <= h => eoh = 0)
      /\ oh > h /\ (oh - h) % 2 = 0 => 2 * eoh = oh - h
  BY <1>1, ExcessHalf
<1>5. /\ ew \in Nat /\ (w > ow => 2 * ew <= w - ow) /\ (w <= ow => ew = 0)
      /\ eow \in Nat /\ (ow > w => 2 * eow <= ow - w) /\ (ow <= w => eow = 0)
      /\ ow > w /\ (ow - w) % 2 = 0 => 2 * eow = ow - w
      /\ w > ow /\ (w - ow) % 2 = 0 => 2 * ew = w - ow
  BY <1>1, ExcessHalf
<1> HIDE DEF eh, eoh, ew, eow
<1>6. p.rows \in Nat /\ eoh + p.rows + eoh = oh
  BY <1>1, <1>3, <1>4
<1>7. /\ p.units \in Nat \ {0} /\ p.left \in 0 .. 2 * w - 1
      /\ p.barSide \in Nat /\ 2 * p.units + 2 * p.barSide = 2 * ow
  BY <1>1, <1>3, <1>5
<1>8. FitsEvenly(j) => eh + p.rows <= h /\ p.left + 2 * p.units <= 2 * w
  <2>1. ASSUME FitsEvenly(j) PROVE eh + p.rows <= h
    BY <1>1, <1>2, <1>3, <1>4, <2>1
  <2>2. ASSUME FitsEvenly(j) PROVE p.left + 2 * p.units <= 2 * w
    BY <1>1, <1>2, <1>3, <1>5, <2>2
  <2>3. QED
    BY <2>1, <2>2
<1>9. ASSUME EvenWidths(j) PROVE p.barSide - p.left = ow - w
  <2>1. w % 2 = 0 /\ ow % 2 = 0
    BY <1>2, <1>9
  <2>2. (w - ow) % 2 = 0 /\ (ow - w) % 2 = 0
    BY <1>1, <2>1
  <2>3. QED
    BY <1>1, <1>3, <1>5, <2>2
<1>10. QED
  BY <1>4, <1>6, <1>7, <1>8, <1>9 DEF p, h, w, ow, oh, eh, eoh

\* Bytes a multiple of four apart are of one channel.
LEMMA ChannelSame ==
  ASSUME NEW a \in Int, NEW b \in Int, NEW z \in Int, a = b + 4 * z
  PROVE  Channel(a) = Channel(b)
<1>1. a % 4 = b % 4 /\ a % 2 = b % 2
  OBVIOUS
<1>2. QED
  BY <1>1 DEF Channel

\* A plan that fits a job: in the periods of its loop, its rows, and the groups in a row.
TurnsFit(j, p, s, o) ==
  /\ Turns(p, s, o)
  /\ Whole(p, j.w, j.out_w, j.out_h, o[p.period])
  /\ FitsEvenly(j) => Inside(p, j.w, InH(j), s[p.period])
  /\ EvenWidths(j) /\ (j.w - j.out_w) % 4 = 0 => Coloured(p)

\* All_VideoScaler() does.
LEMMA OtherFits ==
  ASSUME NEW j \in Jobs, AnyOtherSize(j)
  PROVE  \E s, o : TurnsFit(j, Plan(j), s, o)
<1> DEFINE p == Plan(j)
           w == j.w
           ow == j.out_w
           h == InH(j)
           oh == j.out_h
           below == Excess(oh, h)
           above == Excess(h, oh)
<1>1. /\ w \in Nat \ {0} /\ ow \in Nat \ {0} /\ h \in Nat \ {0} /\ oh \in Nat \ {0}
  BY JobFacts
<1>2. /\ p.period = 1 /\ p.take = {0} /\ p.again = {} /\ p.step = 2 /\ p.picks = <<0, 1>>
      /\ p.top = above * 2 * w /\ p.pitch = 2 * w
      /\ p.barTop = below * 2 * ow /\ p.barBottom = below * 2 * ow
      /\ p.left = 2 * Excess(w, ow)
  BY OtherPlan
<1>3. /\ p.rows \in Nat /\ below \in Nat /\ above \in Nat
      /\ below + p.rows + below = oh
      /\ p.units \in Nat \ {0} /\ p.left \in 0 .. 2 * w - 1 /\ p.barSide \in Nat
      /\ 2 * p.units + 2 * p.barSide = 2 * ow
      /\ FitsEvenly(j) => above + p.rows <= h /\ p.left + 2 * p.units <= 2 * w
      /\ EvenWidths(j) => p.barSide - p.left = ow - w
  BY OtherNumbers
<1> HIDE DEF p, w, ow, h, oh, below, above
<1>4. PICK s, o : Turns(p, s, o) /\ s[p.period] = 1 /\ o[p.period] = 1
  BY <1>2, EveryRow DEF Loop
<1>5. Len(p.picks) = 2
  BY <1>2
<1>6. FirstRow(p, w) = above /\ p.top = above * (2 * w)
  <2>1. p.top = above * (2 * w) + 0 /\ p.top = above * (2 * w) /\ 2 * w \in Nat \ {0}
    BY <1>1, <1>2, <1>3
  <2>2. 0 \in 0 .. 2 * w - 1
    BY <1>1
  <2>3. QED
    BY <1>3, <2>1, <2>2, WholeRows DEF FirstRow
<1>7. /\ Above(p, ow) = below /\ Below(p, ow) = below
      /\ p.barTop = below * (2 * ow) /\ p.barBottom = below * (2 * ow)
  <2>1. /\ p.barTop = below * (2 * ow) + 0 /\ p.barTop = below * (2 * ow)
        /\ p.barBottom = p.barTop /\ 2 * ow \in Nat \ {0}
    BY <1>1, <1>2, <1>3
  <2>2. 0 \in 0 .. 2 * ow - 1
    BY <1>1
  <2>3. (below * (2 * ow) + 0) \div (2 * ow) = below
    BY <1>3, <2>1, <2>2, WholeRows
  <2>4. QED
    BY <2>1, <2>3 DEF Above, Below
<1>8. Stride(p, w) = 1 /\ p.pitch = 1 * (2 * w)
  <2>1. p.pitch = 1 * (2 * w) + 0 /\ p.pitch = 1 * (2 * w) /\ 2 * w \in Nat \ {0}
    BY <1>1, <1>2
  <2>2. 0 \in 0 .. 2 * w - 1 /\ 1 \in Nat
    BY <1>1
  <2>3. QED
    BY <2>1, <2>2, WholeRows DEF Stride
<1>9. Periods(p) = p.rows /\ p.rows = p.rows * p.period
  BY <1>2, <1>3 DEF Periods
<1>10. PlanTypeOK(p)
  <2>1. p.top \in Nat /\ p.pitch \in Nat /\ p.barTop \in Nat /\ p.barBottom \in Nat
    BY <1>1, <1>3, <1>6, <1>7, <1>8
  <2>2. p.left \in Nat
    BY <1>1, <1>3
  <2>3. QED
    BY <1>2, <1>3, <1>5, <2>1, <2>2 DEF PlanTypeOK
<1>11. Whole(p, w, ow, oh, o[p.period])
  <2>1. Above(p, ow) + o[p.period] * Periods(p) + Below(p, ow) = oh
    BY <1>1, <1>3, <1>4, <1>7, <1>9
  <2>2. p.units * Len(p.picks) + 2 * p.barSide = 2 * ow
    BY <1>1, <1>3, <1>5
  <2>3. QED
    BY <1>3, <1>6, <1>7, <1>8, <1>9, <1>10, <2>1, <2>2 DEF Whole
<1>12. ASSUME FitsEvenly(j) PROVE Inside(p, w, h, s[p.period])
  <2>1. above + p.rows <= h /\ p.left + 2 * p.units <= 2 * w
    BY <1>3, <1>12
  <2>2. FirstRow(p, w) + Stride(p, w) * (s[p.period] * Periods(p)) <= h + Stride(p, w) - 1
    BY <1>1, <1>3, <1>4, <1>6, <1>8, <1>9, <2>1
  <2>3. p.left + p.units * p.step <= 2 * w
    BY <1>1, <1>2, <1>3, <2>1
  <2>4. QED
    BY <2>2, <2>3 DEF Inside
<1>13. ASSUME EvenWidths(j), (w - ow) % 4 = 0 PROVE Coloured(p)
  <2>1. p.barSide - p.left = ow - w
    BY <1>3, <1>13
  <2>2. (ow - w) % 4 = 0
    BY <1>1, <1>13
  <2>3. QED
    BY <1>2, <2>1, <2>2 DEF Coloured
<1>14. QED
  BY <1>4, <1>11, <1>12, <1>13 DEF TurnsFit, p, w, ow, h, oh

\* A scaler made for a pair of sizes does.
LEMMA OwnFits ==
  ASSUME NEW j \in Jobs, ~AnyOtherSize(j)
  PROVE  \E s, o : TurnsFit(j, Plan(j), s, o)
<1> DEFINE p == Plan(j)
<1>1. PICK e \in OwnScaler :
        e[1] = <<j.w, InH(j)>> /\ e[2] = <<j.out_w, j.out_h>> /\ p = e[3]
  BY DEF AnyOtherSize, Own, Plan, VideoScaler
<1>2. /\ e[1][1] = j.w /\ e[1][2] = InH(j)
      /\ e[2][1] = j.out_w /\ e[2][2] = j.out_h
  BY <1>1
<1>3. Laid(e[1], e[2], p)
  BY <1>1, OwnLaid
<1> HIDE DEF p
<1>4. PICK S \in Nat, O \in Nat :
        Loop(p, S, O) /\ Whole(p, j.w, j.out_w, j.out_h, O) /\ Inside(p, j.w, InH(j), S)
  BY <1>2, <1>3, Zenon DEF Laid
<1>5. Coloured(p)
  BY <1>3, Zenon DEF Laid
<1>6. PICK s, o : Turns(p, s, o) /\ s[p.period] = S /\ o[p.period] = O
  BY <1>4, Zenon DEF Loop
<1>7. TurnsFit(j, p, s, o)
  BY <1>4, <1>5, <1>6, Zenon DEF TurnsFit
<1>8. QED
  BY <1>7, Zenon DEF p

\* Every plan VideoScaler() has fits its job.
LEMMA PlanFits ==
  ASSUME NEW j \in Jobs
  PROVE  \E s, o : TurnsFit(j, Plan(j), s, o)
  BY OtherFits, OwnFits

-----------------------------------------------------------------------------
\* Turn k of period q: what is behind it, and that the loop is not over.
LEMMA TurnPlaces ==
  ASSUME NEW p, NEW s, NEW o, Turns(p, s, o), p.period \in Nat \ {0},
         NEW N \in Nat, NEW q \in Nat, NEW k \in 0 .. p.period - 1,
         q * p.period + k < N * p.period
  PROVE  /\ q + 1 <= N /\ (q * p.period + k) % p.period = k
         /\ s[k] \in Nat /\ s[k + 1] \in Nat /\ s[p.period] \in Nat
         /\ o[k] \in Nat /\ o[k + 1] \in Nat /\ o[p.period] \in Nat
         /\ o[p.period] * q + o[k + 1] <= o[p.period] * N
         /\ k \notin p.again => s[p.period] * q + s[k] + 1 <= s[p.period] * N
<1> DEFINE n == p.period
           S == s[n]
           O == o[n]
<1>1. n \in Nat \ {0} /\ k \in 0 .. n /\ k + 1 \in 0 .. n /\ n \in 0 .. n
  OBVIOUS
<1>2. /\ s[k] \in Nat /\ s[k + 1] \in Nat /\ S \in Nat
      /\ o[k] \in Nat /\ o[k + 1] \in Nat /\ O \in Nat
      /\ s[k + 1] <= S /\ o[k + 1] <= O
      /\ k \notin p.again => s[k + 1] = s[k] + 1
  BY <1>1 DEF Turns
<1>3. (q * n + k) % n = k
  BY <1>1, WholeRows
<1>4. q * n + k < N * n
  OBVIOUS
<1> HIDE DEF n, S, O
<1>5. q + 1 <= N
  <2> SUFFICES ASSUME N <= q PROVE FALSE
    OBVIOUS
  <2>1. N * n <= q * n
    BY <1>1, ProductGrows
  <2>2. N * n \in Nat /\ q * n \in Nat
    BY <1>1
  <2>3. QED
    BY <1>1, <1>4, <2>1, <2>2
<1>6. S * q + S <= S * N /\ O * q + O <= O * N
  <2>1. q * S + S <= N * S /\ q * O + O <= N * O
    BY <1>2, <1>5, RowEnds
  <2>2. q * S = S * q /\ N * S = S * N /\ q * O = O * q /\ N * O = O * N
    BY <1>2
  <2>3. QED
    BY <2>1, <2>2
<1>7. S * q \in Nat /\ S * N \in Nat /\ O * q \in Nat /\ O * N \in Nat
  BY <1>2
<1>8. O * q + o[k + 1] <= O * N
  BY <1>2, <1>6, <1>7
<1>9. k \notin p.again => S * q + s[k] + 1 <= S * N
  BY <1>2, <1>6, <1>7
<1>10. QED
  BY <1>2, <1>3, <1>5, <1>8, <1>9 DEF n, S, O

\* Turn t of period z begins where turn k of period q ends.
Follows(p, s, o, q, k, z, t) ==
  /\ z \in Nat /\ t \in 0 .. p.period - 1
  /\ z * p.period + t = q * p.period + k + 1
  /\ s[p.period] * z + s[t] = s[p.period] * q + s[k + 1]
  /\ o[p.period] * z + o[t] = o[p.period] * q + o[k + 1]

\* There is one, in this period or the next.
LEMMA TurnAfter ==
  ASSUME NEW p, NEW s, NEW o, Turns(p, s, o), p.period \in Nat \ {0},
         NEW q \in Nat, NEW k \in 0 .. p.period - 1
  PROVE  \E z, t : Follows(p, s, o, q, k, z, t)
<1> DEFINE n == p.period
           S == s[n]
           O == o[n]
<1>1. n \in Nat \ {0} /\ k \in 0 .. n - 1 /\ k + 1 \in 0 .. n /\ n \in 0 .. n
  OBVIOUS
<1>2. S \in Nat /\ O \in Nat /\ s[0] = 0 /\ o[0] = 0
  BY <1>1 DEF Turns
<1>3. CASE k + 1 # n
  <2>1. k + 1 \in 0 .. n - 1 /\ q * n + (k + 1) = q * n + k + 1
    BY <1>1, <1>3
  <2>2. Follows(p, s, o, q, k, q, k + 1)
    BY <2>1 DEF Follows
  <2>3. QED
    BY <2>2
<1>4. CASE k + 1 = n
  <2>1. s[k + 1] = S /\ o[k + 1] = O
    BY <1>4
  <2> HIDE DEF n, S, O
  <2>2. q + 1 \in Nat /\ 0 \in 0 .. n - 1
    BY <1>1
  <2>3. (q + 1) * n + 0 = q * n + k + 1
    BY <1>1, <1>4
  <2>4. S * (q + 1) + s[0] = S * q + s[k + 1] /\ O * (q + 1) + o[0] = O * q + o[k + 1]
    BY <1>2, <2>1
  <2>5. Follows(p, s, o, q, k, q + 1, 0)
    BY <2>2, <2>3, <2>4 DEF Follows, n, S, O
  <2>6. QED
    BY <2>5
<1>5. QED
  BY <1>3, <1>4

\* What the plan of a job is made of, in numbers.
LEMMA FitsFacts ==
  ASSUME NEW j \in Jobs, NEW p, NEW s, NEW o, TurnsFit(j, p, s, o)
  PROVE  /\ Turns(p, s, o) /\ PlanTypeOK(p)
         /\ p.rows = Periods(p) * p.period
         /\ FirstRow(p, j.w) \in Nat /\ Periods(p) \in Nat /\ Stride(p, j.w) \in Nat \ {0}
         /\ Above(p, j.out_w) \in Nat /\ Below(p, j.out_w) \in Nat
         /\ s[p.period] \in Nat /\ o[p.period] \in Nat
<1>1. Turns(p, s, o) /\ Whole(p, j.w, j.out_w, j.out_h, o[p.period])
  BY DEF TurnsFit
<1>2. PlanTypeOK(p)
  BY <1>1 DEF Whole
<1>3. p.period \in 0 .. p.period
  BY <1>2 DEF PlanTypeOK
<1>4. s[p.period] \in Nat /\ o[p.period] \in Nat
  BY <1>1, <1>3 DEF Turns
<1>5. QED
  BY <1>1, <1>2, <1>4, Zenon DEF Whole

\* Before a turn the output is whole rows, and with the bar below all of it at the end.
LEMMA RowsOut ==
  ASSUME NEW j \in Jobs, NEW p, NEW s, NEW o, TurnsFit(j, p, s, o),
         NEW q \in Nat, NEW k \in 0 .. p.period - 1, q * p.period + k <= p.rows,
         NEW x, x = (Above(p, j.out_w) + (o[p.period] * q + o[k])) * (2 * j.out_w)
  PROVE  /\ x <= OutBytes(j) /\ x % (2 * j.out_w) = 0
         /\ q * p.period + k = p.rows => x + p.barBottom = OutBytes(j)
<1> DEFINE n == p.period
           O == o[n]
           N == Periods(p)
           ow == j.out_w
           m == 2 * ow
           a == Above(p, ow)
           b == Below(p, ow)
           oh == j.out_h
           ok == o[k]
<1>1. /\ Turns(p, s, o) /\ n \in Nat \ {0} /\ p.rows = N * n
      /\ N \in Nat /\ a \in Nat /\ b \in Nat /\ O \in Nat
  BY FitsFacts DEF PlanTypeOK
<1>2. a + O * N + b = oh /\ p.barBottom = b * m
  BY Zenon DEF TurnsFit, Whole
<1>3. m \in Nat \ {0} /\ oh \in Nat
  BY JobFacts
<1>4. OutBytes(j) = oh * m
  <2>1. ow \in Nat /\ oh \in Nat /\ OutBytes(j) = 2 * ow * oh
    BY JobFacts DEF OutBytes
  <2> HIDE DEF ow, oh
  <2>2. 2 * ow * oh = oh * (2 * ow)
    BY <2>1
  <2>3. QED
    BY <2>1, <2>2
<1>5. ok \in Nat /\ (k = 0 => ok = 0)
  <2>1. k \in 0 .. n
    BY <1>1
  <2>2. QED
    BY <1>1, <2>1 DEF Turns
<1>6. q * n + k <= N * n /\ k \in 0 .. n - 1 /\ x = (a + (O * q + ok)) * m
  BY <1>1
<1>7. CASE q * n + k < N * n
  <2>1. /\ ok \in Nat /\ O * q + o[k + 1] <= O * N /\ o[k + 1] \in Nat
    BY <1>1, <1>7, TurnPlaces
  <2>2. ok <= o[k + 1]
    <3>1. o[k + 1] = IF k \in p.take \cup p.again THEN ok + 1 ELSE ok
      BY <1>1 DEF Turns
    <3>2. QED
      BY <1>5, <3>1
  <2> DEFINE u == o[k + 1]
  <2> HIDE DEF n, O, N, ow, m, a, b, oh, ok, u
  <2>3. O * q \in Nat /\ O * N \in Nat
    BY <1>1
  <2>4. O * q + ok <= O * N
    BY <1>1, <1>5, <2>1, <2>2, <2>3 DEF u
  <2>5. a + (O * q + ok) \in Nat /\ a + (O * q + ok) <= oh
    BY <1>1, <1>2, <1>3, <1>5, <2>3, <2>4
  <2> DEFINE r == a + (O * q + ok)
  <2>6. x = r * m /\ r \in Nat /\ r <= oh
    BY <1>6, <2>5
  <2> HIDE DEF r
  <2>7. x <= oh * m
    BY <1>3, <2>6, ProductGrows
  <2>8. x % m = 0
    <3>1. 0 \in 0 .. m - 1 /\ r * m + 0 = x
      BY <1>3, <2>6
    <3>2. (r * m + 0) % m = 0
      BY <1>3, <2>6, <3>1, WholeRows
    <3>3. QED
      BY <3>1, <3>2
  <2>9. q * n + k # p.rows
    <3>1. q * n + k \in Nat /\ N * n \in Nat
      BY <1>1, <1>6
    <3>2. QED
      BY <1>1, <1>7, <3>1
  <2>10. QED
    BY <1>4, <2>7, <2>8, <2>9 DEF n, m, ow
<1>8. CASE q * n + k = N * n
  <2> HIDE DEF n, O, N, ow, m, a, b, oh
  <2>1. q = N /\ k = 0
    <3>1. (q * n + k) \div n = q /\ (q * n + k) % n = k
      BY <1>1, <1>6, WholeRows
    <3>2. 0 \in 0 .. n - 1 /\ N * n + 0 = N * n
      BY <1>1
    <3>3. (N * n + 0) \div n = N /\ (N * n + 0) % n = 0
      BY <1>1, <3>2, WholeRows
    <3>4. QED
      BY <1>8, <3>1, <3>2, <3>3
  <2>2. ok = 0
    BY <1>5, <2>1
  <2> HIDE DEF ok
  <2>3. O * q \in Nat /\ O * q = O * N
    BY <1>1, <2>1
  <2> DEFINE r == a + O * N
  <2>4. x = r * m /\ r \in Nat /\ r + b = oh
    BY <1>1, <1>2, <1>6, <2>2, <2>3
  <2> HIDE DEF r
  <2>5. x + b * m = oh * m
    BY <1>1, <1>3, <2>4
  <2>6. x <= oh * m
    <3>1. r <= oh
      BY <1>1, <1>3, <2>4
    <3>2. QED
      BY <1>3, <2>4, <3>1, ProductGrows
  <2>7. x % m = 0
    <3>1. 0 \in 0 .. m - 1 /\ r * m + 0 = x
      BY <1>3, <2>4
    <3>2. (r * m + 0) % m = 0
      BY <1>3, <2>4, <3>1, WholeRows
    <3>3. QED
      BY <3>1, <3>2
  <2>8. QED
    BY <1>2, <1>4, <2>5, <2>6, <2>7 DEF m, ow
<1>9. QED
  <2>1. q * n + k \in Nat /\ N * n \in Nat
    BY <1>1
  <2>2. QED
    BY <1>6, <1>7, <1>8, <2>1

\* A row taken is one of the source's, and what is read of it ends inside.
LEMMA RowRead ==
  ASSUME NEW j \in Jobs, NEW p, NEW s, NEW o, TurnsFit(j, p, s, o), FitsEvenly(j),
         NEW q \in Nat, NEW k \in 0 .. p.period - 1, q * p.period + k < p.rows,
         k \notin p.again,
         NEW x, x = (FirstRow(p, j.w) + Stride(p, j.w) * (s[p.period] * q + s[k])) * (2 * j.w)
  PROVE  /\ ((x + p.left) % (2 * j.w)) + p.units * p.step <= 2 * j.w
         /\ x + p.left + p.units * p.step <= InBytes(j)
<1> DEFINE N == Periods(p)
           n == p.period
           S == s[n]
           w == j.w
           m == 2 * w
           h == InH(j)
           f == FirstRow(p, w)
           t == Stride(p, w)
           left == p.left
           read == p.units * p.step
           sk == s[k]
<1>1. /\ Turns(p, s, o) /\ n \in Nat \ {0} /\ p.rows = N * n
      /\ N \in Nat /\ f \in Nat /\ t \in Nat \ {0} /\ left \in Nat
      /\ p.units \in Nat \ {0} /\ p.step \in Nat \ {0}
  BY FitsFacts DEF PlanTypeOK
<1>2. left + read <= m /\ f + t * (S * N) <= h + t - 1
  BY Zenon DEF TurnsFit, Inside
<1>3. m \in Nat \ {0} /\ h \in Nat /\ w \in Nat
  BY JobFacts
<1>4. S \in Nat /\ sk \in Nat /\ S * q + sk + 1 <= S * N
  <2>1. q * n + k < N * n
    BY <1>1
  <2>2. QED
    BY <1>1, <2>1, TurnPlaces
<1>5. read \in Nat \ {0}
  <2> DEFINE u == p.units
             z == p.step
  <2>1. u \in Nat \ {0} /\ z \in Nat \ {0}
    BY <1>1
  <2> HIDE DEF u, z
  <2>2. u * z \in Nat /\ 0 * z + z <= u * z
    BY <2>1, RowEnds
  <2>3. u * z \in Nat \ {0}
    BY <2>1, <2>2
  <2>4. QED
    BY <2>3 DEF u, z
<1>6. InBytes(j) = h * m
  <2>1. InBytes(j) = 2 * w * h
    BY DEF InBytes
  <2> HIDE DEF w, h
  <2>2. 2 * w * h = h * (2 * w)
    BY <1>3
  <2>3. QED
    BY <2>1, <2>2
<1>7. x = (f + t * (S * q + sk)) * m
  OBVIOUS
<1> HIDE DEF N, n, S, w, m, h, f, t, left, read, sk
<1> DEFINE v == S * q + sk
           r == f + t * v
<1>8. v \in Nat /\ S * N \in Nat /\ v + 1 <= S * N
  BY <1>1, <1>4
<1>9. r \in Nat /\ r + 1 <= h
  <2> DEFINE g == S * N
  <2> HIDE DEF v, g
  <2>1. v * t + t <= g * t
    BY <1>1, <1>8, RowEnds DEF g
  <2>2. v * t = t * v /\ g * t = t * g /\ t * v \in Nat /\ t * g \in Nat
    BY <1>1, <1>8 DEF g
  <2>3. f + t * g <= h + t - 1
    BY <1>2 DEF g
  <2>4. QED
    BY <1>1, <1>3, <2>1, <2>2, <2>3
<1>10. x = r * m
  BY <1>7
<1> HIDE DEF v, r
<1>11. left \in 0 .. m - 1
  BY <1>1, <1>2, <1>3, <1>5
<1>12. (x + left) % m = left
  <2>1. (r * m + left) % m = left
    BY <1>3, <1>9, <1>11, WholeRows
  <2>2. QED
    BY <1>10, <2>1, Zenon
<1>13. x + left + read <= h * m
  <2>1. r * m + m <= h * m
    BY <1>3, <1>9, RowEnds
  <2>2. r * m \in Nat /\ h * m \in Nat
    BY <1>3, <1>9
  <2>3. QED
    BY <1>1, <1>2, <1>3, <1>5, <1>10, <2>1, <2>2
<1>14. ((x + left) % m) + read <= m
  BY <1>2, <1>12
<1>15. QED
  BY <1>6, <1>13, <1>14 DEF m, w, left, read

\* A row of pairs of pixels is a multiple of four bytes.
LEMMA PairRows ==
  ASSUME NEW r \in Nat, NEW w \in Nat, w % 2 = 0
  PROVE  \E z \in Nat : r * (2 * w) = 4 * z
<1>1. PICK t \in Nat : w = 2 * t
  <2>1. w \div 2 \in Nat /\ w = 2 * (w \div 2)
    OBVIOUS
  <2>2. QED
    BY <2>1
<1>2. r * (2 * w) = 4 * (r * t) /\ r * t \in Nat
  BY <1>1
<1>3. QED
  BY <1>2

\* Numbers whose difference is a multiple of four.
LEMMA ByFour ==
  ASSUME NEW a \in Int, a % 4 = 0
  PROVE  \E z \in Int : a = 4 * z
<1>1. a \div 4 \in Int /\ a = 4 * (a \div 4)
  OBVIOUS
<1>2. QED
  BY <1>1

\* A place so far into a row of m bytes.
InRow(at, m, left) == \E r \in Nat : at = r * m + left

\* What ColoursKept says of one row.
SameChannels(p, from, to) ==
  \A u \in {0, 1, p.units - 1}, i \in DOMAIN p.picks :
    Channel(to + u * Len(p.picks) + i - 1) = Channel(from + u * p.step + p.picks[i])

(***************************************************************************)
(* Every byte of a row is written to a byte of its channel.                *)
(***************************************************************************)
LEMMA RowColour ==
  ASSUME NEW j \in Jobs, EvenWidths(j), NEW p, PlanTypeOK(p), Coloured(p),
         NEW from, NEW to,
         InRow(from, 2 * j.w, p.left), InRow(to, 2 * j.out_w, p.barSide)
  PROVE  SameChannels(p, from, to)
<1> SUFFICES ASSUME NEW v \in {0, 1, p.units - 1}, NEW i \in DOMAIN p.picks
             PROVE  Channel(to + v * Len(p.picks) + i - 1) = Channel(from + v * p.step + p.picks[i])
  BY DEF SameChannels
<1>1. PICK a \in Nat, b \in Nat :
        from = a * (2 * j.w) + p.left /\ to = b * (2 * j.out_w) + p.barSide
  BY DEF InRow
<1>2. v \in Nat
  BY DEF PlanTypeOK
<1> DEFINE x == a * (2 * j.w)
           z == b * (2 * j.out_w)
           left == p.left
           side == p.barSide
<1>3. PICK xx \in Nat : x = 4 * xx
  BY JobFacts, PairRows DEF EvenWidths
<1>4. PICK zz \in Nat : z = 4 * zz
  BY JobFacts, PairRows DEF EvenWidths
<1>5. left \in Nat /\ side \in Nat /\ v \in Nat /\ from = x + left /\ to = z + side
  BY <1>1, <1>2 DEF PlanTypeOK
<1> HIDE DEF x, z, left, side
<1>6. CASE p.step = 2 /\ p.picks = <<0, 1>> /\ (p.barSide - p.left) % 4 = 0
  <2>1. PICK d \in Int : side - left = 4 * d
    <3>1. side - left \in Int /\ (side - left) % 4 = 0
      BY <1>5, <1>6 DEF side, left
    <3>2. QED
      BY <3>1, ByFour
  <2>2. i \in {1, 2} /\ p.picks[i] = i - 1 /\ Len(p.picks) = 2 /\ p.step = 2
    BY <1>6
  <2> DEFINE e == to + v * Len(p.picks) + i - 1
             c == from + v * p.step + p.picks[i]
  <2>3. e \in Int /\ c \in Int /\ e = c + 4 * (zz - xx + d) /\ zz - xx + d \in Int
    BY <1>3, <1>4, <1>5, <2>1, <2>2
  <2> HIDE DEF e, c
  <2>4. Channel(e) = Channel(c)
    <3> DEFINE f == zz - xx + d
    <3>1. e = c + 4 * f /\ f \in Int
      BY <2>3
    <3> HIDE DEF f
    <3>2. QED
      BY <2>3, <3>1, ChannelSame
  <2>5. QED
    BY <2>4 DEF e, c
<1>7. CASE /\ p.step % 4 = 0 /\ Kernel(p.picks)
           /\ p.left % 4 = 0 /\ p.barSide % 4 = 0
  <2> DEFINE L == Len(p.picks)
             st == p.step
             pick == p.picks[i]
  <2>1. L \in Nat /\ st \in Nat /\ L % 4 = 0 /\ st % 4 = 0
    BY <1>7 DEF PlanTypeOK, Kernel
  <2>2. pick \in Nat /\ Channel(i - 1) = Channel(pick) /\ left % 4 = 0 /\ side % 4 = 0
    BY <1>7 DEF Kernel, left, side
  <2>3. i \in Int /\ pick \in Int
    BY <1>7 DEF Kernel
  <2> HIDE DEF L, st, pick
  <2>4. PICK l \in Int, t \in Int, f \in Int, g \in Int :
          L = 4 * l /\ st = 4 * t /\ left = 4 * f /\ side = 4 * g
    <3>1. \E l \in Int : L = 4 * l
      BY <2>1, ByFour
    <3>2. \E t \in Int : st = 4 * t
      BY <2>1, ByFour
    <3>3. (\E f \in Int : left = 4 * f) /\ (\E g \in Int : side = 4 * g)
      BY <1>5, <2>2, ByFour
    <3>4. QED
      BY <3>1, <3>2, <3>3
  <2> DEFINE e == to + v * L + i - 1
             c == from + v * st + pick
  <2>5. Channel(e) = Channel(i - 1)
    <3> DEFINE d == zz + g + v * l
               k == i - 1
    <3>1. v * L = 4 * (v * l) /\ v * l \in Int
      BY <2>4
    <3>2. e = k + 4 * d /\ d \in Int /\ e \in Int /\ k \in Int
      BY <1>4, <1>5, <2>3, <2>4, <3>1
    <3> HIDE DEF d, k, e
    <3>3. Channel(e) = Channel(k)
      BY <3>2, ChannelSame
    <3>4. QED
      BY <3>3 DEF k
  <2>6. Channel(c) = Channel(pick)
    <3> DEFINE d == xx + f + v * t
    <3>1. v * st = 4 * (v * t) /\ v * t \in Int
      BY <2>4
    <3>2. c = pick + 4 * d /\ d \in Int /\ c \in Int
      BY <1>3, <1>5, <2>3, <2>4, <3>1
    <3> HIDE DEF d, c
    <3>3. QED
      BY <2>3, <3>2, ChannelSame
  <2>7. Channel(e) = Channel(c)
    BY <2>2, <2>5, <2>6, Zenon
  <2>8. QED
    BY <2>7 DEF e, c, L, st, pick
<1>8. QED
  BY <1>6, <1>7 DEF Coloured

-----------------------------------------------------------------------------
(***************************************************************************)
(* Where a scaler's loop stands: before turn k of its period q, so many    *)
(* rows into the source and into the output.                               *)
(***************************************************************************)
AtTurn(s, o, q, k) ==
  LET p == Plan(job)
  IN  /\ y = q * p.period + k
      /\ src = (FirstRow(p, job.w) + Stride(p, job.w) * (s[p.period] * q + s[k])) * (2 * job.w)
      /\ out = (Above(p, job.out_w) + (o[p.period] * q + o[k])) * (2 * job.out_w)

\* It is there in the loop of a plan that fits.
AtRow ==
  /\ y <= Plan(job).rows
  /\ \E s, o :
       /\ TurnsFit(job, Plan(job), s, o)
       /\ \E q \in Nat, k \in 0 .. Plan(job).period - 1 : AtTurn(s, o, q, k)

\* What is shown of every frame.
RenderedRight ==
  /\ FitsEvenly(job) => ReadsInside
  /\ OutputWhole
  /\ EvenWidths(job) => ColoursKept

(***************************************************************************)
(* The invariant: a doubled frame is an interlaced one, a scaler's loop is *)
(* at its row, and the frame is right.                                     *)
(***************************************************************************)
RowInv ==
  /\ LineInv
  /\ phase = "double" => job.il
  /\ phase = "scale" => AtRow
  /\ RenderedRight

\* Nothing is shown of a frame being doubled or refused.
LEMMA RightElsewhere ==
  ASSUME phase' \in {"double", "failed"}
  PROVE  RenderedRight' /\ ~(phase' = "scale")
  BY DEF RenderedRight, ReadsInside, OutputWhole, ColoursKept

\* The plan of a job stays that job's.
LEMMA PlanStays ==
  ASSUME job' = job
  PROVE  /\ Plan(job)' = Plan(job) /\ InBytes(job)' = InBytes(job)
         /\ OutBytes(job)' = OutBytes(job) /\ (FitsEvenly(job)' <=> FitsEvenly(job))
         /\ (EvenWidths(job)' <=> EvenWidths(job))
  BY DEF Plan, InBytes, OutBytes, FitsEvenly, EvenWidths, InH

\* A scaler starts below the bars, at the first row of the picture.
LEMMA ScalerStarts ==
  ASSUME NEW j \in Jobs, job' = j, StartScaler(j)
  PROVE  AtRow' /\ RenderedRight'
<1> DEFINE p == Plan(j)
           m == 2 * j.w
           om == 2 * j.out_w
<1>1. /\ phase' = "scale" /\ y' = 0 /\ last' = {} /\ src' = p.top /\ out' = p.barTop
  BY DEF StartScaler
<1>2. PICK s, o : TurnsFit(j, p, s, o)
  BY PlanFits
<1>3. /\ Turns(p, s, o) /\ PlanTypeOK(p)
      /\ FirstRow(p, j.w) \in Nat /\ Stride(p, j.w) \in Nat \ {0} /\ Above(p, j.out_w) \in Nat
      /\ s[p.period] \in Nat /\ o[p.period] \in Nat
  BY <1>2, FitsFacts
<1>4. p.period \in Nat \ {0} /\ p.rows \in Nat /\ s[0] = 0 /\ o[0] = 0
  BY <1>3 DEF PlanTypeOK, Turns
<1>5. p.top = FirstRow(p, j.w) * m /\ p.barTop = Above(p, j.out_w) * om
  BY <1>2, Zenon DEF TurnsFit, Whole
<1>6. Plan(job)' = p /\ (job.w)' = j.w /\ (job.out_w)' = j.out_w
  BY DEF Plan, InH
<1>7. m \in Nat /\ om \in Nat
  BY JobFacts
<1> HIDE DEF p, m, om
<1>8. /\ 0 = 0 * p.period + 0
      /\ src' = (FirstRow(p, j.w) + Stride(p, j.w) * (s[p.period] * 0 + s[0])) * m
      /\ out' = (Above(p, j.out_w) + (o[p.period] * 0 + o[0])) * om
  BY <1>1, <1>3, <1>4, <1>5, <1>7
<1>9. AtTurn(s, o, 0, 0)'
  BY <1>1, <1>6, <1>8 DEF AtTurn, m, om
<1>10. 0 \in Nat /\ 0 \in 0 .. p.period - 1 /\ 0 * p.period + 0 <= p.rows
  BY <1>4
<1>11. TurnsFit(job, Plan(job), s, o)'
  BY <1>2, <1>6 DEF TurnsFit, InH, FitsEvenly, EvenWidths
<1>12. AtRow'
  BY <1>1, <1>4, <1>6, <1>9, <1>10, <1>11 DEF AtRow
<1>13. out' <= OutBytes(j) /\ out' % om = 0
  BY <1>2, <1>8, <1>10, RowsOut DEF om
<1>14. OutputWhole'
  BY <1>1, <1>13 DEF OutputWhole, OutBytes, om
<1>15. ReadsInside' /\ ColoursKept'
  BY <1>1 DEF ReadsInside, ColoursKept
<1>16. QED
  BY <1>12, <1>14, <1>15 DEF RenderedRight

\* A frame is taken in hand.
LEMMA RowStarts ==
  ASSUME RowInv, NEW j \in Jobs, hws_render_staged(j)
  PROVE  RowInv'
<1>1. LineInv'
  BY LineStarts DEF RowInv
<1>2. job' = j
  BY DEF hws_render_staged
<1>3. CASE ~j.il
  <2>1. StartScaler(j) /\ phase' = "scale"
    BY <1>3 DEF hws_render_staged, StartScaler
  <2>2. AtRow' /\ RenderedRight'
    BY <1>2, <2>1, ScalerStarts
  <2>3. QED
    BY <1>1, <2>1, <2>2 DEF RowInv
<1>4. CASE j.il
  <2>1. phase' \in {"double", "failed"}
    BY <1>4 DEF hws_render_staged
  <2>2. RenderedRight' /\ ~(phase' = "scale")
    BY <2>1, RightElsewhere
  <2>3. QED
    BY <1>1, <1>2, <1>4, <2>2 DEF RowInv
<1>5. QED
  BY <1>3, <1>4

\* A frame of the output's size is whole when its lines are doubled.
LEMMA DoubledWhole ==
  ASSUME RowInv, Doubled, job.w = job.out_w, InH(job) = job.out_h
  PROVE  out = OutBytes(job)
<1> DEFINE p == 2 * job.w
           h == job.h
<1>1. phase = "double" /\ job \in Jobs /\ AtLine /\ job.il /\ src + p > EndOf(3)
  BY DEF Doubled, RowInv, LineInv
<1>2. p \in Nat \ {0} /\ h \in Nat \ {0} /\ InH(job) = 2 * h
  BY <1>1, JobFacts
<1>3. EndOf(3) = h * p
  BY <1>1, QuarterEnds
<1>4. PICK r \in 0 .. h : src = r * p /\ out = (2 * r) * p
  BY <1>1 DEF AtLine
<1>5. OutBytes(job) = p * (2 * h)
  BY <1>2 DEF OutBytes
<1>6. src + p > h * p
  BY <1>1, <1>3
<1> HIDE DEF p, h
<1>7. ~(r + 1 <= h)
  <2> SUFFICES ASSUME r + 1 <= h PROVE FALSE
    OBVIOUS
  <2>1. r \in Nat /\ r * p + p <= h * p
    BY <1>2, RowEnds
  <2>2. r * p \in Nat /\ h * p \in Nat
    BY <1>2, <2>1
  <2>3. QED
    BY <1>2, <1>4, <1>6, <2>1, <2>2
<1>8. r = h
  BY <1>2, <1>7
<1>9. (2 * h) * p = p * (2 * h)
  BY <1>2
<1>10. QED
  BY <1>4, <1>5, <1>8, <1>9

\* The doubled frame is done or goes to the scaler.
LEMMA RowDoubled ==
  ASSUME RowInv, Doubled, LineInv'
  PROVE  RowInv'
<1>1. phase = "double" /\ job \in Jobs /\ job' = job
  BY DEF Doubled, RowInv, LineInv
<1>2. CASE job.w = job.out_w /\ InH(job) = job.out_h
  <2>1. phase' = "done" /\ out' = out
    BY <1>2 DEF Doubled
  <2>2. out' = OutBytes(job')
    BY <1>1, <1>2, <2>1, DoubledWhole
  <2>3. RenderedRight'
    BY <2>1, <2>2 DEF RenderedRight, ReadsInside, OutputWhole, ColoursKept, OutBytes
  <2>4. QED
    BY <2>1, <2>3 DEF RowInv
<1>3. CASE ~(job.w = job.out_w /\ InH(job) = job.out_h)
  <2>1. StartScaler(job) /\ phase' = "scale"
    BY <1>3 DEF Doubled, StartScaler
  <2>2. AtRow' /\ RenderedRight'
    BY <1>1, <2>1, ScalerStarts
  <2>3. QED
    BY <2>1, <2>2 DEF RowInv
<1>4. QED
  BY <1>2, <1>3

(***************************************************************************)
(* One turn of a scaler's loop: by the plan's "take" and "again" it moves  *)
(* in the source, in the output, or in both, to where the turn after it    *)
(* begins.                                                                 *)
(***************************************************************************)
LEMMA TurnTaken ==
  ASSUME job \in Jobs, ScaleRow, NEW s, NEW o, TurnsFit(job, Plan(job), s, o),
         NEW q \in Nat, NEW k \in 0 .. Plan(job).period - 1, AtTurn(s, o, q, k)
  PROVE  LET p == Plan(job)
             row == Stride(p, job.w) * (s[p.period] * q + s[k + 1])
         IN  /\ y' = q * p.period + k + 1 /\ y < p.rows
             /\ src' = (FirstRow(p, job.w) + row) * (2 * job.w)
             /\ out' = (Above(p, job.out_w) + (o[p.period] * q + o[k + 1])) * (2 * job.out_w)
             /\ \/ last' = {}
                \/ /\ k \notin p.again
                   /\ last' = {[from |-> src + p.left, read |-> p.units * p.step,
                                to |-> out + p.barSide, n |-> p.units * Len(p.picks)]}
<1> DEFINE p == Plan(job)
           n == p.units * Len(p.picks)
           m == 2 * job.w
           om == 2 * job.out_w
           f == FirstRow(p, job.w)
           t == Stride(p, job.w)
           a == Above(p, job.out_w)
           S == s[p.period]
           O == o[p.period]
           pp == p.period
           N == Periods(p)
<1>1. /\ Turns(p, s, o) /\ p.period \in Nat \ {0} /\ p.rows = N * pp /\ N \in Nat
      /\ f \in Nat /\ t \in Nat \ {0} /\ a \in Nat /\ S \in Nat /\ O \in Nat
      /\ p.barSide \in Nat /\ p.units \in Nat /\ Len(p.picks) \in Nat
  BY FitsFacts DEF PlanTypeOK
<1>2. n + 2 * p.barSide = om /\ p.pitch = t * m
  <2>1. Whole(p, job.w, job.out_w, job.out_h, O)
    BY Zenon DEF TurnsFit
  <2>2. QED
    BY <2>1, Zenon DEF Whole
<1>3. m \in Nat \ {0} /\ om \in Nat \ {0}
  BY JobFacts
<1>4. /\ y = q * pp + k /\ src = (f + t * (S * q + s[k])) * m
      /\ out = (a + (O * q + o[k])) * om
  BY Zenon DEF AtTurn
<1>5. y < p.rows /\ y' = y + 1
  BY DEF ScaleRow
<1>6. y % pp = k /\ s[k] \in Nat /\ o[k] \in Nat
  <2>1. q * pp + k < N * pp
    BY <1>1, <1>4, <1>5
  <2>2. (q * pp + k) % pp = k /\ s[k] \in Nat /\ o[k] \in Nat
    BY <1>1, <2>1, TurnPlaces
  <2>3. QED
    BY <1>4, <2>2
<1>7. /\ ~(k \in p.take /\ k \in p.again)
      /\ s[k + 1] = IF k \in p.again THEN s[k] ELSE s[k] + 1
      /\ o[k + 1] = IF k \in p.take \cup p.again THEN o[k] + 1 ELSE o[k]
  BY <1>1 DEF Turns
<1>8. \/ /\ k \in p.take
         /\ last' = {[from |-> src + p.left, read |-> p.units * p.step,
                      to |-> out + p.barSide, n |-> n]}
         /\ src' = src + p.pitch /\ out' = out + n + 2 * p.barSide
      \/ /\ k \in p.again /\ last' = {} /\ out' = out + om /\ src' = src
      \/ /\ k \notin p.take \cup p.again /\ last' = {}
         /\ src' = src + p.pitch /\ out' = out
  <2>1. y % p.period = k
    BY <1>6
  <2>2. QED
    BY <2>1 DEF ScaleRow
<1> DEFINE sk == s[k]
           ok == o[k]
           side == p.barSide
           v == S * q + sk
           z == O * q + ok
<1>9. n \in Nat /\ side \in Nat
  <2> DEFINE u == p.units
             l == Len(p.picks)
  <2>1. u \in Nat /\ l \in Nat /\ side \in Nat
    BY <1>1
  <2> HIDE DEF u, l
  <2>2. u * l \in Nat
    BY <2>1
  <2>3. QED
    BY <2>1, <2>2 DEF u, l
<1>10. sk \in Nat /\ ok \in Nat /\ v \in Nat /\ z \in Nat
  <2> HIDE DEF S, O, sk, ok
  <2>1. sk \in Nat /\ ok \in Nat
    BY <1>6 DEF sk, ok
  <2>2. QED
    BY <1>1, <2>1
<1>11. src = (f + t * v) * m /\ out = (a + z) * om
  BY <1>4
<1>12. /\ src + t * m = (f + t * (v + 1)) * m /\ out + om = (a + (z + 1)) * om
       /\ src \in Nat /\ out \in Nat
  <2> HIDE DEF f, t, v, a, z, m, om
  <2>1. t * (v + 1) = t * v + t /\ t * v \in Nat
    BY <1>1, <1>10
  <2> DEFINE tv == t * v
  <2> HIDE DEF tv
  <2>2. (f + (tv + t)) * m = (f + tv) * m + t * m
    BY <1>1, <1>3, <2>1 DEF tv
  <2>3. (a + (z + 1)) * om = (a + z) * om + om
    BY <1>1, <1>3, <1>10
  <2>4. (f + tv) * m \in Nat /\ (a + z) * om \in Nat
    BY <1>1, <1>3, <1>10, <2>1 DEF tv
  <2>5. QED
    BY <1>11, <2>1, <2>2, <2>3, <2>4 DEF tv
<1>13. /\ S * q + (sk + 1) = v + 1 /\ O * q + (ok + 1) = z + 1
       /\ S * q + sk = v /\ O * q + ok = z
  <2> HIDE DEF S, O, sk, ok
  <2>1. S * q \in Nat /\ O * q \in Nat
    BY <1>1
  <2>2. QED
    BY <1>10, <2>1
<1> DEFINE s1 == s[k + 1]
           o1 == o[k + 1]
<1>14. /\ src' = (f + t * (S * q + s1)) * m
       /\ out' = (a + (O * q + o1)) * om
       /\ last' = {} \/ k \notin p.again
  <2>1. CASE k \in p.take
    <3>1. s1 = sk + 1 /\ o1 = ok + 1 /\ k \notin p.again
      BY <1>7, <2>1
    <3>2. src' = src + p.pitch /\ out' = out + n + 2 * side
      BY <1>8, <2>1, <3>1
    <3> HIDE DEF f, t, v, a, z, m, om, S, O, sk, ok, s1, o1, p, n, side
    <3>3. out' = out + om
      BY <1>2, <1>3, <1>9, <1>12, <3>2 DEF side
    <3>4. QED
      BY <1>2, <1>12, <1>13, <3>1, <3>2, <3>3
  <2>2. CASE k \in p.again
    <3>1. s1 = sk /\ o1 = ok + 1 /\ src' = src /\ out' = out + om /\ last' = {}
      BY <1>7, <1>8, <2>2
    <3> HIDE DEF f, t, v, a, z, m, om, S, O, sk, ok, s1, o1, p, n, side
    <3>2. QED
      BY <1>11, <1>12, <1>13, <3>1
  <2>3. CASE k \notin p.take \cup p.again
    <3>1. s1 = sk + 1 /\ o1 = ok /\ src' = src + p.pitch /\ out' = out
      BY <1>7, <1>8, <2>3
    <3>2. last' = {}
      BY <1>8, <2>3
    <3> HIDE DEF f, t, v, a, z, m, om, S, O, sk, ok, s1, o1, p, n, side
    <3>3. QED
      BY <1>2, <1>11, <1>12, <1>13, <3>1, <3>2
  <2>4. QED
    BY <2>1, <2>2, <2>3
<1>15. y' = q * pp + k + 1
  BY <1>4, <1>5
<1>16. last' = {} \/ last' = {[from |-> src + p.left, read |-> p.units * p.step,
                               to |-> out + p.barSide, n |-> n]}
  BY <1>8
<1>17. QED
  BY <1>5, <1>14, <1>15, <1>16, Zenon

\* At its turn a scaler has written whole rows, and the bar below ends the frame.
LEMMA RowsWhole ==
  ASSUME job \in Jobs, AtRow
  PROVE  /\ out <= OutBytes(job) /\ out % (2 * job.out_w) = 0
         /\ y = Plan(job).rows => out + Plan(job).barBottom = OutBytes(job)
<1> DEFINE p == Plan(job)
<1>1. PICK s, o : /\ TurnsFit(job, p, s, o)
                  /\ \E q \in Nat, k \in 0 .. p.period - 1 : AtTurn(s, o, q, k)
  BY Zenon DEF AtRow
<1>2. PICK q \in Nat, k \in 0 .. p.period - 1 : AtTurn(s, o, q, k)
  BY <1>1
<1>3. /\ y = q * p.period + k /\ y <= p.rows
      /\ out = (Above(p, job.out_w) + (o[p.period] * q + o[k])) * (2 * job.out_w)
  BY <1>2, Zenon DEF AtTurn, AtRow
<1> HIDE DEF p
<1>4. q * p.period + k <= p.rows
  BY <1>3
<1>5. /\ out <= OutBytes(job) /\ out % (2 * job.out_w) = 0
      /\ q * p.period + k = p.rows => out + p.barBottom = OutBytes(job)
  BY <1>1, <1>3, <1>4, RowsOut
<1>6. QED
  BY <1>3, <1>5 DEF p

\* The loop is at its next turn.
LEMMA RowGoes ==
  ASSUME job \in Jobs, ScaleRow, AtRow, job' = job
  PROVE  AtRow' /\ out' <= OutBytes(job) /\ out' % (2 * job.out_w) = 0
<1> DEFINE p == Plan(job)
<1>1. PICK s, o : /\ TurnsFit(job, p, s, o)
                  /\ \E q \in Nat, k \in 0 .. p.period - 1 : AtTurn(s, o, q, k)
  BY Zenon DEF AtRow
<1>2. PICK q \in Nat, k \in 0 .. p.period - 1 : AtTurn(s, o, q, k)
  BY <1>1
<1>3. /\ Turns(p, s, o) /\ p.period \in Nat \ {0} /\ p.rows \in Nat
  BY <1>1, FitsFacts DEF PlanTypeOK
<1> DEFINE row(x) == (FirstRow(p, job.w) + Stride(p, job.w) * x) * (2 * job.w)
           line(x) == (Above(p, job.out_w) + x) * (2 * job.out_w)
<1>4. /\ y' = q * p.period + k + 1 /\ y < p.rows
      /\ src' = row(s[p.period] * q + s[k + 1])
      /\ out' = line(o[p.period] * q + o[k + 1])
  BY <1>1, <1>2, TurnTaken
<1>5. PICK z, t : Follows(p, s, o, q, k, z, t)
  BY <1>3, TurnAfter, Zenon
<1>6. /\ z \in Nat /\ t \in 0 .. p.period - 1
      /\ y' = z * p.period + t
      /\ src' = row(s[p.period] * z + s[t])
      /\ out' = line(o[p.period] * z + o[t])
  <2> HIDE DEF p, row, line
  <2>1. /\ z \in Nat /\ t \in 0 .. p.period - 1
        /\ z * p.period + t = q * p.period + k + 1
        /\ s[p.period] * z + s[t] = s[p.period] * q + s[k + 1]
        /\ o[p.period] * z + o[t] = o[p.period] * q + o[k + 1]
    BY <1>5, Zenon DEF Follows
  <2>2. QED
    BY <1>4, <2>1, Zenon
<1>7. Plan(job)' = p
  BY PlanStays
<1>8. AtTurn(s, o, z, t)'
  BY <1>6, <1>7 DEF AtTurn
<1>9. TurnsFit(job, Plan(job), s, o)'
  BY <1>1, <1>7 DEF TurnsFit, InH, FitsEvenly, EvenWidths
<1>10. y' <= p.rows
  <2>1. y + 1 = y' /\ y \in Nat
    <3>1. y' = y + 1
      BY DEF ScaleRow
    <3>2. y = q * p.period + k
      BY <1>2 DEF AtTurn
    <3> HIDE DEF p
    <3>3. QED
      BY <1>3, <3>1, <3>2
  <2> HIDE DEF p
  <2>2. QED
    BY <1>3, <1>4, <2>1
<1>11. out' <= OutBytes(job) /\ out' % (2 * job.out_w) = 0
  <2> HIDE DEF p
  <2>1. z * p.period + t <= p.rows
    BY <1>6, <1>10
  <2>2. QED
    BY <1>1, <1>6, <2>1, RowsOut
<1>12. QED
  BY <1>6, <1>7, <1>8, <1>9, <1>10, <1>11 DEF AtRow

\* What a turn reads and writes is as it should be.
LEMMA TurnRight ==
  ASSUME job \in Jobs, AtRow, ScaleRow, phase' = "scale", job' = job
  PROVE  RenderedRight'
<1> DEFINE p == Plan(job)
<1>1. PICK s, o : /\ TurnsFit(job, p, s, o)
                  /\ \E q \in Nat, k \in 0 .. p.period - 1 : AtTurn(s, o, q, k)
  BY Zenon DEF AtRow
<1>2. PICK q \in Nat, k \in 0 .. p.period - 1 : AtTurn(s, o, q, k)
  BY <1>1
<1>3. PlanTypeOK(p) /\ Turns(p, s, o)
  BY <1>1, FitsFacts
<1> DEFINE from == src + p.left
           to == out + p.barSide
           piece == [from |-> from, read |-> p.units * p.step,
                     to |-> to, n |-> p.units * Len(p.picks)]
<1>4. last' = {} \/ (k \notin p.again /\ last' = {piece})
  BY <1>1, <1>2, TurnTaken, Zenon
<1>5. /\ y = q * p.period + k
      /\ src = (FirstRow(p, job.w) + Stride(p, job.w) * (s[p.period] * q + s[k])) * (2 * job.w)
      /\ out = (Above(p, job.out_w) + (o[p.period] * q + o[k])) * (2 * job.out_w)
  BY <1>2, Zenon DEF AtTurn
<1>6. y < p.rows
  BY DEF ScaleRow
<1>7. /\ piece.from = from /\ piece.to = to /\ piece.read = p.units * p.step
  OBVIOUS
<1>8. ASSUME FitsEvenly(job) PROVE ReadsInside'
  <2>1. CASE last' = {}
    BY <2>1 DEF ReadsInside
  <2>2. CASE k \notin p.again /\ last' = {piece}
    <3>1. /\ (from % (2 * job.w)) + p.units * p.step <= 2 * job.w
          /\ from + p.units * p.step <= InBytes(job)
      BY <1>1, <1>5, <1>6, <1>8, <2>2, RowRead
    <3> HIDE DEF piece, from, to, p
    <3>2. QED
      BY <1>7, <2>2, <3>1, PlanStays DEF ReadsInside
  <2>3. QED
    BY <1>4, <2>1, <2>2
<1>9. OutputWhole'
  <2>1. out' <= OutBytes(job) /\ out' % (2 * job.out_w) = 0
    BY RowGoes
  <2>2. QED
    BY <2>1, PlanStays DEF OutputWhole
<1>10. ASSUME EvenWidths(job) PROVE ColoursKept'
  <2>1. ASSUME (job.w - job.out_w) % 4 = 0 PROVE SameChannels(p, from, to)
    <3>1. Coloured(p)
      BY <1>1, <1>10, <2>1, Zenon DEF TurnsFit
    <3> DEFINE a == FirstRow(p, job.w) + Stride(p, job.w) * (s[p.period] * q + s[k])
               b == Above(p, job.out_w) + (o[p.period] * q + o[k])
    <3>2. a \in Nat /\ b \in Nat
      <4>1. /\ FirstRow(p, job.w) \in Nat /\ Stride(p, job.w) \in Nat /\ Above(p, job.out_w) \in Nat
            /\ s[p.period] \in Nat /\ o[p.period] \in Nat /\ p.period \in Nat \ {0}
        BY <1>1, FitsFacts DEF PlanTypeOK
      <4> HIDE DEF p
      <4>2. s[k] \in Nat /\ o[k] \in Nat
        BY <1>3, <4>1 DEF Turns
      <4>3. s[p.period] * q + s[k] \in Nat /\ o[p.period] * q + o[k] \in Nat
        BY <4>1, <4>2
      <4>4. QED
        BY <4>1, <4>3
    <3>3. from = a * (2 * job.w) + p.left /\ to = b * (2 * job.out_w) + p.barSide
      BY <1>5
    <3> HIDE DEF a, b, from, to, p
    <3>4. InRow(from, 2 * job.w, p.left) /\ InRow(to, 2 * job.out_w, p.barSide)
      BY <3>2, <3>3, Zenon DEF InRow
    <3>5. QED
      BY <1>3, <1>10, <3>1, <3>4, RowColour
  <2>2. CASE last' = {}
    BY <2>2 DEF ColoursKept
  <2>3. CASE last' = {piece}
    <3> HIDE DEF from, to, piece
    <3>1. ASSUME (job.w - job.out_w) % 4 = 0, NEW x \in last'
          PROVE  SameChannels(p, x.from, x.to)
      <4>1. x.to = to /\ x.from = from
        BY <1>7, <2>3, <3>1
      <4>2. QED
        BY <2>1, <3>1, <4>1, Zenon
    <3>2. QED
      BY <3>1, PlanStays, Zenon DEF ColoursKept, SameChannels
  <2>4. QED
    BY <1>4, <2>2, <2>3
<1>11. QED
  BY <1>8, <1>9, <1>10, PlanStays DEF RenderedRight

\* A turn of a scaler's loop keeps the invariant.
LEMMA RowScaled ==
  ASSUME RowInv, ScaleRow, LineInv'
  PROVE  RowInv'
<1>1. phase = "scale" /\ job \in Jobs /\ job' = job /\ phase' = phase
  BY DEF ScaleRow, RowInv, LineInv
<1>2. AtRow
  BY <1>1 DEF RowInv
<1>3. AtRow'
  BY <1>1, <1>2, RowGoes
<1>4. RenderedRight'
  BY <1>1, <1>2, TurnRight
<1>5. QED
  BY <1>1, <1>3, <1>4 DEF RowInv

\* The bars below make the frame whole.
LEMMA RowEnded ==
  ASSUME RowInv, Scaled, LineInv'
  PROVE  RowInv'
<1>1. /\ phase = "scale" /\ job \in Jobs /\ job' = job /\ phase' = "done"
      /\ y = Plan(job).rows /\ out' = out + Plan(job).barBottom
  BY DEF Scaled, RowInv, LineInv
<1>2. AtRow
  BY <1>1 DEF RowInv
<1>3. out + Plan(job).barBottom = OutBytes(job)
  BY <1>1, <1>2, RowsWhole
<1>4. OutputWhole'
  BY <1>1, <1>3 DEF OutputWhole, OutBytes
<1>5. ReadsInside' /\ ColoursKept'
  BY <1>1 DEF ReadsInside, ColoursKept
<1>6. RenderedRight'
  BY <1>4, <1>5 DEF RenderedRight
<1>7. QED
  BY <1>1, <1>6 DEF RowInv

\* Every step keeps the invariant.
LEMMA RowStep ==
  ASSUME RowInv, [RenderNext]_renderVars
  PROVE  RowInv'
<1>1. LineInv'
  BY LineStep DEF RowInv
<1>2. ASSUME NEW j \in Jobs, hws_render_staged(j) PROVE RowInv'
  BY <1>2, RowStarts
<1>3. CASE DoubleLine \/ JoinLine \/ NextQuarter
  <2>1. phase' = "double" /\ phase = "double" /\ job' = job
    BY <1>3 DEF DoubleLine, JoinLine, NextQuarter
  <2>2. RenderedRight' /\ ~(phase' = "scale")
    BY <2>1, RightElsewhere
  <2>3. QED
    BY <1>1, <2>1, <2>2 DEF RowInv
<1>4. CASE Doubled
  BY <1>1, <1>4, RowDoubled
<1>5. CASE ScaleRow
  BY <1>1, <1>5, RowScaled
<1>6. CASE Scaled
  BY <1>1, <1>6, RowEnded
<1>7. CASE UNCHANGED renderVars
  BY <1>1, <1>7 DEF RowInv, renderVars, AtRow, AtTurn, RenderedRight, ReadsInside, OutputWhole,
                    ColoursKept, FitsEvenly, EvenWidths, TurnsFit, InH, InBytes, OutBytes, Plan
<1>8. QED
  BY <1>2, <1>3, <1>4, <1>5, <1>6, <1>7 DEF RenderNext

\* It holds of every frame in every order.
LEMMA RowInvAlways == RenderSpec => []RowInv
<1>1. RenderInit => RowInv
  <2> SUFFICES ASSUME RenderInit PROVE RowInv
    OBVIOUS
  <2>1. job = NoJob /\ phase = "done" /\ out = 0
    BY DEF RenderInit
  <2>2. OutBytes(job) = 0
    BY <2>1 DEF OutBytes, NoJob
  <2>3. LineInv
    BY <2>1 DEF LineInv, LinesDoubled
  <2>4. RenderedRight
    BY <2>1, <2>2 DEF RenderedRight, ReadsInside, OutputWhole, ColoursKept
  <2>5. QED
    BY <2>1, <2>3, <2>4 DEF RowInv
<1>2. RowInv /\ [RenderNext]_renderVars => RowInv'
  BY RowStep
<1>3. QED
  BY <1>1, <1>2, PTL DEF RenderSpec

(***************************************************************************)
(* No scaler reads a row past its end or past the frame (ReadsInside): not *)
(* one of the 29 made for a pair of sizes, and not All_VideoScaler() for   *)
(* any other pair, if what the input lacks is even.  If it is odd each bar *)
(* is half a pixel or line too narrow, and one too many is read.           *)
(***************************************************************************)
THEOREM ReadsInsideAlways == RenderSpec => [](FitsEvenly(job) => ReadsInside)
<1>1. RowInv => (FitsEvenly(job) => ReadsInside)
  BY DEF RowInv, RenderedRight
<1>2. QED
  BY <1>1, RowInvAlways, PTL

(***************************************************************************)
(* Every scaler, for whatever pair of sizes, and MemCopyFrame() write the  *)
(* whole output, bars included, and nothing past its end (OutputWhole).    *)
(***************************************************************************)
THEOREM OutputWholeAlways == RenderSpec => []OutputWhole
<1>1. RowInv => OutputWhole
  BY DEF RowInv, RenderedRight
<1>2. QED
  BY <1>1, RowInvAlways, PTL

(***************************************************************************)
(* Every scaler writes luma to luma, Cb to Cb and Cr to Cr, in each byte of*)
(* each row, when the widths differ by a multiple of four (ColoursKept).   *)
(***************************************************************************)
THEOREM ColoursKeptAlways == RenderSpec => [](EvenWidths(job) => ColoursKept)
<1>1. RowInv => (EvenWidths(job) => ColoursKept)
  BY DEF RowInv, RenderedRight
<1>2. QED
  BY <1>1, RowInvAlways, PTL

-----------------------------------------------------------------------------
(***************************************************************************)
(* Types.  The offsets stay natural numbers because a plan's do, and a     *)
(* line that is joined from two quarters has some of each.                 *)
(***************************************************************************)
\* A plan's numbers are natural numbers.
LEMMA PlanTypes ==
  ASSUME NEW j \in Jobs
  PROVE  PlanTypeOK(Plan(j))
<1>1. PICK s, o : TurnsFit(j, Plan(j), s, o)
  BY PlanFits
<1>2. QED
  BY <1>1, FitsFacts

\* What a step reads and writes.
LEMMA PieceType ==
  ASSUME NEW from \in Nat, NEW to \in Nat, NEW n \in Nat
  PROVE  Piece(from, to, n) \in [from : Nat, read : Nat, to : Nat, n : Nat]
  BY DEF Piece

\* A scaler starts at offsets of its plan.
LEMMA StartTypes ==
  ASSUME NEW j \in Jobs, job' = j, StartScaler(j)
  PROVE  RenderTypeOK'
<1>1. /\ phase' = "scale" /\ y' = 0 /\ last' = {}
      /\ src' = Plan(j).top /\ out' = Plan(j).barTop
  BY DEF StartScaler
<1>2. Plan(j).top \in Nat /\ Plan(j).barTop \in Nat
  BY PlanTypes DEF PlanTypeOK
<1>3. QED
  BY <1>1, <1>2 DEF RenderTypeOK

\* A line doubled in one piece or in two.
LEMMA LineTypes ==
  ASSUME LineInv, RenderTypeOK, DoubleLine \/ JoinLine
  PROVE  RenderTypeOK'
<1> DEFINE p == 2 * job.w
           r == EndOf(y) - src
           T == [from : Nat, read : Nat, to : Nat, n : Nat]
<1>1. /\ phase = "double" /\ job \in Jobs /\ y \in 0 .. 3 /\ src \in Nat /\ out \in Nat
      /\ job' = job /\ phase' = phase /\ src' = src + p /\ out' = out + 2 * p
      /\ y' \in {y, y + 1}
  BY DEF LineInv, RenderTypeOK, DoubleLine, JoinLine
<1>2. p \in Nat /\ EndOf(y) \in Nat
  BY <1>1, JobFacts, QuarterEnds
<1>3. src' \in Nat /\ out' \in Nat /\ y' \in Nat
  BY <1>1, <1>2
<1>4. last' \subseteq T
  <2>1. CASE DoubleLine
    <3>1. last' = {Piece(src, out, p), Piece(src, out + p, p)}
      BY <2>1 DEF DoubleLine
    <3> HIDE DEF p, T
    <3>2. out + p \in Nat
      BY <1>1, <1>2
    <3>3. Piece(src, out, p) \in T /\ Piece(src, out + p, p) \in T
      BY <1>1, <1>2, <3>2, PieceType DEF T
    <3>4. QED
      BY <3>1, <3>3
  <2>2. CASE JoinLine
    <3>1. /\ last' = {Piece(src, out, r), Piece(src + r, out + r, p - r),
                      Piece(src, out + p, r), Piece(src + r, out + p + r, p - r)}
          /\ 0 < r /\ r < p
      BY <2>2 DEF JoinLine
    <3>2. r \in Int
      BY <1>1, <1>2
    <3> HIDE DEF p, r, T
    <3>3. r \in Nat /\ p - r \in Nat /\ src + r \in Nat /\ out + r \in Nat
          /\ out + p \in Nat /\ out + p + r \in Nat
      BY <1>1, <1>2, <3>1, <3>2
    <3>4. /\ Piece(src, out, r) \in T /\ Piece(src + r, out + r, p - r) \in T
          /\ Piece(src, out + p, r) \in T /\ Piece(src + r, out + p + r, p - r) \in T
      BY <1>1, <3>3, PieceType DEF T
    <3>5. QED
      BY <3>1, <3>4
  <2>3. QED
    BY <2>1, <2>2
<1>5. QED
  BY <1>1, <1>3, <1>4 DEF RenderTypeOK

\* A turn of a scaler's loop, and the bars below.
LEMMA ScaleTypes ==
  ASSUME LineInv, RenderTypeOK, ScaleRow \/ Scaled
  PROVE  RenderTypeOK'
<1> DEFINE p == Plan(job)
           n == p.units * Len(p.picks)
           read == p.units * p.step
<1>1. phase = "scale" /\ job \in Jobs /\ y \in Nat /\ src \in Nat /\ out \in Nat /\ job' = job
  BY DEF LineInv, RenderTypeOK, ScaleRow, Scaled
<1>2. /\ p.left \in Nat /\ p.pitch \in Nat /\ p.step \in Nat /\ p.units \in Nat
      /\ Len(p.picks) \in Nat /\ p.barSide \in Nat /\ p.barBottom \in Nat
  BY <1>1, PlanTypes DEF PlanTypeOK
<1>3. 2 * job.out_w \in Nat
  BY <1>1, JobFacts
<1>4. n \in Nat /\ read \in Nat
  <2> HIDE DEF p
  <2>1. QED
    BY <1>2
<1>5. CASE ScaleRow
  <2> DEFINE x == [from |-> src + p.left, read |-> read, to |-> out + p.barSide, n |-> n]
  <2>1. /\ phase' = phase /\ y' = y + 1
        /\ src' \in {src, src + p.pitch}
        /\ out' \in {out, out + 2 * job.out_w, out + n + 2 * p.barSide}
        /\ last' \in {{}, {x}}
    BY <1>5 DEF ScaleRow
  <2> HIDE DEF p, n, read
  <2>2. y' \in Nat /\ src' \in Nat /\ out' \in Nat
    BY <1>1, <1>2, <1>3, <1>4, <2>1
  <2>3. x \in [from : Nat, read : Nat, to : Nat, n : Nat]
    BY <1>1, <1>2, <1>4
  <2> HIDE DEF x
  <2>4. QED
    BY <1>1, <2>1, <2>2, <2>3 DEF RenderTypeOK
<1>6. CASE Scaled
  <2>1. phase' = "done" /\ out' = out + p.barBottom /\ last' = {} /\ y' = y /\ src' = src
    BY <1>6 DEF Scaled
  <2>2. out' \in Nat
    BY <1>1, <1>2, <2>1
  <2>3. QED
    BY <1>1, <2>1, <2>2 DEF RenderTypeOK
<1>7. QED
  BY <1>5, <1>6

\* Every step keeps the types.
LEMMA RenderTypesGo ==
  ASSUME LineInv, RenderTypeOK, [RenderNext]_renderVars
  PROVE  RenderTypeOK'
<1>1. ASSUME NEW j \in Jobs, hws_render_staged(j) PROVE RenderTypeOK'
  <2>1. job' = j
    BY <1>1 DEF hws_render_staged
  <2>2. CASE ~j.il
    BY <1>1, <2>1, <2>2, StartTypes DEF hws_render_staged
  <2>3. CASE j.il
    <3>1. phase' \in {"double", "failed"} /\ y' = 0 /\ src' = 0 /\ out' = 0 /\ last' = {}
      BY <1>1, <2>3 DEF hws_render_staged
    <3>2. QED
      BY <2>1, <3>1 DEF RenderTypeOK
  <2>4. QED
    BY <2>2, <2>3
<1>2. CASE DoubleLine \/ JoinLine
  BY <1>2, LineTypes
<1>3. CASE NextQuarter
  <2>1. /\ job' = job /\ phase' = phase /\ src' = src /\ out' = out /\ last' = {}
        /\ y \in Nat /\ y' = y + 1
    BY <1>3 DEF NextQuarter, RenderTypeOK
  <2>2. y' \in Nat
    BY <2>1
  <2>3. QED
    BY <2>1, <2>2 DEF RenderTypeOK
<1>4. CASE Doubled
  <2>1. job \in Jobs /\ job' = job
    BY <1>4 DEF Doubled, LineInv
  <2>2. CASE StartScaler(job)
    BY <2>1, <2>2, StartTypes
  <2>3. CASE ~StartScaler(job)
    <3>1. phase' = "done" /\ last' = {} /\ y' = y /\ src' = src /\ out' = out
      BY <1>4, <2>3 DEF Doubled
    <3>2. QED
      BY <2>1, <3>1 DEF RenderTypeOK
  <2>4. QED
    BY <2>2, <2>3
<1>5. CASE ScaleRow \/ Scaled
  BY <1>5, ScaleTypes
<1>6. CASE UNCHANGED renderVars
  BY <1>6 DEF renderVars, RenderTypeOK
<1>7. QED
  BY <1>1, <1>2, <1>3, <1>4, <1>5, <1>6 DEF RenderNext

\* The renderer's variables keep their types.
LEMMA RenderTypes == RenderSpec => []RenderTypeOK
<1>1. RenderInit => RenderTypeOK
  BY DEF RenderInit, RenderTypeOK
<1>2. LineInv /\ RenderTypeOK /\ [RenderNext]_renderVars => RenderTypeOK'
  BY RenderTypesGo
<1>3. QED
  BY <1>1, <1>2, LineInvAlways, PTL DEF RenderSpec

-----------------------------------------------------------------------------
\* Which of the two a behaviour is of.
IsPart == part \in {"rate", "render"}

(***************************************************************************)
(* A behaviour of the two together, as the run checks it, is one of each.  *)
(***************************************************************************)
LEMMA MathParts == MathSpec => RenderSpec /\ RateSpec /\ []IsPart
<1>1. MathInit => RenderInit /\ RateInit /\ IsPart
  BY DEF MathInit, IsPart
<1>2. [MathNext]_<<renderVars, rateVars, part>>
        => [RenderNext]_renderVars /\ [RateNext]_rateVars /\ part' = part
  <2>1. ASSUME RenderNext, UNCHANGED <<rateVars, part>>
        PROVE  [RenderNext]_renderVars /\ [RateNext]_rateVars /\ part' = part
    BY <2>1
  <2>2. ASSUME RateNext, UNCHANGED <<renderVars, part>>
        PROVE  [RenderNext]_renderVars /\ [RateNext]_rateVars /\ part' = part
    BY <2>2
  <2>3. ASSUME UNCHANGED <<renderVars, rateVars, part>>
        PROVE  [RenderNext]_renderVars /\ [RateNext]_rateVars /\ part' = part
    BY <2>3
  <2>4. QED
    BY <2>1, <2>2, <2>3 DEF MathNext
<1>3. IsPart /\ part' = part => IsPart'
  BY DEF IsPart
<1>4. MathSpec => RenderSpec
  BY <1>1, <1>2, PTL DEF MathSpec, RenderSpec
<1>5. MathSpec => RateSpec
  BY <1>1, <1>2, PTL DEF MathSpec, RateSpec
<1>6. MathSpec => []IsPart
  BY <1>1, <1>2, <1>3, PTL DEF MathSpec
<1>7. QED
  BY <1>4, <1>5, <1>6, PTL

(***************************************************************************)
(* Offsets in a frame and times stay natural numbers, for any sizes of     *)
(* frames, and a window that closes has counted a frame, so that its mean  *)
(* never divides by zero (hws_rate_frame_end(), MathTypeOK).               *)
(***************************************************************************)
THEOREM MathTypeCorrect == MathSpec => []MathTypeOK
<1>1. RateInv => RateTypeOK
  BY DEF RateInv
<1>2. RenderTypeOK /\ RateTypeOK /\ IsPart => MathTypeOK
  BY DEF MathTypeOK, IsPart
<1>3. QED
  BY <1>1, <1>2, MathParts, RenderTypes, RateInvAlways, PTL
=============================================================================
