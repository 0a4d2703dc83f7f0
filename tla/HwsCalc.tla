------------------------------ MODULE HwsCalc ------------------------------
(***************************************************************************)
(* The driver's block arithmetic (hws_calc.h): how the card splits a frame *)
(* into four quarters, how far it may write into a zero-copy buffer, and   *)
(* the comparison of two event counters that wrap.                         *)
(*                                                                         *)
(* A size is w x h pixels of two bytes (YUYV).  C's division truncates and *)
(* every operand here is a natural number, so \div is the same.            *)
(***************************************************************************)
EXTENDS Naturals, Integers

\* The counters of events are EventWrap values wide, 2^32 in the code.
CONSTANT HalfWrap

ASSUME HalfWrapAssumption == HalfWrap \in Nat \ {0}

EventWrap == 2 * HalfWrap

\* The card moves video in 2 KiB blocks.
HWS_DMA_BLOCK == 2048

\* What a zero-copy buffer has beyond the frame.
HWS_ZC_SLACK == 8192

FrameBytes(w, h) == 2 * w * h

(***************************************************************************)
(* Quarters 0 to 2 are a quarter of the frame in whole blocks, quarter 3   *)
(* is the rest, one block longer when it is whole.  The C function fails   *)
(* when three quarters exceed the frame, which QuartersCoverFrame shows    *)
(* they never do.                                                          *)
(***************************************************************************)
Quarter(w, h) == (FrameBytes(w, h) \div (4 * HWS_DMA_BLOCK)) * HWS_DMA_BLOCK

LastQuarter(w, h) ==
  ((FrameBytes(w, h) - 3 * Quarter(w, h)) \div HWS_DMA_BLOCK + 1) * HWS_DMA_BLOCK

hws_quarter_sizes(w, h) ==
  [q \in 0 .. 3 |-> IF q < 3 THEN Quarter(w, h) ELSE LastQuarter(w, h)]

\* Quarter 3's offset, the longest quarter, and the block in progress.
hws_zc_span(len) ==
  len[0] + len[1] + len[2] + HWS_DMA_BLOCK
    + (IF len[3] > len[0] THEN len[3] ELSE len[0])

\* ev has not reached mark: the sign of their difference in a signed word.
hws_ev_before(ev, mark) == (ev - mark) % EventWrap >= HalfWrap
=============================================================================
