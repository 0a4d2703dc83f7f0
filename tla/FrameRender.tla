---------------------------- MODULE FrameRender ----------------------------
(***************************************************************************)
(* hws_render_staged(): from the staging copy of a frame to a buffer of    *)
(* the output size.  An interlaced field is line-doubled (MemCopyFrame()), *)
(* a frame of another size goes through one of the scalers (VideoScaler()).*)
(*                                                                         *)
(* A pixel's value does not matter, its place does: the model moves row by *)
(* row and keeps byte offsets, of what is read from the start of the       *)
(* source frame and of what is written from the start of the output.  Each *)
(* scaler is a plan, a record of the numbers in its loops, that one loop   *)
(* (ScaleRow) carries out; inside a row the plan's kernel says which bytes *)
(* of a group of source bytes make a group of output bytes.                *)
(***************************************************************************)
EXTENDS HwsCalc, Sequences

CONSTANT Jobs     \* [w, h, il, len, out_w, out_h]: h the field's height if il, len the
                  \* size the card was told

ASSUME JobsAssumption ==
  \A j \in Jobs :
    /\ j.w \in Nat \ {0} /\ j.h \in Nat \ {0} /\ j.il \in BOOLEAN
    /\ j.out_w \in Nat \ {0} /\ j.out_h \in Nat \ {0}

VARIABLES
  job,       \* the frame, or NoJob
  phase,     \* "double", "scale", "done", "failed"
  y,         \* the loop counter
  src,       \* pSrcBuf, as an offset
  out,       \* pDestBuf, as an offset: all before it is written
  last       \* what the last step read and wrote: a set of [from, read, to, n]

renderVars == <<job, phase, y, src, out, last>>

NoJob == [w |-> 0, h |-> 0, il |-> FALSE, len |-> <<0, 0>>, out_w |-> 0, out_h |-> 0]

\* h *= 2: the height of what VideoScaler() is given.
InH(j) == IF j.il THEN 2 * j.h ELSE j.h

InBytes(j) == 2 * j.w * InH(j)
OutBytes(j) == 2 * j.out_w * j.out_h

RenderTypeOK ==
  /\ job \in Jobs \cup {NoJob}
  /\ phase \in {"double", "scale", "done", "failed"}
  /\ y \in Nat /\ src \in Nat /\ out \in Nat
  /\ last \subseteq [from : Nat, read : Nat, to : Nat, n : Nat]

-----------------------------------------------------------------------------
(***************************************************************************)
(* Plans.  rows: turns of the loop; every period of them take the rows of  *)
(* "take", repeat the output row before for those of "again", and skip the *)
(* others.  top: bytes skipped before the first row; left: bytes skipped   *)
(* in a row; kernel: groups of "step" bytes, of which picks are written,   *)
(* "units" times; pitch: what pSrcBuf moves on for a row taken or skipped. *)
(* barTop, barBottom and barSide are black bytes above, below and on both  *)
(* sides.                                                                  *)
(***************************************************************************)

\* Rows copied whole: memcpy of the output's width.
Copy(in_w, ow, oh) ==
  [rows |-> oh, period |-> 1, take |-> {0}, again |-> {},
   top |-> 0, left |-> 0, step |-> 2, picks |-> <<0, 1>>, units |-> ow, pitch |-> 2 * in_w,
   barTop |-> 0, barBottom |-> 0, barSide |-> 0]

\* Two pixels of four: Y0 Cb0 Y2 Cr0.
HalfPicks == <<0, 1, 4, 3>>

\* Four pixels of two: each luma twice, the chroma of the pair twice.
DoublePicks == <<0, 1, 0, 3, 2, 1, 2, 3>>

\* Ten pixels of 36.
TenOf36 == <<0, 1, 8, 7, 16, 17, 24, 23, 32, 33, 36, 35, 44, 45, 52, 51, 60, 61, 68, 67>>

FHD_To_HD_Scaler ==
  [Copy(1920, 1280, 720) EXCEPT
     !.rows = 1080, !.period = 3, !.take = {0, 1},
     !.step = 12, !.picks = <<0, 1, 2, 3, 6, 9, 8, 7>>, !.units = 320]

FHD_To_800X600_Scaler ==
  [Copy(1920, 800, 600) EXCEPT
     !.rows = 1080, !.period = 9, !.take = {0, 2, 4, 6, 8}, !.left = 2 * 240,
     !.step = 36, !.units = (1920 - 480) \div 18,
     !.picks = <<0, 1, 2, 3, 8, 9, 10, 11, 16, 17, 18, 19, 24, 25, 26, 27, 32, 33, 34, 35>>]

UHD_To_800X600_Scaler ==
  [Copy(3840, 800, 600) EXCEPT
     !.rows = 2160, !.period = 18, !.take = {0, 4, 8, 12, 16}, !.left = 2 * 480,
     !.step = 72, !.picks = TenOf36, !.units = (3840 - 960) \div 36]

UHDW_To_800X600_Scaler ==
  [UHD_To_800X600_Scaler EXCEPT !.pitch = 2 * 4096, !.left = 2 * (480 + 128)]

HD_To_FHD_Scaler ==
  [Copy(1280, 1920, 1080) EXCEPT
     !.period = 3, !.take = {0, 1}, !.again = {2},
     !.step = 8, !.picks = <<0, 1, 2, 3, 4, 5, 4, 7, 6, 5, 6, 7>>, !.units = 320]

HD_To_800X600_Scaler ==
  [Copy(1280, 800, 600) EXCEPT !.rows = 720 - 120, !.top = 60 * 2 * 1280]

SD_PAL_To_SD_NTSC_Scaler == [Copy(720, 720, 480) EXCEPT !.top = 48 * 2 * 720]

SD_NTSC_To_SD_PAL_Scaler ==
  [Copy(720, 720, 576) EXCEPT
     !.rows = 480, !.barTop = 48 * 2 * 720, !.barBottom = 48 * 2 * 720]

SD_PAL_To_FHD_Scaler ==
  [Copy(720, 1920, 1080) EXCEPT
     !.period = 2, !.again = {1}, !.top = 18 * 2 * 720, !.barSide = 2 * 240,
     !.step = 4, !.picks = DoublePicks, !.units = 360]

SD_NTSC_To_FHD_Scaler ==
  [SD_PAL_To_FHD_Scaler EXCEPT
     !.rows = 1080 - 120, !.top = 0, !.barTop = 60 * 2 * 1920, !.barBottom = 60 * 2 * 1920]

SD_PAL_To_HD_Scaler ==
  [Copy(720, 1280, 720) EXCEPT
     !.period = 2, !.again = {1}, !.top = 108 * 2 * 720, !.left = 2 * 40,
     !.step = 4, !.picks = DoublePicks, !.units = 320]

SD_NTSC_To_HD_Scaler == [SD_PAL_To_HD_Scaler EXCEPT !.top = 60 * 2 * 720]

\* The middle 1280 x 720 of a 1280 x 1024 frame, then as that size.
V1280X1024_To_FHD_Scaler == [HD_To_FHD_Scaler EXCEPT !.top = @ + 152 * 2 * 1280]

V1280X1024_To_HD_Scaler == [Copy(1280, 1280, 720) EXCEPT !.top = 152 * 2 * 1280]

V1280X1024_To_800X600_Scaler == [HD_To_800X600_Scaler EXCEPT !.top = @ + 152 * 2 * 1280]

FHD_To_SD_NTSC_Scaler ==
  [Copy(1920, 720, 480) EXCEPT
     !.top = 60 * 2 * 1920, !.left = 2 * 240, !.pitch = 4 * 1920,
     !.step = 8, !.picks = HalfPicks, !.units = 360]

FHD_To_SD_PAL_Scaler ==
  [FHD_To_SD_NTSC_Scaler EXCEPT
     !.rows = 540, !.top = 0, !.barTop = 18 * 2 * 720, !.barBottom = 18 * 2 * 720]

HD_To_SD_NTSC_Scaler ==
  [Copy(1280, 720, 480) EXCEPT !.top = 120 * 2 * 1280, !.left = 2 * 280]

HD_To_SD_PAL_Scaler ==
  [Copy(1280, 720, 576) EXCEPT !.top = 72 * 2 * 1280, !.left = 2 * 280]

V1280X1024_NTSC_Scaler ==
  [Copy(1280, 720, 480) EXCEPT !.top = 272 * 2 * 1280, !.left = 2 * 280]

V1280X1024_PAL_Scaler ==
  [Copy(1280, 720, 576) EXCEPT !.top = 224 * 2 * 1280, !.left = 2 * 280]

UHD_TO_FHD_Scaler ==
  [Copy(3840, 1920, 1080) EXCEPT
     !.pitch = 4 * 3840, !.step = 8, !.picks = HalfPicks, !.units = 960]

UHD_To_2560x1440_Scaler ==
  [Copy(3840, 2560, 1440) EXCEPT
     !.rows = 2160, !.period = 6, !.take = {0, 2, 4, 5},
     !.step = 12, !.picks = <<0, 1, 4, 7, 8, 9, 10, 11>>, !.units = 640]

UHD_To_HD_Scaler ==
  [Copy(3840, 1280, 720) EXCEPT
     !.rows = 2160, !.period = 3,
     !.step = 12, !.picks = <<0, 1, 6, 7>>, !.units = 640]

UHDW_TO_FHD_Scaler == [UHD_TO_FHD_Scaler EXCEPT !.pitch = 4 * 4096, !.left = 2 * 128]

\* Mutant: two source pixels too many a group, as UHDW_To_2560X1440_Scaler() read.
UHDW_To_HD_Overreads ==
  [Copy(4096, 1280, 720) EXCEPT
     !.rows = 2160, !.period = 3, !.left = 2 * 128,
     !.step = 16, !.picks = <<0, 1, 4, 7>>, !.units = (4096 - 256) \div 6]

UHDW_To_HD_Scaler ==
  [Copy(4096, 1280, 720) EXCEPT
     !.rows = 2160, !.period = 3, !.left = 2 * 128,
     !.step = 12, !.picks = <<0, 1, 4, 7>>, !.units = (4096 - 256) \div 6]

\* Mutant: the third word of a group keeps the chroma of its first pixel.
V2560X1440_To_FHD_WrongChroma ==
  [Copy(2560, 1920, 1080) EXCEPT
     !.rows = 1440, !.period = 4, !.take = {0, 1, 2},
     !.step = 16, !.picks = <<0, 1, 2, 3, 4, 5, 8, 7, 10, 11, 14, 15>>, !.units = 320]

V2560X1440_To_FHD_Scaler ==
  [Copy(2560, 1920, 1080) EXCEPT
     !.rows = 1440, !.period = 4, !.take = {0, 1, 2},
     !.step = 16, !.picks = <<0, 1, 2, 3, 4, 5, 8, 7, 10, 9, 14, 15>>, !.units = 320]

V2560X1440_To_HD_Scaler ==
  [Copy(2560, 1280, 720) EXCEPT
     !.pitch = 4 * 2560, !.step = 8, !.picks = HalfPicks, !.units = 640]

V2560X1440_To_800X600_Scaler ==
  [V2560X1440_To_HD_Scaler EXCEPT !.rows = 600, !.left = 2 * 480, !.units = 400]

\* Any other pair: the middle of the larger one, black bars around the smaller one.
\* Mutant: a smaller input counts as one with less than nothing to leave out.
SignedExcess(a, b) == (a - b) \div 2

Excess(a, b) == IF a > b THEN (a - b) \div 2 ELSE 0

\* Mutant: the bars on both sides are left out of the row's length.
All_VideoScaler_TooWide(in_w, in_h, ow, oh) ==
  [Copy(in_w, ow, oh) EXCEPT
     !.rows = oh - 2 * Excess(oh, in_h),
     !.top = Excess(in_h, oh) * 2 * in_w, !.left = 2 * Excess(in_w, ow),
     !.barTop = Excess(oh, in_h) * 2 * ow, !.barBottom = Excess(oh, in_h) * 2 * ow,
     !.barSide = 2 * Excess(ow, in_w)]

All_VideoScaler(in_w, in_h, ow, oh) ==
  [Copy(in_w, ow, oh) EXCEPT
     !.rows = oh - 2 * Excess(oh, in_h),
     !.top = Excess(in_h, oh) * 2 * in_w, !.left = 2 * Excess(in_w, ow),
     !.units = ow - 2 * Excess(ow, in_w),
     !.barTop = Excess(oh, in_h) * 2 * ow, !.barBottom = Excess(oh, in_h) * 2 * ow,
     !.barSide = 2 * Excess(ow, in_w)]

NTSC == <<720, 480>>
PAL == <<720, 576>>
SVGA == <<800, 600>>
HD == <<1280, 720>>
SXGA == <<1280, 1024>>
FHD == <<1920, 1080>>
QHD == <<2560, 1440>>
UHD == <<3840, 2160>>
UHDW == <<4096, 2160>>

\* The pairs of sizes with a scaler of their own: <<input, output, its plan>>.
OwnScaler ==
  {<<FHD, HD, FHD_To_HD_Scaler>>, <<FHD, SVGA, FHD_To_800X600_Scaler>>,
   <<UHD, SVGA, UHD_To_800X600_Scaler>>, <<UHDW, SVGA, UHDW_To_800X600_Scaler>>,
   <<HD, FHD, HD_To_FHD_Scaler>>, <<HD, SVGA, HD_To_800X600_Scaler>>,
   <<PAL, NTSC, SD_PAL_To_SD_NTSC_Scaler>>, <<NTSC, PAL, SD_NTSC_To_SD_PAL_Scaler>>,
   <<PAL, FHD, SD_PAL_To_FHD_Scaler>>, <<NTSC, FHD, SD_NTSC_To_FHD_Scaler>>,
   <<PAL, HD, SD_PAL_To_HD_Scaler>>, <<NTSC, HD, SD_NTSC_To_HD_Scaler>>,
   <<SXGA, FHD, V1280X1024_To_FHD_Scaler>>, <<SXGA, HD, V1280X1024_To_HD_Scaler>>,
   <<SXGA, SVGA, V1280X1024_To_800X600_Scaler>>, <<FHD, NTSC, FHD_To_SD_NTSC_Scaler>>,
   <<FHD, PAL, FHD_To_SD_PAL_Scaler>>, <<HD, NTSC, HD_To_SD_NTSC_Scaler>>,
   <<HD, PAL, HD_To_SD_PAL_Scaler>>, <<SXGA, NTSC, V1280X1024_NTSC_Scaler>>,
   <<SXGA, PAL, V1280X1024_PAL_Scaler>>, <<UHD, FHD, UHD_TO_FHD_Scaler>>,
   <<UHD, QHD, UHD_To_2560x1440_Scaler>>, <<UHD, HD, UHD_To_HD_Scaler>>,
   <<UHDW, FHD, UHDW_TO_FHD_Scaler>>, <<UHDW, HD, UHDW_To_HD_Scaler>>,
   <<QHD, FHD, V2560X1440_To_FHD_Scaler>>, <<QHD, HD, V2560X1440_To_HD_Scaler>>,
   <<QHD, SVGA, V2560X1440_To_800X600_Scaler>>}

Own(in_w, in_h, ow, oh) == {s \in OwnScaler : s[1] = <<in_w, in_h>> /\ s[2] = <<ow, oh>>}

VideoScaler(in_w, in_h, ow, oh) ==
  IF Own(in_w, in_h, ow, oh) = {} THEN All_VideoScaler(in_w, in_h, ow, oh)
  ELSE (CHOOSE s \in Own(in_w, in_h, ow, oh) : TRUE)[3]

Plan(j) == VideoScaler(j.w, InH(j), j.out_w, j.out_h)

-----------------------------------------------------------------------------
RenderInit ==
  /\ job = NoJob /\ phase = "done"
  /\ y = 0 /\ src = 0 /\ out = 0 /\ last = {}

\* Bars above, and the rows above the picture left out.
StartScaler(j) ==
  /\ phase' = "scale"
  /\ y' = 0 /\ src' = Plan(j).top /\ out' = Plan(j).barTop /\ last' = {}

\* MemCopyFrame() refuses quarters that are not those of the frame's size.
QuartersMatch(j) ==
  /\ 3 * Quarter(j.len[1], j.len[2]) <= InBytes(j) \div 2
  /\ Quarter(j.len[1], j.len[2]) = Quarter(j.w, j.h)

\* Only the size of an interlaced field's quarters is looked at.
hws_render_staged(j) ==
  /\ phase \in {"done", "failed"}
  /\ job' = j
  /\ IF ~j.il THEN StartScaler(j)
     ELSE /\ phase' = IF QuartersMatch(j) THEN "double" ELSE "failed"
          /\ y' = 0 /\ src' = 0 /\ out' = 0 /\ last' = {}

(***************************************************************************)
(* MemCopyFrame(): quarter y of the field, each line written twice.  A line*)
(* that begins in one quarter and ends in the next is put together from    *)
(* both.  The quarters lie one after the other in the staging copy.        *)
(***************************************************************************)
EndOf(q) == IF q < 3 THEN (q + 1) * Quarter(job.w, job.h) ELSE FrameBytes(job.w, job.h)

\* n bytes of the field at "from" written to "to".
Piece(from, to, n) == [from |-> from, read |-> n, to |-> to, n |-> n]

DoubleLine ==
  LET p == 2 * job.w
  IN  /\ phase = "double"
      /\ src + p <= EndOf(y)
      /\ last' = {Piece(src, out, p), Piece(src, out + p, p)}
      /\ src' = src + p
      /\ out' = out + 2 * p
      /\ UNCHANGED <<job, phase, y>>

\* Mutant: the part of the line already read from the next quarter is read again.
JoinReadsTwice ==
  LET p == 2 * job.w
      res == EndOf(y) - src
  IN  /\ phase = "double" /\ y < 3
      /\ 0 < res /\ res < p
      /\ last' = {Piece(src, out, res), Piece(src + res, out + res, p - res),
                  Piece(src, out + p, res), Piece(src + res, out + p + res, p - res)}
      /\ src' = src + res
      /\ out' = out + 2 * p
      /\ y' = y + 1
      /\ UNCHANGED <<job, phase>>

JoinLine ==
  LET p == 2 * job.w
      res == EndOf(y) - src
  IN  /\ phase = "double" /\ y < 3
      /\ 0 < res /\ res < p
      /\ last' = {Piece(src, out, res), Piece(src + res, out + res, p - res),
                  Piece(src, out + p, res), Piece(src + res, out + p + res, p - res)}
      /\ src' = src + p
      /\ out' = out + 2 * p
      /\ y' = y + 1
      /\ UNCHANGED <<job, phase>>

NextQuarter ==
  /\ phase = "double" /\ y < 3
  /\ src = EndOf(y)
  /\ y' = y + 1
  /\ last' = {}
  /\ UNCHANGED <<job, phase, src, out>>

\* The doubled frame is the output, or is scaled to it.
Doubled ==
  /\ phase = "double" /\ y = 3
  /\ src + 2 * job.w > EndOf(3)
  /\ IF job.w = job.out_w /\ InH(job) = job.out_h
     THEN /\ phase' = "done" /\ last' = {}
          /\ UNCHANGED <<y, src, out>>
     ELSE StartScaler(job)
  /\ UNCHANGED job

\* One turn of a scaler's loop.
ScaleRow ==
  LET p == Plan(job)
      k == y % p.period
      n == p.units * Len(p.picks)
  IN  /\ phase = "scale" /\ y < p.rows
      /\ y' = y + 1
      /\ \/ /\ k \in p.take
            /\ last' = {[from |-> src + p.left, read |-> p.units * p.step,
                         to |-> out + p.barSide, n |-> n]}
            /\ src' = src + p.pitch
            /\ out' = out + n + 2 * p.barSide
         \/ /\ k \in p.again
            /\ last' = {}
            /\ out' = out + 2 * job.out_w
            /\ UNCHANGED src
         \/ /\ k \notin p.take \cup p.again
            /\ last' = {}
            /\ src' = src + p.pitch
            /\ UNCHANGED out
      /\ UNCHANGED <<job, phase>>

\* Bars below.
Scaled ==
  /\ phase = "scale" /\ y = Plan(job).rows
  /\ phase' = "done"
  /\ out' = out + Plan(job).barBottom
  /\ last' = {}
  /\ UNCHANGED <<job, y, src>>

RenderNext ==
  \/ \E j \in Jobs : hws_render_staged(j)
  \/ DoubleLine
  \/ JoinLine
  \/ NextQuarter
  \/ Doubled
  \/ ScaleRow
  \/ Scaled

RenderSpec == RenderInit /\ [][RenderNext]_renderVars

-----------------------------------------------------------------------------
(***************************************************************************)
(* No row is read past its end, where the next begins, and none past the   *)
(* source frame's last (tests/unit/test_scale.c; docs/results.md tells of  *)
(* the scaler that did).  The sizes are even: with an output larger by an  *)
(* odd number of lines the general scaler copies one line too many.        *)
(***************************************************************************)
ReadsInside ==
  phase = "scale"
    => \A s \in last : /\ (s.from % (2 * job.w)) + s.read <= 2 * job.w
                       /\ s.from + s.read <= InBytes(job)

(***************************************************************************)
(* Whatever the pair of sizes, every byte of the output is written, none   *)
(* past its end, and each of its rows begins where the row before ended    *)
(* (tests/unit/test_scale.c:1).                                            *)
(***************************************************************************)
OutputWhole ==
  /\ phase = "scale" => out <= OutBytes(job) /\ out % (2 * job.out_w) = 0
  /\ phase = "done" => out = OutBytes(job)

(***************************************************************************)
(* A luma byte goes where the output has luma, Cb to Cb and Cr to Cr, in   *)
(* every row of every scaler.  The general one shifts the picture by half  *)
(* the difference of the widths, so this is for differences that are       *)
(* multiples of four.                                                      *)
(***************************************************************************)
Channel(b) == IF b % 2 = 0 THEN "y" ELSE IF b % 4 = 1 THEN "cb" ELSE "cr"

ColoursKept ==
  phase = "scale" /\ (job.w - job.out_w) % 4 = 0
    => LET p == Plan(job)
       IN  \A s \in last, u \in {0, 1, p.units - 1}, i \in DOMAIN p.picks :
             Channel(s.to + u * Len(p.picks) + i - 1) = Channel(s.from + u * p.step + p.picks[i])

(***************************************************************************)
(* Each line of an interlaced field is written to two lines of the frame,  *)
(* every byte at its own column, also the line that lies across two        *)
(* quarters (hws_video.c:1617).                                            *)
(***************************************************************************)
LinesDoubled ==
  phase = "double"
    => LET p == 2 * job.w
       IN  \A s \in last : \A i \in {0, s.n - 1} :
             s.from + i = ((s.to + i) \div (2 * p)) * p + ((s.to + i) % p)
=============================================================================
