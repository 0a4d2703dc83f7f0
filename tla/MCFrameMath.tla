---------------------------- MODULE MCFrameMath ----------------------------
(***************************************************************************)
(* The renderer of frames and the measurement of their rate, for TLC.  They*)
(* share no state, so a behaviour is of the one or of the other.           *)
(***************************************************************************)
EXTENDS FrameRender, FrameRate

Job(size, osize) ==
  [w |-> size[1], h |-> size[2], il |-> FALSE, len |-> size,
   out_w |-> osize[1], out_h |-> osize[2]]

\* A field of the size, its quarters programmed for "len".
FieldOf(size, len, osize) ==
  [w |-> size[1], h |-> size[2] \div 2, il |-> TRUE, len |-> <<len[1], len[2] \div 2>>,
   out_w |-> osize[1], out_h |-> osize[2]]

\* Sizes of support_videofmt, and inputs none of them matches (tests/unit/test_scale.c).
OtherSizes == {<<1024, 768>>, <<1440, 900>>, <<2560, 1080>>, UHDW}
OtherInputs == {<<1600, 900>>, <<1366, 768>>, <<640, 480>>}

SmallJobs ==
  {Job(s[1], s[2]) : s \in OwnScaler}
    \cup {Job(i, o) : i \in OtherInputs \cup {SVGA}, o \in OtherSizes}
    \cup {Job(UHDW, QHD)}
    \cup {FieldOf(FHD, FHD, o) : o \in {FHD, HD, PAL}}
    \cup {FieldOf(NTSC, NTSC, NTSC), FieldOf(PAL, PAL, FHD), FieldOf(FHD, PAL, FHD)}

VARIABLE part

MathInit ==
  /\ RenderInit /\ RateInit
  /\ part = "rate" \/ (part = "render" /\ late = 0 /\ source = CHOOSE s \in Sources : TRUE)

MathNext ==
  \/ part = "render" /\ RenderNext /\ UNCHANGED <<rateVars, part>>
  \/ part = "rate" /\ RateNext /\ UNCHANGED <<renderVars, part>>

\* Offsets and times stay natural numbers, a measured interval has counted frames.
MathTypeOK == RenderTypeOK /\ RateTypeOK /\ part \in {"rate", "render"}

MathSpec == MathInit /\ [][MathNext]_<<renderVars, rateVars, part>>
=============================================================================
