---------------------------- MODULE VideoCapture ----------------------------
(***************************************************************************)
(* Video delivery of the AVMATRIX VC12-4K driver (src/src/hws_video.c):    *)
(* the card that writes each frame as two quarter pairs, the interrupt     *)
(* handler that turns half-done interrupts into events, the IRQ thread     *)
(* that assembles frames for every streaming consumer by copy or by        *)
(* zero-copy, the status thread, the STREAMON / STREAMOFF ioctls and       *)
(* system sleep.                                                           *)
(*                                                                         *)
(* One action is one critical section of cap_lock, except a half that is   *)
(* copied: HalfBegin takes cap_lock and HalfEnd gives it back, and the     *)
(* card and the interrupt handler run in between.  engine_lock is the      *)
(* variable "engine"; the steps of STREAMOFF are the values of "pc".       *)
(*                                                                         *)
(* Time is counted in halves the card has completed: an event carries the  *)
(* number of halves completed since its interrupt (ev.ts), capped at       *)
(* MaxAge.  zc_ev and zc_free_after are kept as their difference "need":   *)
(* how many half-done events of a pair a buffer still waits for.           *)
(* m_FrameSeq is kept relative: "ahead" is next_seq - m_FrameSeq where     *)
(* hws_hold_buffers() looks at it.                                         *)
(***************************************************************************)
EXTENDS Integers, Sequences, FiniteSets

CONSTANTS
  Ctxs,        \* open file handles (struct hws_vfh_ctx)
  Bufs,        \* vb2 buffers (struct hwsvideo_buffer)
  Owner,       \* the handle a buffer belongs to
  Decimate,    \* ctx->decimate, set by VIDIOC_S_PARM
  Stoppers,    \* handles that do STREAMOFF; the others stream for good
  ZcCtxs,      \* handles whose MMAP buffers are dma-contig (hws_zc_memops)
  SmallBufs,   \* buffers below the output size, or not mapped
  OutsideBufs, \* buffers hws_zc_buffer_ok() refuses
  Geoms,       \* input geometries (width, height, interlace)
  OutGeom,     \* the geometry captured at the output size: "direct"
  BadGeoms,    \* geometries SetVideoFormteSize() refuses
  Null,        \* NULL; as a destination, the card's own DMA buffers
  FifoDepth,   \* length of half_events (16 in the code)
  MaxWaiting,  \* bound: events waiting for the IRQ thread
  MaxAge,      \* bound: cap on ages and gaps, in halves and in frames
  Env          \* which events of the environment occur, see EnvEvents

Top == 0      \* quarters 0 and 1; the half-frame toggle reads 1
Bottom == 1   \* quarters 2 and 3; the toggle reads 0, the frame ends
Pairs == {Top, Bottom}

EnvEvents == {"late_irq", "no_video", "card_loss", "sleep", "hdcp", "stale_knob"}

ASSUME CaptureAssumption ==
  /\ Owner \in [Bufs -> Ctxs]
  /\ Decimate \in [Ctxs -> 1 .. 4]
  /\ ZcCtxs \subseteq {c \in Ctxs : Decimate[c] = 1}
  /\ Stoppers \subseteq Ctxs
  /\ SmallBufs \subseteq Bufs /\ OutsideBufs \subseteq Bufs
  /\ SmallBufs \subseteq OutsideBufs
  /\ OutGeom \in Geoms /\ BadGeoms \subseteq Geoms \ {OutGeom}
  /\ Null \notin Bufs \cup Ctxs
  /\ FifoDepth \in Nat \ {0} /\ MaxWaiting \in Nat \ {0} /\ MaxAge \in Nat \ {0}
  /\ Env \subseteq EnvEvents

ASSUME FiniteAssumption == IsFiniteSet(Bufs)

VARIABLES
  started,    \* m_bVCapStarted and dwisRuning: the engine is on
  lost,       \* the card lost its run state (register 0 bit 0 is clear)
  power,      \* "on", or asleep with m_ResumeVideo clear or set
  status,     \* the status thread's loop: what it found and will take the locks for
  noVideo,    \* m_curr_No_Video
  geom,       \* m_pVCAPStatus: the input geometry the lengths are for
  card,       \* the card's current run, and the toggle register
  irq,        \* half-done interrupt: none, pending, or the toggle was sampled
              \* and the acknowledgement of register 1 is still to come
  seen,       \* video_toggle, as the pair it stands for
  fifo,       \* half_events
  thr,        \* the half the IRQ thread is copying, or Idle
  frame,      \* top_done, frame_w/h/il, frame_late, frame_hdcp
  gap,        \* zc_last_ts (as an age, or None) and zc_gap_prev
  zc,         \* zero-copy state of struct hws_video
  queue,      \* ctx->buf_queue
  held,       \* ctx->held; frame_bufs is the set of held buffers
  app,        \* buffers the app owns (completed or never queued)
  streaming,  \* ctx->streaming
  ahead,      \* next_seq - m_FrameSeq if in 0 .. decimate, else 0
  inflight,   \* ctx->inflight
  users,      \* engine_users
  engine,     \* holder of engine_lock, or Null
  pc,         \* where a handle is in STREAMON / STREAMOFF
  \* history and picture contents, read by the properties only
  pic,        \* what each destination holds in each pair
  mark,       \* HWS_HALF_MARK in each destination's pair
  res,        \* "error": failed, not back yet; else what a frame given to the app was
  fed,        \* streaming handles given a good frame
  reset       \* handles in fed when m_FrameSeq went back to 0

hostVars == <<power, status>>
cardVars == <<lost, card, irq, seen>>
seqVars == <<ahead, fed, reset>>
ctxVars == <<streaming, users, engine, pc>>
vars == <<started, hostVars, noVideo, geom, fifo, thr, frame, gap, zc, queue, held,
          app, inflight, pic, mark, res, cardVars, seqVars, ctxVars>>

-----------------------------------------------------------------------------
(* Values. *)

StatusValues == {"idle", "reinit", "poll"}
Powers == {"on", "sleep", "sleep_capturing"}
Idle == [busy |-> FALSE, pair |-> Top, ts |-> 0, zf |-> Null, src |-> 0, hdcp |-> FALSE]
None == -1        \* zc_last_ts is 0
Fresh == -1       \* next_seq is 0: no buffer taken since STREAMON
Torn == -1        \* the card was writing it while it was copied
Unmeasured == -2  \* the same, with no valid half-frame interval to compare with
Ages == 0 .. MaxAge
Contents == Ages \cup {Torn, Unmeasured}
Dests == Bufs \cup {Null}
Marks == {"clear", "set", "late"}  \* late: set while the card was writing the pair
Results == {"ok", "error", "mixed", "torn", "unmeasured", "repeat"}

Min2(a, b) == IF a < b THEN a ELSE b
Older(a) == IF a \in Ages THEN Min2(a + 1, MaxAge) ELSE a
Zero2 == [p \in Pairs |-> 0]
False2 == [p \in Pairs |-> FALSE]
Other(p) == 1 - p

Direct == geom = OutGeom
HeldBufs == {held[c] : c \in Ctxs} \ {Null}
CountOf(S, c) == Cardinality({b \in S : Owner[b] = c})

\* A buffer that leaves the driver, or is queued again, carries no history.
Blank == [p \in Pairs |-> MaxAge]
Forget(pics, S) == [d \in Dests |-> IF d \in S THEN Blank ELSE pics[d]]
Unmark(marks, S) == [d \in Dests |-> IF d \in S THEN [p \in Pairs |-> "clear"] ELSE marks[d]]

\* Frames in S failed; those of them in "back" are with the app now.
Failed(S, back) ==
  [b \in Bufs |-> IF b \in back THEN "ok" ELSE IF b \in S THEN "error" ELSE res[b]]

\* Mutant: a buffer that is taken is not counted.
CompleteUncounted(back, taken) ==
  app' = app \cup back /\ inflight' = [c \in Ctxs |-> inflight[c] - CountOf(back, c)]

\* Buffers in "back" are completed, buffers in "taken" leave the queues.
Complete(back, taken) ==
  /\ app' = app \cup back
  /\ inflight' = [c \in Ctxs |-> inflight[c] + CountOf(taken, c) - CountOf(back, c)]

\* A good frame, judged by what the two pairs of the buffer hold.
Verdict(pics, b, black) ==
  LET top == pics[b][Top]  bot == pics[b][Bottom] IN
  IF Owner[b] \in reset THEN "repeat"
  ELSE IF black \/ (top \in 0 .. MaxAge - 1 /\ top = bot) THEN "ok"
  ELSE IF Unmeasured \in {top, bot} THEN "unmeasured"
  ELSE IF Torn \in {top, bot} THEN "torn" ELSE "mixed"

-----------------------------------------------------------------------------
(* Zero-copy bookkeeping, as functions of the record zc.                   *)

\* zc_free_after - zc_ev for a pair that moves on.  Mutant: one half too many.
AwaitTwo(inTime) == IF inTime THEN 0 ELSE 2
Await(inTime) == IF inTime THEN 0 ELSE 1

\* hws_zc_program: point pair p at b (Null: the DMA buffers).
Program(z, p, b, inTime) ==
  LET old == z.prog[p] IN
  IF b = Null /\ old = Null THEN z
  ELSE [z EXCEPT
         !.prog[p] = b,
         !.away = [x \in Bufs |-> IF x = old THEN [@[x] EXCEPT ![p] = inTime] ELSE @[x]],
         !.need = [x \in Bufs |-> IF x = old THEN [@[x] EXCEPT ![p] = Await(inTime)] ELSE @[x]],
         !.in   = [x \in Bufs |-> IF x = b THEN [@[x] EXCEPT ![p] = inTime] ELSE @[x]]]

\* hws_zc_retire: b waits on zc_release until the card is past it.
Retire(z, b) == [z EXCEPT !.rel = @ \cup ({b} \ {Null})]

\* hws_zc_release: the buffers of zc_release the card can no longer write.
Releasable(z) ==
  {b \in z.rel : /\ \A p \in Pairs : z.prog[p] # b
                 /\ z.need[b] = Zero2}

\* The reset of zc_in and zc_away_in is hws_zc_pick()'s, done when the buffer
\* leaves so that buffers of the app carry no old flags.
Release(z) ==
  LET out == Releasable(z) IN
  [z EXCEPT !.rel  = @ \ out,
            !.in   = [b \in Bufs |-> IF b \in out THEN False2 ELSE @[b]],
            !.away = [b \in Bufs |-> IF b \in out THEN False2 ELSE @[b]]]

\* zc_ev[p]++
CountEvent(z, p) == [z EXCEPT !.need = [b \in Bufs |-> [@[b] EXCEPT ![p] = 0]]]

\* With the card stopped nothing is waited for.  Mutant: it is.
StillWaits(z, cardStopped) == z
NoWaits(z, cardStopped) ==
  [z EXCEPT !.need = IF cardStopped
                     THEN [b \in Bufs |-> IF b \in z.rel THEN Zero2 ELSE @[b]] ELSE @]

\* hws_zc_stop up to its hws_zc_release().
Unhook(z, cardStopped) ==
  LET off == Program(Program(z, Top, Null, FALSE), Bottom, Null, FALSE)
      ret == Retire(Retire(off, z.cur), z.next)
  IN NoWaits([ret EXCEPT !.cur = Null, !.next = Null, !.ctx = Null, !.stable = 0], cardStopped)

ZcStop(z, cardStopped) == Release(Unhook(z, cardStopped))
ZcStopBack(z, cardStopped) == Releasable(Unhook(z, cardStopped))

\* Mutant: zc_next stays.
AdvanceKeepsNext(z) == [Retire(z, z.cur) EXCEPT !.cur = z.next]

\* hws_zc_frame_end up to its hws_zc_release().
Advance(z) == [Retire(z, z.cur) EXCEPT !.cur = z.next, !.next = Null]

\* Mutant: only the register writes that pointed the pairs at b count.
InTimeIn(z, b) == \A p \in Pairs : z.in[b][p]

\* zc_in and zc_away_in of both pairs: no late register write touched b.
InTimeThroughout(z, b) == \A p \in Pairs : z.in[b][p] /\ z.away[b][p]

\* The buffers of the zero-copy state.
InZc(z) == ({z.cur, z.next} \cup z.rel) \ {Null}

\* hws_zc_buffer_ok: large enough, and within the card's address windows.
ZcUsable(b) == b \notin OutsideBufs

\* hws_zc_pick: the buffers it may take for the next frame, or Null.
ZcEligible == streaming \cap ZcCtxs
ZcFound == IF zc.ctx \in ZcEligible THEN {zc.ctx} ELSE ZcEligible
Picks(hdcp) ==
  IF zc.stable < 2 \/ ~Direct \/ hdcp \/ ZcEligible = {} THEN {Null}
  ELSE UNION {IF queue[c] = {} THEN {Null}
              ELSE {IF ZcUsable(b) THEN b ELSE Null : b \in queue[c]} : c \in ZcFound}

-----------------------------------------------------------------------------
(* Consumers' buffers and frame numbers.                                   *)

\* hws_hold_buffers: the consumers that take a buffer, given next_seq - seq.
Takers(q, skip, ahd) ==
  {c \in streaming \ {skip} : held[c] = Null /\ q[c] # {} /\ ahd[c] <= 0}

\* One queued buffer for each of them (the list order of buf_queue is left open).
HoldChoices(q, skip, ahd) ==
  {t \in [Takers(q, skip, ahd) -> Bufs] : \A c \in DOMAIN t : t[c] \in q[c]}

Image(t) == {t[c] : c \in DOMAIN t}
HeldAfter(t) ==
  [c \in Ctxs |-> IF c \in DOMAIN t /\ t[c] \notin SmallBufs THEN t[c] ELSE held[c]]
QueueWithout(q, S) == [c \in Ctxs |-> q[c] \ S]
AheadAfter(t, ahd) == [c \in Ctxs |-> IF c \in DOMAIN t THEN Decimate[c] ELSE ahd[c]]

\* m_FrameSeq[ch]++
NextSeq(ahd) == [c \in Ctxs |-> IF ahd[c] <= 0 THEN ahd[c] ELSE ahd[c] - 1]

\* The frame number moves on by one if "moved", after which handles "got" have
\* been given a good frame.
Number(moved, ahd, got) ==
  /\ ahead' = IF moved THEN NextSeq(ahd) ELSE ahd
  /\ reset' = IF moved THEN {} ELSE reset
  /\ fed' = fed \cup got

-----------------------------------------------------------------------------
(* The card and its registers.  Not driver code: the behaviour probes 4.4  *)
(* and 6.9 record and the driver relies on.  A run's address is taken when *)
(* the run starts; a completed half raises the interrupt and the other     *)
(* pair's run starts.                                                      *)

\* The card starts writing pair p of d.
StartRun(pics, d, p) == [pics EXCEPT ![d][p] = Torn]

\* Contents grow one frame older when a bottom half ends a frame.
AgeFrames(pics) == [d \in Dests |-> [p \in Pairs |-> Older(pics[d][p])]]

\* A start of the engine begins a new input frame, into the DMA buffers: what
\* was complete of an unfinished one is part of an older frame now.
StartFrame == StartRun(IF card.pair = Bottom THEN AgeFrames(pic) ELSE pic, Null, Top)

CardHalfDone ==
  /\ started /\ ~lost
  /\ irq = "none" \/ "late_irq" \in Env
  /\ Len(fifo) < MaxWaiting
  /\ LET p == card.pair  d == card.dst  q == Other(p)
         done == [pic EXCEPT ![d][p] = 0] IN
     /\ pic' = StartRun(IF p = Bottom THEN AgeFrames(done) ELSE done, zc.prog[q], q)
     /\ \E m \in (IF mark[d][p] = "late" THEN {"set", "clear"} ELSE {"clear"}) :
          mark' = [mark EXCEPT ![d][p] = m]
     /\ card' = [pair |-> q, dst |-> zc.prog[q], toggle |-> p]
     /\ thr' = IF ~thr.busy THEN thr ELSE
               [thr EXCEPT !.ts = Older(@),
                           !.src = IF p = Bottom THEN Older(@) ELSE @]
  /\ irq' = IF irq = "sampled" THEN "sampled" ELSE "pending"
  /\ fifo' = [i \in DOMAIN fifo |-> [fifo[i] EXCEPT !.ts = Older(@)]]
  /\ gap' = [gap EXCEPT !.last = IF @ = None THEN None ELSE Older(@)]
  /\ UNCHANGED <<started, lost, hostVars, noVideo, geom, seen, frame, zc, queue, held, app,
                 inflight, res, seqVars, ctxVars>>

\* The card loses its run state; its DMA stops.
CardLoses ==
  /\ "card_loss" \in Env /\ started /\ ~lost
  /\ lost' = TRUE
  /\ UNCHANGED <<started, hostVars, noVideo, geom, card, irq, seen, fifo, thr, frame, gap, zc, queue,
                 held, app, inflight, pic, mark, res, seqVars, ctxVars>>

\* The video part of irqhandler(): sample the toggle, queue an event if it moved.
\* Its acknowledgement is a step of its own where a half can complete before it.
IrqHandler ==
  /\ irq = "pending"
  /\ irq' = IF "late_irq" \in Env THEN "sampled" ELSE "none"
  /\ seen' = card.toggle
  /\ fifo' = IF card.toggle # seen /\ Len(fifo) < FifoDepth
             THEN Append(fifo, [pair |-> card.toggle, ts |-> 0]) ELSE fifo
  /\ UNCHANGED <<started, lost, hostVars, noVideo, geom, card, thr, frame, gap, zc, queue, held, app,
                 inflight, pic, mark, res, seqVars, ctxVars>>

\* The write to register 1 also clears the interrupt of a half completed since.
IrqAcknowledge ==
  /\ irq = "sampled"
  /\ irq' = "none"
  /\ UNCHANGED <<started, lost, hostVars, noVideo, geom, card, seen, fifo, thr, frame, gap, zc, queue,
                 held, app, inflight, pic, mark, res, seqVars, ctxVars>>

-----------------------------------------------------------------------------
(* The IRQ thread: hws_irq_thread() and hws_video_half().                  *)

NoTop == [done |-> FALSE, geom |-> OutGeom, late |-> FALSE, hdcp |-> FALSE]
HdcpReads == IF "hdcp" \in Env THEN BOOLEAN ELSE {FALSE}

\* An event while nothing is captured, or without a usable signal.
ThreadSkips ==
  /\ ~thr.busy /\ fifo # <<>> /\ (~started \/ noVideo)
  /\ fifo' = Tail(fifo)
  /\ UNCHANGED <<started, hostVars, noVideo, geom, thr, frame, gap, zc, queue, held, app, inflight,
                 pic, mark, res, cardVars, seqVars, ctxVars>>

Writing(d, p) == started /\ ~lost /\ card.dst = d /\ card.pair = p

\* What the driver can read of "*mark == HWS_HALF_MARK": while the card writes
\* the pair, the word may be gone already.
MarkReads(m, d, p) == IF m[d][p] = "set" /\ Writing(d, p) THEN BOOLEAN ELSE {m[d][p] # "clear"}

\* The mark the thread leaves in a pair of the DMA buffers it is done with.
SetMark(m, zf, p) ==
  IF zf = Null THEN [m EXCEPT ![Null][p] = IF Writing(Null, p) THEN "late" ELSE "set"] ELSE m

\* The bottom half ends the frame in zc.cur without it: it goes back with an error.
EndWithoutFrame(z, m, moved) ==
  LET back == Releasable(Advance(z)) IN
  /\ zc' = Release(Advance(z))
  /\ res' = Failed({z.cur}, back)
  /\ Complete(back, {})
  /\ pic' = Forget(pic, back) /\ mark' = Unmark(m, back)
  /\ frame' = NoTop /\ Number(moved, ahead, {})
  /\ UNCHANGED <<thr, queue, held>>

\* The card did not refresh a top half.
StaleTop(z, m, b) ==
  /\ zc' = z /\ mark' = m /\ res' = Failed({zc.next}, {})
  /\ queue' = QueueWithout(queue, {b})
  /\ Complete({}, {b} \ {Null})
  /\ frame' = NoTop /\ Number(frame.done, ahead, {})
  /\ UNCHANGED <<thr, held, pic>>

\* A copy buffer the zero-copy consumer still holds would get the same frame
\* again.  Mutant: it does.
HeldTwiceAllowed(skip) == {}
HeldTwice(skip) == IF skip = Null THEN {} ELSE {held[skip]} \ {Null}

\* A fresh top half: one buffer for each consumer, then the copy starts.
TopBegin(z, m, b, ts, hdcp) ==
  LET zf == zc.cur
      skip == IF zf = Null THEN Null ELSE Owner[zf]
      twice == HeldTwice(skip)
      q == QueueWithout(queue, {b})
      ahd == IF frame.done THEN NextSeq(ahead) ELSE ahead
  IN \E t \in HoldChoices(q, skip, ahd) :
     LET small == Image(t) \cap SmallBufs  back == twice \cup small IN
     /\ held' = [c \in Ctxs |-> IF held[c] \in twice THEN Null ELSE HeldAfter(t)[c]]
     /\ queue' = QueueWithout(q, Image(t))
     /\ ahead' = AheadAfter(t, ahd)
     /\ reset' = IF frame.done THEN {} ELSE reset
     /\ UNCHANGED fed
     /\ frame' = [done |-> TRUE, geom |-> geom, late |-> FALSE, hdcp |-> hdcp]
     /\ thr' = [busy |-> TRUE, pair |-> Top, ts |-> ts, zf |-> zf, src |-> pic[zf][Top], hdcp |-> hdcp]
     /\ zc' = z
     /\ Complete(back, Image(t) \cup ({b} \ {Null}))
     /\ res' = Failed({zc.next}, back)
     /\ pic' = Forget(pic, back) /\ mark' = Unmark(m, back)

\* A fresh bottom half of the frame whose top half was taken.
BottomBegin(z, m, ts, hdcp) ==
  /\ thr' = [busy |-> TRUE, pair |-> Bottom, ts |-> ts, zf |-> zc.cur, src |-> pic[zc.cur][Bottom], hdcp |-> hdcp]
  /\ zc' = z /\ mark' = m
  /\ UNCHANGED <<frame, queue, held, app, inflight, pic, res, seqVars>>

\* The bottom half belongs to the top half that was taken.  Mutant: to any.
FollowsAny == TRUE
Follows == frame.done /\ frame.geom = geom

\* Mutant: the buffer of the register write is not kept in zc_next.
NextHalfForgets(z, p, b) == CountEvent(z, p)

\* hws_video_half() and hws_zc_pick() before the register write: the event is
\* counted; a top half takes b for the next frame.
NextHalf(z, p, b) ==
  LET counted == CountEvent(z, p) IN
  IF p = Bottom THEN counted
  ELSE [Retire(counted, z.next) EXCEPT !.next = b, !.ctx = IF b = Null THEN @ ELSE Owner[b]]

\* hws_zc_mark: the pair of b the card writes next.
MarkNext(p, b) == IF b = Null THEN mark ELSE [mark EXCEPT ![b][p] = "set"]

\* What hws_video_half() makes of the half, its zero-copy state and marks z and m.
HalfWays(ev, hdcp, knob, b, z, m) ==
  LET p == ev.pair  zf == zc.cur IN
  \E marked \in MarkReads(m, zf, p) :
    LET stale == marked \/ knob \/ (zf # Null /\ ~z.in[zf][p])
    IN \/ stale /\ p = Top /\ StaleTop(z, m, b)
       \/ stale /\ p = Bottom /\ EndWithoutFrame(z, m, frame.done)
       \/ ~stale /\ p = Top /\ TopBegin(z, m, b, ev.ts, hdcp)
       \/ ~stale /\ p = Bottom /\ Follows /\ BottomBegin(z, m, ev.ts, hdcp)
       \/ ~stale /\ p = Bottom /\ ~Follows /\ EndWithoutFrame(z, SetMark(m, zf, p), TRUE)

\* Whether a register write for an interrupt "age" halves ago may count as in
\* time, within half of the shorter of the last two gaps.
InTimeWays(age, shorter) == IF 2 * age < shorter THEN BOOLEAN ELSE {FALSE}

\* hws_video_half() up to and including the start of the copy.  Both reads of
\* the HDCP register are free.
HalfBegin ==
  /\ ~thr.busy /\ fifo # <<>> /\ started /\ ~noVideo
  /\ LET ev == Head(fifo)  p == ev.pair
         g == IF gap.last = None THEN 0 ELSE gap.last - ev.ts
     IN
     /\ gap' = [last |-> ev.ts, prev |-> g]
     /\ \E hdcp \in HdcpReads,
           inTime \in InTimeWays(ev.ts, Min2(g, gap.prev)),
           knob \in (IF "stale_knob" \in Env /\ p = Bottom THEN BOOLEAN ELSE {FALSE}),
           b \in (IF p = Top THEN UNION {Picks(h) : h \in HdcpReads} ELSE {zc.next}) :
          HalfWays(ev, hdcp, knob, b, Program(NextHalf(zc, p, b), p, b, inTime), MarkNext(p, b))
  /\ fifo' = Tail(fifo)
  /\ UNCHANGED <<started, hostVars, noVideo, geom, cardVars, ctxVars>>

\* hws_copy_late (and its mutant): the copy of a half from the DMA buffers took too long.
NeverLate == FALSE
CopyLate == thr.zf = Null /\ gap.prev # 0 /\ thr.ts >= gap.prev

\* What a buffer got from the half the thread copied since HalfBegin.
Copied(p) ==
  IF pic[thr.zf][p] = thr.src /\ thr.src \in Ages THEN thr.src
  ELSE IF gap.prev = 1 THEN Torn ELSE Unmeasured

\* The top half is copied.
TopEnd ==
  /\ thr.busy /\ thr.pair = Top
  /\ pic' = [d \in Dests |-> IF d \in HeldBufs THEN [pic[d] EXCEPT ![Top] = Copied(Top)] ELSE pic[d]]
  /\ frame' = [frame EXCEPT !.late = CopyLate]
  /\ mark' = SetMark(mark, thr.zf, Top)
  /\ thr' = Idle
  /\ UNCHANGED <<started, hostVars, noVideo, geom, fifo, gap, zc, queue, held, app, inflight, res,
                 cardVars, seqVars, ctxVars>>

\* hws_render_staged(), for consumers of a scaled frame: whether it succeeds is left open.
Rendered(black) == IF Direct \/ black \/ HeldBufs = {} THEN {TRUE} ELSE BOOLEAN

\* The bottom half is copied (scaled, blanked): the frame goes to its consumers.
BottomEnd ==
  /\ thr.busy /\ thr.pair = Bottom
  /\ LET black == frame.hdcp \/ thr.hdcp
         late == CopyLate /\ ~black /\ (Direct \/ HeldBufs # {})
         pics == [d \in Dests |-> IF d \in HeldBufs
                                  THEN [pic[d] EXCEPT ![Bottom] = Copied(Bottom)] ELSE pic[d]]
     IN \E rendered \in Rendered(black) :
        LET good == rendered /\ ~frame.late /\ ~late
            zfGood == good /\ thr.zf # Null /\ InTimeThroughout(zc, thr.zf)
            ended == Advance([zc EXCEPT !.stable = IF good THEN Min2(@ + 1, 2) ELSE @])
            back == HeldBufs \cup Releasable(ended)
            got == {b \in HeldBufs : good} \cup (IF zfGood THEN {thr.zf} ELSE {})
            twice == zfGood /\ held[Owner[thr.zf]] # Null
        IN /\ zc' = Release(ended)
           /\ res' = [b \in Bufs |->
                        IF b \in got
                        THEN IF b = thr.zf /\ twice THEN "repeat" ELSE Verdict(pics, b, black)
                        ELSE Failed({thr.zf}, back)[b]]
           /\ Complete(back, {})
           /\ Number(TRUE, ahead, {Owner[b] : b \in got})
           /\ pic' = Forget(pics, back)
           /\ mark' = Unmark(SetMark(mark, thr.zf, Bottom), back)
  /\ held' = [c \in Ctxs |-> Null]
  /\ frame' = NoTop /\ thr' = Idle
  /\ UNCHANGED <<started, hostVars, noVideo, geom, fifo, gap, queue, cardVars, ctxVars>>

-----------------------------------------------------------------------------
(* The status thread: MainKsThreadHandle(), CheckVideFmt() with            *)
(* Get_Video_Status() and ChangeVideoSize(), and hws_do_reinit().  What it  *)
(* reads before it takes engine_lock and cap_lock may have changed by then. *)

\* hws_request_reinit() of a card that is capturing.
StatusFindsLoss ==
  /\ power = "on" /\ status = "idle" /\ started /\ lost
  /\ status' = "reinit"
  /\ UNCHANGED <<started, power, noVideo, geom, fifo, thr, frame, gap, zc, queue, held, app,
                 inflight, pic, mark, res, cardVars, seqVars, ctxVars>>

\* need_check.  (Without a change of the input a poll changes nothing.)
StatusFindsCapture ==
  /\ power = "on" /\ status = "idle" /\ started
  /\ Geoms # {geom} \/ "no_video" \in Env
  /\ status' = "poll"
  /\ UNCHANGED <<started, power, noVideo, geom, fifo, thr, frame, gap, zc, queue, held, app,
                 inflight, pic, mark, res, cardVars, seqVars, ctxVars>>

\* StartVideoCapture() on a stopped engine: the card begins a top half.
StartCard(z) == [card EXCEPT !.pair = Top, !.dst = z.prog[Top]]

\* ... and video_toggle is set so that its first event is a top half.  Mutant: it stays.
ToggleKept == seen
ToggleAtStart == Bottom

\* The time the engine stood still is part of the next gap.
Paused == [gap EXCEPT !.last = IF @ = None THEN None ELSE MaxAge]

\* engine_lock and cap_lock are free: the next step of the status thread.
StatusTurn(found) ==
  /\ status = found /\ engine = Null /\ ~thr.busy
  /\ status' = "idle"

\* hws_zc_stop() with "pics" the contents the card leaves behind.
TakeBackZc(stopped, pics) ==
  LET back == ZcStopBack(zc, stopped) IN
  /\ zc' = ZcStop(zc, stopped)
  /\ res' = Failed({zc.cur, zc.next}, back)
  /\ Complete(back, {})
  /\ pic' = Forget(pics, back) /\ mark' = Unmark(mark, back)

\* An engine that runs was stopped (quiesced) and starts again; one at rest stays so.
Restart(z) ==
  IF started THEN /\ card' = StartCard(z) /\ seen' = ToggleAtStart /\ lost' = FALSE /\ gap' = Paused
  ELSE UNCHANGED <<card, seen, lost, gap>>

RestartPics == IF started THEN StartFrame ELSE pic

\* A usable signal of the same geometry.
PollSame ==
  /\ StatusTurn("poll")
  /\ noVideo' = FALSE
  /\ UNCHANGED <<started, power, geom, fifo, thr, frame, gap, zc, queue, held, app, inflight,
                 pic, mark, res, cardVars, seqVars, ctxVars>>

\* The input changed: stop, take the zero-copy buffers back, set the lengths, restart.
PollResize ==
  /\ StatusTurn("poll")
  /\ \E g \in Geoms \ (BadGeoms \cup {geom}) : geom' = g
  /\ noVideo' = FALSE
  /\ TakeBackZc(started, RestartPics)
  /\ Restart(zc')
  /\ UNCHANGED <<started, power, irq, fifo, thr, frame, queue, held, seqVars, ctxVars>>

\* hws_deliver_no_video(): a blue frame to each consumer; "back" goes back too.
DeliverNoVideo(back, pics) ==
  \E t \in HoldChoices(queue, Null, ahead) :
    LET small == Image(t) \cap SmallBufs
        blue == HeldBufs \cup (Image(t) \ SmallBufs)
    IN /\ queue' = QueueWithout(queue, Image(t))
       /\ held' = [c \in Ctxs |-> Null]
       /\ Complete(back \cup small \cup blue, Image(t))
       /\ res' = [b \in Bufs |-> IF b \in blue THEN Verdict(pic, b, TRUE)
                                 ELSE Failed({zc.cur, zc.next} \ {zc'.cur, zc'.next},
                                             small \cup back)[b]]
       /\ Number(TRUE, AheadAfter(t, ahead), {Owner[b] : b \in blue})
       /\ pic' = Forget(pics, back \cup small \cup blue)
       /\ mark' = Unmark(mark, back \cup small \cup blue)

\* No usable signal; with the engine at rest only the flag is set.
PollNoVideo ==
  /\ StatusTurn("poll") /\ "no_video" \in Env
  /\ noVideo' = TRUE
  /\ IF started THEN zc' = zc /\ frame' = NoTop /\ DeliverNoVideo({}, pic)
     ELSE UNCHANGED <<zc, frame, queue, held, app, inflight, pic, mark, res, seqVars>>
  /\ UNCHANGED <<started, power, geom, fifo, thr, gap, cardVars, ctxVars>>

\* A size SetVideoFormteSize() refuses: stopped and restarted all the same.
PollBadSize ==
  /\ StatusTurn("poll") /\ BadGeoms # {}
  /\ noVideo' = TRUE
  /\ IF started
     THEN /\ zc' = ZcStop(zc, TRUE) /\ frame' = NoTop
          /\ DeliverNoVideo(ZcStopBack(zc, TRUE), RestartPics)
     ELSE TakeBackZc(FALSE, pic) /\ UNCHANGED <<frame, queue, held, seqVars>>
  /\ Restart(zc')
  /\ UNCHANGED <<started, power, geom, irq, fifo, thr, ctxVars>>

\* hws_do_reinit(): the toggle of the interrupt handler is not reset here.
Reinit ==
  /\ StatusTurn("reinit")
  /\ TakeBackZc(FALSE, RestartPics)
  /\ lost' = FALSE
  /\ IF started THEN card' = StartCard(zc') /\ gap' = Paused ELSE UNCHANGED <<card, gap>>
  /\ UNCHANGED <<started, power, noVideo, geom, irq, seen, fifo, thr, frame, queue, held, seqVars,
                 ctxVars>>

-----------------------------------------------------------------------------
(* Applications: QBUF, STREAMON (hws_start_streaming_multi) and STREAMOFF   *)
(* (hws_stop_streaming_multi).  A handle's qmutex is held through both.     *)

QBuf(b) ==
  /\ power = "on" /\ b \in app /\ pc[Owner[b]] \in {"off", "on"}
  /\ app' = app \ {b}
  /\ queue' = [queue EXCEPT ![Owner[b]] = @ \cup {b}]
  /\ res' = [res EXCEPT ![b] = "ok"]
  /\ UNCHANGED <<started, hostVars, noVideo, geom, fifo, thr, frame, gap, zc, held, inflight,
                 pic, mark, cardVars, seqVars, ctxVars>>

StreamOn(c) ==
  /\ power = "on" /\ pc[c] = "off"
  /\ streaming' = streaming \cup {c}
  /\ ahead' = [ahead EXCEPT ![c] = Fresh]
  /\ pc' = [pc EXCEPT ![c] = "starting"]
  /\ UNCHANGED <<started, hostVars, noVideo, geom, fifo, thr, frame, gap, zc, queue, held, app,
                 inflight, pic, mark, res, cardVars, fed, reset, users, engine>>

\* engine_lock: not the first streamer.
JoinEngine(c) ==
  /\ pc[c] = "starting" /\ engine = Null /\ users > 0
  /\ users' = users + 1
  /\ pc' = [pc EXCEPT ![c] = "on"]
  /\ UNCHANGED <<started, hostVars, noVideo, geom, fifo, thr, frame, gap, zc, queue, held, app,
                 inflight, pic, mark, res, cardVars, seqVars, streaming, engine>>

\* engine_lock: the first streamer resets the frame number and starts the card.
StartEngine(c) ==
  /\ pc[c] = "starting" /\ engine = Null /\ users = 0 /\ ~thr.busy
  /\ users' = 1 /\ started' = TRUE
  /\ pc' = [pc EXCEPT ![c] = "on"]
  /\ \/ noVideo' = FALSE /\ geom' \in Geoms \ BadGeoms
     \/ noVideo' = TRUE /\ UNCHANGED geom /\ ("no_video" \in Env \/ BadGeoms # {})
  /\ TakeBackZc(TRUE, StartFrame)
  \* m_FrameSeq is 0 again; a next_seq from before may be one of the next few.
  /\ ahead' \in {a \in [Ctxs -> Fresh .. 4] :
                   \A x \in Ctxs : a[x] \in IF ahead[x] = Fresh THEN {Fresh} ELSE 0 .. Decimate[x]}
  /\ reset' = fed \cap streaming /\ UNCHANGED fed
  /\ frame' = NoTop /\ gap' = [last |-> None, prev |-> 0]
  /\ card' = StartCard(zc') /\ seen' = ToggleAtStart /\ lost' = FALSE
  /\ UNCHANGED <<hostVars, irq, fifo, thr, queue, held, streaming, engine>>

\* engine_users, this handle among them, leaves someone who needs the card.
\* Mutant: this handle counts.
AnyUsers == users > 0
OtherUsers == users > 1

\* STREAMOFF: no longer streaming, queued buffers go back.
StreamOff(c) ==
  /\ c \in Stoppers /\ power = "on" /\ pc[c] = "on"
  /\ streaming' = streaming \ {c}
  /\ queue' = [queue EXCEPT ![c] = {}]
  /\ app' = app \cup queue[c]
  /\ res' = Failed({}, queue[c])
  /\ pc' = [pc EXCEPT ![c] = "drained"]
  /\ UNCHANGED <<started, hostVars, noVideo, geom, fifo, thr, frame, gap, zc, held, inflight,
                 pic, mark, cardVars, seqVars, users, engine>>

\* cap_lock: the half-filled buffer goes back, zero-copy stops.
StopTakeBack(c) ==
  /\ pc[c] = "drained" /\ ~thr.busy
  /\ LET mine == zc.ctx = c
         back == ({held[c]} \ {Null}) \cup (IF mine THEN ZcStopBack(zc, FALSE) ELSE {})
     IN /\ zc' = IF mine THEN ZcStop(zc, FALSE) ELSE zc
        /\ res' = Failed(IF mine THEN {zc.cur, zc.next} ELSE {}, back)
        /\ Complete(back, {})
        /\ pic' = Forget(pic, back) /\ mark' = Unmark(mark, back)
  /\ held' = [held EXCEPT ![c] = Null]
  /\ pc' = [pc EXCEPT ![c] = "waiting"]
  /\ UNCHANGED <<started, hostVars, noVideo, geom, fifo, thr, frame, gap, queue, cardVars, seqVars,
                 streaming, users, engine>>

\* wait_event(inflight == 0).  Mutant: the wait that timed out counts as done.
WaitGivesUp(c) == TRUE
WaitDone(c) == inflight[c] = 0

\* Both waits end when nothing is in flight.
StopWaited(c) ==
  /\ pc[c] \in {"waiting", "waiting_again"} /\ WaitDone(c)
  /\ pc' = [pc EXCEPT ![c] = "leaving"]
  /\ UNCHANGED <<started, hostVars, noVideo, geom, fifo, thr, frame, gap, zc, queue, held, app,
                 inflight, pic, mark, res, cardVars, seqVars, streaming, users, engine>>

\* 250 ms passed with a buffer in flight ...
StopTimesOut(c) ==
  /\ pc[c] = "waiting" /\ ~WaitDone(c)
  /\ pc' = [pc EXCEPT ![c] = "timed_out"]
  /\ UNCHANGED <<started, hostVars, noVideo, geom, fifo, thr, frame, gap, zc, queue, held, app,
                 inflight, pic, mark, res, cardVars, seqVars, streaming, users, engine>>

\* ... which may be back by now: take engine_lock and stop the card.
StopTimeout(c) ==
  /\ pc[c] = "timed_out" /\ engine = Null
  /\ engine' = c /\ started' = FALSE
  /\ pc' = [pc EXCEPT ![c] = "quiesced"]
  /\ UNCHANGED <<hostVars, noVideo, geom, fifo, thr, frame, gap, zc, queue, held, app, inflight,
                 pic, mark, res, cardVars, seqVars, streaming, users>>

\* cap_lock: with the card at rest everything goes back; restart for the others.
StopForce(c) ==
  /\ pc[c] = "quiesced" /\ ~thr.busy
  /\ started' = OtherUsers
  /\ TakeBackZc(TRUE, IF OtherUsers THEN StartFrame ELSE pic)
  /\ IF OtherUsers THEN card' = StartCard(zc') /\ seen' = ToggleAtStart /\ lost' = FALSE /\ gap' = Paused
     ELSE UNCHANGED <<card, seen, lost, gap>>
  /\ engine' = Null
  /\ pc' = [pc EXCEPT ![c] = "waiting_again"]
  /\ UNCHANGED <<hostVars, noVideo, geom, irq, fifo, thr, frame, queue, held, seqVars, streaming, users>>

\* engine_lock: the last streamer stops the card.
StopEngine(c) ==
  /\ pc[c] = "leaving" /\ engine = Null
  /\ users' = users - 1
  /\ started' = (started /\ OtherUsers)
  /\ pc' = [pc EXCEPT ![c] = "off"]
  /\ fed' = fed \ {c} /\ reset' = reset \ {c}
  /\ UNCHANGED <<hostVars, noVideo, geom, fifo, thr, frame, gap, zc, queue, held, app, inflight,
                 pic, mark, res, cardVars, ahead, streaming, engine>>

-----------------------------------------------------------------------------
(* System sleep: hws_suspend() and hws_resume().  Applications and the      *)
(* status thread are frozen; the IRQ thread drains before the buffers go    *)
(* back (synchronize_irq).                                                  *)

Suspend ==
  /\ "sleep" \in Env /\ power = "on" /\ status = "idle" /\ engine = Null /\ ~thr.busy
  /\ \A c \in Ctxs : pc[c] \in {"off", "on"}
  /\ power' = IF started THEN "sleep_capturing" ELSE "sleep"
  /\ started' = FALSE /\ irq' = "none" /\ fifo' = <<>>
  /\ TakeBackZc(TRUE, pic)
  /\ UNCHANGED <<lost, status, noVideo, geom, card, seen, thr, frame, gap, queue, held, seqVars, ctxVars>>

Resume ==
  /\ power # "on"
  /\ power' = "on" /\ lost' = FALSE
  /\ started' = (power = "sleep_capturing")
  /\ card' = [pair |-> Top, dst |-> Null, toggle |-> Bottom]
  /\ seen' = IF started' THEN ToggleAtStart ELSE seen
  /\ pic' = IF started' THEN StartFrame ELSE pic
  /\ gap' = Paused
  /\ UNCHANGED <<status, noVideo, geom, irq, fifo, thr, frame, zc, queue, held, app, inflight, mark, res,
                 seqVars, ctxVars>>

-----------------------------------------------------------------------------
Init ==
  /\ started = FALSE /\ lost = FALSE /\ power = "on" /\ status = "idle" /\ noVideo = FALSE /\ geom = OutGeom
  /\ card = [pair |-> Top, dst |-> Null, toggle |-> Bottom]
  /\ irq = "none" /\ seen = Bottom /\ fifo = <<>> /\ thr = Idle /\ frame = NoTop
  /\ gap = [last |-> None, prev |-> 0]
  /\ zc = [cur |-> Null, next |-> Null, prog |-> [p \in Pairs |-> Null], rel |-> {}, ctx |-> Null,
           stable |-> 0, in |-> [b \in Bufs |-> False2], away |-> [b \in Bufs |-> False2],
           need |-> [b \in Bufs |-> Zero2]]
  /\ queue = [c \in Ctxs |-> {}] /\ held = [c \in Ctxs |-> Null] /\ app = Bufs
  /\ streaming = {} /\ ahead = [c \in Ctxs |-> Fresh] /\ inflight = [c \in Ctxs |-> 0]
  /\ users = 0 /\ engine = Null /\ pc = [c \in Ctxs |-> "off"]
  /\ pic = [d \in Dests |-> Blank] /\ mark = [d \in Dests |-> [p \in Pairs |-> "clear"]]
  /\ res = [b \in Bufs |-> "ok"] /\ fed = {} /\ reset = {}

HalfEnd == TopEnd \/ BottomEnd
Thread == ThreadSkips \/ HalfBegin \/ HalfEnd
Status ==
  \/ StatusFindsLoss \/ StatusFindsCapture
  \/ PollSame \/ PollResize \/ PollNoVideo \/ PollBadSize \/ Reinit
StopSteps(c) == StopTakeBack(c) \/ StopWaited(c) \/ StopTimesOut(c) \/ StopTimeout(c) \/ StopForce(c)
                \/ StopEngine(c)

Next ==
  \/ CardHalfDone \/ CardLoses \/ IrqHandler \/ IrqAcknowledge
  \/ Thread \/ Status
  \/ \E b \in Bufs : QBuf(b)
  \/ \E c \in Ctxs : StreamOn(c) \/ JoinEngine(c) \/ StartEngine(c) \/ StreamOff(c) \/ StopSteps(c)
  \/ Suspend \/ Resume

\* The scheduler runs every runnable thread, a mutex is handed to its waiters
\* in turn (hence strong fairness for the steps that wait for cap_lock or
\* engine_lock), a timer expires.  Nothing is assumed of the card, of the
\* status thread or of the applications.
Fairness ==
  /\ WF_vars(IrqHandler \/ IrqAcknowledge) /\ WF_vars(Thread) /\ WF_vars(Resume)
  /\ \A c \in Ctxs : SF_vars(StopSteps(c))

Spec == Init /\ [][Next]_vars
FairSpec == Spec /\ Fairness

-----------------------------------------------------------------------------
(* Properties.                                                             *)

BufOrNull == Bufs \cup {Null}
CtxOrNull == Ctxs \cup {Null}
PcValues ==
  {"off", "starting", "on", "drained", "waiting", "timed_out", "quiesced", "waiting_again", "leaving"}

PicStates == [Dests -> [Pairs -> Contents]]
MarkStates == [Dests -> [Pairs -> Marks]]
Stables == 0 .. 2
ZcStates ==
  [cur : BufOrNull, next : BufOrNull, prog : [Pairs -> BufOrNull], rel : SUBSET Bufs,
   ctx : CtxOrNull, stable : Stables, in : [Bufs -> [Pairs -> BOOLEAN]],
   away : [Bufs -> [Pairs -> BOOLEAN]], need : [Bufs -> [Pairs -> 0 .. 1]]]
Events == [pair : Pairs, ts : Ages]
Copies == [busy : BOOLEAN, pair : Pairs, ts : Ages, zf : BufOrNull, src : Contents, hdcp : BOOLEAN]
Frames == [done : BOOLEAN, geom : Geoms, late : BOOLEAN, hdcp : BOOLEAN]

\* Every variable has its type.
TypeOK ==
  /\ started \in BOOLEAN /\ lost \in BOOLEAN /\ power \in Powers
  /\ status \in StatusValues /\ noVideo \in BOOLEAN
  /\ geom \in Geoms
  /\ card \in [pair : Pairs, dst : BufOrNull, toggle : Pairs]
  /\ irq \in {"none", "pending", "sampled"} /\ seen \in Pairs /\ fifo \in Seq(Events)
  /\ thr \in Copies /\ frame \in Frames
  /\ gap \in [last : Ages \cup {None}, prev : Int]
  /\ zc \in ZcStates
  /\ queue \in [Ctxs -> SUBSET Bufs] /\ held \in [Ctxs -> BufOrNull] /\ app \in SUBSET Bufs
  /\ streaming \in SUBSET Ctxs /\ ahead \in [Ctxs -> Fresh .. 4] /\ inflight \in [Ctxs -> Int]
  /\ users \in Int /\ engine \in CtxOrNull /\ pc \in [Ctxs -> PcValues]
  /\ pic \in PicStates /\ mark \in MarkStates
  /\ res \in [Bufs -> Results] /\ fed \in SUBSET Ctxs /\ reset \in SUBSET Ctxs

\* A buffer is in exactly one place: with the app, on its handle's queue, held
\* for a frame being copied, or in the zero-copy state once (hws_hold_buffers,
\* hws_zc_pick, hws_zc_retire and the four ways back).
OnePlace ==
  /\ \A c \in Ctxs : queue[c] \cap (app \cup HeldBufs \cup InZc(zc)) = {}
  /\ app \cap (HeldBufs \cup InZc(zc)) = {}
  /\ HeldBufs \cap InZc(zc) = {}
  /\ \A c \in Ctxs : /\ \A b \in queue[c] : Owner[b] = c
                     /\ held[c] # Null => Owner[held[c]] = c
  /\ zc.cur # Null => zc.cur # zc.next /\ zc.cur \notin zc.rel
  /\ zc.next \notin zc.rel
  /\ app \cup (UNION {queue[c] : c \in Ctxs}) \cup HeldBufs \cup InZc(zc) = Bufs

\* "inflight" counts exactly the buffers that are neither queued nor with the
\* app; stop_streaming waits for it to reach 0.
InflightExact == \A c \in Ctxs : inflight[c] = CountOf(HeldBufs \cup InZc(zc), c)

\* A register of the card never points at a buffer that went back to the app or
\* to a queue: zc_prog[] is the DMA buffers or a buffer still in flight.
RegistersInFlight == \A p \in Pairs : zc.prog[p] \in InZc(zc) \cup {Null}

\* "The card must never write a buffer after it is returned": the run in
\* progress goes to the DMA buffers or to a buffer still in flight.  With two
\* events waiting for the IRQ thread it does not hold.
CardNeverWritesReturned == started /\ ~lost => card.dst \in InZc(zc) \cup {Null}

\* "A buffer touched by a late write completes with an error": a pair that counts
\* as left in time (without which no zero-copy frame is good) is not the one a
\* run latched before the register write goes on to fill, however far the IRQ
\* thread is behind the card, if the gaps it measures are true.
LateWriteFails ==
  started /\ ~lost =>
    \A b \in Bufs, p \in Pairs : zc.away[b][p] => ~(card.dst = b /\ card.pair = p)

\* vb2 requires every buffer back before stop_streaming returns: none of a
\* handle that left is held or in flight.
StopReturnsAll ==
  \A c \in Ctxs : pc[c] \in {"leaving", "off"} =>
    /\ held[c] = Null
    /\ \A b \in InZc(zc) : Owner[b] # c

\* "Start hardware engine only once, on first streamer": with engine_lock free,
\* the engine runs if a handle streams, and only if one still counts as a user,
\* whatever starts and stops came before.
EngineFollowsUsers ==
  engine = Null /\ power = "on" =>
    /\ (\E c \in Ctxs : pc[c] = "on") => started
    /\ started => users > 0

\* A frame completed as good has both halves of the same input frame.
NoMixedFrame == \A b \in Bufs : res[b] # "mixed"

\* A half the card overwrote during its copy fails the frame, when the two
\* interrupts before it are one half-frame interval apart.
LateCopyFails == \A b \in Bufs : res[b] # "torn"

\* No consumer gets a frame number it already had since STREAMON.
NoSequenceRepeat == \A b \in Bufs : res[b] # "repeat"

\* A good zero-copy frame goes back at its frame end, never from zc_release
\* later: consumers get frames in order.
GoodFramesLeaveAtOnce == \A b \in zc.rel : res[b] = "error"

\* The DMA lengths change only with no zero-copy buffer in flight and no
\* register pointing at one (ChangeVideoSize).
ResizeAtRest ==
  [][geom' # geom => InZc(zc') = {} /\ \A p \in Pairs : zc'.prog[p] = Null]_vars

\* STREAMOFF ends, even if the card never completes another half.
StopEnds == \A c \in Ctxs : pc[c] = "drained" ~> pc[c] = "off"

-----------------------------------------------------------------------------
(* The promise to vb2 that all of this keeps.                              *)

Place ==
  [b \in Bufs |-> IF b \in app THEN "app" ELSE IF b \in queue[Owner[b]] THEN "queued" ELSE "flight"]
Phase ==
  [c \in Ctxs |-> IF pc[c] = "off" THEN "off"
                  ELSE IF pc[c] \in {"starting", "on"} THEN "on" ELSE "stopping"]

Own == INSTANCE BufferOwnership WITH place <- Place, phase <- Phase

\* Buffers move as BufferOwnership says: from the app to the queue by QBUF only,
\* into flight only while their handle streams, out of flight only to the app,
\* and stop_streaming returns with all of the handle's buffers with the app.
KeepsOwnership == Own!Spec

=============================================================================
