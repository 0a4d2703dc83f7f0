------------------------- MODULE VideoCapture_proofs -------------------------
(***************************************************************************)
(* Theorems about VideoCapture and their proofs.                           *)
(***************************************************************************)
EXTENDS VideoCapture, FiniteSetTheorems, SequenceTheorems, TLAPS

-----------------------------------------------------------------------------
(* The zero-copy bookkeeping keeps its type, and what it does to the        *)
(* registers and to the buffers in flight.                                  *)

\* hws_zc_program() sets one register and moves no buffer.
LEMMA ProgramFacts ==
  ASSUME NEW z \in ZcStates, NEW p \in Pairs, NEW b \in BufOrNull, NEW inTime \in BOOLEAN
  PROVE  /\ Program(z, p, b, inTime) \in ZcStates
         /\ Program(z, p, b, inTime).prog = [z.prog EXCEPT ![p] = b]
         /\ Program(z, p, b, inTime).cur = z.cur
         /\ Program(z, p, b, inTime).next = z.next
         /\ Program(z, p, b, inTime).rel = z.rel
<1>1. CASE b = Null /\ z.prog[p] = Null
  <2>1. Program(z, p, b, inTime) = z
    BY <1>1 DEF Program
  <2> QED  BY <1>1, <2>1 DEF ZcStates
<1>2. CASE ~(b = Null /\ z.prog[p] = Null)
  <2> DEFINE old == z.prog[p]
             away == [x \in Bufs |-> IF x = old THEN [z.away[x] EXCEPT ![p] = inTime] ELSE z.away[x]]
             need == [x \in Bufs |-> IF x = old THEN [z.need[x] EXCEPT ![p] = Await(inTime)] ELSE z.need[x]]
             in   == [x \in Bufs |-> IF x = b THEN [z.in[x] EXCEPT ![p] = inTime] ELSE z.in[x]]
  <2>1. Program(z, p, b, inTime)
          = [z EXCEPT !.prog[p] = b, !.away = away, !.need = need, !.in = in]
    BY <1>2 DEF Program
  <2>2. away \in [Bufs -> [Pairs -> BOOLEAN]] /\ in \in [Bufs -> [Pairs -> BOOLEAN]]
    BY DEF ZcStates
  <2>3. need \in [Bufs -> [Pairs -> 0 .. 1]]
    BY DEF ZcStates, Await
  <2>4. [z.prog EXCEPT ![p] = b] \in [Pairs -> BufOrNull]
    BY DEF ZcStates
  <2> HIDE DEF away, need, in
  <2> QED  BY <2>1, <2>2, <2>3, <2>4 DEF ZcStates
<1> QED  BY <1>1, <1>2

\* The registers point at buffers in flight (RegistersInFlight, of any record).
RegistersOf(z) == \A p \in Pairs : z.prog[p] \in InZc(z) \cup {Null}

\* hws_zc_retire() loses no buffer in flight.
LEMMA RetireFacts ==
  ASSUME NEW z \in ZcStates, NEW b \in BufOrNull
  PROVE  /\ Retire(z, b) \in ZcStates
         /\ InZc(z) \subseteq InZc(Retire(z, b))
         /\ b # Null => b \in Retire(z, b).rel
         /\ Retire(z, b).prog = z.prog
         /\ Retire(z, b).cur = z.cur
         /\ Retire(z, b).next = z.next
BY DEF Retire, ZcStates, InZc, BufOrNull

\* Counting a half-done event (zc_ev) moves nothing.
LEMMA CountEventFacts ==
  ASSUME NEW z \in ZcStates, NEW p \in Pairs
  PROVE  /\ CountEvent(z, p) \in ZcStates
         /\ InZc(CountEvent(z, p)) = InZc(z)
         /\ CountEvent(z, p).prog = z.prog
         /\ CountEvent(z, p).cur = z.cur
         /\ CountEvent(z, p).next = z.next
<1> DEFINE need == [b \in Bufs |-> [z.need[b] EXCEPT ![p] = 0]]
<1>1. need \in [Bufs -> [Pairs -> 0 .. 1]]
  BY DEF ZcStates
<1>2. CountEvent(z, p) = [z EXCEPT !.need = need]
  BY DEF CountEvent
<1> HIDE DEF need
<1> QED  BY <1>1, <1>2 DEF ZcStates, InZc

\* A buffer a register points at stays: hws_zc_release() tests zc_prog[].
LEMMA ReleaseFacts ==
  ASSUME NEW z \in ZcStates
  PROVE  /\ Release(z) \in ZcStates
         /\ Releasable(z) \subseteq z.rel
         /\ RegistersOf(z) => RegistersOf(Release(z))
<1> DEFINE out == Releasable(z)
           in == [b \in Bufs |-> IF b \in out THEN False2 ELSE z.in[b]]
           away == [b \in Bufs |-> IF b \in out THEN False2 ELSE z.away[b]]
<1>1. Release(z) = [z EXCEPT !.rel = z.rel \ out, !.in = in, !.away = away]
  BY DEF Release
<1>2. in \in [Bufs -> [Pairs -> BOOLEAN]] /\ away \in [Bufs -> [Pairs -> BOOLEAN]]
  BY DEF ZcStates, False2
<1>3. \A p \in Pairs : z.prog[p] \notin out
  BY DEF Releasable
<1>4. out \subseteq z.rel
  BY DEF Releasable
<1> HIDE DEF out, in, away
<1>5. Release(z) \in ZcStates
  BY <1>1, <1>2, <1>4 DEF ZcStates
<1>6. RegistersOf(z) => RegistersOf(Release(z))
  BY <1>1, <1>3 DEF RegistersOf, InZc, ZcStates
<1> QED  BY <1>4, <1>5, <1>6 DEF out

\* hws_zc_stop() leaves no register on a buffer.
LEMMA ZcStopFacts ==
  ASSUME NEW z \in ZcStates, NEW stopped \in BOOLEAN
  PROVE  /\ ZcStop(z, stopped) \in ZcStates
         /\ ZcStopBack(z, stopped) \subseteq Bufs
         /\ RegistersOf(ZcStop(z, stopped))
<1> DEFINE top == Program(z, Top, Null, FALSE)
           off == Program(top, Bottom, Null, FALSE)
           ret == Retire(Retire(off, z.cur), z.next)
           empty == [ret EXCEPT !.cur = Null, !.next = Null, !.ctx = Null, !.stable = 0]
           rest == NoWaits(empty, stopped)
<1>1. Top \in Pairs /\ Bottom \in Pairs /\ Null \in BufOrNull /\ FALSE \in BOOLEAN
      /\ Null \in CtxOrNull
  BY DEF Pairs, BufOrNull, CtxOrNull
<1>2. top \in ZcStates /\ top.prog = [z.prog EXCEPT ![Top] = Null]
  BY <1>1, ProgramFacts
<1>3. off \in ZcStates /\ off.prog = [top.prog EXCEPT ![Bottom] = Null]
  <2>1. top \in ZcStates
    BY <1>2
  <2> HIDE DEF top
  <2>2. Program(top, Bottom, Null, FALSE) \in ZcStates
    BY <1>1, <2>1, ProgramFacts
  <2>3. Program(top, Bottom, Null, FALSE).prog = [top.prog EXCEPT ![Bottom] = Null]
    BY <1>1, <2>1, ProgramFacts
  <2> QED  BY <2>2, <2>3
<1>4. \A p \in Pairs : off.prog[p] = Null
  <2> HIDE DEF top, off
  <2> QED  BY <1>2, <1>3 DEF Pairs, Top, Bottom, ZcStates
<1>5. z.cur \in BufOrNull /\ z.next \in BufOrNull
  BY DEF ZcStates
<1>6. ret \in ZcStates /\ ret.prog = off.prog
  BY <1>3, <1>5, RetireFacts
<1>7. empty \in ZcStates /\ empty.prog = off.prog
  <2> HIDE DEF ret, off
  <2>1. empty.prog = ret.prog /\ empty.cur = Null /\ empty.next = Null /\ empty.ctx = Null
        /\ empty.stable = 0
    BY <1>6 DEF ZcStates
  <2>2. 0 \in Stables
    BY DEF Stables
  <2>3. empty \in ZcStates
    BY <1>1, <1>6, <2>2 DEF ZcStates
  <2> QED  BY <1>6, <2>1, <2>3
<1>8. rest \in ZcStates /\ rest.prog = off.prog
  <2> HIDE DEF empty, off
  <2> DEFINE need == IF stopped THEN [b \in Bufs |-> IF b \in empty.rel THEN Zero2 ELSE empty.need[b]]
                     ELSE empty.need
  <2>1. need \in [Bufs -> [Pairs -> 0 .. 1]]
    BY <1>7 DEF ZcStates, Zero2
  <2>2. rest = [empty EXCEPT !.need = need]
    BY DEF NoWaits
  <2> HIDE DEF need
  <2> QED  BY <1>7, <2>1, <2>2 DEF ZcStates
<1>9. RegistersOf(rest)
  <2> HIDE DEF rest, off
  <2> QED  BY <1>4, <1>8 DEF RegistersOf
<1>10. Unhook(z, stopped) = rest
  BY DEF Unhook
<1> HIDE DEF rest
<1> QED
  <2>1. rest.rel \subseteq Bufs
    BY <1>8 DEF ZcStates
  <2> QED  BY <1>8, <1>9, <1>10, <2>1, ReleaseFacts DEF ZcStop, ZcStopBack

\* hws_zc_frame_end() with hws_zc_release().
LEMMA FrameEndFacts ==
  ASSUME NEW z \in ZcStates
  PROVE  /\ Release(Advance(z)) \in ZcStates
         /\ Releasable(Advance(z)) \subseteq Bufs
         /\ RegistersOf(z) => RegistersOf(Release(Advance(z)))
<1> DEFINE ret == Retire(z, z.cur)
<1>1. z.cur \in BufOrNull
  BY DEF ZcStates
<1>2. ret \in ZcStates /\ ret.prog = z.prog /\ ret.next = z.next
      /\ (z.cur # Null => z.cur \in ret.rel) /\ z.rel \subseteq ret.rel
  BY <1>1, RetireFacts DEF Retire, ZcStates
<1>3. Advance(z) = [ret EXCEPT !.cur = z.next, !.next = Null]
  BY DEF Advance
<1> HIDE DEF ret
<1>4. Advance(z) \in ZcStates
  BY <1>2, <1>3 DEF ZcStates, BufOrNull
<1>5. RegistersOf(z) => RegistersOf(Advance(z))
  BY <1>2, <1>3 DEF RegistersOf, InZc, ZcStates
<1>6. Releasable(Advance(z)) \subseteq Bufs
  BY <1>4, ReleaseFacts DEF ZcStates
<1> QED  BY <1>4, <1>5, <1>6, ReleaseFacts

\* A half-done event in hws_video_half(): what the registers point at next.
LEMMA HalfDoneFacts ==
  ASSUME NEW z \in ZcStates, NEW p \in Pairs, NEW b \in BufOrNull, NEW inTime \in BOOLEAN,
         p # Top => b = z.next
  PROVE  LET done == Program(NextHalf(z, p, b), p, b, inTime)
         IN done \in ZcStates /\ (RegistersOf(z) => RegistersOf(done))
<1> DEFINE counted == CountEvent(z, p)
           ret == Retire(counted, z.next)
           c == IF b = Null THEN ret.ctx ELSE Owner[b]
           moved == NextHalf(z, p, b)
           done == Program(moved, p, b, inTime)
<1>1. counted \in ZcStates /\ counted.prog = z.prog /\ InZc(counted) = InZc(z)
      /\ counted.next = z.next /\ counted.cur = z.cur
  BY CountEventFacts
<1>2. z.next \in BufOrNull
  BY DEF ZcStates
<1>3. ret \in ZcStates /\ ret.prog = z.prog /\ ret.next = z.next
      /\ InZc(counted) \subseteq InZc(ret)
      /\ (z.next # Null => z.next \in ret.rel)
  BY <1>1, <1>2, RetireFacts
<1>4. moved \in ZcStates /\ moved.prog = z.prog /\ moved.next = b
      /\ (RegistersOf(z) => \A q \in Pairs : z.prog[q] \in InZc(moved) \cup {Null})
  <2>1. CASE p = Bottom
    BY <1>1, <2>1 DEF NextHalf, RegistersOf, Top, Bottom
  <2>2. CASE p # Bottom
    <3>0. c \in CtxOrNull
      BY <1>3, CaptureAssumption DEF ZcStates, BufOrNull, CtxOrNull
    <3>1. moved = [ret EXCEPT !.next = b, !.ctx = c]
      <4>1. moved = [ret EXCEPT !.next = b, !.ctx = IF b = Null THEN @ ELSE Owner[b]]
        BY <2>2 DEF NextHalf
      <4> HIDE DEF ret
      <4> QED  BY <1>3, <4>1 DEF ZcStates
    <3> HIDE DEF counted, c
    <3> HIDE DEF ret, moved
    <3>2. InZc(ret) \subseteq InZc(moved)
      BY <1>3, <3>1 DEF InZc, ZcStates
    <3>3. RegistersOf(z) => \A q \in Pairs : z.prog[q] \in InZc(counted) \cup {Null}
      BY <1>1 DEF RegistersOf
    <3>4. moved \in ZcStates /\ moved.prog = z.prog /\ moved.next = b
      BY <1>3, <3>0, <3>1 DEF ZcStates
    <3> QED  BY <1>3, <3>2, <3>3, <3>4
  <2> QED  BY <2>1, <2>2
<1> HIDE DEF moved
<1>5. done \in ZcStates /\ done.prog = [moved.prog EXCEPT ![p] = b]
      /\ done.cur = moved.cur /\ done.next = moved.next /\ done.rel = moved.rel
  BY <1>4, ProgramFacts
<1> HIDE DEF done
<1>6. RegistersOf(z) => RegistersOf(done)
  <2>1. InZc(done) = InZc(moved)
    BY <1>5 DEF InZc
  <2>2. b \in InZc(moved) \cup {Null}
    BY <1>4 DEF InZc
  <2>3. \A q \in Pairs : done.prog[q] = IF q = p THEN b ELSE z.prog[q]
    BY <1>4, <1>5 DEF ZcStates
  <2> QED  BY <1>4, <2>1, <2>2, <2>3 DEF RegistersOf
<1> QED  BY <1>5, <1>6 DEF done, moved

-----------------------------------------------------------------------------
(* Types of what the actions assign.                                       *)

\* The constants the definitions use are of the expected types.
LEMMA ValueTypes ==
  /\ Top \in Pairs /\ Bottom \in Pairs /\ \A p \in Pairs : Other(p) \in Pairs
  /\ 0 \in Ages /\ MaxAge \in Ages /\ Ages \subseteq Contents /\ Ages \subseteq Int
  /\ Torn \in Contents /\ Unmeasured \in Contents
  /\ Null \in Dests /\ Bufs \subseteq Dests /\ BufOrNull = Dests /\ Null \in CtxOrNull
  /\ FALSE \in BOOLEAN /\ TRUE \in BOOLEAN
BY CaptureAssumption
DEF Pairs, Top, Bottom, Other, Ages, Contents, Torn, Unmeasured, Dests, BufOrNull, CtxOrNull

\* An age that grows stays within the cap MaxAge.
LEMMA OlderType ==
  /\ \A x \in Ages : Older(x) \in Ages
  /\ \A x \in Contents : Older(x) \in Contents
BY CaptureAssumption DEF Older, Ages, Contents, Min2, Torn, Unmeasured

\* Forgetting the picture of a returned buffer keeps the type of "pic".
LEMMA ForgetType ==
  ASSUME NEW pics \in PicStates, NEW S
  PROVE  Forget(pics, S) \in PicStates
BY ValueTypes DEF Forget, Blank, PicStates

\* Clearing the marks of a returned buffer keeps the type of "mark".
LEMMA UnmarkType ==
  ASSUME NEW marks \in MarkStates, NEW S
  PROVE  Unmark(marks, S) \in MarkStates
BY DEF Unmark, MarkStates, Marks

\* A run of the card keeps the type of "pic".
LEMMA StartRunType ==
  ASSUME NEW pics \in PicStates, NEW d \in Dests, NEW p \in Pairs
  PROVE  StartRun(pics, d, p) \in PicStates
BY ValueTypes DEF StartRun, PicStates

\* The end of an input frame keeps the type of "pic".
LEMMA AgeFramesType ==
  ASSUME NEW pics \in PicStates
  PROVE  AgeFrames(pics) \in PicStates
BY OlderType DEF AgeFrames, PicStates

\* The start of an engine keeps the type of "pic".
LEMMA StartFrameType ==
  ASSUME TypeOK
  PROVE  StartFrame \in PicStates
<1>1. pic \in PicStates /\ AgeFrames(pic) \in PicStates
  BY AgeFramesType DEF TypeOK
<1> QED  BY <1>1, ValueTypes, StartRunType DEF StartFrame

\* Failing frames keeps the type of "res".
LEMMA FailedType ==
  ASSUME res \in [Bufs -> Results], NEW S, NEW back
  PROVE  Failed(S, back) \in [Bufs -> Results]
BY DEF Failed, Results

\* The verdict on a good frame is a result.
LEMMA VerdictType ==
  ASSUME NEW pics, NEW b, NEW black
  PROVE  Verdict(pics, b, black) \in Results
BY DEF Verdict, Results

\* The buffers of a handle can be counted.
LEMMA CountOfType ==
  ASSUME NEW S \in SUBSET Bufs, NEW c
  PROVE  CountOf(S, c) \in Nat
<1>1. {b \in S : Owner[b] = c} \subseteq Bufs
  OBVIOUS
<1> QED  BY <1>1, FiniteAssumption, FS_Subset, FS_CardinalityType DEF CountOf

\* Completing buffers keeps the types of "app" and "inflight".
LEMMA CompleteType ==
  ASSUME app \in SUBSET Bufs, inflight \in [Ctxs -> Int],
         NEW back \in SUBSET Bufs, NEW taken \in SUBSET Bufs, Complete(back, taken)
  PROVE  app' \in SUBSET Bufs /\ inflight' \in [Ctxs -> Int]
<1>1. \A c \in Ctxs : CountOf(taken, c) \in Nat /\ CountOf(back, c) \in Nat
  BY CountOfType
<1> QED  BY <1>1 DEF Complete

\* Moving the frame number on keeps the type of next_seq - m_FrameSeq.
LEMMA AheadTypes ==
  ASSUME NEW ahd \in [Ctxs -> Fresh .. 4]
  PROVE  /\ NextSeq(ahd) \in [Ctxs -> Fresh .. 4]
         /\ \A t : AheadAfter(t, ahd) \in [Ctxs -> Fresh .. 4]
BY CaptureAssumption DEF NextSeq, AheadAfter, Fresh

\* Numbering a frame keeps the types of the sequence variables.
LEMMA NumberType ==
  ASSUME fed \in SUBSET Ctxs, reset \in SUBSET Ctxs,
         NEW moved, NEW ahd \in [Ctxs -> Fresh .. 4], NEW got \in SUBSET Ctxs,
         Number(moved, ahd, got)
  PROVE  ahead' \in [Ctxs -> Fresh .. 4] /\ fed' \in SUBSET Ctxs /\ reset' \in SUBSET Ctxs
BY AheadTypes DEF Number

\* hws_hold_buffers() takes queued buffers of its consumers.
LEMMA HoldTypes ==
  ASSUME TypeOK, NEW q \in [Ctxs -> SUBSET Bufs], NEW skip, NEW ahd,
         NEW t \in HoldChoices(q, skip, ahd)
  PROVE  /\ DOMAIN t \subseteq Ctxs
         /\ \A c \in DOMAIN t : t[c] \in q[c]
         /\ Image(t) \in SUBSET Bufs
         /\ HeldAfter(t) \in [Ctxs -> BufOrNull]
<1>1. DOMAIN t \subseteq Ctxs
  BY DEF HoldChoices, Takers, TypeOK
<1>2. \A c \in DOMAIN t : t[c] \in q[c]
  BY DEF HoldChoices
<1>3. \A c \in DOMAIN t : t[c] \in Bufs
  BY <1>1, <1>2
<1>4. Image(t) \in SUBSET Bufs
  BY <1>3 DEF Image
<1>5. HeldAfter(t) \in [Ctxs -> BufOrNull]
  BY <1>3 DEF HeldAfter, TypeOK, BufOrNull
<1> QED  BY <1>1, <1>2, <1>4, <1>5

\* Taking buffers from the queues keeps their type.
LEMMA QueueWithoutType ==
  ASSUME NEW q \in [Ctxs -> SUBSET Bufs], NEW S
  PROVE  QueueWithout(q, S) \in [Ctxs -> SUBSET Bufs]
BY DEF QueueWithout

\* Held buffers are buffers.
LEMMA HeldBufsType ==
  ASSUME TypeOK
  PROVE  HeldBufs \in SUBSET Bufs
BY DEF TypeOK, HeldBufs, BufOrNull

\* hws_zc_pick() takes a buffer of some queue, or none.
LEMMA PicksType ==
  ASSUME TypeOK, NEW h
  PROVE  Picks(h) \subseteq BufOrNull
<1>1. \A c \in ZcFound : c \in Ctxs
  BY DEF ZcFound, ZcEligible, TypeOK
<1> QED  BY <1>1 DEF Picks, TypeOK, BufOrNull

-----------------------------------------------------------------------------
(* Every action keeps the types.                                           *)

\* CardLoses keeps every type.
LEMMA CardLosesType ==
  ASSUME TypeOK, CardLoses
  PROVE  TypeOK'
BY ValueTypes DEF TypeOK, CardLoses, hostVars, cardVars, seqVars, ctxVars

\* IrqHandler keeps every type.
LEMMA IrqHandlerType ==
  ASSUME TypeOK, IrqHandler
  PROVE  TypeOK'
<1>1. fifo' \in Seq(Events)
  <2>1. fifo \in Seq(Events) /\ [pair |-> card.toggle, ts |-> 0] \in Events
    BY ValueTypes DEF TypeOK, Events
  <2> QED  BY <2>1 DEF IrqHandler
<1> QED  BY <1>1 DEF TypeOK, IrqHandler, hostVars, seqVars, ctxVars

\* IrqAcknowledge keeps every type.
LEMMA IrqAcknowledgeType ==
  ASSUME TypeOK, IrqAcknowledge
  PROVE  TypeOK'
BY ValueTypes DEF TypeOK, IrqAcknowledge, hostVars, cardVars, seqVars, ctxVars

\* ThreadSkips keeps every type.
LEMMA ThreadSkipsType ==
  ASSUME TypeOK, ThreadSkips
  PROVE  TypeOK'
BY ValueTypes DEF TypeOK, ThreadSkips, hostVars, cardVars, seqVars, ctxVars, Events

\* StatusFindsLoss keeps every type.
LEMMA StatusFindsLossType ==
  ASSUME TypeOK, StatusFindsLoss
  PROVE  TypeOK'
BY ValueTypes DEF TypeOK, StatusFindsLoss, hostVars, cardVars, seqVars, ctxVars, StatusValues

\* StatusFindsCapture keeps every type.
LEMMA StatusFindsCaptureType ==
  ASSUME TypeOK, StatusFindsCapture
  PROVE  TypeOK'
BY ValueTypes DEF TypeOK, StatusFindsCapture, hostVars, cardVars, seqVars, ctxVars, StatusValues

\* PollSame keeps every type.
LEMMA PollSameType ==
  ASSUME TypeOK, PollSame
  PROVE  TypeOK'
BY ValueTypes DEF TypeOK, PollSame, hostVars, cardVars, seqVars, ctxVars, StatusTurn, StatusValues

\* QBuf keeps every type.
LEMMA QBufType ==
  ASSUME TypeOK, NEW b \in Bufs, QBuf(b)
  PROVE  TypeOK'
BY ValueTypes DEF TypeOK, QBuf, hostVars, cardVars, seqVars, ctxVars, Results

\* StreamOn keeps every type.
LEMMA StreamOnType ==
  ASSUME TypeOK, NEW c \in Ctxs, StreamOn(c)
  PROVE  TypeOK'
BY ValueTypes DEF TypeOK, StreamOn, hostVars, cardVars, seqVars, ctxVars, Fresh, PcValues

\* JoinEngine keeps every type.
LEMMA JoinEngineType ==
  ASSUME TypeOK, NEW c \in Ctxs, JoinEngine(c)
  PROVE  TypeOK'
BY ValueTypes DEF TypeOK, JoinEngine, hostVars, cardVars, seqVars, ctxVars, PcValues

\* StreamOff keeps every type.
LEMMA StreamOffType ==
  ASSUME TypeOK, NEW c \in Ctxs, StreamOff(c)
  PROVE  TypeOK'
BY ValueTypes, FailedType DEF TypeOK, StreamOff, hostVars, cardVars, seqVars, ctxVars, PcValues

\* StopWaited keeps every type.
LEMMA StopWaitedType ==
  ASSUME TypeOK, NEW c \in Ctxs, StopWaited(c)
  PROVE  TypeOK'
BY ValueTypes DEF TypeOK, StopWaited, hostVars, cardVars, seqVars, ctxVars, PcValues

\* StopTimesOut keeps every type.
LEMMA StopTimesOutType ==
  ASSUME TypeOK, NEW c \in Ctxs, StopTimesOut(c)
  PROVE  TypeOK'
BY ValueTypes DEF TypeOK, StopTimesOut, hostVars, cardVars, seqVars, ctxVars, PcValues

\* StopTimeout keeps every type.
LEMMA StopTimeoutType ==
  ASSUME TypeOK, NEW c \in Ctxs, StopTimeout(c)
  PROVE  TypeOK'
BY ValueTypes DEF TypeOK, StopTimeout, hostVars, cardVars, seqVars, ctxVars, PcValues, CtxOrNull

\* StopEngine keeps every type.
LEMMA StopEngineType ==
  ASSUME TypeOK, NEW c \in Ctxs, StopEngine(c)
  PROVE  TypeOK'
BY ValueTypes DEF TypeOK, StopEngine, hostVars, cardVars, seqVars, ctxVars, PcValues

\* hws_zc_stop() in any of its callers.
LEMMA TakeBackZcType ==
  ASSUME TypeOK, NEW stopped \in BOOLEAN, NEW pics \in PicStates, TakeBackZc(stopped, pics)
  PROVE  /\ zc' \in ZcStates /\ RegistersOf(zc')
         /\ res' \in [Bufs -> Results]
         /\ app' \in SUBSET Bufs /\ inflight' \in [Ctxs -> Int]
         /\ pic' \in PicStates /\ mark' \in MarkStates
<1>1. zc \in ZcStates /\ mark \in MarkStates /\ res \in [Bufs -> Results]
      /\ app \in SUBSET Bufs /\ inflight \in [Ctxs -> Int]
  BY DEF TypeOK
<1>2. ZcStopBack(zc, stopped) \in SUBSET Bufs /\ zc' \in ZcStates /\ RegistersOf(zc')
  BY <1>1, ZcStopFacts DEF TakeBackZc
<1>3. app' \in SUBSET Bufs /\ inflight' \in [Ctxs -> Int]
  <2>1. Complete(ZcStopBack(zc, stopped), {}) /\ {} \in SUBSET Bufs
    BY DEF TakeBackZc
  <2> QED  BY <1>1, <1>2, <2>1, CompleteType
<1>4. res' \in [Bufs -> Results] /\ pic' \in PicStates /\ mark' \in MarkStates
  BY <1>1, FailedType, ForgetType, UnmarkType DEF TakeBackZc
<1> QED  BY <1>2, <1>3, <1>4

\* What a start of the card assigns.
LEMMA StartCardType ==
  ASSUME TypeOK, NEW z \in ZcStates
  PROVE  /\ StartCard(z) \in [pair : Pairs, dst : BufOrNull, toggle : Pairs]
         /\ Paused \in [last : Ages \cup {None}, prev : Int]
         /\ RestartPics \in PicStates
<1>1. z.prog[Top] \in BufOrNull
  BY ValueTypes DEF ZcStates
<1>2. StartCard(z) \in [pair : Pairs, dst : BufOrNull, toggle : Pairs]
  BY <1>1, ValueTypes DEF TypeOK, StartCard
<1>3. Paused \in [last : Ages \cup {None}, prev : Int]
  BY ValueTypes DEF TypeOK, Paused
<1>4. RestartPics \in PicStates
  BY StartFrameType DEF TypeOK, RestartPics
<1> QED  BY <1>2, <1>3, <1>4

\* PollResize keeps every type.
LEMMA PollResizeType ==
  ASSUME TypeOK, PollResize
  PROVE  TypeOK'
<1>1. RestartPics \in PicStates /\ started \in BOOLEAN
  BY StartCardType DEF TypeOK
<1>2. TakeBackZc(started, RestartPics)
  BY DEF PollResize
<1>3. zc' \in ZcStates /\ res' \in [Bufs -> Results] /\ app' \in SUBSET Bufs
      /\ inflight' \in [Ctxs -> Int] /\ pic' \in PicStates /\ mark' \in MarkStates
  BY <1>1, <1>2, TakeBackZcType
<1>4. StartCard(zc') \in [pair : Pairs, dst : BufOrNull, toggle : Pairs]
      /\ Paused \in [last : Ages \cup {None}, prev : Int]
  BY <1>3, StartCardType
<1> QED  BY <1>3, <1>4, ValueTypes
         DEF TypeOK, PollResize, StatusTurn, StatusValues, Restart, ToggleAtStart, cardVars, seqVars, ctxVars

\* Reinit keeps every type.
LEMMA ReinitType ==
  ASSUME TypeOK, Reinit
  PROVE  TypeOK'
<1>1. RestartPics \in PicStates
  BY StartCardType DEF TypeOK
<1>2. TakeBackZc(FALSE, RestartPics)
  BY DEF Reinit
<1>3. zc' \in ZcStates /\ res' \in [Bufs -> Results] /\ app' \in SUBSET Bufs
      /\ inflight' \in [Ctxs -> Int] /\ pic' \in PicStates /\ mark' \in MarkStates
  BY <1>1, <1>2, TakeBackZcType
<1>4. StartCard(zc') \in [pair : Pairs, dst : BufOrNull, toggle : Pairs]
      /\ Paused \in [last : Ages \cup {None}, prev : Int]
  BY <1>3, StartCardType
<1> QED  BY <1>3, <1>4, ValueTypes
         DEF TypeOK, Reinit, StatusTurn, StatusValues, seqVars, ctxVars

\* hws_deliver_no_video() with no zero-copy buffer or with those hws_zc_stop() took back.
LEMMA DeliverNoVideoType ==
  ASSUME TypeOK, NEW back \in SUBSET Bufs, NEW pics \in PicStates, DeliverNoVideo(back, pics)
  PROVE  /\ queue' \in [Ctxs -> SUBSET Bufs] /\ held' \in [Ctxs -> BufOrNull]
         /\ app' \in SUBSET Bufs /\ inflight' \in [Ctxs -> Int]
         /\ res' \in [Bufs -> Results]
         /\ ahead' \in [Ctxs -> Fresh .. 4] /\ fed' \in SUBSET Ctxs /\ reset' \in SUBSET Ctxs
         /\ pic' \in PicStates /\ mark' \in MarkStates
<1> PICK t \in HoldChoices(queue, Null, ahead) :
      LET small == Image(t) \cap SmallBufs
          blue == HeldBufs \cup (Image(t) \ SmallBufs)
      IN /\ queue' = QueueWithout(queue, Image(t))
         /\ held' = [c \in Ctxs |-> Null]
         /\ Complete(back \cup small \cup blue, Image(t))
         /\ res' = [b \in Bufs |-> IF b \in blue THEN Verdict(pic, b, TRUE)
                                   ELSE Failed({zc.cur, zc.next} \ {zc'.cur, zc'.next},
                                               small \cup back)[b]]
         /\ Number(TRUE, AheadAfter(t, ahead), {Owner[b] : b \in blue})
         /\ pic' = Forget(pics, back \cup small \cup blue)
         /\ mark' = Unmark(mark, back \cup small \cup blue)
  BY DEF DeliverNoVideo
<1> DEFINE small == Image(t) \cap SmallBufs
           blue == HeldBufs \cup (Image(t) \ SmallBufs)
           gone == {zc.cur, zc.next} \ {zc'.cur, zc'.next}
<1>1. queue \in [Ctxs -> SUBSET Bufs] /\ ahead \in [Ctxs -> Fresh .. 4] /\ mark \in MarkStates
      /\ app \in SUBSET Bufs /\ inflight \in [Ctxs -> Int] /\ res \in [Bufs -> Results]
      /\ fed \in SUBSET Ctxs /\ reset \in SUBSET Ctxs
  BY DEF TypeOK
<1>2. Image(t) \in SUBSET Bufs
  BY <1>1, HoldTypes
<1>3. small \in SUBSET Bufs /\ blue \in SUBSET Bufs /\ back \cup small \cup blue \in SUBSET Bufs
  BY <1>2, HeldBufsType
<1>4. {Owner[b] : b \in blue} \in SUBSET Ctxs
  BY <1>3, CaptureAssumption
<1>5. queue' \in [Ctxs -> SUBSET Bufs] /\ held' \in [Ctxs -> BufOrNull]
  BY <1>1, QueueWithoutType DEF BufOrNull
<1>6. app' \in SUBSET Bufs /\ inflight' \in [Ctxs -> Int]
  <2>1. Complete(back \cup small \cup blue, Image(t))
    OBVIOUS
  <2> HIDE DEF small, blue
  <2> QED  BY <1>1, <1>2, <1>3, <2>1, CompleteType
<1>7. res' \in [Bufs -> Results]
  <2>1. res' = [b \in Bufs |-> IF b \in blue THEN Verdict(pic, b, TRUE)
                               ELSE Failed(gone, small \cup back)[b]]
    OBVIOUS
  <2>2. Failed(gone, small \cup back) \in [Bufs -> Results]
    BY <1>1, FailedType
  <2>3. \A b \in Bufs : Verdict(pic, b, TRUE) \in Results
    BY VerdictType
  <2> HIDE DEF small, blue, gone
  <2> QED  BY <2>1, <2>2, <2>3
<1>8. ahead' \in [Ctxs -> Fresh .. 4] /\ fed' \in SUBSET Ctxs /\ reset' \in SUBSET Ctxs
  <2>1. Number(TRUE, AheadAfter(t, ahead), {Owner[b] : b \in blue})
    OBVIOUS
  <2>2. AheadAfter(t, ahead) \in [Ctxs -> Fresh .. 4]
    BY <1>1, AheadTypes
  <2> HIDE DEF blue
  <2> QED  BY <1>1, <1>4, <2>1, <2>2, NumberType
<1>9. pic' \in PicStates /\ mark' \in MarkStates
  BY <1>1, ForgetType, UnmarkType
<1> QED  BY <1>5, <1>6, <1>7, <1>8, <1>9

\* The reset of the frame under assembly has its type.
LEMMA NoTopType == NoTop \in Frames
BY CaptureAssumption DEF NoTop, Frames

\* PollNoVideo keeps every type.
LEMMA PollNoVideoType ==
  ASSUME TypeOK, PollNoVideo
  PROVE  TypeOK'
<1>1. CASE started
  <2>1. {} \in SUBSET Bufs /\ pic \in PicStates
    BY DEF TypeOK
  <2>2. DeliverNoVideo({}, pic)
    BY <1>1 DEF PollNoVideo
  <2>3. queue' \in [Ctxs -> SUBSET Bufs] /\ held' \in [Ctxs -> BufOrNull]
         /\ app' \in SUBSET Bufs /\ inflight' \in [Ctxs -> Int]
         /\ res' \in [Bufs -> Results]
         /\ ahead' \in [Ctxs -> Fresh .. 4] /\ fed' \in SUBSET Ctxs /\ reset' \in SUBSET Ctxs
         /\ pic' \in PicStates /\ mark' \in MarkStates
    BY <2>1, <2>2, DeliverNoVideoType
  <2> QED  BY <1>1, <2>3, NoTopType
           DEF TypeOK, PollNoVideo, StatusTurn, StatusValues, cardVars, ctxVars
<1>2. CASE ~started
  BY <1>2 DEF TypeOK, PollNoVideo, StatusTurn, StatusValues, cardVars, seqVars, ctxVars
<1> QED  BY <1>1, <1>2

\* PollBadSize keeps every type.
LEMMA PollBadSizeType ==
  ASSUME TypeOK, PollBadSize
  PROVE  TypeOK'
<1>1. zc \in ZcStates /\ pic \in PicStates
  BY DEF TypeOK
<1>2. CASE started
  <2>1. ZcStopBack(zc, TRUE) \in SUBSET Bufs /\ zc' \in ZcStates
    BY <1>1, <1>2, ZcStopFacts DEF PollBadSize
  <2>2. RestartPics \in PicStates
    BY <1>1, StartCardType
  <2>3. DeliverNoVideo(ZcStopBack(zc, TRUE), RestartPics)
    BY <1>2 DEF PollBadSize
  <2>4. queue' \in [Ctxs -> SUBSET Bufs] /\ held' \in [Ctxs -> BufOrNull]
         /\ app' \in SUBSET Bufs /\ inflight' \in [Ctxs -> Int]
         /\ res' \in [Bufs -> Results]
         /\ ahead' \in [Ctxs -> Fresh .. 4] /\ fed' \in SUBSET Ctxs /\ reset' \in SUBSET Ctxs
         /\ pic' \in PicStates /\ mark' \in MarkStates
    BY <2>1, <2>2, <2>3, DeliverNoVideoType
  <2>5. StartCard(zc') \in [pair : Pairs, dst : BufOrNull, toggle : Pairs]
        /\ Paused \in [last : Ages \cup {None}, prev : Int]
    BY <2>1, StartCardType
  <2> QED  BY <1>2, <2>1, <2>4, <2>5, NoTopType, ValueTypes
           DEF TypeOK, PollBadSize, StatusTurn, StatusValues, Restart, ToggleAtStart, ctxVars
<1>3. CASE ~started
  <2>1. TakeBackZc(FALSE, pic)
    BY <1>3 DEF PollBadSize
  <2>2. zc' \in ZcStates /\ res' \in [Bufs -> Results] /\ app' \in SUBSET Bufs
        /\ inflight' \in [Ctxs -> Int] /\ pic' \in PicStates /\ mark' \in MarkStates
    BY <1>1, <2>1, TakeBackZcType
  <2> QED  BY <1>3, <2>2
           DEF TypeOK, PollBadSize, StatusTurn, StatusValues, Restart, seqVars, ctxVars
<1> QED  BY <1>2, <1>3

\* StartEngine keeps every type.
LEMMA StartEngineType ==
  ASSUME TypeOK, NEW c \in Ctxs, StartEngine(c)
  PROVE  TypeOK'
<1>1. StartFrame \in PicStates
  BY StartFrameType
<1>2. TakeBackZc(TRUE, StartFrame)
  BY DEF StartEngine
<1>3. zc' \in ZcStates /\ res' \in [Bufs -> Results] /\ app' \in SUBSET Bufs
      /\ inflight' \in [Ctxs -> Int] /\ pic' \in PicStates /\ mark' \in MarkStates
  BY <1>1, <1>2, TakeBackZcType
<1>4. StartCard(zc') \in [pair : Pairs, dst : BufOrNull, toggle : Pairs]
  BY <1>3, StartCardType
<1>5. ahead' \in [Ctxs -> Fresh .. 4]
  BY DEF StartEngine
<1>6. gap' \in [last : Ages \cup {None}, prev : Int]
  BY DEF StartEngine
<1>7. noVideo' \in BOOLEAN /\ geom' \in Geoms
  BY DEF StartEngine, TypeOK
<1>8. reset' \in SUBSET Ctxs /\ fed' \in SUBSET Ctxs /\ pc' \in [Ctxs -> PcValues]
  BY DEF StartEngine, TypeOK, PcValues
<1>9. card' \in [pair : Pairs, dst : BufOrNull, toggle : Pairs] /\ frame' \in Frames
  BY <1>4, NoTopType DEF StartEngine
<1>10. started' \in BOOLEAN /\ lost' \in BOOLEAN /\ seen' \in Pairs /\ users' \in Int
  <2>1. started' = TRUE /\ lost' = FALSE /\ seen' = Bottom /\ users' = 1
    BY DEF StartEngine, ToggleAtStart
  <2>2. seen' \in Pairs
    BY <2>1, ValueTypes
  <2>3. started' \in BOOLEAN /\ lost' \in BOOLEAN
    BY <2>1
  <2>4. users' \in Int
    BY <2>1
  <2> QED  BY <2>2, <2>3, <2>4
<1>11. UNCHANGED <<power, status, irq, fifo, thr, queue, held, streaming, engine>>
  BY DEF StartEngine, hostVars
<1> QED  BY <1>3, <1>5, <1>6, <1>7, <1>8, <1>9, <1>10, <1>11 DEF TypeOK

\* StopTakeBack keeps every type.
LEMMA StopTakeBackType ==
  ASSUME TypeOK, NEW c \in Ctxs, StopTakeBack(c)
  PROVE  TypeOK'
<1> DEFINE mine == zc.ctx = c
           back == ({held[c]} \ {Null}) \cup (IF mine THEN ZcStopBack(zc, FALSE) ELSE {})
           gone == IF mine THEN {zc.cur, zc.next} ELSE {}
<1>1. zc \in ZcStates /\ held[c] \in BufOrNull /\ pic \in PicStates /\ mark \in MarkStates
      /\ res \in [Bufs -> Results] /\ app \in SUBSET Bufs /\ inflight \in [Ctxs -> Int]
  BY DEF TypeOK
<1>2. ZcStopBack(zc, FALSE) \in SUBSET Bufs /\ ZcStop(zc, FALSE) \in ZcStates
  BY <1>1, ZcStopFacts
<1>3. back \in SUBSET Bufs /\ {} \in SUBSET Bufs
  BY <1>1, <1>2 DEF BufOrNull
<1>4. Complete(back, {}) /\ res' = Failed(gone, back) /\ pic' = Forget(pic, back)
      /\ mark' = Unmark(mark, back) /\ zc' = (IF mine THEN ZcStop(zc, FALSE) ELSE zc)
  BY DEF StopTakeBack
<1> HIDE DEF back, gone, mine
<1>5. app' \in SUBSET Bufs /\ inflight' \in [Ctxs -> Int]
  BY <1>1, <1>3, <1>4, CompleteType
<1>6. res' \in [Bufs -> Results] /\ pic' \in PicStates /\ mark' \in MarkStates /\ zc' \in ZcStates
  BY <1>1, <1>2, <1>4, FailedType, ForgetType, UnmarkType
<1> QED  BY <1>5, <1>6
         DEF TypeOK, StopTakeBack, hostVars, cardVars, seqVars, PcValues, BufOrNull

\* StopForce keeps every type.
LEMMA StopForceType ==
  ASSUME TypeOK, NEW c \in Ctxs, StopForce(c)
  PROVE  TypeOK'
<1> DEFINE pics == IF OtherUsers THEN StartFrame ELSE pic
<1>1. pics \in PicStates
  BY StartFrameType DEF TypeOK
<1>2. TakeBackZc(TRUE, pics)
  BY DEF StopForce
<1> HIDE DEF pics
<1>3. zc' \in ZcStates /\ res' \in [Bufs -> Results] /\ app' \in SUBSET Bufs
      /\ inflight' \in [Ctxs -> Int] /\ pic' \in PicStates /\ mark' \in MarkStates
  BY <1>1, <1>2, TakeBackZcType
<1>4. StartCard(zc') \in [pair : Pairs, dst : BufOrNull, toggle : Pairs]
      /\ Paused \in [last : Ages \cup {None}, prev : Int]
  BY <1>3, StartCardType
<1>5. card' \in [pair : Pairs, dst : BufOrNull, toggle : Pairs]
      /\ gap' \in [last : Ages \cup {None}, prev : Int] /\ seen' \in Pairs /\ lost' \in BOOLEAN
  BY <1>4, ValueTypes DEF TypeOK, StopForce, ToggleAtStart
<1>6. started' \in BOOLEAN /\ engine' \in CtxOrNull /\ pc' \in [Ctxs -> PcValues]
  BY ValueTypes DEF TypeOK, StopForce, OtherUsers, PcValues
<1> QED  BY <1>3, <1>5, <1>6 DEF TypeOK, StopForce, hostVars, seqVars

\* Suspend keeps every type.
LEMMA SuspendType ==
  ASSUME TypeOK, Suspend
  PROVE  TypeOK'
<1>1. TakeBackZc(TRUE, pic) /\ pic \in PicStates
  BY DEF Suspend, TypeOK
<1>2. zc' \in ZcStates /\ res' \in [Bufs -> Results] /\ app' \in SUBSET Bufs
      /\ inflight' \in [Ctxs -> Int] /\ pic' \in PicStates /\ mark' \in MarkStates
  BY <1>1, TakeBackZcType
<1>3. fifo' \in Seq(Events)
  BY EmptySeq DEF Suspend
<1>4. power' \in Powers /\ started' \in BOOLEAN /\ irq' \in {"none", "pending", "sampled"}
  BY DEF Suspend, Powers
<1> QED  BY <1>2, <1>3, <1>4 DEF TypeOK, Suspend, seqVars, ctxVars

\* Resume keeps every type.
LEMMA ResumeType ==
  ASSUME TypeOK, Resume
  PROVE  TypeOK'
<1>1. zc.prog[Top] \in BufOrNull /\ zc \in ZcStates
  BY ValueTypes DEF TypeOK, ZcStates
<1>2. StartFrame \in PicStates
  BY StartFrameType
<1>3. Paused \in [last : Ages \cup {None}, prev : Int]
  BY <1>1, StartCardType
<1> QED  BY <1>1, <1>2, <1>3, ValueTypes DEF TypeOK, Resume, ToggleAtStart, Powers, seqVars, ctxVars

\* CardHalfDone keeps every type.
LEMMA CardHalfDoneType ==
  ASSUME TypeOK, CardHalfDone
  PROVE  TypeOK'
<1> DEFINE p == card.pair
           d == card.dst
           q == Other(p)
           done == [pic EXCEPT ![d][p] = 0]
           aged == IF p = Bottom THEN AgeFrames(done) ELSE done
<1>1. p \in Pairs /\ d \in Dests /\ q \in Pairs /\ zc.prog[q] \in Dests /\ pic \in PicStates
  BY ValueTypes DEF TypeOK, ZcStates
<1>2. pic' = StartRun(aged, zc.prog[q], q)
  BY DEF CardHalfDone
<1>3. card' = [pair |-> q, dst |-> zc.prog[q], toggle |-> p]
  BY DEF CardHalfDone
<1>4. mark' \in MarkStates
  BY <1>1 DEF CardHalfDone, TypeOK, MarkStates, Marks
<1>5. pic' \in PicStates
  <2>1. done \in PicStates
    BY <1>1, ValueTypes DEF PicStates
  <2> HIDE DEF done
  <2>2. aged \in PicStates
    BY <2>1, AgeFramesType
  <2> HIDE DEF aged, p, q
  <2> QED  BY <1>1, <1>2, <2>2, StartRunType
<1>6. card' \in [pair : Pairs, dst : BufOrNull, toggle : Pairs]
  BY <1>1, <1>3, ValueTypes
<1>7. thr' \in Copies
  BY OlderType DEF CardHalfDone, TypeOK, Copies
<1>8. fifo' \in Seq(Events)
  <2>1. fifo \in Seq(Events)
        /\ fifo' = [i \in DOMAIN fifo |-> [fifo[i] EXCEPT !.ts = Older(@)]]
    BY DEF TypeOK, CardHalfDone
  <2>2. \A e \in Events : [e EXCEPT !.ts = Older(@)] \in Events
    BY OlderType DEF Events
  <2>3. Len(fifo) \in Nat /\ DOMAIN fifo = 1 .. Len(fifo)
        /\ \A i \in DOMAIN fifo : fifo[i] \in Events
    BY <2>1
  <2>4. \A i \in DOMAIN fifo : [fifo[i] EXCEPT !.ts = Older(@)] \in Events
    BY <2>2, <2>3
  <2>5. fifo' \in [1 .. Len(fifo) -> Events]
    BY <2>1, <2>3, <2>4
  <2> QED  BY <2>3, <2>5, SeqDef
<1>9. gap' \in [last : Ages \cup {None}, prev : Int]
  BY OlderType DEF CardHalfDone, TypeOK
<1>10. irq' \in {"none", "pending", "sampled"}
  BY DEF CardHalfDone
<1> QED  BY <1>4, <1>5, <1>6, <1>7, <1>8, <1>9, <1>10
         DEF TypeOK, CardHalfDone, hostVars, seqVars, ctxVars

\* The idle IRQ thread has its type.
LEMMA IdleType == Idle \in Copies
BY ValueTypes DEF Idle, Copies, BufOrNull

\* Marking a half (HWS_HALF_MARK) keeps the type of "mark".
LEMMA SetMarkType ==
  ASSUME NEW m \in MarkStates, NEW zf, NEW p \in Pairs
  PROVE  SetMark(m, zf, p) \in MarkStates
BY ValueTypes DEF SetMark, MarkStates, Marks

\* What a copied half holds is a content.
LEMMA CopiedType ==
  ASSUME NEW p
  PROVE  Copied(p) \in Contents
BY ValueTypes DEF Copied

\* TopEnd keeps every type.
LEMMA TopEndType ==
  ASSUME TypeOK, TopEnd
  PROVE  TypeOK'
<1>1. pic' \in PicStates
  BY ValueTypes, CopiedType DEF TopEnd, TypeOK, PicStates
<1>2. mark' \in MarkStates
  BY ValueTypes, SetMarkType DEF TopEnd, TypeOK
<1>3. CopyLate \in BOOLEAN
  BY DEF CopyLate
<1>4. frame' \in Frames
  BY <1>3 DEF TopEnd, TypeOK, Frames
<1>5. thr' \in Copies
  BY IdleType DEF TopEnd
<1> QED  BY <1>1, <1>2, <1>4, <1>5 DEF TypeOK, TopEnd, hostVars, cardVars, seqVars, ctxVars

\* BottomEnd keeps every type.
LEMMA BottomEndType ==
  ASSUME TypeOK, BottomEnd
  PROVE  TypeOK' /\ (RegistersOf(zc) => RegistersOf(zc'))
<1> DEFINE black == frame.hdcp \/ thr.hdcp
           late == CopyLate /\ ~black /\ (Direct \/ HeldBufs # {})
           pics == [d \in Dests |-> IF d \in HeldBufs
                                    THEN [pic[d] EXCEPT ![Bottom] = Copied(Bottom)] ELSE pic[d]]
           good(r) == r /\ ~frame.late /\ ~late
           zfGood(r) == good(r) /\ thr.zf # Null /\ InTimeThroughout(zc, thr.zf)
           ended(r) == Advance([zc EXCEPT !.stable = IF good(r) THEN Min2(@ + 1, 2) ELSE @])
           back(r) == HeldBufs \cup Releasable(ended(r))
           got(r) == {b \in HeldBufs : good(r)} \cup (IF zfGood(r) THEN {thr.zf} ELSE {})
           twice(r) == zfGood(r) /\ held[Owner[thr.zf]] # Null
<1> PICK r \in BOOLEAN :
      /\ zc' = Release(ended(r))
      /\ res' = [b \in Bufs |->
                   IF b \in got(r)
                   THEN IF b = thr.zf /\ twice(r) THEN "repeat" ELSE Verdict(pics, b, black)
                   ELSE Failed({thr.zf}, back(r))[b]]
      /\ Complete(back(r), {})
      /\ Number(TRUE, ahead, {Owner[b] : b \in got(r)})
      /\ pic' = Forget(pics, back(r))
      /\ mark' = Unmark(SetMark(mark, thr.zf, Bottom), back(r))
  BY DEF BottomEnd, Rendered
<1>1. zc \in ZcStates /\ mark \in MarkStates /\ pic \in PicStates /\ res \in [Bufs -> Results]
      /\ app \in SUBSET Bufs /\ inflight \in [Ctxs -> Int] /\ thr \in Copies
      /\ fed \in SUBSET Ctxs /\ reset \in SUBSET Ctxs /\ ahead \in [Ctxs -> Fresh .. 4]
  BY DEF TypeOK
<1> DEFINE rated == [zc EXCEPT !.stable = IF good(r) THEN Min2(@ + 1, 2) ELSE @]
<1>2. rated \in ZcStates /\ (RegistersOf(zc) => RegistersOf(rated))
  <2> DEFINE stable == IF good(r) THEN Min2(zc.stable + 1, 2) ELSE zc.stable
  <2>1. stable \in Stables
    <3>1. zc.stable \in Stables
      BY <1>1 DEF ZcStates
    <3> QED  BY <3>1 DEF Stables, Min2
  <2>2. rated = [zc EXCEPT !.stable = stable]
    BY <1>1 DEF ZcStates
  <2> HIDE DEF stable, rated
  <2> QED  BY <1>1, <2>1, <2>2 DEF ZcStates, RegistersOf, InZc
<1>3. /\ zc' \in ZcStates /\ (RegistersOf(zc) => RegistersOf(zc'))
      /\ Releasable(ended(r)) \in SUBSET Bufs
  <2>1. zc' = Release(Advance(rated)) /\ ended(r) = Advance(rated)
    OBVIOUS
  <2> HIDE DEF rated, ended
  <2> QED  BY <1>2, <2>1, FrameEndFacts
<1>4. back(r) \in SUBSET Bufs /\ {} \in SUBSET Bufs
  <2> HIDE DEF ended
  <2> QED  BY <1>3, HeldBufsType
<1>5. {Owner[b] : b \in got(r)} \in SUBSET Ctxs
  <2>1. thr.zf \in Bufs \cup {Null}
    BY <1>1 DEF Copies, BufOrNull
  <2>2. got(r) \subseteq Bufs
    <3>1. zfGood(r) => thr.zf \in Bufs
      BY <2>1
    <3> HIDE DEF zfGood, good
    <3> QED  BY <3>1, HeldBufsType
  <2> HIDE DEF got
  <2> QED  BY <2>2, CaptureAssumption
<1>6. app' \in SUBSET Bufs /\ inflight' \in [Ctxs -> Int]
  <2>1. Complete(back(r), {})
    OBVIOUS
  <2> HIDE DEF back
  <2> QED  BY <1>1, <1>4, <2>1, CompleteType
<1>7. ahead' \in [Ctxs -> Fresh .. 4] /\ fed' \in SUBSET Ctxs /\ reset' \in SUBSET Ctxs
  <2>1. Number(TRUE, ahead, {Owner[b] : b \in got(r)})
    OBVIOUS
  <2> HIDE DEF got
  <2> QED  BY <1>1, <1>5, <2>1, NumberType
<1>8. res' \in [Bufs -> Results]
  <2>1. Failed({thr.zf}, back(r)) \in [Bufs -> Results] /\ "repeat" \in Results
    BY <1>1, FailedType DEF Results
  <2>2. \A b \in Bufs : Verdict(pics, b, black) \in Results
    BY VerdictType
  <2>3. res' = [b \in Bufs |->
                   IF b \in got(r)
                   THEN IF b = thr.zf /\ twice(r) THEN "repeat" ELSE Verdict(pics, b, black)
                   ELSE Failed({thr.zf}, back(r))[b]]
    OBVIOUS
  <2> HIDE DEF got, twice, pics, black, back
  <2> QED  BY <2>1, <2>2, <2>3
<1>9. pic' \in PicStates
  <2>1. pics \in PicStates
    BY <1>1, ValueTypes, CopiedType DEF PicStates
  <2>2. pic' = Forget(pics, back(r))
    OBVIOUS
  <2> HIDE DEF pics, back
  <2> QED  BY <2>1, <2>2, ForgetType
<1>10. mark' \in MarkStates
  <2>1. SetMark(mark, thr.zf, Bottom) \in MarkStates
    BY <1>1, ValueTypes, SetMarkType
  <2>2. mark' = Unmark(SetMark(mark, thr.zf, Bottom), back(r))
    OBVIOUS
  <2> HIDE DEF back
  <2> QED  BY <2>1, <2>2, UnmarkType
<1>11. /\ held' = [c \in Ctxs |-> Null] /\ frame' = NoTop /\ thr' = Idle
       /\ UNCHANGED <<started, hostVars, noVideo, geom, fifo, gap, queue, cardVars, ctxVars>>
  BY DEF BottomEnd
<1>12. held' \in [Ctxs -> BufOrNull] /\ frame' \in Frames /\ thr' \in Copies
  BY <1>11, NoTopType, IdleType DEF BufOrNull
<1> HIDE DEF ended, back, got, twice, good, zfGood, pics, late, black
<1> QED  BY <1>3, <1>6, <1>7, <1>8, <1>9, <1>10, <1>11, <1>12
         DEF TypeOK, hostVars, cardVars, ctxVars

\* The part of TypeOK the first section of a half may change.
HalfTypes ==
  /\ thr \in Copies /\ frame \in Frames /\ zc \in ZcStates
  /\ queue \in [Ctxs -> SUBSET Bufs] /\ held \in [Ctxs -> BufOrNull] /\ app \in SUBSET Bufs
  /\ ahead \in [Ctxs -> Fresh .. 4] /\ inflight \in [Ctxs -> Int]
  /\ pic \in PicStates /\ mark \in MarkStates
  /\ res \in [Bufs -> Results] /\ fed \in SUBSET Ctxs /\ reset \in SUBSET Ctxs

\* EndWithoutFrame keeps every type.
LEMMA EndWithoutFrameType ==
  ASSUME TypeOK, NEW z \in ZcStates, NEW m \in MarkStates, NEW moved, EndWithoutFrame(z, m, moved)
  PROVE  HalfTypes' /\ (RegistersOf(z) => RegistersOf(zc'))
<1> DEFINE back == Releasable(Advance(z))
<1>1. zc' \in ZcStates /\ (RegistersOf(z) => RegistersOf(zc')) /\ back \in SUBSET Bufs
  BY FrameEndFacts DEF EndWithoutFrame
<1>2. Complete(back, {}) /\ res' = Failed({z.cur}, back) /\ pic' = Forget(pic, back)
      /\ mark' = Unmark(m, back) /\ Number(moved, ahead, {})
      /\ frame' = NoTop /\ UNCHANGED <<thr, queue, held>>
  BY DEF EndWithoutFrame
<1> HIDE DEF back
<1>3. app' \in SUBSET Bufs /\ inflight' \in [Ctxs -> Int]
  <2>1. {} \in SUBSET Bufs
    OBVIOUS
  <2> QED  BY <1>1, <1>2, <2>1, CompleteType DEF TypeOK
<1>4. ahead' \in [Ctxs -> Fresh .. 4] /\ fed' \in SUBSET Ctxs /\ reset' \in SUBSET Ctxs
  <2>1. {} \in SUBSET Ctxs
    OBVIOUS
  <2> QED  BY <1>2, <2>1, NumberType DEF TypeOK
<1>5. res' \in [Bufs -> Results] /\ pic' \in PicStates /\ mark' \in MarkStates
  BY <1>2, FailedType, ForgetType, UnmarkType DEF TypeOK
<1> QED  BY <1>1, <1>2, <1>3, <1>4, <1>5, NoTopType DEF TypeOK, HalfTypes

\* StaleTop keeps every type.
LEMMA StaleTopType ==
  ASSUME TypeOK, NEW z \in ZcStates, NEW m \in MarkStates, NEW b \in BufOrNull, StaleTop(z, m, b)
  PROVE  HalfTypes' /\ zc' = z
<1>1. Complete({}, {b} \ {Null}) /\ res' = Failed({zc.next}, {}) /\ zc' = z /\ mark' = m
      /\ queue' = QueueWithout(queue, {b})
      /\ Number(frame.done, ahead, {}) /\ frame' = NoTop /\ UNCHANGED <<thr, held, pic>>
  BY DEF StaleTop
<1>2. app' \in SUBSET Bufs /\ inflight' \in [Ctxs -> Int]
  <2>1. {} \in SUBSET Bufs /\ {b} \ {Null} \in SUBSET Bufs
    BY DEF BufOrNull
  <2> QED  BY <1>1, <2>1, CompleteType DEF TypeOK
<1>3. ahead' \in [Ctxs -> Fresh .. 4] /\ fed' \in SUBSET Ctxs /\ reset' \in SUBSET Ctxs
  <2>1. {} \in SUBSET Ctxs
    OBVIOUS
  <2> QED  BY <1>1, <2>1, NumberType DEF TypeOK
<1>4. res' \in [Bufs -> Results] /\ queue' \in [Ctxs -> SUBSET Bufs]
  BY <1>1, FailedType, QueueWithoutType DEF TypeOK
<1> QED  BY <1>1, <1>2, <1>3, <1>4, NoTopType DEF TypeOK, HalfTypes

\* TopBegin keeps every type.
LEMMA TopBeginType ==
  ASSUME TypeOK, NEW z \in ZcStates, NEW m \in MarkStates, NEW b \in BufOrNull, NEW ts \in Ages,
         NEW hdcp \in BOOLEAN, TopBegin(z, m, b, ts, hdcp)
  PROVE  HalfTypes' /\ zc' = z
<1> DEFINE zf == zc.cur
           skip == IF zf = Null THEN Null ELSE Owner[zf]
           twice == HeldTwice(skip)
           q == QueueWithout(queue, {b})
           ahd == IF frame.done THEN NextSeq(ahead) ELSE ahead
<1> PICK t \in HoldChoices(q, skip, ahd) :
     LET small == Image(t) \cap SmallBufs  back == twice \cup small IN
     /\ held' = [c \in Ctxs |-> IF held[c] \in twice THEN Null ELSE HeldAfter(t)[c]]
     /\ queue' = QueueWithout(q, Image(t))
     /\ ahead' = AheadAfter(t, ahd)
     /\ reset' = IF frame.done THEN {} ELSE reset
     /\ UNCHANGED fed
     /\ frame' = [done |-> TRUE, geom |-> geom, late |-> FALSE, hdcp |-> hdcp]
     /\ thr' = [busy |-> TRUE, pair |-> Top, ts |-> ts, zf |-> zf, src |-> pic[zf][Top], hdcp |-> hdcp]
     /\ zc' = z
     /\ Complete(back, Image(t) \cup ({b} \ {Null}))
     /\ res' = Failed({zc.next}, back)
     /\ pic' = Forget(pic, back) /\ mark' = Unmark(m, back)
  BY DEF TopBegin
<1> DEFINE back == twice \cup (Image(t) \cap SmallBufs)
<1>1. zf \in BufOrNull /\ q \in [Ctxs -> SUBSET Bufs] /\ ahd \in [Ctxs -> Fresh .. 4]
  BY QueueWithoutType, AheadTypes DEF TypeOK, ZcStates
<1>2. twice \in SUBSET Bufs
  <2>1. skip # Null => skip \in Ctxs
    BY <1>1, CaptureAssumption DEF BufOrNull
  <2> HIDE DEF skip
  <2> QED  BY <2>1 DEF HeldTwice, TypeOK, BufOrNull
<1>3. Image(t) \in SUBSET Bufs /\ HeldAfter(t) \in [Ctxs -> BufOrNull]
  <2> HIDE DEF q, skip, ahd
  <2> QED  BY <1>1, HoldTypes
<1>4. back \in SUBSET Bufs /\ Image(t) \cup ({b} \ {Null}) \in SUBSET Bufs
  <2> HIDE DEF twice
  <2> QED  BY <1>2, <1>3 DEF BufOrNull
<1>5. app' \in SUBSET Bufs /\ inflight' \in [Ctxs -> Int]
  <2>1. Complete(back, Image(t) \cup ({b} \ {Null}))
    OBVIOUS
  <2> HIDE DEF back
  <2> QED  BY <1>4, <2>1, CompleteType DEF TypeOK
<1>6. held' \in [Ctxs -> BufOrNull]
  <2>1. held' = [c \in Ctxs |-> IF held[c] \in twice THEN Null ELSE HeldAfter(t)[c]]
    OBVIOUS
  <2> HIDE DEF twice
  <2> QED  BY <1>3, <2>1 DEF BufOrNull
<1>7. queue' \in [Ctxs -> SUBSET Bufs] /\ ahead' \in [Ctxs -> Fresh .. 4]
  <2>1. queue' = QueueWithout(q, Image(t)) /\ ahead' = AheadAfter(t, ahd)
    OBVIOUS
  <2> HIDE DEF q, ahd
  <2> QED  BY <1>1, <2>1, QueueWithoutType, AheadTypes
<1>8. frame' \in Frames
  BY DEF Frames, TypeOK
<1>9. thr' \in Copies
  <2>1. pic[zf][Top] \in Contents
    BY <1>1, ValueTypes DEF TypeOK, PicStates
  <2>2. thr' = [busy |-> TRUE, pair |-> Top, ts |-> ts, zf |-> zf, src |-> pic[zf][Top],
                hdcp |-> hdcp]
    OBVIOUS
  <2> HIDE DEF zf
  <2> QED  BY <1>1, <2>1, <2>2, ValueTypes DEF Copies
<1>10. res' \in [Bufs -> Results] /\ pic' \in PicStates /\ mark' \in MarkStates
  <2>1. res' = Failed({zc.next}, back) /\ pic' = Forget(pic, back) /\ mark' = Unmark(m, back)
    OBVIOUS
  <2> HIDE DEF back
  <2> QED  BY <2>1, FailedType, ForgetType, UnmarkType DEF TypeOK
<1>11. zc' = z /\ fed' \in SUBSET Ctxs /\ reset' \in SUBSET Ctxs
  BY DEF TypeOK
<1> HIDE DEF zf, skip, twice, q, ahd, back
<1> QED  BY <1>5, <1>6, <1>7, <1>8, <1>9, <1>10, <1>11 DEF HalfTypes

\* BottomBegin keeps every type.
LEMMA BottomBeginType ==
  ASSUME TypeOK, NEW z \in ZcStates, NEW m \in MarkStates, NEW ts \in Ages,
         NEW hdcp \in BOOLEAN, BottomBegin(z, m, ts, hdcp)
  PROVE  HalfTypes' /\ zc' = z
<1>1. zc.cur \in BufOrNull
  BY DEF TypeOK, ZcStates
<1>2. pic[zc.cur][Bottom] \in Contents
  BY <1>1, ValueTypes DEF TypeOK, PicStates
<1>3. thr' \in Copies
  BY <1>1, <1>2, ValueTypes DEF BottomBegin, Copies
<1> QED  BY <1>3 DEF BottomBegin, TypeOK, HalfTypes, seqVars

\* The first section of a half: the card's next destination, then one of four
\* ways on.
LEMMA HalfBeginCases ==
  ASSUME TypeOK, HalfBegin
  PROVE  \E z \in ZcStates, m \in MarkStates, b \in BufOrNull, ts \in Ages, hdcp \in BOOLEAN :
           /\ RegistersOf(zc) => RegistersOf(z)
           /\ \/ StaleTop(z, m, b)
              \/ \E k \in MarkStates, moved \in BOOLEAN : EndWithoutFrame(z, k, moved)
              \/ TopBegin(z, m, b, ts, hdcp)
              \/ BottomBegin(z, m, ts, hdcp)
<1> DEFINE ev == Head(fifo)
           p == ev.pair
<1>1. ev \in Events
  <2>1. fifo \in Seq(Events) /\ fifo # <<>>
    BY DEF HalfBegin, TypeOK
  <2> QED  BY <2>1
<1>2. p \in Pairs /\ ev.ts \in Ages
  BY <1>1 DEF Events
<1> HIDE DEF ev
<1> PICK hdcp \in HdcpReads, inTime \in BOOLEAN, knob \in BOOLEAN,
         b \in (IF p = Top THEN UNION {Picks(h) : h \in HdcpReads} ELSE {zc.next}) :
      HalfWays(ev, hdcp, knob, b, Program(NextHalf(zc, p, b), p, b, inTime), MarkNext(p, b))
  BY DEF HalfBegin, InTimeWays, ev
<1> DEFINE z == Program(NextHalf(zc, p, b), p, b, inTime)
           m == MarkNext(p, b)
<1>3. zc \in ZcStates /\ mark \in MarkStates /\ frame.done \in BOOLEAN
  BY DEF TypeOK, Frames
<1>4. b \in BufOrNull /\ (p # Top => b = zc.next)
  <2>1. \A h : Picks(h) \subseteq BufOrNull
    BY PicksType
  <2>2. zc.next \in BufOrNull
    BY <1>3 DEF ZcStates
  <2> QED  BY <2>1, <2>2
<1>5. z \in ZcStates /\ (RegistersOf(zc) => RegistersOf(z))
  <2> HIDE DEF p
  <2> QED  BY <1>2, <1>3, <1>4, HalfDoneFacts
<1>6. m \in MarkStates
  BY <1>2, <1>3, <1>4 DEF MarkNext, BufOrNull, Dests, MarkStates, Marks
<1>7. SetMark(m, zc.cur, p) \in MarkStates
  BY <1>2, <1>6, SetMarkType
<1>8. hdcp \in BOOLEAN
  BY DEF HdcpReads
<1>9. \/ StaleTop(z, m, b)
      \/ EndWithoutFrame(z, m, frame.done)
      \/ TopBegin(z, m, b, ev.ts, hdcp)
      \/ BottomBegin(z, m, ev.ts, hdcp)
      \/ EndWithoutFrame(z, SetMark(m, zc.cur, p), TRUE)
  BY DEF HalfWays
<1> HIDE DEF z, m
<1> QED  BY <1>2, <1>3, <1>4, <1>5, <1>6, <1>7, <1>8, <1>9

\* HalfBegin keeps every type.
LEMMA HalfBeginType ==
  ASSUME TypeOK, HalfBegin
  PROVE  TypeOK' /\ (RegistersOf(zc) => RegistersOf(zc'))
<1>1. HalfTypes' /\ (RegistersOf(zc) => RegistersOf(zc'))
  <2> PICK z \in ZcStates, m \in MarkStates, b \in BufOrNull, ts \in Ages, hdcp \in BOOLEAN :
           /\ RegistersOf(zc) => RegistersOf(z)
           /\ \/ StaleTop(z, m, b)
              \/ \E k \in MarkStates, moved \in BOOLEAN : EndWithoutFrame(z, k, moved)
              \/ TopBegin(z, m, b, ts, hdcp)
              \/ BottomBegin(z, m, ts, hdcp)
    BY HalfBeginCases
  <2>1. CASE StaleTop(z, m, b)
    BY <2>1, StaleTopType
  <2>2. ASSUME NEW k \in MarkStates, NEW moved \in BOOLEAN, EndWithoutFrame(z, k, moved)
        PROVE  HalfTypes' /\ (RegistersOf(zc) => RegistersOf(zc'))
    BY <2>2, EndWithoutFrameType
  <2>3. CASE TopBegin(z, m, b, ts, hdcp)
    BY <2>3, TopBeginType
  <2>4. CASE BottomBegin(z, m, ts, hdcp)
    BY <2>4, BottomBeginType
  <2> QED  BY <2>1, <2>2, <2>3, <2>4
<1>2. Head(fifo) \in Events /\ Tail(fifo) \in Seq(Events)
  <2>1. fifo \in Seq(Events) /\ fifo # <<>>
    BY DEF HalfBegin, TypeOK
  <2> QED  BY <2>1
<1>3. gap' \in [last : Ages \cup {None}, prev : Int]
  <2>1. Head(fifo).ts \in Ages /\ Head(fifo).ts \in Int
    BY <1>2, ValueTypes DEF Events
  <2>2. gap.last \in Ages \cup {None} /\ None \in Int
    BY DEF TypeOK, None
  <2>3. gap.last \in Int
    BY <2>2, ValueTypes
  <2>4. gap' = [last |-> Head(fifo).ts,
                prev |-> IF gap.last = None THEN 0 ELSE gap.last - Head(fifo).ts]
    BY DEF HalfBegin
  <2> QED  BY <2>1, <2>3, <2>4
<1>4. fifo' \in Seq(Events)
      /\ UNCHANGED <<started, hostVars, noVideo, geom, cardVars, ctxVars>>
  BY <1>2 DEF HalfBegin
<1> QED  BY <1>1, <1>3, <1>4 DEF TypeOK, HalfTypes, hostVars, cardVars, ctxVars

-----------------------------------------------------------------------------
(* The theorems.                                                           *)

\* The initial values have their types.
LEMMA InitType == Init => TypeOK
<1> SUFFICES ASSUME Init PROVE TypeOK
  OBVIOUS
<1>1. started \in BOOLEAN /\ lost \in BOOLEAN /\ noVideo \in BOOLEAN
      /\ power \in Powers /\ status \in StatusValues /\ irq \in {"none", "pending", "sampled"}
  BY DEF Init, Powers, StatusValues
<1>2. geom \in Geoms /\ frame \in Frames /\ thr \in Copies /\ seen \in Pairs
  BY CaptureAssumption, NoTopType, IdleType, ValueTypes DEF Init
<1>3. card \in [pair : Pairs, dst : BufOrNull, toggle : Pairs]
  BY ValueTypes DEF Init
<1>4. gap \in [last : Ages \cup {None}, prev : Int] /\ fifo \in Seq(Events)
  BY EmptySeq DEF Init
<1>5. zc \in ZcStates
  <2>1. 0 \in Stables /\ Null \in BufOrNull /\ Null \in CtxOrNull /\ {} \in SUBSET Bufs
    BY ValueTypes DEF Stables, BufOrNull
  <2>2. [p \in Pairs |-> Null] \in [Pairs -> BufOrNull]
    BY <2>1
  <2>3. [b \in Bufs |-> False2] \in [Bufs -> [Pairs -> BOOLEAN]]
    BY DEF False2
  <2>4. [b \in Bufs |-> Zero2] \in [Bufs -> [Pairs -> 0 .. 1]]
    BY DEF Zero2
  <2> QED  BY <2>1, <2>2, <2>3, <2>4 DEF Init, ZcStates
<1>6. queue \in [Ctxs -> SUBSET Bufs] /\ held \in [Ctxs -> BufOrNull] /\ app \in SUBSET Bufs
  BY DEF Init, BufOrNull
<1>7. streaming \in SUBSET Ctxs /\ ahead \in [Ctxs -> Fresh .. 4] /\ inflight \in [Ctxs -> Int]
      /\ users \in Int /\ engine \in CtxOrNull /\ pc \in [Ctxs -> PcValues]
  BY ValueTypes DEF Init, Fresh, PcValues
<1>8. pic \in PicStates /\ mark \in MarkStates /\ res \in [Bufs -> Results]
      /\ fed \in SUBSET Ctxs /\ reset \in SUBSET Ctxs
  BY ValueTypes DEF Init, PicStates, Blank, MarkStates, Marks, Results
<1> QED  BY <1>1, <1>2, <1>3, <1>4, <1>5, <1>6, <1>7, <1>8 DEF TypeOK

\* TypeOK is inductive: one step per action of Next.
LEMMA NextType == TypeOK /\ [Next]_vars => TypeOK'
<1> SUFFICES ASSUME TypeOK, [Next]_vars PROVE TypeOK'
  OBVIOUS
<1>1. CASE CardHalfDone \/ CardLoses \/ IrqHandler \/ IrqAcknowledge
  BY <1>1, CardHalfDoneType, CardLosesType, IrqHandlerType, IrqAcknowledgeType
<1>2. CASE Thread
  BY <1>2, ThreadSkipsType, HalfBeginType, TopEndType, BottomEndType DEF Thread, HalfEnd
<1>3. CASE Status
  BY <1>3, StatusFindsLossType, StatusFindsCaptureType, PollSameType, PollResizeType,
     PollNoVideoType, PollBadSizeType, ReinitType DEF Status
<1>4. ASSUME NEW b \in Bufs, QBuf(b) PROVE TypeOK'
  BY <1>4, QBufType
<1>5. ASSUME NEW c \in Ctxs,
             StreamOn(c) \/ JoinEngine(c) \/ StartEngine(c) \/ StreamOff(c) \/ StopSteps(c)
      PROVE  TypeOK'
  BY <1>5, StreamOnType, JoinEngineType, StartEngineType, StreamOffType, StopTakeBackType,
     StopWaitedType, StopTimesOutType, StopTimeoutType, StopForceType, StopEngineType DEF StopSteps
<1>6. CASE Suspend \/ Resume
  BY <1>6, SuspendType, ResumeType
<1>7. CASE UNCHANGED vars
  BY <1>7 DEF TypeOK, vars, hostVars, cardVars, seqVars, ctxVars
<1> QED  BY <1>1, <1>2, <1>3, <1>4, <1>5, <1>6, <1>7 DEF Next

\* Every variable keeps its type: in particular zc_stable, the ages and the
\* counts of events a buffer waits for stay within their bounds.
THEOREM TypeCorrect == Spec => []TypeOK
<1> QED  BY InitType, NextType, PTL DEF Spec

\* RegistersInFlight is kept by every step: a buffer that leaves the zero-copy state is off both registers.
LEMMA NextRegisters == TypeOK /\ RegistersInFlight /\ [Next]_vars => RegistersInFlight'
<1> SUFFICES ASSUME TypeOK, RegistersOf(zc), [Next]_vars PROVE RegistersOf(zc')
  BY DEF RegistersInFlight, RegistersOf
<1>0. zc \in ZcStates /\ pic \in PicStates /\ started \in BOOLEAN
  BY DEF TypeOK
<1>1. CASE CardHalfDone \/ CardLoses \/ IrqHandler \/ IrqAcknowledge
  BY <1>1 DEF CardHalfDone, CardLoses, IrqHandler, IrqAcknowledge
<1>2. CASE ThreadSkips \/ TopEnd
  BY <1>2 DEF ThreadSkips, TopEnd
<1>3. CASE HalfBegin \/ BottomEnd
  BY <1>3, HalfBeginType, BottomEndType
<1>4. CASE StatusFindsLoss \/ StatusFindsCapture \/ PollSame \/ PollNoVideo
  BY <1>4 DEF StatusFindsLoss, StatusFindsCapture, PollSame, PollNoVideo
<1>5. CASE PollResize \/ Reinit
  <2>1. RestartPics \in PicStates
    BY <1>0, StartCardType
  <2>2. TakeBackZc(started, RestartPics) \/ TakeBackZc(FALSE, RestartPics)
    BY <1>5 DEF PollResize, Reinit
  <2> QED  BY <1>0, <2>1, <2>2, TakeBackZcType
<1>6. CASE PollBadSize
  BY <1>0, <1>6, ZcStopFacts DEF PollBadSize, TakeBackZc
<1>7. ASSUME NEW b \in Bufs, QBuf(b) PROVE RegistersOf(zc')
  BY <1>7 DEF QBuf
<1>8. ASSUME NEW c \in Ctxs, StreamOn(c) \/ JoinEngine(c) \/ StreamOff(c) PROVE RegistersOf(zc')
  BY <1>8 DEF StreamOn, JoinEngine, StreamOff
<1>9. ASSUME NEW c \in Ctxs, StartEngine(c) PROVE RegistersOf(zc')
  BY <1>0, <1>9, ZcStopFacts DEF StartEngine, TakeBackZc
<1>10. ASSUME NEW c \in Ctxs, StopSteps(c) PROVE RegistersOf(zc')
  <2>1. CASE StopTakeBack(c)
    BY <1>0, <2>1, ZcStopFacts DEF StopTakeBack
  <2>2. CASE StopWaited(c) \/ StopTimesOut(c) \/ StopTimeout(c) \/ StopEngine(c)
    BY <2>2 DEF StopWaited, StopTimesOut, StopTimeout, StopEngine
  <2>3. CASE StopForce(c)
    BY <1>0, <2>3, ZcStopFacts DEF StopForce, TakeBackZc
  <2> QED  BY <1>10, <2>1, <2>2, <2>3 DEF StopSteps
<1>11. CASE Suspend
  BY <1>0, <1>11, ZcStopFacts DEF Suspend, TakeBackZc
<1>12. CASE Resume
  BY <1>12 DEF Resume
<1>13. CASE UNCHANGED vars
  BY <1>13 DEF vars
<1> QED  BY <1>1, <1>2, <1>3, <1>4, <1>5, <1>6, <1>7, <1>8, <1>9, <1>10, <1>11, <1>12, <1>13
         DEF Next, Thread, HalfEnd, Status

\* A register of the card never points at a buffer that went back to its app or
\* to a queue, whatever polls, stops, sleeps and late register writes happen:
\* hws_zc_release() lets a buffer go only when zc_prog[] is past it, and every
\* other way back programs the DMA buffers first.
THEOREM RegistersSafe == Spec => []RegistersInFlight
<1>1. Init => RegistersInFlight
  BY DEF Init, RegistersInFlight
<1> QED  BY <1>1, InitType, NextType, NextRegisters, PTL DEF Spec

=============================================================================
