-------------------------- MODULE VideoFrames_proofs --------------------------
(***************************************************************************)
(* What becomes of the frames of VideoCapture, for any number of handles   *)
(* and buffers: good zero-copy frames go back at once, those a late run    *)
(* fills count as written late, no consumer gets a frame number twice, and *)
(* the frames given as good are whole.                                     *)
(***************************************************************************)
EXTENDS VideoOwnership_proofs

-----------------------------------------------------------------------------
(* What whole sections do to the waits and to the flags of late writes.    *)

\* A half begins: its event is counted, and its register written.
HalfSet(z, done, p, b, inTime) ==
  /\ \A x \in Bufs, q \in Pairs :
       /\ done.need[x][q] = IF q = p THEN (IF x = z.prog[p] THEN Await(inTime) ELSE 0)
                            ELSE z.need[x][q]
       /\ done.away[x][q] = IF x = z.prog[p] /\ q = p THEN inTime ELSE z.away[x][q]
  /\ \A q \in Pairs : done.prog[q] = IF q = p THEN b ELSE z.prog[q]
  /\ done.cur = z.cur
  /\ done.next = b
  /\ done.rel = IF p = Top THEN z.rel \cup ({z.next} \ {Null}) ELSE z.rel

\* hws_video_half() up to the register write of the half.
LEMMA NextHalfSet ==
  ASSUME NEW z \in ZcStates, NEW p \in Pairs, NEW b \in BufOrNull, NEW inTime \in BOOLEAN,
         p # Top => b = z.next
  PROVE  HalfSet(z, Program(NextHalf(z, p, b), p, b, inTime), p, b, inTime)
<1> DEFINE need == [x \in Bufs |-> [z.need[x] EXCEPT ![p] = 0]]
           counted == CountEvent(z, p)
           moved == NextHalf(z, p, b)
           done == Program(moved, p, b, inTime)
<1>1. counted = [z EXCEPT !.need = need] /\ need \in [Bufs -> [Pairs -> 0 .. 1]]
  BY DEF CountEvent, ZcStates
<1>2. \A x \in Bufs, q \in Pairs : need[x][q] = IF q = p THEN 0 ELSE z.need[x][q]
  BY DEF ZcStates
<1> HIDE DEF need
<1>3. /\ counted \in ZcStates /\ counted.need = need /\ counted.away = z.away /\ counted.prog = z.prog
      /\ counted.cur = z.cur /\ counted.next = z.next /\ counted.rel = z.rel
  BY <1>1 DEF ZcStates
<1> HIDE DEF counted
<1>4. /\ moved \in ZcStates /\ moved.need = need /\ moved.away = z.away /\ moved.prog = z.prog
      /\ moved.cur = z.cur /\ moved.next = b
      /\ moved.rel = IF p = Top THEN z.rel \cup ({z.next} \ {Null}) ELSE z.rel
  <2>1. CASE p = Bottom
    <3>1. moved = counted /\ p # Top
      BY <2>1 DEF NextHalf, counted, Top, Bottom
    <3> QED  BY <1>3, <3>1
  <2>2. CASE p # Bottom
    <3> DEFINE ret == Retire(counted, z.next)
               ctx == IF b = Null THEN ret.ctx ELSE Owner[b]
    <3>1. p = Top
      BY <2>2 DEF Pairs
    <3>2. z.next \in BufOrNull
      BY DEF ZcStates
    <3>3. /\ ret \in ZcStates /\ ret.need = need /\ ret.away = z.away /\ ret.prog = z.prog
          /\ ret.cur = z.cur /\ ret.rel = z.rel \cup ({z.next} \ {Null})
      BY <1>3, <3>2, RetireFacts DEF Retire, ZcStates
    <3>4. ctx \in CtxOrNull
      BY <3>3, CaptureAssumption DEF ZcStates, BufOrNull, CtxOrNull
    <3>5. moved = [ret EXCEPT !.next = b, !.ctx = ctx]
      BY <2>2, <3>3 DEF NextHalf, counted, ZcStates
    <3> HIDE DEF ret, ctx, moved
    <3> QED  BY <3>1, <3>3, <3>4, <3>5 DEF ZcStates
  <2> QED  BY <2>1, <2>2
<1> HIDE DEF moved
<1>5. Programmed(moved, done, p, b, inTime)
  BY <1>4, ProgramFlags
<1>6. done \in ZcStates /\ done.prog = [moved.prog EXCEPT ![p] = b]
      /\ done.cur = moved.cur /\ done.next = moved.next /\ done.rel = moved.rel
  BY <1>4, ProgramFacts
<1> HIDE DEF done
<1>7. ASSUME NEW x \in Bufs, NEW q \in Pairs
      PROVE  /\ done.need[x][q] = IF q = p THEN (IF x = z.prog[p] THEN Await(inTime) ELSE 0)
                                  ELSE z.need[x][q]
             /\ done.away[x][q] = IF x = z.prog[p] /\ q = p THEN inTime ELSE z.away[x][q]
  BY <1>2, <1>4, <1>5 DEF Programmed
<1>8. \A q \in Pairs : done.prog[q] = IF q = p THEN b ELSE z.prog[q]
  BY <1>4, <1>6 DEF ZcStates
<1> QED  BY <1>4, <1>6, <1>7, <1>8 DEF HalfSet, done, moved

\* A frame ends: hws_zc_frame_end() writes no register and counts no event.
LEMMA FrameEndFlags ==
  ASSUME NEW z \in ZcStates
  PROVE  LET done == Release(Advance(z))
             out == Releasable(Advance(z)) IN
         /\ done.prog = z.prog /\ done.need = z.need /\ done.cur = z.next /\ done.next = Null
         /\ done.rel = (z.rel \cup ({z.cur} \ {Null})) \ out
         /\ \A x \in Bufs : done.away[x] = IF x \in out THEN False2 ELSE z.away[x]
         /\ out = {b \in z.rel \cup ({z.cur} \ {Null}) :
                     /\ \A p \in Pairs : z.prog[p] # b
                     /\ z.need[b] = Zero2}
<1> DEFINE ret == Retire(z, z.cur)
           adv == Advance(z)
<1>1. z.cur \in BufOrNull /\ z.next \in BufOrNull /\ Null \in BufOrNull
  BY ValueTypes DEF ZcStates, BufOrNull
<1>2. /\ ret \in ZcStates /\ ret.prog = z.prog /\ ret.need = z.need /\ ret.away = z.away
      /\ ret.next = z.next /\ ret.rel = z.rel \cup ({z.cur} \ {Null})
  BY <1>1, RetireFacts DEF Retire, ZcStates
<1>3. adv = [ret EXCEPT !.cur = z.next, !.next = Null]
  BY DEF Advance
<1> HIDE DEF ret, adv
<1>4. /\ adv \in ZcStates /\ adv.prog = z.prog /\ adv.need = z.need /\ adv.away = z.away
      /\ adv.cur = z.next /\ adv.next = Null /\ adv.rel = z.rel \cup ({z.cur} \ {Null})
  BY <1>1, <1>2, <1>3 DEF ZcStates
<1>5. Releasable(adv) = {b \in z.rel \cup ({z.cur} \ {Null}) :
                           /\ \A p \in Pairs : z.prog[p] # b
                           /\ z.need[b] = Zero2}
  BY <1>4 DEF Releasable
<1>6. /\ Release(adv).prog = adv.prog /\ Release(adv).need = adv.need
      /\ Release(adv).cur = adv.cur /\ Release(adv).next = adv.next
      /\ Release(adv).rel = adv.rel \ Releasable(adv)
      /\ \A x \in Bufs : Release(adv).away[x] = IF x \in Releasable(adv) THEN False2 ELSE adv.away[x]
  BY <1>4, ReleaseFlags
<1> QED  BY <1>4, <1>5, <1>6 DEF adv

\* The whole of hws_zc_stop().
LEMMA ZcStopFlags ==
  ASSUME NEW z \in ZcStates, NEW stopped \in BOOLEAN
  PROVE  LET done == ZcStop(z, stopped)
             back == ZcStopBack(z, stopped) IN
         /\ done.cur = Null /\ done.next = Null
         /\ \A p \in Pairs : done.prog[p] = Null
         /\ back \subseteq InZc(z) /\ done.rel = InZc(z) \ back /\ InZc(done) = InZc(z) \ back
         /\ stopped => back = InZc(z)
         /\ \A x \in Bufs, p \in Pairs : done.away[x][p] => z.away[x][p] /\ z.prog[p] # x /\ x \notin back
         /\ ~stopped => \A x \in Bufs, p \in Pairs :
                          /\ done.need[x][p] = IF z.prog[p] = x THEN 1 ELSE z.need[x][p]
                          /\ done.need[x][p] = 1 => x \notin back
<1> DEFINE rest == Unhook(z, stopped)
           done == Release(rest)
           back == Releasable(rest)
<1>1. ZcStop(z, stopped) = done /\ ZcStopBack(z, stopped) = back
  BY DEF ZcStop, ZcStopBack
<1>2. /\ rest \in ZcStates /\ rest.cur = Null /\ rest.next = Null
      /\ rest.rel = InZc(z)
      /\ \A p \in Pairs : rest.prog[p] = Null
      /\ stopped => \A x \in rest.rel : rest.need[x] = Zero2
      /\ ~stopped => \A x \in Bufs, p \in Pairs :
                       rest.need[x][p] = IF z.prog[p] = x THEN 1 ELSE z.need[x][p]
      /\ \A x \in Bufs, p \in Pairs : rest.away[x][p] => z.away[x][p] /\ z.prog[p] # x
  BY UnhookFacts
<1>3. rest.rel \subseteq Bufs
  BY <1>2 DEF ZcStates
<1> HIDE DEF rest
<1>4. /\ done.prog = rest.prog /\ done.need = rest.need /\ done.cur = Null /\ done.next = Null
      /\ done.rel = rest.rel \ back
      /\ \A x \in Bufs : done.away[x] = IF x \in back THEN False2 ELSE rest.away[x]
  BY <1>2, ReleaseFlags
<1>5. back \subseteq rest.rel /\ \A x \in back : rest.need[x] = Zero2
  BY DEF Releasable
<1>6. stopped => back = rest.rel
  BY <1>2, <1>3, CaptureAssumption DEF Releasable
<1> HIDE DEF done, back
<1>7. InZc(done) = done.rel
  <2>1. Null \notin done.rel
    BY <1>3, <1>4, CaptureAssumption
  <2> QED  BY <1>4, <2>1 DEF InZc
<1>8. ASSUME NEW x \in Bufs, NEW p \in Pairs, done.away[x][p]
      PROVE  z.away[x][p] /\ z.prog[p] # x /\ x \notin back
  <2>1. x \notin back
    BY <1>4, <1>8 DEF False2
  <2> QED  BY <1>2, <1>4, <1>8, <2>1
<1>9. ASSUME ~stopped, NEW x \in Bufs, NEW p \in Pairs
      PROVE  /\ done.need[x][p] = IF z.prog[p] = x THEN 1 ELSE z.need[x][p]
             /\ done.need[x][p] = 1 => x \notin back
  <2>1. x \in back => rest.need[x][p] = 0
    BY <1>5 DEF Zero2
  <2> QED  BY <1>2, <1>4, <1>9, <2>1
<1> QED  BY <1>1, <1>2, <1>4, <1>5, <1>6, <1>7, <1>8, <1>9

-----------------------------------------------------------------------------
(* The two sections of a half, with the registers, the flags and the       *)
(* verdicts.                                                               *)

\* The first section: the half's event is the oldest; its pair tells what can be made of it.
HalfWay(z, p, b, inTime) ==
  /\ ~thr.busy /\ fifo # <<>> /\ p = Head(fifo).pair /\ fifo' = Tail(fifo)
  /\ inTime => 2 * Head(fifo).ts < Min2(gap'.prev, gap.prev)
  /\ HalfSet(zc, z, p, b, inTime)
  /\ InZc(z) = InZc(zc) \cup ({b} \ {Null}) /\ Parts(z)
  /\ \/ /\ p = Top /\ b \notin InZc(zc) /\ OfStreamers({b} \ {Null})
        /\ (b = Null \/ \E c \in Ctxs : b \in queue[c])
        /\ \/ \E m : StaleTop(z, m, b)
           \/ \E m, ts, hdcp : TopBegin(z, m, b, ts, hdcp)
     \/ /\ p = Bottom /\ b = zc.next
        /\ \/ \E m, moved : EndWithoutFrame(z, m, moved)
           \/ frame.done /\ \E m, ts, hdcp : BottomBegin(z, m, ts, hdcp)

\* hws_video_half() up to the start of the copy is one of these.
LEMMA HalfBeginWay ==
  ASSUME TypeOK, OnePlace, HalfBegin
  PROVE  \E z \in ZcStates, p \in Pairs, b \in BufOrNull, inTime \in BOOLEAN : HalfWay(z, p, b, inTime)
<1> DEFINE ev == Head(fifo)
           p == ev.pair
<1>1. p \in Pairs
  <2>1. fifo \in Seq(Events) /\ fifo # <<>>
    BY DEF HalfBegin, TypeOK
  <2>2. ev \in Events
    BY <2>1
  <2> QED  BY <2>2 DEF Events
<1>2. ~thr.busy /\ fifo # <<>> /\ fifo' = Tail(fifo)
  BY DEF HalfBegin
<1> HIDE DEF ev
<1> PICK hdcp \in HdcpReads, inTime \in BOOLEAN, knob \in BOOLEAN,
         b \in (IF p = Top THEN UNION {Picks(h) : h \in HdcpReads} ELSE {zc.next}) :
      /\ HalfWays(ev, hdcp, knob, b, Program(NextHalf(zc, p, b), p, b, inTime), MarkNext(p, b))
      /\ inTime => 2 * ev.ts < Min2(gap'.prev, gap.prev)
  BY DEF HalfBegin, InTimeWays, ev
<1> DEFINE z == Program(NextHalf(zc, p, b), p, b, inTime)
           m == MarkNext(p, b)
<1>3. zc \in ZcStates /\ Parts(zc) /\ Top # Bottom /\ Pairs = {Top, Bottom}
  BY DEF TypeOK, OnePlace, Parts, Pairs, Top, Bottom
<1>4. p # Top => b = zc.next
  OBVIOUS
<1>5. p = Top => /\ OfStreamers({b} \ {Null})
                 /\ (b = Null \/ \E c \in Ctxs : b \in queue[c])
  <2>1. ASSUME p = Top PROVE OfStreamers({b} \ {Null}) /\ (b = Null \/ \E c \in Ctxs : b \in queue[c])
    <3>1. PICK h \in HdcpReads : b \in Picks(h)
      BY <2>1
    <3>2. OfStreamers({b} \ {Null})
      BY <3>1, PicksServed
    <3>3. b = Null \/ \E c \in ZcFound : b \in queue[c]
      BY <3>1 DEF Picks
    <3>4. ZcFound \subseteq Ctxs
      BY DEF ZcFound, ZcEligible, TypeOK
    <3> QED  BY <3>2, <3>3, <3>4
  <2> QED  BY <2>1
<1>6. b \in BufOrNull
  BY <1>3, <1>4, <1>5 DEF TypeOK, ZcStates, BufOrNull
<1>7. p = Top => b \notin InZc(zc)
  BY <1>5 DEF OnePlace, InZc
<1>8. z \in ZcStates /\ InZc(z) = InZc(zc) \cup ({b} \ {Null}) /\ Parts(z)
  <2> HIDE DEF p
  <2> QED  BY <1>1, <1>3, <1>4, <1>6, <1>7, HalfDoneFacts, NextHalfPlaces
<1>9. HalfSet(zc, z, p, b, inTime)
  <2> HIDE DEF p
  <2> QED  BY <1>1, <1>3, <1>4, <1>6, NextHalfSet
<1>10. \/ p = Top /\ (StaleTop(z, m, b) \/ TopBegin(z, m, b, ev.ts, hdcp))
       \/ p = Bottom /\ \/ EndWithoutFrame(z, m, frame.done)
                        \/ frame.done /\ BottomBegin(z, m, ev.ts, hdcp)
                        \/ EndWithoutFrame(z, SetMark(m, zc.cur, p), TRUE)
  BY DEF HalfWays, Follows
<1> HIDE DEF z, m
<1>11. CASE p = Top /\ (StaleTop(z, m, b) \/ TopBegin(z, m, b, ev.ts, hdcp))
  <2>1. (\E k : StaleTop(z, k, b)) \/ \E k, ts, h : TopBegin(z, k, b, ts, h)
    <3>1. CASE StaleTop(z, m, b)
      BY <3>1
    <3>2. CASE TopBegin(z, m, b, ev.ts, hdcp)
      BY <3>2
    <3> QED  BY <1>11, <3>1, <3>2
  <2>2. HalfWay(z, p, b, inTime)
    BY <1>2, <1>5, <1>7, <1>8, <1>9, <1>11, <2>1 DEF HalfWay, ev
  <2> HIDE DEF p
  <2> QED  BY <1>1, <1>6, <1>8, <2>2
<1>12. CASE p = Bottom /\ \/ EndWithoutFrame(z, m, frame.done)
                          \/ frame.done /\ BottomBegin(z, m, ev.ts, hdcp)
                          \/ EndWithoutFrame(z, SetMark(m, zc.cur, p), TRUE)
  <2>1. \/ \E k, moved : EndWithoutFrame(z, k, moved)
        \/ frame.done /\ \E k, ts, h : BottomBegin(z, k, ts, h)
    <3>1. CASE EndWithoutFrame(z, m, frame.done)
      BY <3>1
    <3>2. CASE frame.done /\ BottomBegin(z, m, ev.ts, hdcp)
      BY <3>2
    <3>3. CASE EndWithoutFrame(z, SetMark(m, zc.cur, p), TRUE)
      BY <3>3
    <3> QED  BY <1>12, <3>1, <3>2, <3>3
  <2>2. b = zc.next
    BY <1>3, <1>4, <1>12
  <2>3. HalfWay(z, p, b, inTime)
    BY <1>2, <1>8, <1>9, <1>12, <2>1, <2>2 DEF HalfWay, ev
  <2> HIDE DEF p
  <2> QED  BY <1>1, <1>6, <1>8, <2>3
<1> QED  BY <1>10, <1>11, <1>12

\* The second section of a bottom half: hws_zc_frame_end() of the zero-copy state
\* but for zc_stable; the frames in "got" are good.
FrameWay(z, got) ==
  /\ z.cur = zc.cur /\ z.next = zc.next /\ z.rel = zc.rel /\ z.prog = zc.prog
  /\ z.need = zc.need /\ z.away = zc.away
  /\ zc' = Release(Advance(z))
  /\ got \subseteq HeldBufs \cup {thr.zf}
  /\ thr.zf \in got => thr.zf \in HeldBufs \/ InTimeThroughout(zc, thr.zf)
  /\ Null \notin got
  /\ \A b \in Bufs \ got :
       res'[b] = Failed({thr.zf}, HeldBufs \cup Releasable(Advance(z)))[b]
  /\ \A b \in Bufs \cap got :
       res'[b] = "repeat" => Owner[b] \in reset \/ (b = thr.zf /\ held[Owner[b]] # Null)
  /\ fed' = fed \cup {Owner[b] : b \in got} /\ reset' = {}

\* The end of hws_video_half() for a bottom half is one of these.
LEMMA BottomEndWay ==
  ASSUME TypeOK, BottomEnd
  PROVE  \E z \in ZcStates, got \in SUBSET Bufs : FrameWay(z, got)
<1> DEFINE black == frame.hdcp \/ thr.hdcp
           late == CopyLate /\ ~black /\ (Direct \/ HeldBufs # {})
           pics == [d \in Dests |-> IF d \in HeldBufs
                                    THEN [pic[d] EXCEPT ![Bottom] = Copied(Bottom)] ELSE pic[d]]
           good(r) == r /\ ~frame.late /\ ~late
           zfGood(r) == good(r) /\ thr.zf # Null /\ InTimeThroughout(zc, thr.zf)
           ended(r) == Advance([zc EXCEPT !.stable = IF good(r) THEN Min2(@ + 1, 2) ELSE @])
           back(r) == HeldBufs \cup Releasable(ended(r))
           got(r) == {b \in HeldBufs : good(r)} \cup (IF zfGood(r) THEN {thr.zf} ELSE {})
           twice(r) == zfGood(r) /\ held[Owner[thr.zf]] # Null
<1> PICK r \in BOOLEAN :
      /\ zc' = Release(ended(r))
      /\ res' = [b \in Bufs |->
                   IF b \in got(r)
                   THEN IF b = thr.zf /\ twice(r) THEN "repeat" ELSE Verdict(pics, b, black)
                   ELSE Failed({thr.zf}, back(r))[b]]
      /\ Number(TRUE, ahead, {Owner[b] : b \in got(r)})
  BY DEF BottomEnd, Rendered
<1> DEFINE stable == IF good(r) THEN Min2(zc.stable + 1, 2) ELSE zc.stable
           z == [zc EXCEPT !.stable = stable]
<1>1. zc \in ZcStates
  BY DEF TypeOK
<1>2. ended(r) = Advance(z)
  BY <1>1 DEF ZcStates
<1>3. stable \in Stables
  <2>1. zc.stable \in Stables
    BY <1>1 DEF ZcStates
  <2> QED  BY <2>1 DEF Stables, Min2
<1> HIDE DEF ended, stable
<1>4. /\ z \in ZcStates /\ z.cur = zc.cur /\ z.next = zc.next /\ z.rel = zc.rel /\ z.prog = zc.prog
      /\ z.need = zc.need /\ z.away = zc.away
  BY <1>1, <1>3 DEF ZcStates
<1>5. /\ got(r) \subseteq HeldBufs \cup {thr.zf} /\ Null \notin got(r)
      /\ thr.zf \in got(r) => thr.zf \in HeldBufs \/ InTimeThroughout(zc, thr.zf)
  BY DEF HeldBufs
<1>6. \A b \in Bufs \ got(r) : res'[b] = Failed({thr.zf}, HeldBufs \cup Releasable(Advance(z)))[b]
  <2> HIDE DEF got, z
  <2> QED  BY <1>2
<1>7. ASSUME NEW b \in Bufs \cap got(r), res'[b] = "repeat"
      PROVE  Owner[b] \in reset \/ (b = thr.zf /\ held[Owner[b]] # Null)
  <2>1. CASE b = thr.zf /\ twice(r)
    BY <2>1
  <2>2. CASE ~(b = thr.zf /\ twice(r))
    <3>1. res'[b] = Verdict(pics, b, black)
      <4> HIDE DEF got, twice, pics, black
      <4> QED  BY <2>2
    <3> QED  BY <1>7, <3>1 DEF Verdict
  <2> QED  BY <2>1, <2>2
<1>8. fed' = fed \cup {Owner[b] : b \in got(r)} /\ reset' = {}
  BY DEF Number
<1>9. got(r) \in SUBSET Bufs
  <2>1. HeldBufs \subseteq Bufs
    BY DEF HeldBufs, TypeOK, BufOrNull
  <2>2. thr.zf \in got(r) => thr.zf \in Bufs
    BY <1>5 DEF TypeOK, Copies, BufOrNull
  <2> HIDE DEF got
  <2> QED  BY <1>5, <2>1, <2>2
<1> HIDE DEF got, z
<1>10. FrameWay(z, got(r))
  BY <1>2, <1>4, <1>5, <1>6, <1>7, <1>8 DEF FrameWay
<1> QED  BY <1>4, <1>9, <1>10

-----------------------------------------------------------------------------
(* A good zero-copy frame goes back at its frame end.                      *)

\* A pair of a buffer that was left in time has nothing to wait for and no
\* register at it.
AwayInTime(z) == \A b \in Bufs, p \in Pairs : z.away[b][p] => z.need[b][p] = 0 /\ z.prog[p] # b

\* Only buffers in flight carry the flags, and the next frame's has none yet.
AwayInFlight(z) ==
  /\ \A b \in Bufs \ InZc(z), p \in Pairs : ~z.away[b][p]
  /\ z.next # Null => \A p \in Pairs : ~z.away[z.next][p]

\* Between the bottom half of a frame and its end the register of the bottom
\* half is at the next frame's buffer, else only the top half's can be.
BottomOf(z, bottom) == bottom \/ z.next = Null \/ z.prog[Bottom] # z.next

\* With Known and RegistersInFlight this is inductive: a buffer with all its
\* flags set is releasable at its frame end, so the ones that wait had none.
GoodInv ==
  /\ AwayInTime(zc) /\ AwayInFlight(zc)
  /\ BottomOf(zc, thr.busy /\ thr.pair = Bottom)
  /\ thr.busy => thr.zf = zc.cur
  /\ GoodFramesLeaveAtOnce

\* A frame that failed and is not back yet is an error.
LEMMA FailedWaits ==
  ASSUME NEW S, NEW back, NEW x \in Bufs, x \notin back, x \in S \/ res[x] = "error"
  PROVE  Failed(S, back)[x] = "error"
BY DEF Failed

\* hws_zc_frame_end(): what is left waiting of the frame had a late flag.
LEMMA FrameEndGood ==
  ASSUME NEW z \in ZcStates, Parts(z), AwayInTime(z), AwayInFlight(z)
  PROVE  LET done == Release(Advance(z))
             out == Releasable(Advance(z)) IN
         /\ AwayInTime(done) /\ AwayInFlight(done) /\ done.next = Null
         /\ done.rel = (z.rel \cup ({z.cur} \ {Null})) \ out
         /\ \A b \in done.rel : b \notin z.rel => ~ \A p \in Pairs : z.away[b][p]
<1> DEFINE done == Release(Advance(z))
           out == Releasable(Advance(z))
<1>1. /\ done.prog = z.prog /\ done.need = z.need /\ done.cur = z.next /\ done.next = Null
      /\ done.rel = (z.rel \cup ({z.cur} \ {Null})) \ out
      /\ \A x \in Bufs : done.away[x] = IF x \in out THEN False2 ELSE z.away[x]
      /\ out = {b \in z.rel \cup ({z.cur} \ {Null}) :
                  /\ \A p \in Pairs : z.prog[p] # b
                  /\ z.need[b] = Zero2}
  BY FrameEndFlags
<1>2. InZc(done) = InZc(z) \ out
  BY FrameEndPlaces
<1> HIDE DEF done, out
<1>3. \A x \in Bufs, p \in Pairs : done.away[x][p] => z.away[x][p] /\ x \notin out
  BY <1>1 DEF False2
<1>4. AwayInTime(done)
  BY <1>1, <1>3 DEF AwayInTime
<1>5. AwayInFlight(done)
  BY <1>1, <1>2, <1>3 DEF AwayInFlight
<1>6. ASSUME NEW b \in done.rel, b \notin z.rel, \A p \in Pairs : z.away[b][p] PROVE FALSE
  <2>1. b = z.cur /\ b \in Bufs /\ b \notin out
    BY <1>1, <1>6 DEF ZcStates, BufOrNull
  <2>2. \A p \in Pairs : z.need[b][p] = 0 /\ z.prog[p] # b
    BY <1>6, <2>1 DEF AwayInTime
  <2>3. z.need[b] = Zero2
    BY <2>1, <2>2 DEF ZcStates, Zero2
  <2> QED  BY <1>1, <1>6, <2>1, <2>2, <2>3
<1> QED  BY <1>1, <1>4, <1>5, <1>6 DEF done, out

\* The first section: the register write points at a buffer whose flags are clear.
LEMMA HalfBeginGood ==
  ASSUME Known, RegistersInFlight, GoodInv, HalfBegin
  PROVE  GoodInv'
<1>0. /\ TypeOK /\ OnePlace /\ zc \in ZcStates /\ res \in [Bufs -> Results]
      /\ Top # Bottom /\ Pairs = {Top, Bottom} /\ Null \notin Bufs
  BY CaptureAssumption DEF Known, TypeOK, Pairs, Top, Bottom
<1> PICK z \in ZcStates, p \in Pairs, b \in BufOrNull, inTime \in BOOLEAN : HalfWay(z, p, b, inTime)
  BY <1>0, HalfBeginWay
<1>1. ~thr.busy /\ HalfSet(zc, z, p, b, inTime) /\ InZc(z) = InZc(zc) \cup ({b} \ {Null}) /\ Parts(z)
  BY DEF HalfWay
<1>2. p = Top => b \notin InZc(zc)
  BY <1>0 DEF HalfWay
<1>3. p = Bottom => b = zc.next
  BY <1>0 DEF HalfWay
<1>4. \A q \in Pairs : zc.prog[q] # Null => zc.prog[q] \in InZc(zc)
  BY DEF RegistersInFlight
<1>5. b # Null => b # zc.prog[p] /\ b \in Bufs /\ \A q \in Pairs : ~zc.away[b][q]
  <2> SUFFICES ASSUME b # Null PROVE b # zc.prog[p] /\ b \in Bufs /\ \A q \in Pairs : ~zc.away[b][q]
    OBVIOUS
  <2>0. b \in Bufs
    BY DEF BufOrNull
  <2>1. CASE p = Top
    BY <1>2, <1>4, <2>0, <2>1 DEF GoodInv, AwayInFlight
  <2>2. CASE p = Bottom
    BY <1>1, <1>3, <2>0, <2>2 DEF GoodInv, AwayInFlight, BottomOf
  <2> QED  BY <1>0, <2>1, <2>2
<1>6. AwayInTime(z)
  <2> SUFFICES ASSUME NEW x \in Bufs, NEW q \in Pairs, z.away[x][q]
               PROVE  z.need[x][q] = 0 /\ z.prog[q] # x
    BY DEF AwayInTime
  <2>1. /\ z.need[x][q] = IF q = p THEN (IF x = zc.prog[p] THEN Await(inTime) ELSE 0)
                          ELSE zc.need[x][q]
        /\ z.away[x][q] = IF x = zc.prog[p] /\ q = p THEN inTime ELSE zc.away[x][q]
        /\ z.prog[q] = IF q = p THEN b ELSE zc.prog[q]
    BY <1>1 DEF HalfSet
  <2>2. zc.away[x][q] => zc.need[x][q] = 0 /\ zc.prog[q] # x
    BY DEF GoodInv, AwayInTime
  <2>3. CASE q # p
    BY <2>1, <2>2, <2>3
  <2>4. CASE q = p /\ x = zc.prog[p]
    <3>1. inTime
      BY <2>1, <2>4
    <3> QED  BY <1>0, <1>5, <2>1, <2>4, <3>1 DEF Await
  <2>5. CASE q = p /\ x # zc.prog[p]
    <3>1. zc.away[x][q]
      BY <2>1, <2>5
    <3> QED  BY <1>0, <1>5, <2>1, <2>5, <3>1
  <2> QED  BY <2>3, <2>4, <2>5
<1>7. AwayInFlight(z) /\ \A q \in Pairs : z.next # Null => ~z.away[z.next][q]
  <2>1. ASSUME NEW x \in Bufs, x \notin InZc(zc) \/ x = b, NEW q \in Pairs PROVE ~z.away[x][q]
    <3>1. z.away[x][q] = IF x = zc.prog[p] /\ q = p THEN inTime ELSE zc.away[x][q]
      BY <1>1 DEF HalfSet
    <3>2. ~zc.away[x][q]
      BY <1>0, <1>5, <2>1 DEF GoodInv, AwayInFlight
    <3>3. x # zc.prog[p]
      BY <1>0, <1>4, <1>5, <2>1
    <3> QED  BY <3>1, <3>2, <3>3
  <2>2. z.next = b
    BY <1>1 DEF HalfSet
  <2> QED  BY <1>1, <1>5, <2>1, <2>2 DEF AwayInFlight
<1>8. GoodFramesLeaveAtOnce
  BY DEF GoodInv
<1>9. ASSUME NEW x \in zc.rel \cup {zc.cur, zc.next}, x # Null
      PROVE  x \in Bufs /\ x \notin HeldBufs /\ \A c \in Ctxs : x \notin queue[c]
  <2>1. x \in Bufs /\ x \in InZc(zc)
    BY <1>0, <1>9 DEF ZcStates, BufOrNull, InZc
  <2> QED  BY <1>0, <2>1 DEF OnePlace
<1>10. CASE p = Top
  <2>1. /\ z.prog[Bottom] = zc.prog[Bottom] /\ z.next = b /\ z.cur = zc.cur
        /\ z.rel = zc.rel \cup ({zc.next} \ {Null})
    BY <1>0, <1>1, <1>10 DEF HalfSet
  <2>2. BottomOf(z, FALSE)
    BY <1>0, <1>2, <1>4, <1>10, <2>1 DEF BottomOf
  <2>3. CASE \E m : StaleTop(z, m, b)
    <3>1. zc' = z /\ res' = Failed({zc.next}, {}) /\ thr' = thr
      BY <2>3 DEF StaleTop
    <3>2. GoodFramesLeaveAtOnce'
      <4> SUFFICES ASSUME NEW x \in z.rel PROVE Failed({zc.next}, {})[x] = "error"
        BY <3>1 DEF GoodFramesLeaveAtOnce
      <4>1. x \in Bufs /\ (x \in zc.rel \/ x = zc.next)
        BY <2>1 DEF ZcStates
      <4>2. x = zc.next \/ res[x] = "error"
        BY <1>8, <4>1 DEF GoodFramesLeaveAtOnce
      <4> QED  BY <4>1, <4>2, FailedWaits
    <3> QED  BY <1>1, <1>6, <1>7, <2>2, <3>1, <3>2 DEF GoodInv, BottomOf
  <2>4. CASE \E m, ts, hdcp : TopBegin(z, m, b, ts, hdcp)
    <3> DEFINE skip == IF zc.cur = Null THEN Null ELSE Owner[zc.cur]
               q == QueueWithout(queue, {b})
               ahd == IF frame.done THEN NextSeq(ahead) ELSE ahead
               twice == HeldTwice(skip)
    <3> PICK m, ts, hdcp : TopBegin(z, m, b, ts, hdcp)
      BY <2>4
    <3>1. /\ zc' = z /\ thr'.busy /\ thr'.pair = Top /\ thr'.zf = zc.cur
          /\ \E t \in HoldChoices(q, skip, ahd) :
               res' = Failed({zc.next}, twice \cup (Image(t) \cap SmallBufs))
      BY DEF TopBegin
    <3> PICK t \in HoldChoices(q, skip, ahd) :
               res' = Failed({zc.next}, twice \cup (Image(t) \cap SmallBufs))
      BY <3>1
    <3>2. q \in [Ctxs -> SUBSET Bufs] /\ \A c \in Ctxs : q[c] \subseteq queue[c]
      BY <1>0 DEF TypeOK, QueueWithout
    <3> HIDE DEF q, ahd
    <3>3. Image(t) \subseteq UNION {q[c] : c \in Ctxs}
      <4> HIDE DEF skip
      <4> QED  BY <1>0, <3>2, HoldPlaces
    <3>4. Image(t) \subseteq UNION {queue[c] : c \in Ctxs}
      BY <3>2, <3>3
    <3>5. twice \subseteq HeldBufs
      <4>1. zc.cur # Null => Owner[zc.cur] \in Ctxs
        BY <1>0, CaptureAssumption DEF ZcStates, BufOrNull
      <4> QED  BY <4>1 DEF HeldTwice, HeldBufs
    <3> HIDE DEF twice, skip
    <3>6. GoodFramesLeaveAtOnce'
      <4> DEFINE back == twice \cup (Image(t) \cap SmallBufs)
      <4> SUFFICES ASSUME NEW x \in z.rel PROVE Failed({zc.next}, back)[x] = "error"
        BY <3>1 DEF GoodFramesLeaveAtOnce
      <4>1. x \in Bufs /\ x # Null /\ (x \in zc.rel \/ x = zc.next)
        BY <1>0, <2>1 DEF ZcStates
      <4>2. x = zc.next \/ res[x] = "error"
        BY <1>8, <4>1 DEF GoodFramesLeaveAtOnce
      <4>3. x \notin back
        BY <1>9, <3>4, <3>5, <4>1
      <4> HIDE DEF back
      <4> QED  BY <4>1, <4>2, <4>3, FailedWaits
    <3> QED  BY <1>6, <1>7, <2>1, <2>2, <3>1, <3>6 DEF GoodInv, BottomOf
  <2> QED  BY <1>0, <1>10, <2>3, <2>4 DEF HalfWay
<1>11. CASE p = Bottom
  <2>1. z.next = zc.next /\ z.cur = zc.cur /\ z.rel = zc.rel
    BY <1>0, <1>1, <1>3, <1>11 DEF HalfSet
  <2>2. CASE \E m, ts, hdcp : BottomBegin(z, m, ts, hdcp)
    <3>1. zc' = z /\ res' = res /\ thr'.busy /\ thr'.pair = Bottom /\ thr'.zf = zc.cur
      BY <2>2 DEF BottomBegin
    <3> QED  BY <1>6, <1>7, <1>8, <2>1, <3>1 DEF GoodInv, BottomOf, GoodFramesLeaveAtOnce
  <2>3. CASE \E m, moved : EndWithoutFrame(z, m, moved)
    <3>1. /\ zc' = Release(Advance(z)) /\ res' = Failed({z.cur}, Releasable(Advance(z)))
          /\ thr' = thr
      BY <2>3 DEF EndWithoutFrame
    <3>2. /\ AwayInTime(zc') /\ AwayInFlight(zc') /\ zc'.next = Null
          /\ zc'.rel = (z.rel \cup ({z.cur} \ {Null})) \ Releasable(Advance(z))
      BY <1>1, <1>6, <1>7, <3>1, FrameEndGood
    <3>3. GoodFramesLeaveAtOnce'
      <4> SUFFICES ASSUME NEW x \in zc'.rel PROVE Failed({z.cur}, Releasable(Advance(z)))[x] = "error"
        BY <3>1 DEF GoodFramesLeaveAtOnce
      <4>1. x \in zc.rel \/ (x = zc.cur /\ x # Null)
        BY <2>1, <3>2
      <4>2. x \in Bufs /\ x \notin Releasable(Advance(z))
        BY <1>9, <3>2, <4>1, <1>0 DEF ZcStates
      <4>3. x = z.cur \/ res[x] = "error"
        BY <1>8, <2>1, <4>1 DEF GoodFramesLeaveAtOnce
      <4> QED  BY <4>2, <4>3, FailedWaits
    <3> QED  BY <1>1, <3>1, <3>2, <3>3 DEF GoodInv, BottomOf
  <2> QED  BY <1>0, <1>11, <2>2, <2>3 DEF HalfWay
<1> QED  BY <1>0, <1>10, <1>11

\* The second section: a frame good for the zero-copy consumer is releasable.
LEMMA BottomEndGood ==
  ASSUME Known, GoodInv, BottomEnd
  PROVE  GoodInv'
<1>0. /\ TypeOK /\ OnePlace /\ zc \in ZcStates /\ Null \notin Bufs /\ thr.busy /\ thr.zf = zc.cur
      /\ thr' = Idle /\ GoodFramesLeaveAtOnce
  BY CaptureAssumption DEF Known, TypeOK, BottomEnd, GoodInv
<1> PICK z \in ZcStates, got \in SUBSET Bufs : FrameWay(z, got)
  BY <1>0, BottomEndWay
<1>1. /\ z.cur = zc.cur /\ z.next = zc.next /\ z.rel = zc.rel /\ z.prog = zc.prog
      /\ z.need = zc.need /\ z.away = zc.away
      /\ zc' = Release(Advance(z))
  BY DEF FrameWay
<1>2. Parts(z) /\ AwayInTime(z) /\ AwayInFlight(z)
  BY <1>0, <1>1 DEF OnePlace, Parts, GoodInv, AwayInTime, AwayInFlight, InZc
<1>3. /\ AwayInTime(zc') /\ AwayInFlight(zc') /\ zc'.next = Null
      /\ zc'.rel = (zc.rel \cup ({zc.cur} \ {Null})) \ Releasable(Advance(z))
      /\ \A b \in zc'.rel : b \notin zc.rel => ~ \A p \in Pairs : zc.away[b][p]
  BY <1>1, <1>2, FrameEndGood
<1>4. ASSUME NEW x \in zc'.rel PROVE res'[x] = "error"
  <2>1. x \in Bufs /\ x \in zc.rel \cup {zc.cur} /\ x \notin Releasable(Advance(z))
    BY <1>0, <1>3 DEF ZcStates, BufOrNull
  <2>2. x \notin HeldBufs
    BY <1>0, <2>1 DEF OnePlace, InZc
  <2>3. x \notin got
    <3>1. CASE x \in zc.rel
      <4>1. x # thr.zf
        BY <1>0, <2>1, <3>1 DEF OnePlace
      <4> QED  BY <2>2, <4>1 DEF FrameWay
    <3>2. CASE x \notin zc.rel
      <4>1. ~InTimeThroughout(zc, x) /\ x = thr.zf
        BY <1>0, <1>3, <2>1, <3>2 DEF InTimeThroughout
      <4> QED  BY <2>2, <4>1 DEF FrameWay
    <3> QED  BY <3>1, <3>2
  <2>4. x = thr.zf \/ res[x] = "error"
    BY <1>0, <2>1 DEF GoodFramesLeaveAtOnce
  <2> DEFINE back == HeldBufs \cup Releasable(Advance(z))
  <2>5. res'[x] = Failed({thr.zf}, back)[x]
    BY <2>1, <2>3 DEF FrameWay
  <2>6. x \notin back
    BY <2>1, <2>2
  <2> HIDE DEF back
  <2> QED  BY <2>1, <2>4, <2>5, <2>6, FailedWaits
<1> QED  BY <1>0, <1>3, <1>4 DEF GoodInv, BottomOf, GoodFramesLeaveAtOnce, Idle

\* hws_zc_stop(): all frames in flight failed.
LEMMA TakeBackGood ==
  ASSUME Known, GoodInv, ~thr.busy, UNCHANGED thr, NEW stopped \in BOOLEAN,
         zc' = ZcStop(zc, stopped), NEW back, NEW S,
         \A b \in InZc(zc) \ ZcStopBack(zc, stopped) : b \notin back,
         {zc.cur, zc.next} \ {Null} \subseteq S,
         \A b \in zc'.rel : res'[b] = Failed(S, back)[b]
  PROVE  GoodInv'
<1>0. zc \in ZcStates /\ Null \notin Bufs /\ GoodFramesLeaveAtOnce
  BY CaptureAssumption DEF Known, TypeOK, GoodInv
<1> DEFINE out == ZcStopBack(zc, stopped)
<1>1. /\ zc'.cur = Null /\ zc'.next = Null
      /\ \A p \in Pairs : zc'.prog[p] = Null
      /\ out \subseteq InZc(zc) /\ zc'.rel = InZc(zc) \ out /\ InZc(zc') = InZc(zc) \ out
      /\ stopped => out = InZc(zc)
      /\ \A x \in Bufs, p \in Pairs : zc'.away[x][p] => zc.away[x][p] /\ zc.prog[p] # x /\ x \notin out
      /\ ~stopped => \A x \in Bufs, p \in Pairs :
                       /\ zc'.need[x][p] = IF zc.prog[p] = x THEN 1 ELSE zc.need[x][p]
                       /\ zc'.need[x][p] = 1 => x \notin out
  BY <1>0, ZcStopFlags
<1> HIDE DEF out
<1>2. AwayInFlight(zc')
  BY <1>1 DEF GoodInv, AwayInFlight
<1>3. ASSUME NEW x \in Bufs, NEW p \in Pairs, zc'.away[x][p]
      PROVE  zc'.need[x][p] = 0 /\ zc'.prog[p] # x
  <2>1. zc.away[x][p] /\ zc.prog[p] # x /\ x \notin out
    BY <1>1, <1>3
  <2>2. x \in InZc(zc) /\ zc.need[x][p] = 0
    BY <2>1 DEF GoodInv, AwayInFlight, AwayInTime
  <2>3. ~stopped
    BY <1>1, <2>1, <2>2
  <2> QED  BY <1>0, <1>1, <2>1, <2>2, <2>3
<1>4. ASSUME NEW x \in zc'.rel PROVE res'[x] = "error"
  <2>1. x \in InZc(zc) /\ x \notin out
    BY <1>1, <1>4
  <2>2. x \in Bufs /\ x \notin back
    BY <1>0, <2>1 DEF out, InZc, ZcStates, BufOrNull
  <2>3. x \in S \/ res[x] = "error"
    BY <1>0, <2>1 DEF InZc, GoodFramesLeaveAtOnce
  <2> QED  BY <1>4, <2>2, <2>3, FailedWaits
<1> QED  BY <1>1, <1>2, <1>3, <1>4 DEF GoodInv, AwayInTime, BottomOf, GoodFramesLeaveAtOnce

\* hws_deliver_no_video() fails no frame that waits for the card.
LEMMA DeliverKeeps ==
  ASSUME TypeOK, OnePlace, NEW out, NEW pics, DeliverNoVideo(out, pics)
  PROVE  \E small : /\ small \cap InZc(zc) = {}
                    /\ \A b \in InZc(zc) :
                         res'[b] = Failed({zc.cur, zc.next} \ {zc'.cur, zc'.next}, small \cup out)[b]
<1> PICK t \in HoldChoices(queue, Null, ahead) :
      res' = [b \in Bufs |-> IF b \in HeldBufs \cup (Image(t) \ SmallBufs) THEN Verdict(pic, b, TRUE)
                             ELSE Failed({zc.cur, zc.next} \ {zc'.cur, zc'.next},
                                         (Image(t) \cap SmallBufs) \cup out)[b]]
  BY DEF DeliverNoVideo
<1>1. Image(t) \subseteq UNION {queue[c] : c \in Ctxs}
  BY HoldPlaces DEF TypeOK
<1>2. (HeldBufs \cup Image(t)) \cap InZc(zc) = {}
  BY <1>1 DEF OnePlace
<1>3. InZc(zc) \subseteq Bufs
  BY DEF TypeOK, ZcStates, InZc, BufOrNull
<1> DEFINE small == Image(t) \cap SmallBufs
<1>4. small \cap InZc(zc) = {}
  BY <1>2
<1>5. ASSUME NEW b \in InZc(zc)
      PROVE  res'[b] = Failed({zc.cur, zc.next} \ {zc'.cur, zc'.next}, small \cup out)[b]
  BY <1>2, <1>3, <1>5
<1> QED  BY <1>4, <1>5

\* Any step that leaves the zero-copy state alone and fails no buffer of it.
LEMMA KeepsGood ==
  ASSUME TypeOK, GoodInv, zc' = zc, UNCHANGED thr \/ (~thr'.busy /\ (thr.busy => thr.pair = Top))
           \/ (/\ thr'.busy = thr.busy /\ thr'.pair = thr.pair /\ thr'.zf = thr.zf),
         \A b \in zc.rel : res'[b] = res[b]
  PROVE  GoodInv'
BY DEF GoodInv, BottomOf, GoodFramesLeaveAtOnce, Top, Bottom

\* Each step keeps the flags and fails what it leaves waiting.
LEMMA NextGood == Known /\ RegistersInFlight /\ GoodInv /\ [Next]_vars => GoodInv'
<1> SUFFICES ASSUME Known, RegistersInFlight, GoodInv, [Next]_vars PROVE GoodInv'
  OBVIOUS
<1>0. /\ TypeOK /\ OnePlace /\ zc \in ZcStates /\ started \in BOOLEAN /\ res \in [Bufs -> Results]
      /\ zc.rel \subseteq InZc(zc) /\ zc.rel \subseteq Bufs
  BY CaptureAssumption DEF Known, TypeOK, InZc, ZcStates
<1>1. CASE CardHalfDone
  <2>1. /\ zc' = zc /\ res' = res
        /\ thr' = IF ~thr.busy THEN thr ELSE
               [thr EXCEPT !.ts = Older(@), !.src = IF card.pair = Bottom THEN Older(@) ELSE @]
    BY <1>1 DEF CardHalfDone
  <2>2. thr'.busy = thr.busy /\ thr'.pair = thr.pair /\ thr'.zf = thr.zf
    BY <1>0, <2>1 DEF TypeOK, Copies
  <2> QED  BY <1>0, <2>1, <2>2, KeepsGood
<1>2. CASE CardLoses \/ IrqHandler \/ IrqAcknowledge \/ ThreadSkips \/ Resume
  BY <1>0, <1>2, KeepsGood DEF CardLoses, IrqHandler, IrqAcknowledge, ThreadSkips, Resume
<1>3. CASE TopEnd
  BY <1>0, <1>3, KeepsGood DEF TopEnd, Idle
<1>4. CASE HalfBegin
  BY <1>4, HalfBeginGood
<1>5. CASE BottomEnd
  BY <1>5, BottomEndGood
<1>6. CASE StatusFindsLoss \/ StatusFindsCapture \/ PollSame
  BY <1>0, <1>6, KeepsGood DEF StatusFindsLoss, StatusFindsCapture, PollSame
<1>7. ASSUME ~thr.busy, UNCHANGED thr, \E s \in BOOLEAN : \E pics : TakeBackZc(s, pics) PROVE GoodInv'
  <2>1. PICK s \in BOOLEAN : /\ zc' = ZcStop(zc, s)
                             /\ res' = Failed({zc.cur, zc.next}, ZcStopBack(zc, s))
    BY <1>7 DEF TakeBackZc
  <2> DEFINE back == ZcStopBack(zc, s)
             S == {zc.cur, zc.next}
  <2>2. \A b \in InZc(zc) \ ZcStopBack(zc, s) : b \notin back
    OBVIOUS
  <2>3. {zc.cur, zc.next} \ {Null} \subseteq S /\ \A b \in zc'.rel : res'[b] = Failed(S, back)[b]
    BY <2>1
  <2> HIDE DEF back, S
  <2> QED  BY <1>7, <2>1, <2>2, <2>3, TakeBackGood
<1>8. CASE PollResize \/ Reinit
  BY <1>0, <1>7, <1>8 DEF PollResize, Reinit, StatusTurn
<1>9. CASE PollNoVideo
  <2>1. CASE ~started
    BY <1>0, <1>9, <2>1, KeepsGood DEF PollNoVideo
  <2>2. CASE started
    <3>1. zc' = zc /\ DeliverNoVideo({}, pic) /\ UNCHANGED thr
      BY <1>9, <2>2 DEF PollNoVideo
    <3>2. PICK small : /\ small \cap InZc(zc) = {}
                       /\ \A b \in InZc(zc) :
                            res'[b] = Failed({zc.cur, zc.next} \ {zc'.cur, zc'.next}, small \cup {})[b]
      BY <1>0, <3>1, DeliverKeeps
    <3>3. \A b \in zc.rel : res'[b] = res[b]
      BY <1>0, <3>1, <3>2 DEF Failed
    <3> QED  BY <1>0, <3>1, <3>3, KeepsGood
  <2> QED  BY <2>1, <2>2, <1>0
<1>10. CASE PollBadSize
  <2>1. CASE ~started
    BY <1>0, <1>7, <1>10, <2>1 DEF PollBadSize, StatusTurn
  <2>2. CASE started
    <3> DEFINE out == ZcStopBack(zc, TRUE)
               S == {zc.cur, zc.next} \ {zc'.cur, zc'.next}
    <3>1. zc' = ZcStop(zc, TRUE) /\ DeliverNoVideo(out, RestartPics) /\ UNCHANGED thr /\ ~thr.busy
      BY <1>10, <2>2 DEF PollBadSize, StatusTurn
    <3>2. zc'.cur = Null /\ zc'.next = Null /\ zc'.rel \subseteq InZc(zc)
      <4>1. TRUE \in BOOLEAN /\ zc \in ZcStates /\ zc' = ZcStop(zc, TRUE)
        BY <1>0, <3>1
      <4>2. /\ zc'.cur = Null /\ zc'.next = Null
            /\ zc'.rel = InZc(zc) \ out
        <5> HIDE DEF out, S
        <5> QED  BY <4>1, ZcStopFlags DEF out
      <4> QED  BY <4>2
    <3>3. PICK small : /\ small \cap InZc(zc) = {}
                       /\ \A b \in InZc(zc) : res'[b] = Failed(S, small \cup out)[b]
      <4> HIDE DEF out
      <4> QED  BY <1>0, <3>1, DeliverKeeps
    <3> DEFINE back == small \cup out
    <3>4. \A b \in InZc(zc) \ ZcStopBack(zc, TRUE) : b \notin back
      BY <3>3
    <3>5. {zc.cur, zc.next} \ {Null} \subseteq S /\ \A b \in zc'.rel : res'[b] = Failed(S, back)[b]
      BY <3>2, <3>3
    <3> HIDE DEF back, S, out
    <3> QED  BY <3>1, <3>4, <3>5, TakeBackGood
  <2> QED  BY <2>1, <2>2, <1>0
<1>11. ASSUME NEW b \in Bufs, QBuf(b) PROVE GoodInv'
  <2>1. b \in app /\ zc' = zc /\ thr' = thr /\ res' = [res EXCEPT ![b] = "ok"]
    BY <1>11 DEF QBuf
  <2>2. \A x \in zc.rel : x # b
    BY <1>0, <2>1 DEF OnePlace
  <2> QED  BY <1>0, <2>1, <2>2, KeepsGood
<1>12. ASSUME NEW c \in Ctxs, StreamOn(c) \/ JoinEngine(c) \/ StopWaited(c) \/ StopTimesOut(c) \/ StopTimeout(c) \/ StopEngine(c)
       PROVE GoodInv'
  BY <1>0, <1>12, KeepsGood DEF StreamOn, JoinEngine, StopWaited, StopTimesOut, StopTimeout, StopEngine
<1>13. ASSUME NEW c \in Ctxs, StartEngine(c) PROVE GoodInv'
  BY <1>7, <1>13 DEF StartEngine
<1>14. ASSUME NEW c \in Ctxs, StreamOff(c) PROVE GoodInv'
  <2>1. zc' = zc /\ thr' = thr /\ res' = Failed({}, queue[c])
    BY <1>14 DEF StreamOff
  <2>2. \A x \in zc.rel : x \notin queue[c]
    BY <1>0 DEF OnePlace
  <2>3. \A x \in zc.rel : res'[x] = res[x]
    BY <1>0, <2>1, <2>2 DEF Failed
  <2> QED  BY <1>0, <2>1, <2>3, KeepsGood
<1>15. ASSUME NEW c \in Ctxs, StopTakeBack(c) PROVE GoodInv'
  <2> DEFINE mine == zc.ctx = c
             S == IF mine THEN {zc.cur, zc.next} ELSE {}
             back == ({held[c]} \ {Null}) \cup (IF mine THEN ZcStopBack(zc, FALSE) ELSE {})
  <2>1. /\ ~thr.busy /\ thr' = thr /\ res' = Failed(S, back)
        /\ zc' = IF mine THEN ZcStop(zc, FALSE) ELSE zc
    BY <1>15 DEF StopTakeBack
  <2>2. \A x \in InZc(zc) : x \notin {held[c]} \ {Null}
    BY <1>0 DEF OnePlace, HeldBufs
  <2>3. CASE mine
    <3>1. \A b \in InZc(zc) \ ZcStopBack(zc, FALSE) : b \notin back
      BY <2>2, <2>3
    <3>2. {zc.cur, zc.next} \ {Null} \subseteq S /\ \A b \in zc'.rel : res'[b] = Failed(S, back)[b]
      BY <2>1, <2>3
    <3> HIDE DEF back, S
    <3> QED  BY <2>1, <2>3, <3>1, <3>2, TakeBackGood
  <2>4. CASE ~mine
    <3>1. \A x \in zc.rel : res'[x] = res[x]
      BY <1>0, <2>1, <2>2, <2>4 DEF Failed
    <3> QED  BY <1>0, <2>1, <2>4, <3>1, KeepsGood
  <2> QED  BY <2>3, <2>4
<1>16. ASSUME NEW c \in Ctxs, StopForce(c) PROVE GoodInv'
  BY <1>7, <1>16 DEF StopForce
<1>17. CASE Suspend
  BY <1>7, <1>17 DEF Suspend
<1>18. CASE UNCHANGED vars
  BY <1>0, <1>18, KeepsGood DEF vars
<1> QED  BY <1>1, <1>2, <1>3, <1>4, <1>5, <1>6, <1>8, <1>9, <1>10, <1>11, <1>12, <1>13, <1>14, <1>15,
            <1>16, <1>17, <1>18 DEF Next, Thread, HalfEnd, Status, StopSteps

\* At the start nothing is in flight and no flag is set.
LEMMA InitGood == Init => GoodInv
BY DEF Init, GoodInv, AwayInTime, AwayInFlight, BottomOf, GoodFramesLeaveAtOnce, Idle, False2

\* hws_zc_frame_end() and hws_zc_release(): what waits on zc_release has failed,
\* whatever the card, the input and the applications do.
THEOREM GoodFramesLeave == Spec => []GoodFramesLeaveAtOnce
<1>1. GoodInv => GoodFramesLeaveAtOnce
  BY DEF GoodInv
<1> QED  BY <1>1, KnownAlways, RegistersSafe, InitGood, NextGood, PTL DEF Spec

-----------------------------------------------------------------------------
(* What the card writes while the driver gives buffers back.               *)

\* The IRQ thread keeps up: it took the last event before the card completes
\* another half.  Nothing in the code enforces it.
NeverBehind == [][CardHalfDone => fifo = <<>>]_vars

\* d, which the card may be writing as pair p, stays: its register is there, or
\* zc_free_after asks for one more half of that pair.
Kept(z, d, p) == d = z.prog[p] \/ (d \in InZc(z) /\ z.need[d][p] = 1)

\* With RegistersInFlight this is inductive: the events on their way are those
\* of the pair the card is not writing.
CardInv ==
  started /\ ~lost /\ card.dst # Null =>
    /\ Kept(zc, card.dst, card.pair)
    /\ card.toggle = Other(card.pair)
    /\ \A i \in DOMAIN fifo : fifo[i].pair = card.toggle

\* hws_zc_release() keeps it.
LEMMA FrameEndKeeps ==
  ASSUME NEW z \in ZcStates, Parts(z), NEW d \in Bufs, NEW p \in Pairs, Kept(z, d, p)
  PROVE  Kept(Release(Advance(z)), d, p)
<1> DEFINE done == Release(Advance(z))
           out == Releasable(Advance(z))
<1>1. /\ done.prog = z.prog /\ done.need = z.need
      /\ out = {b \in z.rel \cup ({z.cur} \ {Null}) :
                  /\ \A q \in Pairs : z.prog[q] # b
                  /\ z.need[b] = Zero2}
  BY FrameEndFlags
<1>2. InZc(done) = InZc(z) \ out
  BY FrameEndPlaces
<1> HIDE DEF done, out
<1>3. z.need[d][p] = 1 => d \notin out
  BY <1>1 DEF Zero2
<1> QED  BY <1>1, <1>2, <1>3 DEF Kept, done

\* The event of one pair takes nothing from what the card writes as the other.
LEMMA HalfBeginKeeps ==
  ASSUME TypeOK, OnePlace, RegistersInFlight, CardInv, HalfBegin
  PROVE  CardInv'
<1> SUFFICES ASSUME started, ~lost, card.dst # Null PROVE CardInv'
  BY DEF HalfBegin, cardVars, CardInv
<1>0. /\ zc \in ZcStates /\ card.dst \in Bufs /\ card.pair \in Pairs
      /\ Top # Bottom /\ Pairs = {Top, Bottom}
      /\ UNCHANGED <<card, started, lost>>
  BY DEF TypeOK, BufOrNull, HalfBegin, cardVars, Pairs, Top, Bottom
<1> PICK z \in ZcStates, p \in Pairs, b \in BufOrNull, inTime \in BOOLEAN : HalfWay(z, p, b, inTime)
  BY HalfBeginWay
<1> DEFINE d == card.dst
           r == card.pair
<1>1. /\ fifo # <<>> /\ fifo \in Seq(Events) /\ p = Head(fifo).pair /\ fifo' = Tail(fifo)
      /\ HalfSet(zc, z, p, b, inTime) /\ InZc(z) = InZc(zc) \cup ({b} \ {Null}) /\ Parts(z)
  BY DEF HalfWay, TypeOK
<1>2. Kept(zc, d, r) /\ card.toggle = Other(r) /\ \A i \in DOMAIN fifo : fifo[i].pair = card.toggle
  BY DEF CardInv
<1>3. p = Other(r) /\ p # r
  <2>1. 1 \in DOMAIN fifo /\ Head(fifo) = fifo[1]
    BY <1>1
  <2> QED  BY <1>0, <1>1, <1>2, <2>1 DEF Other, Pairs, Top, Bottom
<1>4. \A i \in DOMAIN fifo' : fifo'[i].pair = card.toggle
  <2>1. \A i \in DOMAIN Tail(fifo) : i + 1 \in DOMAIN fifo /\ Tail(fifo)[i] = fifo[i + 1]
    BY <1>1
  <2> QED  BY <1>1, <1>2, <2>1
<1>5. Kept(z, d, r)
  BY <1>0, <1>1, <1>2, <1>3 DEF Kept, HalfSet
<1>6. Kept(zc', d, r)
  <2>1. zc' = z \/ zc' = Release(Advance(z))
    BY DEF HalfWay, StaleTop, TopBegin, EndWithoutFrame, BottomBegin
  <2> QED  BY <1>0, <1>1, <1>5, <2>1, FrameEndKeeps
<1> QED  BY <1>0, <1>2, <1>4, <1>6 DEF CardInv

\* hws_zc_stop() with the card running: zc_free_after asks for one more half of
\* each pair it points away from a buffer.
LEMMA StopKeeps ==
  ASSUME TypeOK, RegistersInFlight, NEW d \in Bufs, NEW p \in Pairs, Kept(zc, d, p)
  PROVE  Kept(ZcStop(zc, FALSE), d, p)
<1> DEFINE done == ZcStop(zc, FALSE)
           back == ZcStopBack(zc, FALSE)
<1>1. zc \in ZcStates /\ FALSE \in BOOLEAN /\ d # Null
  BY CaptureAssumption DEF TypeOK
<1>2. /\ InZc(done) = InZc(zc) \ back
      /\ \A x \in Bufs, q \in Pairs :
           /\ done.need[x][q] = IF zc.prog[q] = x THEN 1 ELSE zc.need[x][q]
           /\ done.need[x][q] = 1 => x \notin back
  <2> HIDE DEF done, back
  <2> QED  BY <1>1, ZcStopFlags DEF done, back
<1> HIDE DEF done, back
<1>3. d \in InZc(zc)
  BY <1>1 DEF Kept, RegistersInFlight
<1>4. done.need[d][p] = 1
  BY <1>2 DEF Kept
<1> QED  BY <1>2, <1>3, <1>4 DEF Kept, done

\* A start of the card is into the DMA buffers: every register is at them.
LEMMA StartWritesDma ==
  ASSUME TypeOK, NEW stopped \in BOOLEAN, card' = StartCard(ZcStop(zc, stopped))
  PROVE  card'.dst = Null
<1>1. Top \in Pairs /\ zc \in ZcStates
  BY DEF Top, Pairs, TypeOK
<1>2. ZcStop(zc, stopped).prog[Top] = Null
  BY <1>1, ZcStopEmpties
<1> QED  BY <1>2 DEF StartCard, TypeOK

\* Each step keeps the run in flight.
LEMMA NextCard ==
  Known /\ RegistersInFlight /\ CardInv /\ [Next]_vars /\ (CardHalfDone => fifo = <<>>) => CardInv'
<1> SUFFICES ASSUME Known, RegistersInFlight, CardInv, [Next]_vars, CardHalfDone => fifo = <<>>
             PROVE  CardInv'
  OBVIOUS
<1>0. /\ TypeOK /\ OnePlace /\ zc \in ZcStates /\ started \in BOOLEAN /\ lost \in BOOLEAN
      /\ card \in [pair : Pairs, dst : BufOrNull, toggle : Pairs]
      /\ fifo \in Seq(Events) /\ Pairs = {Top, Bottom}
  BY DEF Known, TypeOK, Pairs
<1>1. CASE CardHalfDone
  <2>1. /\ fifo = <<>> /\ fifo' = [i \in DOMAIN fifo |-> [fifo[i] EXCEPT !.ts = Older(@)]]
        /\ card' = [pair |-> Other(card.pair), dst |-> zc.prog[Other(card.pair)], toggle |-> card.pair]
        /\ zc' = zc
    BY <1>1 DEF CardHalfDone
  <2>2. DOMAIN fifo' = {}
    BY <2>1
  <2>3. card.pair = Other(Other(card.pair))
    BY <1>0 DEF Pairs, Top, Bottom, Other
  <2> QED  BY <2>1, <2>2, <2>3 DEF CardInv, Kept
<1>2. CASE IrqHandler
  <2>1. /\ UNCHANGED <<started, lost, card, zc>>
        /\ fifo' = fifo \/ fifo' = Append(fifo, [pair |-> card.toggle, ts |-> 0])
    BY <1>2 DEF IrqHandler
  <2>2. CASE fifo' = fifo
    BY <2>1, <2>2 DEF CardInv
  <2>3. CASE fifo' = Append(fifo, [pair |-> card.toggle, ts |-> 0])
    <3> DEFINE e == [pair |-> card.toggle, ts |-> 0]
    <3>1. \A i \in DOMAIN Append(fifo, e) :
            (i \in DOMAIN fifo /\ Append(fifo, e)[i] = fifo[i]) \/ Append(fifo, e)[i] = e
      <4>1. Len(fifo) \in Nat /\ DOMAIN fifo = 1 .. Len(fifo)
            /\ DOMAIN Append(fifo, e) = 1 .. (Len(fifo) + 1)
        BY <1>0
      <4>2. \A i \in 1 .. Len(fifo) : Append(fifo, e)[i] = fifo[i]
        BY <1>0
      <4>3. Append(fifo, e)[Len(fifo) + 1] = e
        BY <1>0
      <4>4. \A i \in 1 .. (Len(fifo) + 1) : i \in 1 .. Len(fifo) \/ i = Len(fifo) + 1
        BY <4>1
      <4> QED  BY <4>1, <4>2, <4>3, <4>4
    <3>2. e.pair = card.toggle
      OBVIOUS
    <3> HIDE DEF e
    <3> QED  BY <2>1, <2>3, <3>1, <3>2 DEF CardInv, e
  <2> QED  BY <2>1, <2>2, <2>3
<1>3. CASE ThreadSkips
  <2>1. /\ UNCHANGED <<started, lost, card, zc>> /\ fifo' = Tail(fifo) /\ fifo # <<>>
    BY <1>3 DEF ThreadSkips, cardVars
  <2>2. \A i \in DOMAIN Tail(fifo) : i + 1 \in DOMAIN fifo /\ Tail(fifo)[i] = fifo[i + 1]
    BY <1>0, <2>1
  <2> QED  BY <2>1, <2>2 DEF CardInv
<1>4. ASSUME UNCHANGED <<card, zc, fifo>>, started' => started, ~lost' => ~lost PROVE CardInv'
  BY <1>4 DEF CardInv
<1>5. CASE CardLoses \/ IrqAcknowledge \/ TopEnd
  BY <1>4, <1>5 DEF CardLoses, IrqAcknowledge, TopEnd, cardVars
<1>6. CASE HalfBegin
  BY <1>0, <1>6, HalfBeginKeeps
<1>7. CASE BottomEnd
  <2> PICK z \in ZcStates, got \in SUBSET Bufs : FrameWay(z, got)
    BY <1>0, <1>7, BottomEndWay
  <2>1. z.prog = zc.prog /\ z.need = zc.need /\ InZc(z) = InZc(zc) /\ Parts(z)
    BY <1>0 DEF FrameWay, InZc, OnePlace, Parts
  <2>2. UNCHANGED <<started, lost, card, fifo>> /\ zc' = Release(Advance(z))
    BY <1>7 DEF BottomEnd, cardVars, FrameWay
  <2>3. ASSUME NEW d \in Bufs, NEW p \in Pairs, Kept(zc, d, p) PROVE Kept(zc', d, p)
    <3>1. Kept(z, d, p)
      BY <2>1, <2>3 DEF Kept
    <3> QED  BY <2>1, <2>2, <3>1, FrameEndKeeps
  <2>4. card.dst # Null => card.dst \in Bufs
    BY <1>0 DEF BufOrNull
  <2> QED  BY <1>0, <2>2, <2>3, <2>4 DEF CardInv
<1>8. CASE StatusFindsLoss \/ StatusFindsCapture \/ PollSame
  BY <1>4, <1>8 DEF StatusFindsLoss, StatusFindsCapture, PollSame, cardVars
<1>9. CASE PollNoVideo
  <2>1. zc' = zc /\ UNCHANGED <<started, lost, card, fifo>>
    BY <1>9 DEF PollNoVideo, cardVars
  <2> QED  BY <1>4, <2>1
<1>10. ASSUME NEW s \in BOOLEAN, card' = StartCard(ZcStop(zc, s)) PROVE CardInv'
  BY <1>0, <1>10, StartWritesDma DEF CardInv
<1>11. CASE PollResize \/ PollBadSize \/ Reinit
  <2>1. PICK s \in BOOLEAN : zc' = ZcStop(zc, s)
    BY <1>0, <1>11 DEF PollResize, PollBadSize, Reinit, TakeBackZc
  <2>2. CASE started
    <3>1. card' = StartCard(zc')
      BY <1>11, <2>2 DEF PollResize, PollBadSize, Reinit, Restart
    <3> QED  BY <1>10, <2>1, <3>1
  <2>3. CASE ~started
    <3>1. ~started'
      BY <1>11, <2>3 DEF PollResize, PollBadSize, Reinit
    <3> QED  BY <3>1 DEF CardInv
  <2> QED  BY <1>0, <2>2, <2>3
<1>12. ASSUME NEW b \in Bufs, QBuf(b) PROVE CardInv'
  BY <1>4, <1>12 DEF QBuf, cardVars
<1>13. ASSUME NEW c \in Ctxs, StreamOn(c) \/ JoinEngine(c) \/ StreamOff(c) \/ StopWaited(c)
                              \/ StopTimesOut(c) \/ StopTimeout(c) \/ StopEngine(c)
       PROVE CardInv'
  BY <1>4, <1>13 DEF StreamOn, JoinEngine, StreamOff, StopWaited, StopTimesOut, StopTimeout,
                   StopEngine, cardVars
<1>14. ASSUME NEW c \in Ctxs, StartEngine(c) PROVE CardInv'
  BY <1>10, <1>14 DEF StartEngine, TakeBackZc
<1>15. ASSUME NEW c \in Ctxs, StopTakeBack(c) PROVE CardInv'
  <2>1. /\ zc' = zc \/ zc' = ZcStop(zc, FALSE)
        /\ UNCHANGED <<started, lost, card, fifo>>
    BY <1>15 DEF StopTakeBack, cardVars
  <2>2. card.dst # Null => card.dst \in Bufs
    BY <1>0 DEF BufOrNull
  <2> QED  BY <1>0, <2>1, <2>2, StopKeeps DEF CardInv
<1>16. ASSUME NEW c \in Ctxs, StopForce(c) PROVE CardInv'
  <2>1. zc' = ZcStop(zc, TRUE) /\ started' = OtherUsers /\ (OtherUsers => card' = StartCard(zc'))
    BY <1>16 DEF StopForce, TakeBackZc
  <2>2. CASE OtherUsers
    BY <1>10, <2>1, <2>2
  <2>3. CASE ~OtherUsers
    BY <2>1, <2>3 DEF CardInv
  <2> QED  BY <2>2, <2>3
<1>17. CASE Suspend
  BY <1>17 DEF Suspend, CardInv
<1>18. CASE Resume
  BY <1>18 DEF Resume, CardInv
<1>19. CASE UNCHANGED vars
  BY <1>4, <1>19 DEF vars, cardVars
<1> QED  BY <1>1, <1>2, <1>3, <1>5, <1>6, <1>7, <1>8, <1>9, <1>11, <1>12, <1>13, <1>14, <1>15,
            <1>16, <1>17, <1>18, <1>19 DEF Next, Thread, HalfEnd, Status, StopSteps

\* At the start nothing is captured.
LEMMA InitCard == Init => CardInv
BY DEF Init, CardInv

\* hws_zc_release() waits for one more half of the pair, which is enough where
\* the IRQ thread takes each event before the next half completes, the case
\* the lemmas on whole frames below are for.  In general it is not: the run
\* ReturnedTooEarly shows a buffer that went back being written.
LEMMA CardWritesInFlight == Spec /\ NeverBehind => []CardNeverWritesReturned
<1>1. Known /\ RegistersInFlight /\ CardInv => CardNeverWritesReturned
  BY DEF Known, TypeOK, CardInv, Kept, RegistersInFlight, CardNeverWritesReturned
<1>2. Known /\ RegistersInFlight /\ CardInv /\ [Next]_vars /\ [CardHalfDone => fifo = <<>>]_vars => CardInv'
  <2>1. CASE CardHalfDone => fifo = <<>>
    BY <2>1, NextCard
  <2>2. CASE UNCHANGED vars
    BY <2>2 DEF vars, cardVars, CardInv
  <2> QED  BY <2>1, <2>2
<1> QED  BY <1>1, <1>2, KnownAlways, RegistersSafe, InitCard, PTL DEF Spec, NeverBehind

\* With at most one half waiting for the thread it always keeps up.
LEMMA NeverBehindOne ==
  ASSUME MaxWaiting = 1
  PROVE  Spec => NeverBehind
<1>1. TypeOK /\ [Next]_vars => [CardHalfDone => fifo = <<>>]_vars
  <2> SUFFICES ASSUME TypeOK, CardHalfDone PROVE fifo = <<>>
    OBVIOUS
  <2>1. fifo \in Seq(Events) /\ Len(fifo) < 1
    BY DEF TypeOK, CardHalfDone
  <2> QED  BY <2>1
<1> QED  BY <1>1, TypeCorrect, PTL DEF Spec, NeverBehind

-----------------------------------------------------------------------------
(* A run latched before a late register write.                             *)

\* Of two gaps in a row between the halves the thread takes, one is at most two
\* half-frame intervals, whenever a register is at a buffer: lost interrupts
\* lengthen a gap, and the code takes the shorter of two.  How far the thread is
\* behind the card is left open.
GapsTrue ==
  [][HalfBegin /\ (\E p \in Pairs : zc.prog[p] # Null) => Min2(gap'.prev, gap.prev) <= 2]_vars

\* With Known and GoodInv this is inductive: an event on its way for the pair the
\* card is writing is of the run before, at least one half ago.
LateInv ==
  started /\ ~lost /\ card.dst # Null =>
    /\ card.toggle = Other(card.pair)
    /\ \A i \in DOMAIN fifo : fifo[i].pair = card.pair => fifo[i].ts >= 1
    /\ ~zc.away[card.dst][card.pair]

\* A step of the driver that sets no flag and queues no event.
LEMMA KeepsLate ==
  ASSUME TypeOK, LateInv, UNCHANGED <<card, fifo>>, started' => started, ~lost' => ~lost,
         \A x \in Bufs, p \in Pairs : zc'.away[x][p] => zc.away[x][p]
  PROVE  LateInv'
BY DEF LateInv, TypeOK, BufOrNull

\* A write to the register of the pair the card is writing is late: the
\* interrupt it answers is one half old.
LEMMA HalfBeginLate ==
  ASSUME TypeOK, OnePlace, LateInv, HalfBegin,
         (\E p \in Pairs : zc.prog[p] # Null) => Min2(gap'.prev, gap.prev) <= 2
  PROVE  LateInv'
<1> SUFFICES ASSUME started, ~lost, card.dst # Null PROVE LateInv'
  BY DEF HalfBegin, cardVars, LateInv
<1>0. /\ zc \in ZcStates /\ card.dst \in Bufs /\ card.pair \in Pairs
      /\ UNCHANGED <<card, started, lost>>
  BY DEF TypeOK, BufOrNull, HalfBegin, cardVars
<1> PICK z \in ZcStates, p \in Pairs, b \in BufOrNull, inTime \in BOOLEAN : HalfWay(z, p, b, inTime)
  BY HalfBeginWay
<1> DEFINE d == card.dst
           r == card.pair
<1>1. /\ fifo # <<>> /\ fifo \in Seq(Events) /\ p = Head(fifo).pair /\ fifo' = Tail(fifo)
      /\ HalfSet(zc, z, p, b, inTime) /\ Parts(z)
      /\ inTime => 2 * Head(fifo).ts < Min2(gap'.prev, gap.prev)
  BY DEF HalfWay, TypeOK
<1>2. /\ card.toggle = Other(r) /\ ~zc.away[d][r]
      /\ \A i \in DOMAIN fifo : fifo[i].pair = r => fifo[i].ts >= 1
  BY DEF LateInv
<1>3. \A i \in DOMAIN fifo' : fifo'[i].pair = r => fifo'[i].ts >= 1
  <2>1. \A i \in DOMAIN Tail(fifo) : i + 1 \in DOMAIN fifo /\ Tail(fifo)[i] = fifo[i + 1]
    BY <1>1
  <2> QED  BY <1>1, <1>2, <2>1
<1>4. ASSUME d = zc.prog[p], r = p PROVE ~inTime
  <2>1. Min2(gap'.prev, gap.prev) <= 2
    BY <1>0, <1>4, CaptureAssumption
  <2>2. Head(fifo) \in Events /\ Head(fifo).ts >= 1
    <3>1. 1 \in DOMAIN fifo /\ Head(fifo) = fifo[1] /\ fifo[1] \in Events
      BY <1>1
    <3> QED  BY <1>1, <1>2, <1>4, <3>1
  <2>3. Head(fifo).ts \in Int
    BY <2>2, CaptureAssumption DEF Events, Ages
  <2>4. Min2(gap'.prev, gap.prev) \in Int
    <3>1. gap.prev \in Int /\ gap'.prev \in Int
      <4>1. TypeOK'
        BY HalfBeginType
      <4> QED  BY <4>1 DEF TypeOK
    <3> QED  BY <3>1 DEF Min2
  <2> QED  BY <1>1, <2>1, <2>2, <2>3, <2>4
<1>5. ~z.away[d][r]
  BY <1>0, <1>1, <1>2, <1>4 DEF HalfSet
<1>6. ~zc'.away[d][r]
  <2>1. zc' = z \/ zc' = Release(Advance(z))
    BY DEF HalfWay, StaleTop, TopBegin, EndWithoutFrame, BottomBegin
  <2>2. Release(Advance(z)).away[d] = IF d \in Releasable(Advance(z)) THEN False2 ELSE z.away[d]
    BY <1>0, FrameEndFlags
  <2> QED  BY <1>0, <1>5, <2>1, <2>2 DEF False2
<1> QED  BY <1>0, <1>2, <1>3, <1>6 DEF LateInv

\* Each step keeps the run in progress out of what was left in time.
LEMMA NextLate ==
  ASSUME Known, GoodInv, LateInv, [Next]_vars,
         HalfBegin /\ (\E p \in Pairs : zc.prog[p] # Null) => Min2(gap'.prev, gap.prev) <= 2
  PROVE  LateInv'
<1>0. /\ TypeOK /\ OnePlace /\ zc \in ZcStates /\ started \in BOOLEAN /\ lost \in BOOLEAN
      /\ card \in [pair : Pairs, dst : BufOrNull, toggle : Pairs]
      /\ fifo \in Seq(Events) /\ Pairs = {Top, Bottom}
  BY DEF Known, TypeOK, Pairs
<1>1. CASE CardHalfDone
  <2>1. /\ fifo' = [i \in DOMAIN fifo |-> [fifo[i] EXCEPT !.ts = Older(@)]]
        /\ card' = [pair |-> Other(card.pair), dst |-> zc.prog[Other(card.pair)], toggle |-> card.pair]
        /\ zc' = zc
    BY <1>1 DEF CardHalfDone
  <2>2. \A i \in DOMAIN fifo' : fifo'[i].ts >= 1
    <3>1. \A i \in DOMAIN fifo : fifo[i] \in [pair : Pairs, ts : Ages]
      <4>1. \A i \in DOMAIN fifo : fifo[i] \in Events
        BY <1>0
      <4> QED  BY <4>1 DEF Events
    <3>2. \A t \in Ages : Older(t) >= 1
      BY CaptureAssumption DEF Older, Ages, Min2
    <3> QED  BY <2>1, <3>1, <3>2
  <2>3. card.pair = Other(Other(card.pair)) /\ Other(card.pair) \in Pairs
    BY <1>0 DEF Pairs, Top, Bottom, Other
  <2>4. card'.dst # Null => ~zc.away[card'.dst][card'.pair]
    BY <1>0, <2>1, <2>3 DEF GoodInv, AwayInTime, ZcStates, BufOrNull
  <2> QED  BY <2>1, <2>2, <2>3, <2>4 DEF LateInv
<1>2. CASE IrqHandler
  <2>1. /\ UNCHANGED <<started, lost, card, zc>>
        /\ fifo' = fifo \/ fifo' = Append(fifo, [pair |-> card.toggle, ts |-> 0])
    BY <1>2 DEF IrqHandler
  <2>2. CASE fifo' = fifo
    BY <2>1, <2>2 DEF LateInv
  <2>3. CASE fifo' = Append(fifo, [pair |-> card.toggle, ts |-> 0])
    <3> DEFINE e == [pair |-> card.toggle, ts |-> 0]
    <3>1. \A i \in DOMAIN Append(fifo, e) :
            (i \in DOMAIN fifo /\ Append(fifo, e)[i] = fifo[i]) \/ Append(fifo, e)[i] = e
      <4>1. Len(fifo) \in Nat /\ DOMAIN fifo = 1 .. Len(fifo)
            /\ DOMAIN Append(fifo, e) = 1 .. (Len(fifo) + 1)
        BY <1>0
      <4>2. \A i \in 1 .. Len(fifo) : Append(fifo, e)[i] = fifo[i]
        BY <1>0
      <4>3. Append(fifo, e)[Len(fifo) + 1] = e
        BY <1>0
      <4>4. \A i \in 1 .. (Len(fifo) + 1) : i \in 1 .. Len(fifo) \/ i = Len(fifo) + 1
        BY <4>1
      <4> QED  BY <4>1, <4>2, <4>3, <4>4
    <3>2. e.pair = card.toggle
      OBVIOUS
    <3>3. Other(card.pair) # card.pair
      BY <1>0 DEF Pairs, Top, Bottom, Other
    <3> HIDE DEF e
    <3> QED  BY <2>1, <2>3, <3>1, <3>2, <3>3 DEF LateInv, e
  <2> QED  BY <2>1, <2>2, <2>3
<1>3. CASE ThreadSkips
  <2>1. /\ UNCHANGED <<started, lost, card, zc>> /\ fifo' = Tail(fifo) /\ fifo # <<>>
    BY <1>3 DEF ThreadSkips, cardVars
  <2>2. \A i \in DOMAIN Tail(fifo) : i + 1 \in DOMAIN fifo /\ Tail(fifo)[i] = fifo[i + 1]
    BY <1>0, <2>1
  <2> QED  BY <2>1, <2>2 DEF LateInv
<1>4. ASSUME UNCHANGED <<card, zc, fifo>>, started' => started, ~lost' => ~lost PROVE LateInv'
  BY <1>4 DEF LateInv
<1>5. CASE CardLoses \/ IrqAcknowledge \/ TopEnd
  BY <1>4, <1>5 DEF CardLoses, IrqAcknowledge, TopEnd, cardVars
<1>6. CASE HalfBegin
  BY <1>0, <1>6, HalfBeginLate
<1>7. CASE BottomEnd
  <2> PICK z \in ZcStates, got \in SUBSET Bufs : FrameWay(z, got)
    BY <1>0, <1>7, BottomEndWay
  <2>1. z.away = zc.away /\ zc' = Release(Advance(z))
    BY DEF FrameWay
  <2>2. \A x \in Bufs : Release(Advance(z)).away[x] = IF x \in Releasable(Advance(z)) THEN False2 ELSE z.away[x]
    BY FrameEndFlags
  <2>3. \A x \in Bufs, p \in Pairs : zc'.away[x][p] => zc.away[x][p]
    BY <2>1, <2>2 DEF False2
  <2>4. UNCHANGED <<started, lost, card, fifo>>
    BY <1>7 DEF BottomEnd, cardVars
  <2> QED  BY <1>0, <2>3, <2>4, KeepsLate
<1>8. CASE StatusFindsLoss \/ StatusFindsCapture \/ PollSame
  BY <1>4, <1>8 DEF StatusFindsLoss, StatusFindsCapture, PollSame, cardVars
<1>9. CASE PollNoVideo
  <2>1. zc' = zc /\ UNCHANGED <<started, lost, card, fifo>>
    BY <1>9 DEF PollNoVideo, cardVars
  <2> QED  BY <1>4, <2>1
<1>10. ASSUME NEW s \in BOOLEAN, card' = StartCard(ZcStop(zc, s)) PROVE LateInv'
  BY <1>0, <1>10, StartWritesDma DEF LateInv
<1>11. CASE PollResize \/ PollBadSize \/ Reinit
  <2>1. PICK s \in BOOLEAN : zc' = ZcStop(zc, s)
    BY <1>0, <1>11 DEF PollResize, PollBadSize, Reinit, TakeBackZc
  <2>2. CASE started
    <3>1. card' = StartCard(zc')
      BY <1>11, <2>2 DEF PollResize, PollBadSize, Reinit, Restart
    <3> QED  BY <1>10, <2>1, <3>1
  <2>3. CASE ~started
    <3>1. ~started'
      BY <1>11, <2>3 DEF PollResize, PollBadSize, Reinit
    <3> QED  BY <3>1 DEF LateInv
  <2> QED  BY <1>0, <2>2, <2>3
<1>12. ASSUME NEW b \in Bufs, QBuf(b) PROVE LateInv'
  BY <1>4, <1>12 DEF QBuf, cardVars
<1>13. ASSUME NEW c \in Ctxs, StreamOn(c) \/ JoinEngine(c) \/ StreamOff(c) \/ StopWaited(c)
                              \/ StopTimesOut(c) \/ StopTimeout(c) \/ StopEngine(c)
       PROVE LateInv'
  BY <1>4, <1>13 DEF StreamOn, JoinEngine, StreamOff, StopWaited, StopTimesOut, StopTimeout,
                   StopEngine, cardVars
<1>14. ASSUME NEW c \in Ctxs, StartEngine(c) PROVE LateInv'
  BY <1>10, <1>14 DEF StartEngine, TakeBackZc
<1>15. ASSUME NEW c \in Ctxs, StopTakeBack(c) PROVE LateInv'
  <2>1. /\ zc' = zc \/ zc' = ZcStop(zc, FALSE)
        /\ UNCHANGED <<started, lost, card, fifo>>
    BY <1>15 DEF StopTakeBack, cardVars
  <2>2. \A x \in Bufs, p \in Pairs : ZcStop(zc, FALSE).away[x][p] => zc.away[x][p]
    BY <1>0, ZcStopFlags
  <2> QED  BY <1>0, <2>1, <2>2, KeepsLate
<1>16. ASSUME NEW c \in Ctxs, StopForce(c) PROVE LateInv'
  <2>1. zc' = ZcStop(zc, TRUE) /\ started' = OtherUsers /\ (OtherUsers => card' = StartCard(zc'))
    BY <1>16 DEF StopForce, TakeBackZc
  <2>2. CASE OtherUsers
    BY <1>10, <2>1, <2>2
  <2>3. CASE ~OtherUsers
    BY <2>1, <2>3 DEF LateInv
  <2> QED  BY <2>2, <2>3
<1>17. CASE Suspend
  BY <1>17 DEF Suspend, LateInv
<1>18. CASE Resume
  BY <1>18 DEF Resume, LateInv
<1>19. CASE UNCHANGED vars
  BY <1>4, <1>19 DEF vars, cardVars
<1> QED  BY <1>1, <1>2, <1>3, <1>5, <1>6, <1>7, <1>8, <1>9, <1>11, <1>12, <1>13, <1>14, <1>15,
            <1>16, <1>17, <1>18, <1>19 DEF Next, Thread, HalfEnd, Status, StopSteps

\* At the start nothing is captured.
LEMMA InitLate == Init => LateInv
BY DEF Init, LateInv

\* The case zc_free_after and the time of the interrupts are for: a run that was
\* latched before the late write of its register fills a buffer that counts as
\* written late, so its frame is not given as good, with any number of events
\* waiting for the IRQ thread.
THEOREM LateWritesFail == Spec /\ GapsTrue => []LateWriteFails
<1> DEFINE Gaps == HalfBegin /\ (\E p \in Pairs : zc.prog[p] # Null) => Min2(gap'.prev, gap.prev) <= 2
<1>1. Known /\ LateInv => LateWriteFails
  <2> SUFFICES ASSUME Known, LateInv, started, ~lost, NEW b \in Bufs, NEW p \in Pairs,
                      zc.away[b][p], card.dst = b, card.pair = p
               PROVE  FALSE
    BY DEF LateWriteFails
  <2> QED  BY CaptureAssumption DEF LateInv
<1>2. Known /\ GoodInv /\ LateInv /\ [Next]_vars /\ [Gaps]_vars => LateInv'
  <2> SUFFICES ASSUME Known, GoodInv, LateInv, [Next]_vars, [Gaps]_vars PROVE LateInv'
    OBVIOUS
  <2>1. CASE Gaps
    BY <2>1, NextLate
  <2>2. CASE UNCHANGED vars
    BY <2>2 DEF vars, cardVars, LateInv
  <2> QED  BY <2>1, <2>2
<1> HIDE DEF Gaps
<1>3. GapsTrue <=> [][Gaps]_vars
  BY DEF GapsTrue, Gaps
<1> QED  BY <1>1, <1>2, <1>3, KnownAlways, RegistersSafe, InitGood, NextGood, InitLate, PTL DEF Spec

\* With a card that keeps its run state, an input that stays and handles that
\* stream for good, no interrupt is lost: the engine starts once, and each half
\* has its event.
Stays == Stoppers = {} /\ Geoms = {OutGeom} /\ Env \subseteq {"hdcp", "stale_knob"} /\ MaxWaiting <= FifoDepth

\* Nothing stops the card.
NothingStops ==
  /\ ~noVideo /\ ~lost /\ power = "on" /\ status # "reinit" /\ geom = OutGeom
  /\ \A c \in Ctxs : pc[c] \in {"off", "starting", "on"}
  /\ started => users > 0

\* The handler reads each value of the toggle once, and has room for its event.
Toggles ==
  IF ~started THEN irq = "none" /\ fifo = <<>>
  ELSE IF irq = "none" THEN seen = Other(card.pair)
  ELSE /\ irq = "pending" /\ seen = card.pair /\ card.toggle = Other(card.pair)
       /\ Len(fifo) < MaxWaiting

\* The newest event is of the last half, or of the one before with an interrupt
\* pending; from the half taken last to the newest no gap is longer than one half.
Newest == IF irq = "none" THEN 0 ELSE 1
Spaced ==
  /\ \A i \in DOMAIN fifo : fifo[i].ts <= IF i = Len(fifo) THEN Newest ELSE fifo[i + 1].ts + 1
  /\ gap.last # None => gap.last <= IF fifo = <<>> THEN Newest ELSE fifo[1].ts + 1

GapInv == NothingStops /\ Toggles /\ Spaced

\* A half completes: every age grows by one, unless it is at its bound.
LEMMA HalfDoneSpaced ==
  ASSUME TypeOK, irq = "none", Spaced, CardHalfDone
  PROVE  Spaced' /\ Len(fifo') = Len(fifo)
<1>0. fifo \in Seq(Events) /\ Len(fifo) \in Nat /\ DOMAIN fifo = 1 .. Len(fifo) /\ gap.last \in Ages \cup {None}
  BY DEF TypeOK
<1>1. /\ fifo' = [i \in DOMAIN fifo |-> [fifo[i] EXCEPT !.ts = Older(@)]]
      /\ gap'.last = IF gap.last = None THEN None ELSE Older(gap.last)
      /\ irq' = "pending"
  BY DEF CardHalfDone, TypeOK
<1>2. \A i \in DOMAIN fifo : fifo[i] \in Events
  BY <1>0
<1>3. \A i \in DOMAIN fifo : fifo[i].ts \in Ages /\ fifo'[i].ts = Older(fifo[i].ts)
  BY <1>1, <1>2 DEF Events
<1>4. DOMAIN fifo' = DOMAIN fifo /\ Len(fifo') = Len(fifo)
  <2>1. fifo' \in Seq(Events)
    BY CardHalfDoneType DEF TypeOK
  <2> QED  BY <1>0, <1>1, <2>1
<1>5. /\ \A s, t \in Ages : s <= t + 1 => Older(s) <= Older(t) + 1
      /\ \A t \in Ages : t <= 0 => Older(t) <= 1
  BY CaptureAssumption DEF Ages, Older, Min2
<1>6. Newest = 0 /\ Newest' = 1
  BY <1>1 DEF Newest
<1>7. ASSUME NEW i \in DOMAIN fifo
      PROVE  fifo'[i].ts <= IF i = Len(fifo) THEN 1 ELSE fifo'[i + 1].ts + 1
  <2>1. CASE i = Len(fifo)
    <3>1. fifo[i].ts <= 0
      BY <1>6, <2>1 DEF Spaced
    <3> QED  BY <1>3, <1>5, <2>1, <3>1
  <2>2. CASE i # Len(fifo)
    <3>1. i + 1 \in DOMAIN fifo
      BY <1>0, <2>2
    <3>2. fifo[i].ts <= fifo[i + 1].ts + 1
      BY <2>2 DEF Spaced
    <3> QED  BY <1>3, <1>5, <2>2, <3>1, <3>2
  <2> QED  BY <2>1, <2>2
<1>8. ASSUME gap'.last # None
      PROVE  gap'.last <= IF fifo' = <<>> THEN 1 ELSE fifo'[1].ts + 1
  <2>1. gap.last # None /\ gap.last \in Ages /\ gap'.last = Older(gap.last)
    BY <1>0, <1>1, <1>8
  <2>2. CASE fifo = <<>>
    <3>1. gap.last <= 0
      BY <1>6, <2>1, <2>2 DEF Spaced
    <3>2. gap'.last <= 1
      BY <1>5, <2>1, <3>1
    <3>3. fifo' = <<>>
      <4>1. fifo' \in Seq(Events) /\ Len(fifo') = 0
        BY <1>4, <2>2, CardHalfDoneType DEF TypeOK
      <4> QED  BY <4>1
    <3> QED  BY <3>2, <3>3
  <2>3. CASE fifo # <<>>
    <3>1. 1 \in DOMAIN fifo /\ fifo' # <<>>
      <4>1. 1 \in DOMAIN fifo
        BY <1>0, <2>3
      <4> QED  BY <1>4, <4>1
    <3>2. gap.last <= fifo[1].ts + 1
      BY <2>1, <2>3 DEF Spaced
    <3> QED  BY <1>3, <1>5, <2>1, <3>1, <3>2
  <2> QED  BY <2>2, <2>3
<1> QED  BY <1>4, <1>6, <1>7, <1>8 DEF Spaced

\* The handler appends the event of the last half.
LEMMA EventSpaced ==
  ASSUME TypeOK, Spaced, irq = "pending", irq' = "none", UNCHANGED gap,
         NEW p \in Pairs, fifo' = Append(fifo, [pair |-> p, ts |-> 0])
  PROVE  Spaced'
<1> DEFINE e == [pair |-> p, ts |-> 0]
           n == Len(fifo)
<1>0. /\ fifo \in Seq(Events) /\ n \in Nat /\ DOMAIN fifo = 1 .. n /\ gap.last \in Ages \cup {None}
      /\ Ages \subseteq Int
  BY CaptureAssumption DEF TypeOK, Ages
<1>1. /\ Len(fifo') = n + 1 /\ DOMAIN fifo' = 1 .. (n + 1) /\ fifo' # <<>>
      /\ \A i \in 1 .. n : fifo'[i] = fifo[i]
      /\ fifo'[n + 1] = e
  BY <1>0
<1>2. e.ts = 0
  OBVIOUS
<1> HIDE DEF e, n
<1>3. Newest = 1 /\ Newest' = 0
  BY DEF Newest
<1>4. \A i \in 1 .. n : fifo[i].ts <= IF i = n THEN 1 ELSE fifo[i + 1].ts + 1
  BY <1>0, <1>3 DEF Spaced, n
<1>5. ASSUME NEW i \in 1 .. (n + 1)
      PROVE  fifo'[i].ts <= IF i = n + 1 THEN 0 ELSE fifo'[i + 1].ts + 1
  <2>1. CASE i = n + 1
    BY <1>1, <1>2, <2>1
  <2>2. CASE i = n
    <3>1. i \in 1 .. n /\ i # n + 1
      BY <1>0, <2>2
    <3>2. fifo'[i].ts <= 1
      BY <1>1, <1>4, <2>2, <3>1
    <3>3. fifo'[i + 1].ts + 1 = 1
      BY <1>1, <1>2, <2>2
    <3> QED  BY <3>1, <3>2, <3>3
  <2>3. CASE i # n /\ i # n + 1
    <3>1. i \in 1 .. n /\ i + 1 \in 1 .. n
      BY <1>0, <2>3
    <3>2. fifo'[i] = fifo[i] /\ fifo'[i + 1] = fifo[i + 1] /\ fifo[i].ts <= fifo[i + 1].ts + 1
      BY <1>1, <1>4, <2>3, <3>1
    <3> QED  BY <2>3, <3>2
  <2> QED  BY <2>1, <2>2, <2>3
<1>6. ASSUME gap.last # None PROVE gap.last <= fifo'[1].ts + 1
  <2>1. CASE fifo = <<>>
    <3>1. gap.last <= 1 /\ n = 0
      BY <1>3, <1>6, <2>1 DEF Spaced, n
    <3>2. fifo'[1].ts = 0
      BY <1>1, <1>2, <3>1
    <3> QED  BY <3>1, <3>2
  <2>2. CASE fifo # <<>>
    <3>1. 1 \in 1 .. n
      <4>1. Len(fifo) # 0
        BY <1>0, <2>2
      <4> QED  BY <1>0, <4>1 DEF n
    <3>2. gap.last <= fifo[1].ts + 1
      BY <1>6, <2>2 DEF Spaced
    <3> QED  BY <1>1, <3>1, <3>2
  <2> QED  BY <2>1, <2>2
<1> QED  BY <1>1, <1>3, <1>5, <1>6 DEF Spaced, n

\* The thread takes the oldest event: the gap to the one before was short.
LEMMA TakenSpaced ==
  ASSUME TypeOK, Spaced, HalfBegin
  PROVE  Spaced' /\ gap'.prev <= 1
<1> DEFINE n == Len(fifo)
           g == IF gap.last = None THEN 0 ELSE gap.last - Head(fifo).ts
<1>0. /\ fifo \in Seq(Events) /\ n \in Nat /\ DOMAIN fifo = 1 .. n /\ fifo # <<>>
      /\ gap.last \in Ages \cup {None} /\ Ages \subseteq Int
  BY CaptureAssumption DEF TypeOK, Ages, HalfBegin
<1>1. fifo' = Tail(fifo) /\ gap' = [last |-> Head(fifo).ts, prev |-> g] /\ irq' = irq
  BY DEF HalfBegin, cardVars
<1>2. 1 \in 1 .. n /\ Head(fifo) = fifo[1] /\ \A i \in 1 .. n : fifo[i].ts \in Int
  <2>1. \A i \in DOMAIN fifo : fifo[i] \in Events
    BY <1>0
  <2>2. \A i \in DOMAIN fifo : fifo[i].ts \in Int
    BY <1>0, <2>1 DEF Events
  <2>3. 1 \in DOMAIN fifo /\ Head(fifo) = fifo[1]
    BY <1>0
  <2> QED  BY <1>0, <2>2, <2>3
<1>3. /\ Len(fifo') = n - 1 /\ DOMAIN fifo' = 1 .. (n - 1)
      /\ \A i \in 1 .. (n - 1) : fifo'[i] = fifo[i + 1]
      /\ fifo' = <<>> => n = 1
      /\ n = 1 => fifo' = <<>>
  <2>1. /\ Tail(fifo) \in Seq(Events) /\ Len(Tail(fifo)) = Len(fifo) - 1
        /\ DOMAIN Tail(fifo) = 1 .. (Len(fifo) - 1)
    BY <1>0
  <2>2. \A i \in 1 .. (Len(fifo) - 1) : Tail(fifo)[i] = fifo[i + 1]
    BY <1>0
  <2>3. Tail(fifo) = <<>> => Len(fifo) = 1
    <3>1. Len(<<>>) = 0
      OBVIOUS
    <3>2. Tail(fifo) = <<>> => Len(fifo) - 1 = 0
      BY <2>1, <3>1
    <3> QED  BY <1>0, <3>2
  <2>4. Len(fifo) = 1 => Tail(fifo) = <<>>
    <3>1. Len(fifo) = 1 => Len(Tail(fifo)) = 0
      BY <2>1
    <3> QED  BY <2>1, <3>1
  <2> QED  BY <1>1, <2>1, <2>2, <2>3, <2>4
<1> HIDE DEF n
<1>4. Newest' = Newest /\ Newest \in Int
  BY <1>1 DEF Newest
<1>5. \A i \in 1 .. n : fifo[i].ts <= IF i = n THEN Newest ELSE fifo[i + 1].ts + 1
  BY <1>0 DEF Spaced, n
<1>6. ASSUME NEW i \in 1 .. (n - 1)
      PROVE  fifo'[i].ts <= IF i = n - 1 THEN Newest ELSE fifo'[i + 1].ts + 1
  <2>1. i + 1 \in 1 .. n /\ fifo'[i] = fifo[i + 1]
    BY <1>0, <1>3
  <2>2. CASE i = n - 1
    <3>1. i + 1 = n
      BY <1>0, <2>2
    <3> QED  BY <1>5, <2>1, <2>2, <3>1
  <2>3. CASE i # n - 1
    <3>1. i + 1 \in 1 .. (n - 1) /\ i + 1 # n /\ fifo'[i + 1] = fifo[(i + 1) + 1]
      BY <1>0, <1>3, <2>3
    <3> QED  BY <1>5, <2>1, <2>3, <3>1
  <2> QED  BY <2>2, <2>3
<1>7. gap'.last <= IF fifo' = <<>> THEN Newest ELSE fifo'[1].ts + 1
  <2>1. gap'.last = fifo[1].ts
    BY <1>1, <1>2
  <2>2. CASE n = 1
    BY <1>2, <1>3, <1>5, <2>1, <2>2
  <2>3. CASE n # 1
    <3>1. 1 \in 1 .. (n - 1) /\ fifo'[1] = fifo[1 + 1]
      BY <1>0, <1>2, <1>3, <2>3
    <3> QED  BY <1>2, <1>3, <1>5, <2>1, <2>3, <3>1
  <2> QED  BY <2>2, <2>3
<1>8. gap'.prev <= 1
  <2>1. gap'.prev = g
    BY <1>1
  <2>2. CASE gap.last = None
    BY <2>1, <2>2
  <2>3. CASE gap.last # None
    <3>1. gap.last <= fifo[1].ts + 1 /\ gap.last \in Int
      BY <1>0, <2>3 DEF Spaced
    <3> QED  BY <1>2, <2>1, <2>3, <3>1
  <2> QED  BY <2>2, <2>3
<1> QED  BY <1>3, <1>4, <1>6, <1>7, <1>8 DEF Spaced

\* Each step keeps the interrupts apart.
LEMMA NextGaps ==
  ASSUME Stays, TypeOK, GapInv, [Next]_vars
  PROVE  GapInv'
<1>0. /\ "late_irq" \notin Env /\ "no_video" \notin Env /\ "card_loss" \notin Env /\ "sleep" \notin Env
      /\ BadGeoms = {} /\ Stoppers = {} /\ Geoms \ {geom} = {} /\ MaxWaiting <= FifoDepth
      /\ FifoDepth \in Nat /\ MaxWaiting \in Nat /\ users \in Int
  BY CaptureAssumption DEF Stays, GapInv, NothingStops, TypeOK
<1>1. CASE CardHalfDone
  <2>1. /\ started /\ irq = "none" /\ irq' = "pending" /\ UNCHANGED <<started, lost, hostVars, noVideo, geom, seen, ctxVars>>
        /\ card' = [pair |-> Other(card.pair), dst |-> zc.prog[Other(card.pair)], toggle |-> card.pair]
        /\ Len(fifo) < MaxWaiting
    BY <1>0, <1>1 DEF CardHalfDone
  <2>2. Spaced' /\ Len(fifo') = Len(fifo)
    BY <1>1, <2>1, HalfDoneSpaced DEF GapInv
  <2>3. NothingStops'
    BY <2>1 DEF GapInv, NothingStops, hostVars, ctxVars
  <2>4. card.pair = Other(Other(card.pair))
    BY DEF TypeOK, Pairs, Top, Bottom, Other
  <2>5. Toggles'
    BY <2>1, <2>2, <2>4 DEF GapInv, Toggles
  <2> QED  BY <2>2, <2>3, <2>5 DEF GapInv
<1>2. CASE IrqHandler
  <2>1. /\ irq = "pending" /\ irq' = "none" /\ seen' = card.toggle
        /\ UNCHANGED <<started, lost, hostVars, noVideo, geom, card, gap, ctxVars>>
    BY <1>0, <1>2 DEF IrqHandler
  <2>2. started /\ seen = card.pair /\ card.toggle = Other(card.pair) /\ Len(fifo) < MaxWaiting
    BY <2>1 DEF GapInv, Toggles
  <2>3. card.toggle # seen /\ card.toggle \in Pairs
    BY <2>2 DEF TypeOK, Pairs, Top, Bottom, Other
  <2>4. Len(fifo) < FifoDepth
    <3>1. Len(fifo) \in Nat
      BY DEF TypeOK
    <3> QED  BY <1>0, <2>2, <3>1
  <2>5. fifo' = Append(fifo, [pair |-> card.toggle, ts |-> 0])
    BY <1>2, <2>3, <2>4 DEF IrqHandler
  <2>6. Spaced'
    BY <2>1, <2>3, <2>5, EventSpaced DEF GapInv
  <2>7. NothingStops' /\ Toggles'
    BY <2>1, <2>2 DEF GapInv, NothingStops, Toggles, hostVars, ctxVars
  <2> QED  BY <2>6, <2>7 DEF GapInv
<1>3. CASE HalfBegin
  <2>1. /\ started /\ irq' = irq /\ UNCHANGED <<started, lost, hostVars, noVideo, geom, card, seen, ctxVars>>
        /\ fifo # <<>> /\ fifo' = Tail(fifo)
    BY <1>3 DEF HalfBegin, cardVars
  <2>2. Spaced'
    BY <1>3, TakenSpaced DEF GapInv
  <2>3. Len(fifo) \in Nat /\ Len(fifo') <= Len(fifo) /\ Len(fifo') \in Nat
    <3>1. fifo \in Seq(Events) /\ Len(fifo) \in Nat /\ Len(Tail(fifo)) = Len(fifo) - 1 /\ Len(fifo) # 0
      BY <2>1 DEF TypeOK
    <3> QED  BY <2>1, <3>1
  <2>4. NothingStops'
    BY <2>1 DEF GapInv, NothingStops, hostVars, ctxVars
  <2>5. Len(fifo) < MaxWaiting => Len(fifo') < MaxWaiting
    BY <1>0, <2>3
  <2>6. Toggles'
    BY <2>1, <2>5 DEF GapInv, Toggles
  <2> QED  BY <2>2, <2>4, <2>6 DEF GapInv
<1>4. ASSUME UNCHANGED <<started, noVideo, lost, power, geom, irq, fifo, card, seen, gap>>, status' # "reinit",
             \A c \in Ctxs : pc'[c] \in {"off", "starting", "on"}, users' = users \/ users' = users + 1
      PROVE  GapInv'
  <2>1. NothingStops'
    BY <1>0, <1>4 DEF GapInv, NothingStops
  <2> QED  BY <1>4, <2>1 DEF GapInv, Toggles, Spaced, Newest
<1>5. CASE TopEnd \/ BottomEnd
  BY <1>4, <1>5 DEF TopEnd, BottomEnd, cardVars, ctxVars, hostVars, GapInv, NothingStops
<1>6. CASE StatusFindsCapture \/ PollSame
  <2>1. noVideo = FALSE /\ \A c \in Ctxs : pc[c] \in {"off", "starting", "on"}
    BY DEF GapInv, NothingStops, TypeOK
  <2>2. /\ UNCHANGED <<started, noVideo, power, geom, fifo, gap, cardVars, ctxVars>>
        /\ status' \in {"poll", "idle"}
    BY <1>6, <2>1 DEF StatusFindsCapture, PollSame, StatusTurn
  <2> QED  BY <1>4, <2>1, <2>2 DEF cardVars, ctxVars
<1>7. ~CardLoses /\ ~IrqAcknowledge /\ ~ThreadSkips /\ ~StatusFindsLoss /\ ~Reinit /\ ~PollNoVideo
      /\ ~PollBadSize /\ ~PollResize /\ ~Suspend /\ ~Resume
  BY <1>0 DEF CardLoses, IrqAcknowledge, ThreadSkips, StatusFindsLoss, Reinit, PollNoVideo, PollBadSize,
              PollResize, Suspend, Resume, StatusTurn, GapInv, NothingStops, Toggles
<1>8. ASSUME NEW b \in Bufs, QBuf(b) PROVE GapInv'
  BY <1>4, <1>8 DEF QBuf, cardVars, ctxVars, hostVars, GapInv, NothingStops
<1>9. ASSUME NEW c \in Ctxs, StreamOn(c) \/ JoinEngine(c) PROVE GapInv'
  <2>1. /\ UNCHANGED <<started, noVideo, lost, power, geom, irq, fifo, card, seen, gap, status>>
        /\ users' = users \/ users' = users + 1
        /\ \E v \in {"starting", "on"} : pc' = [pc EXCEPT ![c] = v]
    BY <1>9 DEF StreamOn, JoinEngine, cardVars, hostVars
  <2>2. status' # "reinit" /\ \A d \in Ctxs : pc'[d] \in {"off", "starting", "on"}
    BY <2>1 DEF GapInv, NothingStops, TypeOK
  <2> QED  BY <1>4, <2>1, <2>2
<1>10. ASSUME NEW c \in Ctxs, StartEngine(c) PROVE GapInv'
  <2>1. /\ users = 0 /\ users' = 1 /\ started' = TRUE /\ pc' = [pc EXCEPT ![c] = "on"]
        /\ noVideo' = FALSE /\ geom' \in Geoms /\ lost' = FALSE /\ UNCHANGED <<power, status, irq, fifo>>
        /\ gap' = [last |-> None, prev |-> 0] /\ card' = StartCard(zc') /\ seen' = ToggleAtStart
    BY <1>0, <1>10 DEF StartEngine, hostVars
  <2>2. irq = "none" /\ fifo = <<>>
    BY <1>0, <2>1 DEF GapInv, NothingStops, Toggles
  <2>3. NothingStops'
    BY <1>0, <2>1 DEF GapInv, NothingStops, TypeOK, Stays
  <2>4. seen' = Other(card'.pair)
    BY <2>1 DEF StartCard, ToggleAtStart, Other, Top, Bottom, TypeOK
  <2>5. Toggles'
    BY <2>1, <2>2, <2>4 DEF Toggles
  <2>6. Spaced'
    <3>1. fifo' = <<>> /\ DOMAIN fifo' = {} /\ gap'.last = None
      BY <2>1, <2>2
    <3> QED  BY <3>1 DEF Spaced
  <2> QED  BY <2>3, <2>5, <2>6 DEF GapInv
<1>11. ASSUME NEW c \in Ctxs PROVE ~StreamOff(c) /\ ~StopSteps(c)
  BY <1>0 DEF StreamOff, StopSteps, StopTakeBack, StopWaited, StopTimesOut, StopTimeout, StopForce, StopEngine,
              GapInv, NothingStops
<1>12. CASE UNCHANGED vars
  BY <1>4, <1>12 DEF vars, cardVars, ctxVars, hostVars, GapInv, NothingStops
<1> QED  BY <1>1, <1>2, <1>3, <1>5, <1>6, <1>7, <1>8, <1>9, <1>10, <1>11, <1>12
         DEF Next, Thread, HalfEnd, Status

\* With such a card and input the late write fails its frame however far the
\* IRQ thread falls behind.
THEOREM LateWritesFailSteady ==
  ASSUME Stays
  PROVE  Spec => []LateWriteFails
<1> DEFINE Gaps == HalfBegin /\ (\E p \in Pairs : zc.prog[p] # Null) => Min2(gap'.prev, gap.prev) <= 2
<1>1. Init => GapInv
  BY CaptureAssumption DEF Init, GapInv, NothingStops, Toggles, Spaced
<1>2. TypeOK /\ GapInv /\ [Next]_vars => GapInv'
  BY NextGaps
<1>3. TypeOK /\ GapInv => [Gaps]_vars
  <2> SUFFICES ASSUME TypeOK, GapInv, HalfBegin PROVE Min2(gap'.prev, gap.prev) <= 2
    OBVIOUS
  <2>1. gap'.prev <= 1
    BY TakenSpaced DEF GapInv
  <2>2. gap'.prev \in Int /\ gap.prev \in Int
    BY HalfBeginType DEF TypeOK
  <2> QED  BY <2>1, <2>2 DEF Min2
<1> HIDE DEF Gaps
<1>4. GapsTrue <=> [][Gaps]_vars
  BY DEF GapsTrue, Gaps
<1> QED  BY <1>1, <1>2, <1>3, <1>4, TypeCorrect, LateWritesFail, PTL DEF Spec

-----------------------------------------------------------------------------
(* Frame numbers.                                                          *)

\* With the types this is inductive: between the halves of a frame its
\* zero-copy consumer holds no copy buffer, and the half being copied is of the
\* frame in zc_cur.
CurInv ==
  /\ frame.done /\ zc.cur # Null => held[Owner[zc.cur]] = Null
  /\ thr.busy => thr.zf = zc.cur /\ frame.done

\* The first section: the consumer of zc_cur gets no second buffer.
LEMMA HalfBeginCur ==
  ASSUME TypeOK, OnePlace, CurInv, HalfBegin
  PROVE  CurInv'
<1>0. /\ zc \in ZcStates /\ held \in [Ctxs -> BufOrNull] /\ Null \notin Bufs \cup Ctxs
      /\ Top # Bottom
  BY CaptureAssumption DEF TypeOK, Top, Bottom
<1> PICK z \in ZcStates, p \in Pairs, b \in BufOrNull, inTime \in BOOLEAN : HalfWay(z, p, b, inTime)
  BY HalfBeginWay
<1>1. z.cur = zc.cur /\ ~thr.busy
  BY DEF HalfWay, HalfSet
<1>2. CASE \E m : StaleTop(z, m, b)
  BY <1>1, <1>2 DEF StaleTop, NoTop, CurInv
<1>3. CASE \E m, moved : EndWithoutFrame(z, m, moved)
  BY <1>1, <1>3 DEF EndWithoutFrame, NoTop, CurInv
<1>4. CASE frame.done /\ \E m, ts, hdcp : BottomBegin(z, m, ts, hdcp)
  <2>1. zc' = z /\ thr'.zf = zc.cur /\ UNCHANGED <<frame, held>>
    BY <1>4 DEF BottomBegin
  <2> QED  BY <1>1, <1>4, <2>1 DEF CurInv
<1>5. CASE \E m, ts, hdcp : TopBegin(z, m, b, ts, hdcp)
  <2> PICK m, ts, hdcp : TopBegin(z, m, b, ts, hdcp)
    BY <1>5
  <2> DEFINE skip == IF zc.cur = Null THEN Null ELSE Owner[zc.cur]
             q == QueueWithout(queue, {b})
             ahd == IF frame.done THEN NextSeq(ahead) ELSE ahead
             twice == HeldTwice(skip)
  <2>1. /\ zc' = z /\ thr'.zf = zc.cur /\ frame'.done
        /\ \E t \in HoldChoices(q, skip, ahd) :
             held' = [c \in Ctxs |-> IF held[c] \in twice THEN Null ELSE HeldAfter(t)[c]]
    BY DEF TopBegin
  <2> PICK t \in HoldChoices(q, skip, ahd) :
             held' = [c \in Ctxs |-> IF held[c] \in twice THEN Null ELSE HeldAfter(t)[c]]
    BY <2>1
  <2>2. skip \notin DOMAIN t
    <3> HIDE DEF skip
    <3> QED  BY DEF HoldChoices, Takers
  <2>3. ASSUME zc.cur # Null PROVE held'[Owner[zc.cur]] = Null
    <3>1. skip = Owner[zc.cur] /\ skip \in Ctxs /\ skip # Null
      BY <1>0, <2>3, CaptureAssumption DEF ZcStates, BufOrNull
    <3>2. twice = {held[skip]} \ {Null}
      BY <3>1 DEF HeldTwice
    <3> HIDE DEF skip, twice
    <3>3. held'[skip] = IF held[skip] \in twice THEN Null ELSE held[skip]
      BY <2>2, <3>1 DEF HeldAfter
    <3> QED  BY <3>1, <3>2, <3>3
  <2> QED  BY <1>1, <2>1, <2>3 DEF CurInv
<1> QED  BY <1>2, <1>3, <1>4, <1>5 DEF HalfWay

\* Each step keeps it: nothing but its frame's end touches a half being copied.
LEMMA NextCur == TypeOK /\ OnePlace /\ CurInv /\ [Next]_vars => CurInv'
<1> SUFFICES ASSUME TypeOK, OnePlace, CurInv, [Next]_vars PROVE CurInv'
  OBVIOUS
<1>0. /\ zc \in ZcStates /\ started \in BOOLEAN /\ thr \in Copies /\ frame \in Frames
      /\ held \in [Ctxs -> BufOrNull]
  BY DEF TypeOK
<1>1. CASE CardHalfDone
  <2>1. /\ UNCHANGED <<frame, zc, held>>
        /\ thr' = IF ~thr.busy THEN thr ELSE
               [thr EXCEPT !.ts = Older(@), !.src = IF card.pair = Bottom THEN Older(@) ELSE @]
    BY <1>1 DEF CardHalfDone
  <2>2. thr'.busy = thr.busy /\ thr'.zf = thr.zf
    BY <1>0, <2>1 DEF Copies
  <2> QED  BY <2>1, <2>2 DEF CurInv
<1>2. ASSUME UNCHANGED <<thr, frame, zc, held>> PROVE CurInv'
  BY <1>2 DEF CurInv
<1>3. CASE CardLoses \/ IrqHandler \/ IrqAcknowledge \/ ThreadSkips \/ Resume
  BY <1>2, <1>3 DEF CardLoses, IrqHandler, IrqAcknowledge, ThreadSkips, Resume
<1>4. CASE HalfBegin
  BY <1>4, HalfBeginCur
<1>5. CASE TopEnd
  <2>1. thr' = Idle /\ frame' = [frame EXCEPT !.late = CopyLate] /\ UNCHANGED <<zc, held>>
    BY <1>5 DEF TopEnd
  <2>2. frame'.done = frame.done
    BY <1>0, <2>1 DEF Frames
  <2> QED  BY <2>1, <2>2 DEF CurInv, Idle
<1>6. CASE BottomEnd
  BY <1>6 DEF BottomEnd, CurInv, Idle, NoTop
<1>7. CASE StatusFindsLoss \/ StatusFindsCapture \/ PollSame
  BY <1>2, <1>7 DEF StatusFindsLoss, StatusFindsCapture, PollSame
<1>8. ASSUME ~thr.busy, UNCHANGED thr, NEW s \in BOOLEAN, zc' = ZcStop(zc, s) PROVE CurInv'
  <2>1. zc'.cur = Null
    BY <1>0, <1>8, ZcStopFlags
  <2> QED  BY <1>8, <2>1 DEF CurInv
<1>9. CASE PollResize \/ PollBadSize \/ Reinit
  BY <1>0, <1>8, <1>9 DEF PollResize, PollBadSize, Reinit, TakeBackZc, StatusTurn
<1>10. CASE PollNoVideo
  <2>1. CASE started
    BY <1>10, <2>1 DEF PollNoVideo, StatusTurn, CurInv, NoTop
  <2>2. CASE ~started
    BY <1>2, <1>10, <2>2 DEF PollNoVideo
  <2> QED  BY <1>0, <2>1, <2>2
<1>11. ASSUME NEW b \in Bufs, QBuf(b) PROVE CurInv'
  BY <1>2, <1>11 DEF QBuf
<1>12. ASSUME NEW c \in Ctxs, StreamOn(c) \/ JoinEngine(c) \/ StreamOff(c) \/ StopWaited(c)
                              \/ StopTimesOut(c) \/ StopTimeout(c) \/ StopEngine(c)
       PROVE CurInv'
  BY <1>2, <1>12 DEF StreamOn, JoinEngine, StreamOff, StopWaited, StopTimesOut, StopTimeout, StopEngine
<1>13. ASSUME NEW c \in Ctxs, StartEngine(c) \/ StopForce(c) PROVE CurInv'
  BY <1>8, <1>13 DEF StartEngine, StopForce, TakeBackZc
<1>14. ASSUME NEW c \in Ctxs, StopTakeBack(c) PROVE CurInv'
  <2>1. /\ ~thr.busy /\ UNCHANGED <<thr, frame>> /\ held' = [held EXCEPT ![c] = Null]
        /\ zc' = zc \/ zc' = ZcStop(zc, FALSE)
    BY <1>14 DEF StopTakeBack
  <2>2. CASE zc' = zc
    <3>1. \A d : d \in Ctxs => held'[d] = Null \/ held'[d] = held[d]
      BY <1>0, <2>1
    <3>2. zc.cur # Null => Owner[zc.cur] \in Ctxs
      BY <1>0, CaptureAssumption DEF ZcStates, BufOrNull
    <3> QED  BY <2>1, <2>2, <3>1, <3>2 DEF CurInv
  <2> QED  BY <1>8, <2>1, <2>2
<1>15. CASE Suspend
  BY <1>8, <1>15 DEF Suspend, TakeBackZc
<1>16. CASE UNCHANGED vars
  BY <1>2, <1>16 DEF vars
<1> QED  BY <1>1, <1>3, <1>4, <1>5, <1>6, <1>7, <1>9, <1>10, <1>11, <1>12, <1>13, <1>14, <1>15, <1>16
         DEF Next, Thread, HalfEnd, Status, StopSteps

\* Nothing is copied at the start.
LEMMA InitCur == Init => CurInv
BY DEF Init, CurInv, Idle, NoTop

\* When starts and stops are apart a handle that was given a frame is one that
\* still counts, and with no user left nothing is in flight, so m_FrameSeq goes
\* back to 0 only where nobody was given a frame.
FedInv ==
  /\ reset = {}
  /\ \A c \in fed : pc[c] # "off"
  /\ users = 0 => fed = {} /\ Flight = {}

\* With the queues as they were nothing enters flight.
LEMMA FlightShrinks ==
  ASSUME TypeOK, OnePlace, TypeOK', OnePlace', UNCHANGED queue, app \subseteq app'
  PROVE  Flight' \subseteq Flight
<1>1. Flight' \subseteq Bufs /\ \A b \in Flight' : b \notin app' /\ \A c \in Ctxs : b \notin queue'[c]
  BY DEF OnePlace, Flight
<1>2. Bufs = app \cup (UNION {queue[c] : c \in Ctxs}) \cup Flight
  BY DEF OnePlace, Flight
<1> QED  BY <1>1, <1>2

\* A frame that is given to somebody: its handle has not left.
LEMMA FlightOwners ==
  ASSUME Known, NEW b \in Flight
  PROVE  b \in Bufs /\ Owner[b] \in Ctxs /\ pc[Owner[b]] # "off"
<1>1. b \in Bufs
  BY HeldBufsType DEF Known, Flight, TypeOK, ZcStates, InZc, HeldBufs, BufOrNull
<1> QED  BY <1>1, CaptureAssumption DEF Known, StopInv

\* The second section of a bottom half gives frames to the handles they are of.
LEMMA BottomEndFed ==
  ASSUME Known, CurInv, FedInv, NoSequenceRepeat, TypeOK', OnePlace', BottomEnd
  PROVE  FedInv' /\ NoSequenceRepeat'
<1>0. TypeOK /\ OnePlace /\ thr.busy /\ UNCHANGED <<pc, users, queue>> /\ app \subseteq app'
  BY DEF Known, BottomEnd, ctxVars, Complete
<1> PICK z \in ZcStates, got \in SUBSET Bufs : FrameWay(z, got)
  BY <1>0, BottomEndWay
<1>1. thr.zf = zc.cur /\ (zc.cur # Null => held[Owner[zc.cur]] = Null)
  BY <1>0 DEF CurInv
<1>2. got \subseteq Flight
  BY <1>1 DEF FrameWay, Flight, InZc
<1>3. fed' = fed \cup {Owner[b] : b \in got} /\ reset' = {}
  BY DEF FrameWay
<1>4. \A c \in fed' : pc'[c] # "off"
  BY <1>0, <1>2, <1>3, FlightOwners DEF FedInv
<1>5. users' = 0 => fed' = {} /\ Flight' = {}
  BY <1>0, <1>2, <1>3, FlightShrinks DEF FedInv
<1>6. ASSUME NEW b \in Bufs PROVE res'[b] # "repeat"
  <2>1. CASE b \in got
    <3>1. Owner[b] \notin reset /\ ~(b = thr.zf /\ held[Owner[b]] # Null)
      BY <1>1, <1>6, CaptureAssumption DEF FedInv
    <3> QED  BY <2>1, <3>1 DEF FrameWay
  <2>2. CASE b \notin got
    <3> DEFINE back == HeldBufs \cup Releasable(Advance(z))
    <3>1. res'[b] = Failed({thr.zf}, back)[b]
      BY <2>2 DEF FrameWay
    <3> HIDE DEF back
    <3> QED  BY <3>1 DEF Failed, NoSequenceRepeat
  <2> QED  BY <2>1, <2>2
<1> QED  BY <1>3, <1>4, <1>5, <1>6 DEF FedInv, NoSequenceRepeat

\* Blue frames are numbered like any other.
LEMMA DeliverFed ==
  ASSUME Known, EngineInv, FedInv, NoSequenceRepeat, started, UNCHANGED <<pc, users>>,
         NEW out, NEW pics, DeliverNoVideo(out, pics)
  PROVE  FedInv' /\ NoSequenceRepeat'
<1>0. users # 0
  BY DEF EngineInv, Known, TypeOK
<1> PICK t \in HoldChoices(queue, Null, ahead) :
      /\ res' = [b \in Bufs |-> IF b \in HeldBufs \cup (Image(t) \ SmallBufs) THEN Verdict(pic, b, TRUE)
                                ELSE Failed({zc.cur, zc.next} \ {zc'.cur, zc'.next},
                                            (Image(t) \cap SmallBufs) \cup out)[b]]
      /\ Number(TRUE, AheadAfter(t, ahead), {Owner[b] : b \in HeldBufs \cup (Image(t) \ SmallBufs)})
  BY DEF DeliverNoVideo
<1> DEFINE blue == HeldBufs \cup (Image(t) \ SmallBufs)
<1>1. reset' = {} /\ fed' = fed \cup {Owner[b] : b \in blue}
  BY DEF Number
<1>2. ASSUME NEW b \in blue PROVE pc[Owner[b]] # "off"
  <2>1. CASE b \in HeldBufs
    BY <2>1, FlightOwners DEF Flight
  <2>2. CASE b \in Image(t)
    <3>1. PICK c \in DOMAIN t : b = t[c]
      BY <2>2 DEF Image
    <3>2. c \in streaming /\ c \in Ctxs /\ b \in queue[c]
      BY <3>1 DEF HoldChoices, Takers, Known, TypeOK
    <3>3. Owner[b] = c
      BY <3>2 DEF Known, OnePlace
    <3> QED  BY <3>2, <3>3 DEF Known, StopInv
  <2> QED  BY <1>2, <2>1, <2>2
<1>3. ASSUME NEW b \in Bufs PROVE res'[b] # "repeat"
  <2>1. Verdict(pic, b, TRUE) = "ok"
    BY DEF Verdict, FedInv
  <2> DEFINE f == Failed({zc.cur, zc.next} \ {zc'.cur, zc'.next}, (Image(t) \cap SmallBufs) \cup out)
  <2>2. f[b] # "repeat"
    BY DEF Failed, NoSequenceRepeat
  <2> HIDE DEF f
  <2>3. res'[b] = IF b \in blue THEN Verdict(pic, b, TRUE) ELSE f[b]
    BY DEF f
  <2> QED  BY <2>1, <2>2, <2>3
<1> HIDE DEF blue
<1> QED  BY <1>0, <1>1, <1>2, <1>3 DEF FedInv, NoSequenceRepeat

\* Each step keeps it, and numbers no frame twice.
LEMMA NextFed ==
  Known /\ EngineInv /\ CurInv /\ StartsApart /\ FedInv /\ NoSequenceRepeat /\ [Next]_vars
    => FedInv' /\ NoSequenceRepeat'
<1> SUFFICES ASSUME Known, EngineInv, CurInv, StartsApart, FedInv, NoSequenceRepeat, [Next]_vars
             PROVE  FedInv' /\ NoSequenceRepeat'
  OBVIOUS
<1> DEFINE Goal == FedInv' /\ NoSequenceRepeat'
<1>0. /\ TypeOK /\ OnePlace /\ zc \in ZcStates /\ started \in BOOLEAN /\ users \in Int
      /\ res \in [Bufs -> Results] /\ pc \in [Ctxs -> PcValues] /\ (started => users # 0)
      /\ TypeOK' /\ OnePlace'
  BY KnownInductive DEF Known, TypeOK, EngineInv
<1>1. \A S, back : \A b \in Bufs : Failed(S, back)[b] # "repeat"
  BY DEF Failed, NoSequenceRepeat
\* The steps that give nobody a frame and take nothing from a queue.
<1>2. ASSUME UNCHANGED <<fed, reset>>, (users' = 0 => users = 0 /\ Flight' \subseteq Flight),
             \A c \in Ctxs : pc'[c] = "off" => pc[c] = "off",
             res' = res \/ (\E S, back : res' = Failed(S, back)) \/ \E b \in Bufs : res' = [res EXCEPT ![b] = "ok"]
      PROVE  Goal
  <2>1. NoSequenceRepeat'
    BY <1>0, <1>1, <1>2 DEF NoSequenceRepeat
  <2>2. fed \subseteq Ctxs
    BY <1>0 DEF TypeOK
  <2> QED  BY <1>2, <2>1, <2>2 DEF FedInv
<1>3. ASSUME UNCHANGED <<held, zc>> PROVE Flight' = Flight
  BY <1>3 DEF Flight, HeldBufs
<1>4. CASE CardHalfDone \/ CardLoses \/ IrqHandler \/ IrqAcknowledge \/ ThreadSkips \/ TopEnd
  BY <1>2, <1>3, <1>4 DEF CardHalfDone, CardLoses, IrqHandler, IrqAcknowledge, ThreadSkips, TopEnd,
     seqVars, ctxVars
<1>5. CASE StatusFindsLoss \/ StatusFindsCapture \/ PollSame \/ Resume
  BY <1>2, <1>3, <1>5 DEF StatusFindsLoss, StatusFindsCapture, PollSame, Resume, seqVars, ctxVars
<1>6. CASE HalfBegin
  <2>1. /\ UNCHANGED <<users, pc>> /\ users # 0
    BY <1>0, <1>6 DEF HalfBegin, ctxVars
  <2> PICK z \in ZcStates, p \in Pairs, b \in BufOrNull, inTime \in BOOLEAN : HalfWay(z, p, b, inTime)
    BY <1>0, <1>6, HalfBeginWay
  <2>2. fed' = fed /\ (reset' = reset \/ reset' = {})
        /\ (res' = res \/ \E S, back : res' = Failed(S, back))
    <3>1. CASE \E m : StaleTop(z, m, b)
      BY <3>1 DEF StaleTop, Number
    <3>2. CASE \E m, ts, hdcp : TopBegin(z, m, b, ts, hdcp)
      BY <3>2 DEF TopBegin
    <3>3. CASE \E m, moved : EndWithoutFrame(z, m, moved)
      BY <3>3 DEF EndWithoutFrame, Number
    <3>4. CASE \E m, ts, hdcp : BottomBegin(z, m, ts, hdcp)
      BY <3>4 DEF BottomBegin, seqVars
    <3> QED  BY <3>1, <3>2, <3>3, <3>4 DEF HalfWay
  <2>3. NoSequenceRepeat'
    BY <1>1, <2>2 DEF NoSequenceRepeat
  <2> QED  BY <2>1, <2>2, <2>3 DEF FedInv
<1>7. CASE BottomEnd
  BY <1>0, <1>7, BottomEndFed
<1>8. ASSUME UNCHANGED <<queue, fed, reset, users>>, \E s, pics : TakeBackZc(s, pics),
             \A c \in Ctxs : pc'[c] = "off" => pc[c] = "off"
      PROVE  Goal
  <2>1. app \subseteq app' /\ \E S, back : res' = Failed(S, back)
    BY <1>8 DEF TakeBackZc, Complete
  <2>2. Flight' \subseteq Flight
    BY <1>0, <1>8, <2>1, FlightShrinks
  <2> QED  BY <1>2, <1>8, <2>1, <2>2
<1>9. CASE PollResize \/ Reinit
  BY <1>8, <1>9 DEF PollResize, Reinit, seqVars, ctxVars
<1>10. CASE PollNoVideo
  <2>1. CASE started
    BY <1>10, <2>1, DeliverFed DEF PollNoVideo, ctxVars
  <2>2. CASE ~started
    BY <1>2, <1>3, <1>10, <2>2 DEF PollNoVideo, seqVars, ctxVars
  <2> QED  BY <1>0, <2>1, <2>2
<1>11. CASE PollBadSize
  <2>1. CASE started
    BY <1>11, <2>1, DeliverFed DEF PollBadSize, ctxVars
  <2>2. CASE ~started
    BY <1>8, <1>11, <2>2 DEF PollBadSize, seqVars, ctxVars
  <2> QED  BY <1>0, <2>1, <2>2
<1>12. ASSUME NEW b \in Bufs, QBuf(b) PROVE Goal
  BY <1>2, <1>3, <1>12 DEF QBuf, seqVars, ctxVars
<1>13. ASSUME NEW c \in Ctxs, StreamOn(c) \/ JoinEngine(c) \/ StopWaited(c) \/ StopTimesOut(c) \/ StopTimeout(c)
       PROVE  Goal
  <2>1. /\ UNCHANGED <<held, zc, fed, reset, res>> /\ (users' = users \/ (users' = users + 1 /\ users > 0))
        /\ \E v \in {"starting", "on", "timed_out", "leaving", "quiesced"} : pc' = [pc EXCEPT ![c] = v]
    BY <1>13 DEF StreamOn, JoinEngine, StopWaited, StopTimesOut, StopTimeout, seqVars
  <2>2. \A d \in Ctxs : pc'[d] = "off" => pc[d] = "off"
    BY <1>0, <2>1
  <2>3. users' = 0 => users = 0
    BY <1>0, <2>1
  <2> QED  BY <1>2, <1>3, <2>1, <2>2, <2>3
<1>14. ASSUME NEW c \in Ctxs, StartEngine(c) PROVE Goal
  <2>1. /\ users = 0 /\ users' = 1 /\ pc' = [pc EXCEPT ![c] = "on"]
        /\ reset' = fed \cap streaming /\ fed' = fed /\ \E S, back : res' = Failed(S, back)
    BY <1>14 DEF StartEngine, TakeBackZc
  <2>2. fed = {}
    BY <2>1 DEF FedInv
  <2>3. NoSequenceRepeat'
    BY <1>1, <2>1 DEF NoSequenceRepeat
  <2> QED  BY <2>1, <2>2, <2>3 DEF FedInv
<1>15. ASSUME NEW c \in Ctxs, StreamOff(c) PROVE Goal
  <2>1. /\ UNCHANGED <<held, zc, fed, reset, users>> /\ pc' = [pc EXCEPT ![c] = "drained"]
        /\ res' = Failed({}, queue[c])
    BY <1>15 DEF StreamOff, seqVars
  <2>2. \A d \in Ctxs : pc'[d] = "off" => pc[d] = "off"
    BY <1>0, <2>1
  <2> QED  BY <1>2, <1>3, <2>1, <2>2
<1>16. ASSUME NEW c \in Ctxs, StopTakeBack(c) PROVE Goal
  <2>1. /\ UNCHANGED <<queue, fed, reset, users>> /\ pc' = [pc EXCEPT ![c] = "waiting"]
        /\ app \subseteq app' /\ \E S, back : res' = Failed(S, back)
    BY <1>16 DEF StopTakeBack, seqVars, Complete
  <2>2. \A d \in Ctxs : pc'[d] = "off" => pc[d] = "off"
    BY <1>0, <2>1
  <2>3. Flight' \subseteq Flight
    BY <1>0, <2>1, FlightShrinks
  <2> QED  BY <1>2, <2>1, <2>2, <2>3
<1>17. ASSUME NEW c \in Ctxs, StopForce(c) PROVE Goal
  <2>1. /\ UNCHANGED <<queue, fed, reset, users>> /\ pc' = [pc EXCEPT ![c] = "waiting_again"]
        /\ \E s, pics : TakeBackZc(s, pics)
    BY <1>17 DEF StopForce, seqVars
  <2>2. \A d \in Ctxs : pc'[d] = "off" => pc[d] = "off"
    BY <1>0, <2>1
  <2> QED  BY <1>8, <2>1, <2>2
<1>18. ASSUME NEW c \in Ctxs, StopEngine(c) PROVE Goal
  <2>1. /\ pc[c] = "leaving" /\ pc' = [pc EXCEPT ![c] = "off"] /\ users' = users - 1
        /\ fed' = fed \ {c} /\ reset' = reset \ {c} /\ UNCHANGED <<held, zc, res>>
    BY <1>18 DEF StopEngine
  <2>2. fed \subseteq Ctxs
    BY <1>0 DEF TypeOK
  <2>3. \A d \in fed' : pc'[d] # "off"
    BY <1>0, <2>1, <2>2 DEF FedInv
  <2>4. ASSUME users' = 0 PROVE fed' = {} /\ Flight' = {}
    <3>1. users <= 1
      BY <1>0, <2>1, <2>4
    <3>2. \A d \in Ctxs \ {c} : pc[d] = "off"
      BY <2>1, <3>1, LastUser DEF Stopping
    <3>3. Flight = {}
      BY <2>1, <3>2, AllOff
    <3> QED  BY <1>3, <2>1, <2>2, <3>2, <3>3 DEF FedInv
  <2> QED  BY <2>1, <2>3, <2>4 DEF FedInv, NoSequenceRepeat
<1>19. CASE Suspend
  BY <1>8, <1>19 DEF Suspend, seqVars, ctxVars
<1>20. CASE UNCHANGED vars
  BY <1>2, <1>3, <1>20 DEF vars, seqVars, ctxVars
<1> QED  BY <1>4, <1>5, <1>6, <1>7, <1>9, <1>10, <1>11, <1>12, <1>13, <1>14, <1>15, <1>16,
            <1>17, <1>18, <1>19, <1>20 DEF Next, Thread, HalfEnd, Status, StopSteps

\* Nobody was given a frame at the start.
LEMMA InitFed == Init => FedInv /\ NoSequenceRepeat
<1> SUFFICES ASSUME Init PROVE FedInv /\ NoSequenceRepeat
  OBVIOUS
<1>1. Flight = {}
  BY DEF Init, Flight, HeldBufs, InZc
<1> QED  BY <1>1 DEF Init, FedInv, NoSequenceRepeat

\* No consumer gets a frame number it had since its STREAMON: StartEngine() sets
\* m_FrameSeq back with nobody streaming, and a consumer of zc_cur gets no copy of
\* the same frame, unless a STREAMON meets a STREAMOFF.
THEOREM NumbersOnce == Spec /\ []StartsApart => []NoSequenceRepeat
<1>1. Known /\ CurInv /\ [Next]_vars => CurInv'
  BY NextCur DEF Known
<1>2. Spec => []CurInv
  BY <1>1, KnownAlways, InitCur, PTL DEF Spec
<1>3. FedInv /\ NoSequenceRepeat /\ (Known /\ EngineInv /\ FollowInv) /\ CurInv /\ StartsApart /\ [Next]_vars
        => (FedInv /\ NoSequenceRepeat)'
  BY NextFed
<1> QED  BY <1>2, <1>3, FollowAlways, InitFed, PTL DEF Spec

\* A single handle never gets a number twice.
THEOREM NumbersOnceOne ==
  ASSUME NEW h, Ctxs = {h}
  PROVE  Spec => []NoSequenceRepeat
<1>1. Spec => []StartsApart
  BY OneApart
<1> QED  BY <1>1, NumbersOnce, PTL

-----------------------------------------------------------------------------
(* What a frame given to the application holds.                            *)

\* With these the driver can tell a fresh half from an old one: every half raises
\* an interrupt of its own, no run state is lost, ages are exact up to 1, and a
\* bottom half is left out on purpose only with copies.
OnTime ==
  /\ Env \cap {"late_irq", "card_loss"} = {}
  /\ MaxAge > 1
  /\ "stale_knob" \in Env => ZcCtxs = {}

\* While events are skipped for want of a signal there is no half frame to be
\* joined with a later half, and no zero-copy.
SkipsClean == noVideo /\ started => ~frame.done /\ (ZcCtxs = {} \/ zc.stable = 0)

\* The toggle is that of the half before the one the card writes: not between a
\* restart and the first half after it, if a top half was the last.
InSync == card.toggle # card.pair

\* A completed half the thread has not taken.
Due == fifo # <<>> \/ (irq = "pending" /\ card.toggle # seen)

\* The next event will be of pair p.
NextIs(p) == IF Due THEN card.toggle = p ELSE card.pair = p
BottomNext == IF Due THEN card.toggle = Bottom ELSE started /\ card.pair = Bottom

CopyingTop == thr.busy /\ thr.pair = Top
CopyingBottom == thr.busy /\ thr.pair = Bottom

\* The half of pair p completed last is of this many frames ago.
AgeOf(p) == IF p = Top /\ card.pair = Bottom THEN 0 ELSE 1
Damaged == {Torn, Unmeasured}

\* The buffer of the frame the next event belongs to.
Coming == IF CopyingBottom THEN zc.next ELSE zc.cur
Unhooked == zc.cur = Null /\ zc.next = Null /\ \A p \in Pairs : zc.prog[p] = Null

\* A top half was taken whose bottom half is the next half to come, or is being copied.
Owed == frame.done /\ ~CopyingTop /\ (CopyingBottom \/ BottomNext)
OwedAge == IF CopyingBottom \/ card.pair = Top THEN 1 ELSE 0

\* From the card's toggle to the thread: one half at a time, in order.
PipeInv ==
  /\ irq \in {"none", "pending"} /\ ~lost /\ status # "reinit"
  /\ fifo # <<>> => fifo = <<[pair |-> card.toggle, ts |-> 0]>> /\ irq = "none"
  /\ card.pair = Bottom => card.toggle = Top
  /\ started /\ irq = "none" /\ InSync => seen = card.toggle
  /\ power # "on" => ~thr.busy /\ fifo = <<>> /\ irq = "none" /\ Unhooked /\ zc.stable = 0
  /\ ~InSync /\ Due => gap.last \in {None, MaxAge}
  /\ thr.busy /\ card.pair = thr.pair /\ ~Due => ~InSync
  /\ CopyingBottom => InSync

\* The registers follow the frames: those of a frame in zc_cur are at it until
\* their half was taken, then at zc_next; the card's run is where its register was.
HookInv ==
  /\ zc.stable < 2 \/ ZcCtxs = {} => Unhooked
  /\ started /\ zc.stable > 0 => InSync
  /\ started /\ ~Unhooked =>
       /\ thr.busy => NextIs(Other(thr.pair))
       /\ NextIs(Bottom) => zc.prog[Top] = zc.next /\ zc.prog[Bottom] = zc.cur
       /\ NextIs(Top) => /\ \A p \in Pairs : zc.prog[p] = Coming
                         /\ ~thr.busy => zc.next = Null
  /\ started /\ zc.prog[card.pair] # Null => card.dst = zc.prog[card.pair]
  /\ card.dst # Null => InSync
  /\ card.dst \in {zc.cur, zc.next} /\ card.dst # Null => card.dst = zc.prog[card.pair]

\* A DMA buffer's pair without a mark was just written; with a mark it was not,
\* while the card writes zero-copy buffers.
MarkInv ==
  /\ started /\ zc.stable = 2 /\ ZcCtxs # {} =>
       \A p \in Pairs : mark[Null][p] = "clear" =>
         \/ Due /\ card.toggle = p /\ Coming = Null
         \/ thr.busy /\ thr.pair = p /\ thr.zf = Null
  /\ started /\ zc.stable > 0 /\ frame.done /\ ~CopyingTop /\ mark[Null][Top] = "clear" =>
       Due /\ card.toggle = Top
  /\ card.dst # Null /\ mark[Null][card.pair] = "clear" =>
       thr.busy /\ thr.pair = card.pair /\ thr.zf = Null

\* What the half holds that the thread takes next.
FreshInv ==
  /\ Due /\ InSync /\ mark[Null][card.toggle] = "clear" =>
       pic[Null][card.toggle] = AgeOf(card.toggle)
  /\ ~InSync => pic[Null][Top] = Torn
  /\ started /\ Due /\ InSync /\ Coming # Null =>
       pic[Coming][card.toggle] = AgeOf(card.toggle)

\* What the frame holds whose bottom half is owed.
HalfInv ==
  /\ Owed => \A b \in HeldBufs : pic[b][Top] \in Damaged \cup {OwedAge}
  /\ Owed /\ zc.cur # Null => pic[zc.cur][Top] = OwedAge
  /\ ~InSync /\ started /\ ~Due /\ seen = Top /\ frame.done /\ ~CopyingTop =>
       \A b \in HeldBufs : pic[b][Top] \in Damaged
  /\ frame.done /\ ~CopyingTop => \A b \in HeldBufs : pic[b][Top] = Torn => frame.late

\* What is being copied.
CopyInv ==
  /\ thr.busy => thr.src \in Damaged \cup {AgeOf(thr.pair)}
  /\ CopyingTop /\ ~InSync => thr.src \in Damaged
  /\ thr.busy /\ thr.zf # Null => pic[thr.zf][thr.pair] = AgeOf(thr.pair)
  /\ thr.busy /\ gap.prev = 1 /\ (thr.zf # Null \/ thr.ts = 0) =>
       thr.src \in Ages /\ pic[thr.zf][thr.pair] = thr.src

PictureInv == PipeInv /\ HookInv /\ MarkInv /\ FreshInv /\ HalfInv /\ CopyInv

\* What is proved of the rest of the state.
Settled == Known /\ RegistersInFlight /\ CurInv /\ EngineInv /\ CardNeverWritesReturned

-----------------------------------------------------------------------------
(* Steps that leave the card, the events and what matters of the picture.  *)

\* What the arguments need of the types and the places.
LEMMA PictureFacts ==
  ASSUME Settled
  PROVE  /\ zc \in ZcStates /\ fifo \in Seq(Events) /\ Pairs = {Top, Bottom} /\ Top # Bottom
         /\ card.pair \in Pairs /\ card.toggle \in Pairs /\ card.dst \in BufOrNull /\ seen \in Pairs
         /\ card \in [pair : Pairs, dst : BufOrNull, toggle : Pairs]
         /\ pic \in PicStates /\ mark \in MarkStates
         /\ thr.pair \in Pairs /\ thr.src \in Contents /\ thr.ts \in Ages /\ thr.busy \in BOOLEAN
         /\ gap.last \in Ages \cup {None}
         /\ started \in BOOLEAN /\ frame.done \in BOOLEAN
         /\ HeldBufs \subseteq Bufs /\ Null \notin Bufs /\ Null \notin HeldBufs
         /\ \A b \in HeldBufs : b \notin InZc(zc) /\ b # zc.cur /\ b # zc.next
         /\ zc.cur \in BufOrNull /\ zc.next \in BufOrNull /\ \A p \in Pairs : zc.prog[p] \in BufOrNull
         /\ zc.cur # Null => zc.cur # zc.next
         /\ \A p \in Pairs : zc.prog[p] \notin HeldBufs
         /\ started => card.dst \notin HeldBufs \/ lost
         /\ thr.busy => thr.zf = zc.cur /\ frame.done
         /\ started => power = "on"
<1>1. /\ zc \in ZcStates /\ fifo \in Seq(Events) /\ Pairs = {Top, Bottom} /\ Top # Bottom
      /\ card.pair \in Pairs /\ card.toggle \in Pairs /\ card.dst \in BufOrNull /\ seen \in Pairs
      /\ card \in [pair : Pairs, dst : BufOrNull, toggle : Pairs]
      /\ pic \in PicStates /\ mark \in MarkStates
      /\ thr.pair \in Pairs /\ thr.src \in Contents /\ thr.ts \in Ages /\ thr.busy \in BOOLEAN
      /\ gap.last \in Ages \cup {None}
      /\ started \in BOOLEAN /\ frame.done \in BOOLEAN
  BY DEF Settled, Known, TypeOK, Copies, Frames, Pairs, Top, Bottom
<1>2. HeldBufs \subseteq Bufs /\ Null \notin Bufs /\ Null \notin HeldBufs
  BY CaptureAssumption DEF Settled, Known, TypeOK, HeldBufs, BufOrNull
<1>3. zc.cur \in BufOrNull /\ zc.next \in BufOrNull /\ \A p \in Pairs : zc.prog[p] \in BufOrNull
  BY <1>1 DEF ZcStates
<1>4. /\ \A b \in HeldBufs : b \notin InZc(zc)
      /\ zc.cur # Null => zc.cur # zc.next
  BY DEF Settled, Known, OnePlace
<1>5. \A b \in HeldBufs : b # zc.cur /\ b # zc.next
  BY <1>2, <1>4 DEF InZc
<1>6. \A p \in Pairs : zc.prog[p] \notin HeldBufs
  BY <1>2, <1>4 DEF Settled, RegistersInFlight
<1>7. started => card.dst \notin HeldBufs \/ lost
  BY <1>2, <1>4 DEF Settled, CardNeverWritesReturned
<1>8. (thr.busy => thr.zf = zc.cur /\ frame.done) /\ (started => power = "on")
  BY DEF Settled, CurInv, EngineInv
<1> QED  BY <1>1, <1>2, <1>3, <1>4, <1>5, <1>6, <1>7, <1>8

\* Nothing the card, the interrupt handler or the thread does: the engine may stop,
\* the frame may be dropped, held buffers and the zero-copy state may go back.
Steady ==
  /\ UNCHANGED <<card, irq, seen, fifo, thr, gap, lost, power>>
  /\ status' # "reinit" /\ (started' => started)
  /\ frame' = frame \/ ~frame'.done
  /\ zc' = zc \/ (~thr.busy /\ Unhooked' /\ zc'.stable = 0)
  /\ HeldBufs' \subseteq HeldBufs
  /\ \A d \in HeldBufs' \cup {Null, zc'.cur, zc'.next} : pic'[d] = pic[d]
  /\ mark'[Null] = mark[Null]

\* What is dropped or given back meanwhile takes its obligations with it.
LEMMA SteadyKeeps ==
  ASSUME Settled, PictureInv, Steady
  PROVE  PictureInv'
<1>0. /\ thr.busy => thr.zf = zc.cur
      /\ thr.pair \in Pairs /\ Top # Bottom /\ card.toggle \in Pairs /\ card.pair \in Pairs
  BY PictureFacts
<1>1. PipeInv'
  BY DEF PictureInv, PipeInv, Steady, Due, InSync, CopyingBottom, Unhooked
<1>2. HookInv'
  <2>1. CASE zc' = zc
    BY <2>1 DEF PictureInv, HookInv, Steady, Due, InSync, CopyingBottom, Unhooked, NextIs, Coming
  <2>2. CASE Unhooked' /\ zc'.stable = 0
    BY <1>0, <2>2 DEF PictureInv, HookInv, Steady, InSync, Unhooked
  <2> QED  BY <2>1, <2>2 DEF Steady
<1>3. MarkInv'
  BY <1>0 DEF PictureInv, MarkInv, Steady, Due, CopyingTop, CopyingBottom, Unhooked, Coming
<1>4. FreshInv'
  BY <1>0 DEF PictureInv, FreshInv, Steady, Due, InSync, CopyingBottom, Unhooked, Coming, AgeOf
<1>5. HalfInv'
  BY <1>0 DEF PictureInv, HalfInv, Steady, Owed, OwedAge, BottomNext, Due, InSync, CopyingTop,
              CopyingBottom, Unhooked
<1>6. CopyInv'
  BY <1>0 DEF PictureInv, CopyInv, Steady, InSync, CopyingTop, AgeOf
<1> QED  BY <1>1, <1>2, <1>3, <1>4, <1>5, <1>6 DEF PictureInv

\* What the card had written when the engine starts: the DMA buffers' top half is torn,
\* and a frame it had not finished is one frame older.
LEMMA StartFramePics ==
  ASSUME TypeOK
  PROVE  /\ StartFrame[Null][Top] = Torn
         /\ \A d \in Dests : StartFrame[d][Top] = Torn /\ d # Null => pic[d][Top] = Torn
         /\ card.pair = Top => /\ \A d \in Dests : d # Null => StartFrame[d][Top] = pic[d][Top]
                               /\ \A d \in Dests : StartFrame[d][Bottom] = pic[d][Bottom]
<1> DEFINE before == IF card.pair = Bottom THEN AgeFrames(pic) ELSE pic
<1>1. pic \in PicStates /\ AgeFrames(pic) \in PicStates /\ Top \in Pairs /\ Bottom \in Pairs
      /\ Top # Bottom /\ Null \in Dests
  BY AgeFramesType, ValueTypes DEF TypeOK, Top, Bottom
<1>2. before \in PicStates
  BY <1>1
<1>3. \A d \in Dests : AgeFrames(pic)[d][Top] = Torn => pic[d][Top] = Torn
  BY <1>1, CaptureAssumption DEF AgeFrames, Older, Ages, Torn, Min2
<1> HIDE DEF before
<1>4. StartFrame = [before EXCEPT ![Null][Top] = Torn]
  BY DEF StartFrame, StartRun, before
<1>5. \A d \in Dests, p \in Pairs :
        StartFrame[d][p] = IF d = Null /\ p = Top THEN Torn ELSE before[d][p]
  BY <1>1, <1>2, <1>4 DEF PicStates
<1> QED  BY <1>1, <1>3, <1>5 DEF before

\* The engine was stopped and starts again, or starts for the first handle.
Restarted ==
  /\ ~thr.busy /\ card' = [card EXCEPT !.pair = Top, !.dst = Null]
  /\ UNCHANGED <<irq, fifo, thr, power>> /\ ~lost' /\ seen' = Bottom /\ status' # "reinit"
  /\ gap'.last \in {None, MaxAge}
  /\ frame' = frame \/ ~frame'.done
  /\ Unhooked' /\ zc'.stable = 0
  /\ HeldBufs' \subseteq HeldBufs
  /\ \A d \in HeldBufs' \cup {Null} : pic'[d] = StartFrame[d]
  /\ mark'[Null] = mark[Null]

\* StartVideoCapture() with nothing hooked: what was due or half taken is torn, old
\* or followed by a long gap.
LEMMA RestartedKeeps ==
  ASSUME Settled, PictureInv, Restarted
  PROVE  PictureInv'
<1>0. /\ TypeOK /\ Top # Bottom /\ Pairs = {Top, Bottom} /\ card.pair \in Pairs /\ card.toggle \in Pairs
      /\ card \in [pair : Pairs, dst : BufOrNull, toggle : Pairs] /\ seen \in Pairs
      /\ HeldBufs \subseteq Dests /\ Null \notin HeldBufs /\ Null \in Dests
  BY PictureFacts, ValueTypes DEF Settled, Known
<1>1. /\ StartFrame[Null][Top] = Torn
      /\ \A d \in Dests : StartFrame[d][Top] = Torn /\ d # Null => pic[d][Top] = Torn
      /\ card.pair = Top => /\ \A d \in Dests : d # Null => StartFrame[d][Top] = pic[d][Top]
                            /\ \A d \in Dests : StartFrame[d][Bottom] = pic[d][Bottom]
  BY <1>0, StartFramePics
<1>2. /\ card'.pair = Top /\ card'.dst = Null /\ card'.toggle = card.toggle
      /\ ~thr'.busy /\ (InSync' <=> card.toggle = Bottom)
  BY <1>0 DEF Restarted, InSync
<1>3. card.toggle = Bottom => card.pair = Top /\ InSync /\ (Due' => Due /\ fifo # <<>>)
  BY <1>0, <1>2 DEF PictureInv, PipeInv, Restarted, InSync, Due
<1>4. PipeInv'
  BY <1>0, <1>2 DEF PictureInv, PipeInv, Restarted, Due, InSync, CopyingBottom, Unhooked
<1>5. HookInv'
  BY <1>0, <1>2 DEF HookInv, Restarted, Unhooked
<1>6. MarkInv'
  BY <1>2 DEF MarkInv, Restarted
<1>7. FreshInv'
  <2>1. Due' /\ InSync' /\ mark'[Null][card'.toggle] = "clear" =>
         pic'[Null][card'.toggle] = AgeOf(card.toggle)'
    BY <1>0, <1>1, <1>2, <1>3 DEF PictureInv, FreshInv, Restarted, AgeOf
  <2> QED  BY <1>0, <1>1, <1>2, <2>1 DEF FreshInv, Restarted, Unhooked, Coming, CopyingBottom
<1>8. HalfInv'
  BY <1>0, <1>1, <1>2, <1>3
     DEF PictureInv, HalfInv, Restarted, Owed, OwedAge, BottomNext, CopyingTop, CopyingBottom, Unhooked
<1>9. CopyInv'
  BY <1>2 DEF CopyInv, CopyingTop
<1> QED  BY <1>4, <1>5, <1>6, <1>7, <1>8, <1>9 DEF PictureInv

\* hws_suspend(): the engine is at rest and no event is left.
Suspended ==
  /\ ~thr.busy /\ ~started' /\ irq' = "none" /\ fifo' = <<>>
  /\ UNCHANGED <<card, seen, thr, gap, lost, status, frame, held>>
  /\ Unhooked' /\ zc'.stable = 0
  /\ \A d \in HeldBufs \cup {Null} : pic'[d] = pic[d]
  /\ mark'[Null] = mark[Null]

\* A sleeping system has no event on its way.
LEMMA SuspendedKeeps ==
  ASSUME Settled, PictureInv, Suspended
  PROVE  PictureInv'
<1>1. ~Due' /\ (InSync' <=> InSync) /\ ~thr'.busy /\ HeldBufs' = HeldBufs
  BY DEF Suspended, Due, InSync, HeldBufs
<1>2. PipeInv'
  BY <1>1 DEF PictureInv, PipeInv, Suspended, CopyingBottom, Unhooked
<1>3. HookInv'
  BY <1>1 DEF PictureInv, HookInv, Suspended, Unhooked
<1>4. MarkInv'
  BY <1>1 DEF PictureInv, MarkInv, Suspended
<1>5. FreshInv'
  BY <1>1 DEF PictureInv, FreshInv, Suspended
<1>6. HalfInv'
  BY <1>1 DEF PictureInv, HalfInv, Suspended, Owed, BottomNext, CopyingTop, CopyingBottom
<1>7. CopyInv'
  BY <1>1 DEF CopyInv, CopyingTop
<1> QED  BY <1>2, <1>3, <1>4, <1>5, <1>6, <1>7 DEF PictureInv

\* hws_resume(): nothing is on its way, and the card starts a new frame.
LEMMA ResumeKeeps ==
  ASSUME Settled, PictureInv, Resume
  PROVE  PictureInv'
<1>0. /\ TypeOK /\ Top # Bottom /\ HeldBufs \subseteq Dests /\ Null \notin HeldBufs /\ Top \in Pairs
  BY PictureFacts, ValueTypes DEF Settled, Known
<1>1. /\ ~thr.busy /\ UNCHANGED <<thr, fifo, irq, zc, frame>> /\ fifo = <<>> /\ irq = "none" /\ Unhooked
      /\ zc.stable = 0 /\ card' = [pair |-> Top, dst |-> Null, toggle |-> Bottom]
  BY DEF Resume, PictureInv, PipeInv
<1>2. /\ ~Due' /\ InSync' /\ ~thr'.busy /\ Unhooked' /\ HeldBufs' = HeldBufs
      /\ card'.pair = Top /\ card'.dst = Null /\ card'.toggle = Bottom
  BY <1>0, <1>1 DEF Resume, Due, InSync, Unhooked, HeldBufs
<1>3. PipeInv'
  BY <1>0, <1>1, <1>2 DEF PictureInv, PipeInv, Resume, CopyingBottom, ToggleAtStart
<1>4. HookInv'
  BY <1>0, <1>1, <1>2 DEF HookInv, Unhooked
<1>5. MarkInv'
  BY <1>1, <1>2 DEF MarkInv
<1>6. FreshInv'
  BY <1>2 DEF FreshInv
<1>7. HalfInv'
  <2>1. \A b \in HeldBufs : pic'[b][Top] = Torn => pic[b][Top] = Torn
    BY <1>0, StartFramePics DEF Resume
  <2> QED  BY <1>0, <1>1, <1>2, <2>1 DEF PictureInv, HalfInv, Owed, BottomNext, CopyingTop, CopyingBottom
<1>8. CopyInv'
  BY <1>2 DEF CopyInv, CopyingTop
<1> QED  BY <1>3, <1>4, <1>5, <1>6, <1>7, <1>8 DEF PictureInv

\* irqhandler(): a half that was due stays so.
LEMMA IrqHandlerKeeps ==
  ASSUME OnTime, Settled, PictureInv, IrqHandler
  PROVE  PictureInv'
<1> DEFINE ev == [pair |-> card.toggle, ts |-> 0]
<1>1. /\ irq = "pending" /\ irq' = "none" /\ seen' = card.toggle
      /\ UNCHANGED <<started, lost, power, status, card, thr, frame, gap, zc, held, pic, mark>>
  BY DEF IrqHandler, OnTime, hostVars
<1>2. fifo = <<>> /\ power = "on"
  BY <1>1 DEF PictureInv, PipeInv
<1>3. fifo' = IF card.toggle # seen THEN <<ev>> ELSE <<>>
  BY <1>2, CaptureAssumption DEF IrqHandler
<1> HIDE DEF ev
<1>4. (Due' <=> Due) /\ (~Due => seen = card.toggle)
  BY <1>1, <1>2, <1>3 DEF Due
<1>5. (InSync' <=> InSync) /\ HeldBufs' = HeldBufs
  BY <1>1 DEF InSync, HeldBufs
<1>6. PipeInv'
  BY <1>1, <1>2, <1>3, <1>4, <1>5 DEF PictureInv, PipeInv, CopyingBottom, ev
<1>7. HookInv'
  BY <1>1, <1>4, <1>5 DEF PictureInv, HookInv, Unhooked, NextIs, Coming, CopyingBottom
<1>8. MarkInv'
  BY <1>1, <1>4 DEF PictureInv, MarkInv, Coming, CopyingBottom, CopyingTop
<1>9. FreshInv'
  BY <1>1, <1>4, <1>5 DEF PictureInv, FreshInv, Coming, CopyingBottom, AgeOf
<1>10. HalfInv'
  BY <1>1, <1>4, <1>5 DEF PictureInv, HalfInv, Owed, OwedAge, BottomNext, CopyingBottom, CopyingTop
<1>11. CopyInv'
  BY <1>1, <1>5 DEF PictureInv, CopyInv, CopyingTop, AgeOf
<1> QED  BY <1>6, <1>7, <1>8, <1>9, <1>10, <1>11 DEF PictureInv

\* An event is dropped: no half frame waits for it.
LEMMA ThreadSkipsKeeps ==
  ASSUME Settled, PictureInv, SkipsClean, ThreadSkips
  PROVE  PictureInv'
<1>1. /\ ~thr.busy /\ fifo # <<>> /\ fifo' = Tail(fifo) /\ (~started \/ noVideo)
      /\ UNCHANGED <<started, lost, power, status, card, irq, seen, thr, frame, gap, zc, held, pic, mark>>
  BY DEF ThreadSkips, hostVars, cardVars
<1>2. fifo' = <<>> /\ irq = "none" /\ power = "on"
  <2>1. fifo = <<[pair |-> card.toggle, ts |-> 0]>> /\ irq = "none" /\ power = "on"
    BY <1>1 DEF PictureInv, PipeInv
  <2>2. Tail(<<[pair |-> card.toggle, ts |-> 0]>>) = <<>>
    OBVIOUS
  <2> QED  BY <1>1, <2>1, <2>2
<1>3. ~Due' /\ (InSync' <=> InSync) /\ HeldBufs' = HeldBufs
  BY <1>1, <1>2 DEF Due, InSync, HeldBufs
<1>4. started => ~frame.done /\ Unhooked /\ (ZcCtxs = {} \/ zc.stable = 0)
  BY <1>1 DEF SkipsClean, PictureInv, HookInv
<1>5. PipeInv'
  BY <1>1, <1>2, <1>3 DEF PictureInv, PipeInv, CopyingBottom
<1>6. HookInv'
  BY <1>1, <1>3, <1>4 DEF PictureInv, HookInv, Unhooked
<1>7. MarkInv'
  BY <1>1, <1>3, <1>4 DEF PictureInv, MarkInv
<1>8. FreshInv'
  BY <1>1, <1>3 DEF PictureInv, FreshInv
<1>9. HalfInv'
  BY <1>1, <1>3, <1>4 DEF PictureInv, HalfInv, Owed, BottomNext, CopyingBottom, CopyingTop
<1>10. CopyInv'
  BY <1>1 DEF CopyInv, CopyingTop
<1> QED  BY <1>5, <1>6, <1>7, <1>8, <1>9, <1>10 DEF PictureInv

-----------------------------------------------------------------------------
(* The end of a copy.                                                      *)

\* The thread marks the DMA pair it is done with and clears no mark.
LEMMA SetMarkFacts ==
  ASSUME NEW m \in MarkStates, NEW zf, NEW p \in Pairs
  PROVE  /\ SetMark(m, zf, p) \in MarkStates
         /\ zf = Null => SetMark(m, zf, p)[Null][p] # "clear"
         /\ \A q \in Pairs : SetMark(m, zf, p)[Null][q] = "clear" => m[Null][q] = "clear"
BY ValueTypes DEF SetMark, MarkStates, Marks

\* A copy that was overwritten is damaged.
LEMMA CopiedFacts ==
  ASSUME NEW p
  PROVE  /\ Copied(p) \in Damaged \/ (Copied(p) = thr.src /\ thr.src \in Ages)
         /\ Copied(p) = Torn => gap.prev = 1 /\ ~(pic[thr.zf][p] = thr.src /\ thr.src \in Ages)
BY CaptureAssumption DEF Copied, Damaged, Ages, Torn, Unmeasured

\* Ages and damage are told apart.
LEMMA DamageFacts ==
  /\ \A a \in Ages : a \notin Damaged
  /\ Torn \in Damaged /\ Unmeasured \in Damaged /\ Torn # Unmeasured
BY CaptureAssumption DEF Damaged, Ages, Torn, Unmeasured

\* hws_copy_late() finds the copy that was overwritten within one half.
LEMMA TornIsLate ==
  ASSUME Settled, PictureInv, thr.busy, Copied(thr.pair) = Torn
  PROVE  CopyLate
<1>1. gap.prev = 1 /\ ~(pic[thr.zf][thr.pair] = thr.src /\ thr.src \in Ages)
  BY CopiedFacts
<1>2. thr.zf = Null /\ thr.ts # 0 /\ thr.ts \in Ages
  BY <1>1, PictureFacts DEF PictureInv, CopyInv
<1> QED  BY <1>1, <1>2, CaptureAssumption DEF CopyLate, Ages

\* What the copy gives the buffers it goes to.
LEMMA CopiedAge ==
  ASSUME Settled, PictureInv, thr.busy
  PROVE  /\ Copied(thr.pair) \in Damaged \cup {AgeOf(thr.pair)}
         /\ CopyingTop /\ ~InSync => Copied(thr.pair) \in Damaged
BY CopiedFacts, DamageFacts DEF PictureInv, CopyInv

\* The top half is copied.
LEMMA TopEndKeeps ==
  ASSUME Settled, PictureInv, TopEnd
  PROVE  PictureInv'
<1>0. /\ zc \in ZcStates /\ Pairs = {Top, Bottom} /\ Top # Bottom
      /\ card.pair \in Pairs /\ card.toggle \in Pairs
      /\ pic \in PicStates /\ mark \in MarkStates
      /\ HeldBufs \subseteq Bufs /\ Null \notin Bufs /\ Null \notin HeldBufs
      /\ \A b \in HeldBufs : b # zc.cur /\ b # zc.next
      /\ thr.zf = zc.cur /\ frame.done /\ Bufs \subseteq Dests /\ Null \in Dests
      /\ zc.cur \in Dests /\ zc.next \in Dests /\ frame \in Frames
  BY PictureFacts, ValueTypes DEF TopEnd, Settled, Known, TypeOK
<1>1. /\ thr.busy /\ thr.pair = Top /\ CopyingTop /\ ~CopyingBottom /\ ~thr'.busy
      /\ UNCHANGED <<started, lost, power, status, card, irq, seen, fifo, gap, zc, held>>
      /\ frame'.done /\ frame'.late = CopyLate
      /\ mark' = SetMark(mark, thr.zf, Top)
  BY <1>0 DEF TopEnd, hostVars, cardVars, CopyingTop, CopyingBottom, Idle, Frames
<1>2. /\ (Due' <=> Due) /\ (InSync' <=> InSync) /\ HeldBufs' = HeldBufs /\ Coming = zc.cur /\ Coming' = zc.cur
      /\ (Unhooked' <=> Unhooked) /\ \A p \in Pairs : AgeOf(p)' = AgeOf(p) /\ (NextIs(p)' <=> NextIs(p))
  BY <1>1 DEF Due, InSync, HeldBufs, Coming, CopyingBottom, Unhooked, AgeOf, NextIs
<1>3. /\ thr.zf = Null => mark'[Null][Top] # "clear"
      /\ \A q \in Pairs : mark'[Null][q] = "clear" => mark[Null][q] = "clear"
  BY <1>0, <1>1, SetMarkFacts
<1>4. \A d \in Dests \ HeldBufs : pic'[d] = pic[d]
  BY DEF TopEnd
<1>5. \A b \in HeldBufs : pic'[b][Top] = Copied(Top)
  BY <1>0 DEF TopEnd, PicStates
<1>6. /\ Copied(Top) \in Damaged \cup {AgeOf(Top)} /\ (~InSync => Copied(Top) \in Damaged)
      /\ (Copied(Top) = Torn => CopyLate)
  BY <1>1, CopiedAge, TornIsLate
<1>7. PipeInv'
  BY <1>1, <1>2 DEF PictureInv, PipeInv, CopyingBottom
<1>8. HookInv'
  <2>1. started /\ ~Unhooked => ~NextIs(Top)
    BY <1>0, <1>1 DEF PictureInv, HookInv, NextIs, Other, Top, Bottom
  <2> QED  BY <1>0, <1>1, <1>2, <2>1 DEF PictureInv, HookInv
<1>9. MarkInv'
  <2>1. thr.zf # Null => zc.stable = 2 /\ ZcCtxs # {}
    BY <1>0 DEF PictureInv, HookInv, Unhooked, ZcStates, Stables
  <2>2. ASSUME started, zc.stable = 2, ZcCtxs # {}, NEW p \in Pairs, mark'[Null][p] = "clear"
        PROVE  Due /\ card.toggle = p /\ Coming = Null
    BY <1>0, <1>1, <1>3, <2>2 DEF PictureInv, MarkInv
  <2>3. started => ~(zc.stable > 0 /\ mark'[Null][Top] = "clear")
    BY <1>0, <1>2, <1>3, <2>1, <2>2
  <2>4. card.dst # Null => mark'[Null][card.pair] # "clear"
    BY <1>0, <1>1, <1>3 DEF PictureInv, MarkInv
  <2> QED  BY <1>0, <1>1, <1>2, <2>2, <2>3, <2>4 DEF MarkInv
<1>10. FreshInv'
  BY <1>0, <1>1, <1>2, <1>3, <1>4 DEF PictureInv, FreshInv
<1>11. HalfInv'
  <2>1. Owed' => OwedAge' = AgeOf(Top)
    BY <1>0, <1>1, <1>2 DEF Owed, OwedAge, BottomNext, CopyingBottom, AgeOf, Due, InSync, PictureInv, PipeInv
  <2>2. zc.cur # Null => pic'[zc.cur][Top] = AgeOf(Top)
    BY <1>0, <1>1, <1>4 DEF PictureInv, CopyInv
  <2> QED  BY <1>1, <1>2, <1>5, <1>6, <2>1, <2>2 DEF HalfInv, CopyingTop
<1>12. CopyInv'
  BY <1>1 DEF CopyInv, CopyingTop
<1> QED  BY <1>7, <1>8, <1>9, <1>10, <1>11, <1>12 DEF PictureInv

\* A frame ends: zc_stable is not hws_zc_frame_end()'s.
LEMMA FrameEndStable ==
  ASSUME NEW z \in ZcStates
  PROVE  Release(Advance(z)).stable = z.stable
<1> DEFINE adv == Advance(z)
           rel == adv.rel \ Releasable(adv)
           in == [b \in Bufs |-> IF b \in Releasable(adv) THEN False2 ELSE adv.in[b]]
           away == [b \in Bufs |-> IF b \in Releasable(adv) THEN False2 ELSE adv.away[b]]
<1>1. adv = [z EXCEPT !.rel = z.rel \cup ({z.cur} \ {Null}), !.cur = z.next, !.next = Null]
  BY DEF Advance, Retire, ZcStates
<1>2. adv.stable = z.stable
  BY <1>1 DEF ZcStates
<1>3. Release(adv) = [adv EXCEPT !.rel = rel, !.in = in, !.away = away]
  BY DEF Release
<1> HIDE DEF adv, rel, in, away
<1>4. Release(adv).stable = adv.stable
  BY <1>3
<1> QED  BY <1>2, <1>4 DEF adv

\* What the end of a bottom half does to what is left of the picture.
FrameDone(good) ==
  /\ zc'.cur = zc.next /\ zc'.next = Null /\ zc'.prog = zc.prog
  /\ zc'.stable = IF good THEN Min2(zc.stable + 1, 2) ELSE zc.stable
  /\ \A d \in {Null, zc.next} : pic'[d] = pic[d]
  /\ mark'[Null] = SetMark(mark, thr.zf, Bottom)[Null]
  /\ \A b \in Bufs : res'[b] \in {"ok", "error", "unmeasured", "repeat", res[b]}

\* BottomEnd is FrameDone for one of the two verdicts.
LEMMA BottomEndFrame ==
  ASSUME OnTime, Settled, PictureInv, BottomEnd
  PROVE  \E good \in BOOLEAN : FrameDone(good)
<1> DEFINE black == frame.hdcp \/ thr.hdcp
           late == CopyLate /\ ~black /\ (Direct \/ HeldBufs # {})
           pics == [d \in Dests |-> IF d \in HeldBufs
                                    THEN [pic[d] EXCEPT ![Bottom] = Copied(Bottom)] ELSE pic[d]]
           good(r) == r /\ ~frame.late /\ ~late
           zfGood(r) == good(r) /\ thr.zf # Null /\ InTimeThroughout(zc, thr.zf)
           ended(r) == Advance([zc EXCEPT !.stable = IF good(r) THEN Min2(@ + 1, 2) ELSE @])
           back(r) == HeldBufs \cup Releasable(ended(r))
           got(r) == {b \in HeldBufs : good(r)} \cup (IF zfGood(r) THEN {thr.zf} ELSE {})
           twice(r) == zfGood(r) /\ held[Owner[thr.zf]] # Null
<1> PICK r \in BOOLEAN :
      /\ zc' = Release(ended(r))
      /\ res' = [b \in Bufs |->
                   IF b \in got(r)
                   THEN IF b = thr.zf /\ twice(r) THEN "repeat" ELSE Verdict(pics, b, black)
                   ELSE Failed({thr.zf}, back(r))[b]]
      /\ pic' = Forget(pics, back(r))
      /\ mark' = Unmark(SetMark(mark, thr.zf, Bottom), back(r))
  BY DEF BottomEnd, Rendered
<1> DEFINE stable == IF good(r) THEN Min2(zc.stable + 1, 2) ELSE zc.stable
           z == [zc EXCEPT !.stable = stable]
<1>0. /\ zc \in ZcStates /\ Pairs = {Top, Bottom} /\ Top # Bottom
      /\ pic \in PicStates /\ mark \in MarkStates /\ Null \in Dests /\ Bufs \subseteq Dests
      /\ HeldBufs \subseteq Bufs /\ Null \notin Bufs /\ Null \notin HeldBufs
      /\ \A b \in HeldBufs : b # zc.cur /\ b # zc.next
      /\ zc.next \in BufOrNull /\ zc.cur \in BufOrNull /\ BufOrNull = Dests
      /\ thr.busy /\ thr.pair = Bottom /\ thr.zf = zc.cur /\ frame.done
  BY PictureFacts, ValueTypes DEF BottomEnd
<1>1. ended(r) = Advance(z)
  BY <1>0 DEF ZcStates
<1>2. stable \in Stables
  <2>1. zc.stable \in Stables
    BY <1>0 DEF ZcStates
  <2> QED  BY <2>1 DEF Stables, Min2
<1> HIDE DEF ended, stable
<1>3. /\ z \in ZcStates /\ z.cur = zc.cur /\ z.next = zc.next /\ z.rel = zc.rel /\ z.prog = zc.prog
      /\ z.stable = stable
  BY <1>0, <1>2 DEF ZcStates
<1> HIDE DEF z
<1>4. /\ zc'.cur = zc.next /\ zc'.next = Null /\ zc'.prog = zc.prog /\ zc'.stable = stable
      /\ Releasable(Advance(z)) \subseteq zc.rel \cup ({zc.cur} \ {Null})
  BY <1>1, <1>3, FrameEndFlags, FrameEndStable
<1>5. back(r) \subseteq Bufs /\ zc.next \notin back(r)
  <2>1. zc.rel \subseteq Bufs /\ zc.next \notin zc.rel /\ (zc.cur # Null => zc.cur # zc.next)
    BY <1>0 DEF Settled, Known, OnePlace, ZcStates
  <2> QED  BY <1>0, <1>1, <1>4, <2>1 DEF BufOrNull
<1>6. /\ \A d \in Dests \ HeldBufs : pics[d] = pic[d]
      /\ \A b \in HeldBufs : pics[b][Top] = pic[b][Top] /\ pics[b][Bottom] = Copied(Bottom)
  BY <1>0 DEF PicStates
<1>7. \A d \in {Null, zc.next} : pic'[d] = pic[d]
  <2> HIDE DEF pics, back
  <2>1. \A d \in {Null, zc.next} : d \in Dests /\ d \notin back(r) /\ d \notin HeldBufs
    BY <1>0, <1>5
  <2> QED  BY <1>6, <2>1 DEF Forget
<1>8. mark'[Null] = SetMark(mark, thr.zf, Bottom)[Null]
  <2> HIDE DEF back
  <2> QED  BY <1>0, <1>5 DEF Unmark
<1>9. ASSUME NEW b \in Bufs, b \in got(r), ~(b = thr.zf /\ twice(r))
      PROVE  Verdict(pics, b, black) \in {"ok", "unmeasured", "repeat"}
  <2> SUFFICES ASSUME ~black PROVE Verdict(pics, b, black) \in {"ok", "unmeasured", "repeat"}
    BY DEF Verdict
  <2>0. CopyingBottom /\ ~CopyingTop /\ Owed /\ OwedAge = 1 /\ AgeOf(Bottom) = 1
    BY <1>0 DEF CopyingBottom, CopyingTop, Owed, OwedAge, AgeOf
  <2>1. good(r)
    BY <1>9
  <2>2. 1 \in 0 .. MaxAge - 1
    BY CaptureAssumption DEF OnTime
  <2>3. CASE b \in HeldBufs
    <3>1. Copied(Bottom) \in Damaged \cup {1} /\ Copied(Bottom) # Torn
      <4>1. ~CopyLate
        BY <2>1, <2>3
      <4> QED  BY <1>0, <2>0, <4>1, CopiedAge, TornIsLate
    <3>2. pic[b][Top] \in Damaged \cup {1} /\ pic[b][Top] # Torn
      <4>1. ~frame.late
        BY <2>1
      <4> QED  BY <1>0, <2>0, <2>3, <4>1 DEF PictureInv, HalfInv
    <3>3. pics[b][Top] \in {1, Unmeasured} /\ pics[b][Bottom] \in {1, Unmeasured}
      BY <1>6, <2>3, <3>1, <3>2 DEF Damaged
    <3> HIDE DEF pics, black
    <3> QED  BY <2>2, <3>3 DEF Verdict
  <2>4. CASE b \notin HeldBufs
    <3>1. b = zc.cur /\ zc.cur # Null /\ pics[b] = pic[b]
      BY <1>0, <1>6, <1>9, <2>4
    <3>2. pic[b][Top] = 1 /\ pic[b][Bottom] = 1
      BY <1>0, <2>0, <3>1 DEF PictureInv, HalfInv, CopyInv
    <3> HIDE DEF pics, black
    <3> QED  BY <2>2, <3>1, <3>2 DEF Verdict
  <2> QED  BY <2>3, <2>4
<1>10. ASSUME NEW b \in Bufs PROVE res'[b] \in {"ok", "error", "unmeasured", "repeat", res[b]}
  <2>1. Failed({thr.zf}, back(r))[b] \in {"ok", "error", res[b]}
    <3> HIDE DEF back
    <3> QED  BY DEF Failed
  <2> HIDE DEF got, twice, back, pics, black
  <2> QED  BY <1>9, <1>10, <2>1
<1>11. good(r) \in BOOLEAN
  BY DEF Settled, Known, TypeOK, Frames
<1>12. zc'.stable = IF good(r) THEN Min2(zc.stable + 1, 2) ELSE zc.stable
  BY <1>4 DEF stable
<1> HIDE DEF good, back, got, twice, pics, zfGood
<1>13. FrameDone(good(r))
  BY <1>4, <1>7, <1>8, <1>10, <1>12 DEF FrameDone
<1> QED  BY <1>11, <1>13

\* The frame is over: the next one's buffer takes its place.
LEMMA BottomEndKeeps ==
  ASSUME OnTime, Settled, PictureInv, BottomEnd
  PROVE  PictureInv'
<1> PICK good \in BOOLEAN : FrameDone(good)
  BY BottomEndFrame
<1>0. /\ zc \in ZcStates /\ Pairs = {Top, Bottom} /\ Top # Bottom
      /\ card.pair \in Pairs /\ card.toggle \in Pairs
      /\ mark \in MarkStates /\ thr.busy /\ thr.pair = Bottom /\ thr.zf = zc.cur /\ frame.done
      /\ zc.stable \in {0, 1, 2}
  BY PictureFacts DEF BottomEnd, ZcStates, Stables
<1>1. /\ CopyingBottom /\ ~CopyingTop /\ ~thr'.busy /\ ~frame'.done
      /\ UNCHANGED <<started, lost, power, status, card, irq, seen, fifo, gap>>
  BY <1>0 DEF BottomEnd, hostVars, cardVars, CopyingTop, CopyingBottom, Idle, NoTop
<1>2. /\ (Due' <=> Due) /\ (InSync' <=> InSync) /\ Coming = zc.next /\ Coming' = zc.next /\ InSync
      /\ \A p \in Pairs : AgeOf(p)' = AgeOf(p) /\ (NextIs(p)' <=> NextIs(p))
      /\ (Unhooked => Unhooked')
  BY <1>1 DEF Due, InSync, Coming, CopyingBottom, Unhooked, AgeOf, NextIs, FrameDone, PictureInv, PipeInv
<1>3. /\ thr.zf = Null => mark'[Null][Bottom] # "clear"
      /\ \A q \in Pairs : mark'[Null][q] = "clear" => mark[Null][q] = "clear"
  BY <1>0, SetMarkFacts DEF FrameDone
<1>4. /\ zc'.stable < 2 => zc.stable < 2
      /\ zc'.stable = 2 => zc.stable = 2 \/ zc.stable = 1
  BY <1>0 DEF FrameDone, Min2
<1>5. PipeInv'
  BY <1>0, <1>1, <1>2 DEF PictureInv, PipeInv, CopyingBottom
<1>6. HookInv'
  <2>1. started /\ ~Unhooked => NextIs(Top) /\ ~NextIs(Bottom)
    BY <1>0, <1>1 DEF PictureInv, HookInv, NextIs, Other, Top, Bottom
  <2> QED  BY <1>0, <1>1, <1>2, <1>4, <2>1 DEF PictureInv, HookInv, FrameDone
<1>7. MarkInv'
  <2>1. ASSUME started, zc'.stable = 2, ZcCtxs # {}, NEW p \in Pairs, mark'[Null][p] = "clear"
        PROVE  Due /\ card.toggle = p /\ zc.next = Null
    <3>1. CASE zc.stable = 2
      BY <1>0, <1>1, <1>2, <1>3, <2>1, <3>1 DEF PictureInv, MarkInv
    <3>2. CASE zc.stable = 1
      <4>1. zc.next = Null /\ thr.zf = Null
        BY <1>0, <3>2 DEF PictureInv, HookInv, Unhooked
      <4> QED  BY <1>0, <1>1, <1>3, <2>1, <3>2, <4>1 DEF PictureInv, MarkInv
    <3> QED  BY <1>4, <2>1, <3>1, <3>2
  <2>2. card.dst # Null => mark'[Null][card.pair] # "clear"
    BY <1>0, <1>1, <1>3 DEF PictureInv, MarkInv
  <2> QED  BY <1>1, <1>2, <2>1, <2>2 DEF MarkInv
<1>8. FreshInv'
  BY <1>0, <1>1, <1>2, <1>3 DEF PictureInv, FreshInv, FrameDone
<1>9. HalfInv'
  BY <1>1 DEF HalfInv, Owed
<1>10. CopyInv'
  BY <1>1 DEF CopyInv, CopyingTop
<1> QED  BY <1>5, <1>6, <1>7, <1>8, <1>9, <1>10 DEF PictureInv

-----------------------------------------------------------------------------
(* The start of a copy.                                                    *)

\* hws_video_half() leaves zc_stable to the frame's end.
LEMMA NextHalfStable ==
  ASSUME NEW z \in ZcStates, NEW p \in Pairs, NEW b \in BufOrNull, NEW inTime \in BOOLEAN
  PROVE  Program(NextHalf(z, p, b), p, b, inTime).stable = z.stable
<1> DEFINE need == [x \in Bufs |-> [z.need[x] EXCEPT ![p] = 0]]
           counted == CountEvent(z, p)
           moved == NextHalf(z, p, b)
<1>1. counted = [z EXCEPT !.need = need]
  BY DEF CountEvent
<1> HIDE DEF need
<1>2. counted.stable = z.stable /\ counted.next = z.next /\ DOMAIN counted = DOMAIN z
  BY <1>1 DEF ZcStates
<1> HIDE DEF counted
<1>3. moved.stable = z.stable
  BY <1>2 DEF NextHalf, Retire, counted
<1> HIDE DEF moved
<1>4. Program(moved, p, b, inTime).stable = moved.stable
  BY DEF Program
<1> QED  BY <1>3, <1>4 DEF moved

\* The half with the toggle's pair is taken: b is the next buffer of its pair's
\* register, "stale" what the driver takes it for.
HalfTaken(z, m, p, b, stale) ==
  /\ ~thr.busy /\ p = card.toggle /\ Due /\ fifo' = <<>> /\ irq = "none" /\ started
  /\ z.cur = zc.cur /\ z.next = b /\ z.stable = zc.stable /\ Parts(z)
  /\ \A q \in Pairs : z.prog[q] = IF q = p THEN b ELSE zc.prog[q]
  /\ p # Top => b = zc.next
  /\ p = Top => b \notin InZc(zc) /\ b \notin HeldBufs /\ (zc.stable < 2 \/ ZcCtxs = {} => b = Null)
  /\ m[Null] = mark[Null]
  /\ gap'.prev = IF gap.last = None THEN 0 ELSE gap.last
  /\ ~stale /\ zc.cur = Null /\ InSync => mark[Null][p] = "clear"
  /\ stale /\ zc.cur = Null /\ ZcCtxs # {} => mark[Null][p] # "clear"
  /\ \/ stale /\ p = Top /\ StaleTop(z, m, b)
     \/ stale /\ p = Bottom /\ EndWithoutFrame(z, m, frame.done)
     \/ ~stale /\ p = Top /\ \E hdcp : TopBegin(z, m, b, 0, hdcp)
     \/ ~stale /\ p = Bottom /\ frame.done /\ \E hdcp : BottomBegin(z, m, 0, hdcp)
     \/ ~stale /\ p = Bottom /\ EndWithoutFrame(z, SetMark(m, zc.cur, p), TRUE)

\* HalfBegin is one of the ways a half is taken.
LEMMA HalfBeginTaken ==
  ASSUME OnTime, Settled, PictureInv, HalfBegin
  PROVE  \E z \in ZcStates, m \in MarkStates, p \in Pairs, b \in BufOrNull, stale \in BOOLEAN :
           HalfTaken(z, m, p, b, stale)
<1> DEFINE ev == Head(fifo)
           p == ev.pair
           g == IF gap.last = None THEN 0 ELSE gap.last - ev.ts
<1>0. /\ TypeOK /\ OnePlace /\ zc \in ZcStates /\ Top # Bottom /\ Pairs = {Top, Bottom}
      /\ card.toggle \in Pairs /\ mark \in MarkStates /\ gap.last \in Ages \cup {None}
      /\ HeldBufs \subseteq Bufs /\ Null \notin Bufs /\ Null \notin HeldBufs
      /\ Ages \subseteq Int /\ Null \in Dests
  BY PictureFacts, ValueTypes DEF Settled, Known
<1>1. ev = [pair |-> card.toggle, ts |-> 0] /\ irq = "none" /\ fifo' = <<>> /\ fifo # <<>>
  <2>1. fifo = <<[pair |-> card.toggle, ts |-> 0]>> /\ irq = "none" /\ fifo' = Tail(fifo) /\ fifo # <<>>
    BY DEF HalfBegin, PictureInv, PipeInv
  <2>2. Head(<<[pair |-> card.toggle, ts |-> 0]>>) = [pair |-> card.toggle, ts |-> 0]
        /\ Tail(<<[pair |-> card.toggle, ts |-> 0]>>) = <<>>
    OBVIOUS
  <2> QED  BY <2>1, <2>2
<1> PICK hdcp \in HdcpReads, inTime \in BOOLEAN,
         knob \in (IF "stale_knob" \in Env /\ p = Bottom THEN BOOLEAN ELSE {FALSE}),
         b \in (IF p = Top THEN UNION {Picks(h) : h \in HdcpReads} ELSE {zc.next}) :
      HalfWays(ev, hdcp, knob, b, Program(NextHalf(zc, p, b), p, b, inTime), MarkNext(p, b))
  BY DEF HalfBegin, InTimeWays
<1>2. ~thr.busy /\ started /\ gap'.prev = g
  BY DEF HalfBegin
<1> HIDE DEF ev
<1>3. p = card.toggle /\ ev.ts = 0 /\ Due
  BY <1>1 DEF Due
<1>4. gap'.prev = IF gap.last = None THEN 0 ELSE gap.last
  <2>1. CASE gap.last = None
    BY <1>2, <2>1
  <2>2. CASE gap.last # None
    <3>1. gap.last \in Int
      BY <1>0, <2>2
    <3>2. gap.last - 0 = gap.last
      BY <3>1
    <3> QED  BY <1>2, <1>3, <2>2, <3>2
  <2> QED  BY <2>1, <2>2
<1> HIDE DEF g, p
<1>5. p \in Pairs
  BY <1>0, <1>3
<1>6. ASSUME p = Top PROVE /\ b = Null \/ \E c \in Ctxs : b \in queue[c]
                           /\ zc.stable < 2 \/ ZcCtxs = {} => b = Null
                           /\ OfStreamers({b} \ {Null})
  <2>1. PICK h \in HdcpReads : b \in Picks(h)
    BY <1>6
  <2>2. b = Null \/ \E c \in ZcFound : b \in queue[c]
    BY <2>1 DEF Picks
  <2>3. ZcFound \subseteq Ctxs
    BY <1>0 DEF ZcFound, ZcEligible, TypeOK
  <2>4. zc.stable < 2 \/ ZcCtxs = {} => b = Null
    BY <2>1 DEF Picks, ZcEligible
  <2> QED  BY <1>0, <2>1, <2>2, <2>3, <2>4, PicksServed
<1>7. p # Top => b = zc.next
  OBVIOUS
<1>8. b \in BufOrNull
  BY <1>0, <1>6, <1>7 DEF TypeOK, ZcStates, BufOrNull
<1>9. p = Top => b \notin InZc(zc) /\ b \notin HeldBufs
  BY <1>0, <1>6 DEF OnePlace, InZc
<1> DEFINE z == Program(NextHalf(zc, p, b), p, b, inTime)
           m == MarkNext(p, b)
<1>10. /\ z \in ZcStates /\ Parts(z) /\ HalfSet(zc, z, p, b, inTime) /\ z.stable = zc.stable
  <2>1. Parts(zc)
    BY <1>0 DEF OnePlace, Parts
  <2> QED  BY <1>0, <1>5, <1>7, <1>8, <1>9, <2>1, HalfDoneFacts, NextHalfPlaces, NextHalfSet, NextHalfStable
<1>11. m \in MarkStates /\ m[Null] = mark[Null]
  BY <1>0, <1>5, <1>8, ValueTypes DEF MarkNext, MarkStates, Marks
<1> HIDE DEF z, m
<1> PICK marked \in MarkReads(m, zc.cur, p) :
      LET stale == marked \/ knob \/ (zc.cur # Null /\ ~z.in[zc.cur][p])
      IN \/ stale /\ p = Top /\ StaleTop(z, m, b)
         \/ stale /\ p = Bottom /\ EndWithoutFrame(z, m, frame.done)
         \/ ~stale /\ p = Top /\ TopBegin(z, m, b, ev.ts, hdcp)
         \/ ~stale /\ p = Bottom /\ Follows /\ BottomBegin(z, m, ev.ts, hdcp)
         \/ ~stale /\ p = Bottom /\ ~Follows /\ EndWithoutFrame(z, SetMark(m, zc.cur, p), TRUE)
  BY DEF HalfWays, z, m, p
<1> DEFINE stale == marked \/ knob \/ (zc.cur # Null /\ ~z.in[zc.cur][p])
<1>12. /\ ~stale /\ zc.cur = Null /\ InSync => mark[Null][p] = "clear"
       /\ stale /\ zc.cur = Null /\ ZcCtxs # {} => mark[Null][p] # "clear"
  <2>1. InSync => ~Writing(Null, p)
    BY <1>3 DEF InSync, Writing
  <2>2. ASSUME zc.cur = Null, InSync PROVE marked = (mark[Null][p] # "clear")
    BY <1>11, <2>1, <2>2 DEF MarkReads
  <2>3. ASSUME zc.cur = Null, mark[Null][p] = "clear" PROVE ~marked
    BY <1>11, <2>3 DEF MarkReads
  <2>4. ZcCtxs # {} => ~knob
    BY DEF OnTime
  <2> QED  BY <2>2, <2>3, <2>4
<1>13. \/ stale /\ p = Top /\ StaleTop(z, m, b)
       \/ stale /\ p = Bottom /\ EndWithoutFrame(z, m, frame.done)
       \/ ~stale /\ p = Top /\ \E h : TopBegin(z, m, b, 0, h)
       \/ ~stale /\ p = Bottom /\ frame.done /\ \E h : BottomBegin(z, m, 0, h)
       \/ ~stale /\ p = Bottom /\ EndWithoutFrame(z, SetMark(m, zc.cur, p), TRUE)
  <2> HIDE DEF stale
  <2>1. \/ stale /\ p = Top /\ StaleTop(z, m, b)
        \/ stale /\ p = Bottom /\ EndWithoutFrame(z, m, frame.done)
        \/ ~stale /\ p = Top /\ TopBegin(z, m, b, 0, hdcp)
        \/ ~stale /\ p = Bottom /\ frame.done /\ BottomBegin(z, m, 0, hdcp)
        \/ ~stale /\ p = Bottom /\ EndWithoutFrame(z, SetMark(m, zc.cur, p), TRUE)
    BY <1>3 DEF stale, Follows
  <2>2. ASSUME TopBegin(z, m, b, 0, hdcp) PROVE \E h : TopBegin(z, m, b, 0, h)
    BY <2>2
  <2>3. ASSUME BottomBegin(z, m, 0, hdcp) PROVE \E h : BottomBegin(z, m, 0, h)
    BY <2>3
  <2> QED  BY <2>1, <2>2, <2>3
<1> DEFINE st == (stale = TRUE)
<1>14. st \in BOOLEAN /\ (st <=> stale)
  OBVIOUS
<1> HIDE DEF stale, st
<1>15. HalfTaken(z, m, p, b, st)
  BY <1>1, <1>2, <1>3, <1>4, <1>6, <1>7, <1>9, <1>10, <1>11, <1>12, <1>13, <1>14 DEF HalfTaken, HalfSet
<1> QED  BY <1>5, <1>8, <1>10, <1>11, <1>14, <1>15

\* What no way of taking the half touches.
LEMMA TakenFacts ==
  ASSUME OnTime, Settled, PictureInv, HalfBegin,
         NEW z \in ZcStates, NEW m, NEW p \in Pairs, NEW b, NEW stale, HalfTaken(z, m, p, b, stale)
  PROVE  /\ UNCHANGED <<started, lost, power, status, card, irq, seen>> /\ power = "on" /\ fifo' = <<>>
         /\ started /\ ~lost /\ ~thr.busy /\ Due /\ ~Due' /\ (InSync' <=> InSync)
         /\ \A q \in Pairs : AgeOf(q)' = AgeOf(q) /\ (NextIs(q)' <=> card.pair = q)
         /\ NextIs(p) /\ Coming = zc.cur
         /\ p = Bottom => InSync /\ card.pair = Top
         /\ InSync => card.pair # p
         /\ zc.cur # Null \/ ~Unhooked => InSync /\ ZcCtxs # {} /\ zc.stable = 2
         /\ gap'.prev = 1 => InSync
<1>0. /\ Pairs = {Top, Bottom} /\ Top # Bottom /\ card.pair \in Pairs /\ card.toggle \in Pairs
      /\ zc \in ZcStates
  BY PictureFacts
<1>1. /\ UNCHANGED <<started, lost, power, status, card, irq, seen>>
      /\ started /\ ~thr.busy /\ Due /\ p = card.toggle /\ fifo' = <<>> /\ irq = "none"
  BY DEF HalfTaken, HalfBegin, hostVars, cardVars
<1>2. power = "on" /\ ~lost
  BY <1>1 DEF PictureInv, PipeInv, Due
<1>3. ~Due' /\ (InSync' <=> InSync)
  BY <1>1 DEF Due, InSync
<1>4. \A q \in Pairs : AgeOf(q)' = AgeOf(q) /\ (NextIs(q)' <=> card.pair = q)
  BY <1>1, <1>3 DEF AgeOf, NextIs
<1>5. NextIs(p) /\ Coming = zc.cur
  BY <1>1 DEF NextIs, Coming, CopyingBottom
<1>6. (p = Bottom => InSync /\ card.pair = Top) /\ (InSync => card.pair # p)
  BY <1>0, <1>1 DEF InSync, PictureInv, PipeInv
<1>7. ASSUME zc.cur # Null \/ ~Unhooked PROVE InSync /\ ZcCtxs # {} /\ zc.stable = 2
  <2>1. ~Unhooked
    BY <1>7 DEF Unhooked
  <2>2. zc.stable = 2 /\ ZcCtxs # {}
    BY <1>0, <2>1 DEF PictureInv, HookInv, ZcStates, Stables
  <2> QED  BY <1>1, <2>2 DEF PictureInv, HookInv
<1>8. ASSUME ~InSync PROVE gap'.prev # 1
  <2>1. gap.last \in {None, MaxAge}
    BY <1>1, <1>8 DEF PictureInv, PipeInv
  <2> QED  BY <2>1, CaptureAssumption DEF HalfTaken, OnTime
<1> QED  BY <1>1, <1>2, <1>3, <1>4, <1>5, <1>6, <1>7, <1>8

\* A half the driver takes is fresh, or it is torn and the frame will show it.
LEMMA TakenSource ==
  ASSUME OnTime, Settled, PictureInv, HalfBegin,
         NEW z \in ZcStates, NEW m, NEW p \in Pairs, NEW b, HalfTaken(z, m, p, b, FALSE)
  PROVE  /\ InSync => pic[zc.cur][p] = AgeOf(p) /\ pic[zc.cur][p] \in Ages
         /\ ~InSync => zc.cur = Null /\ p = Top /\ pic[Null][Top] = Torn
<1>0. /\ started /\ Due /\ Coming = zc.cur /\ (p = Bottom => InSync) /\ (zc.cur # Null => InSync)
      /\ Pairs = {Top, Bottom} /\ p = card.toggle
  <2>1. p = card.toggle
    BY DEF HalfTaken
  <2> QED  BY <2>1, TakenFacts, PictureFacts
<1>1. ASSUME InSync PROVE pic[zc.cur][p] = AgeOf(p)
  <2>1. CASE zc.cur = Null
    BY <1>0, <1>1, <2>1 DEF HalfTaken, PictureInv, FreshInv
  <2>2. CASE zc.cur # Null
    BY <1>0, <1>1, <2>2 DEF PictureInv, FreshInv
  <2> QED  BY <2>1, <2>2
<1>2. AgeOf(p) \in Ages
  BY CaptureAssumption DEF AgeOf, Ages
<1>3. ~InSync => pic[Null][Top] = Torn
  BY DEF PictureInv, FreshInv
<1> QED  BY <1>0, <1>1, <1>2, <1>3

\* The event is taken, whatever is made of the half.
LEMMA TakenPipe ==
  ASSUME OnTime, Settled, PictureInv, HalfBegin,
         NEW z \in ZcStates, NEW m, NEW p \in Pairs, NEW b, NEW stale, HalfTaken(z, m, p, b, stale),
         thr'.busy => thr'.pair = p
  PROVE  PipeInv'
<1>1. /\ UNCHANGED <<started, lost, power, status, card, irq, seen>> /\ power = "on" /\ fifo' = <<>>
      /\ ~Due' /\ (InSync' <=> InSync) /\ (p = Bottom => InSync) /\ (InSync => card.pair # p)
  BY TakenFacts
<1> QED  BY <1>1 DEF PictureInv, PipeInv, CopyingBottom

\* The register of a top half is at the next frame's buffer.
LEMMA TakenTopHook ==
  ASSUME OnTime, Settled, PictureInv, HalfBegin,
         NEW z \in ZcStates, NEW m, NEW p \in Pairs, NEW b, NEW stale, HalfTaken(z, m, p, b, stale),
         p = Top, zc' = z, thr'.busy => thr'.pair = Top
  PROVE  HookInv'
<1>0. /\ Pairs = {Top, Bottom} /\ Top # Bottom /\ card.pair \in Pairs /\ Other(Top) = Bottom
      /\ card.dst \in BufOrNull
  BY PictureFacts DEF Other, Top, Bottom
<1>1. /\ UNCHANGED <<started, lost, card>> /\ started /\ ~lost /\ ~thr.busy /\ (InSync' <=> InSync)
      /\ \A q \in Pairs : NextIs(q)' <=> card.pair = q
      /\ NextIs(Top) /\ Coming = zc.cur /\ (InSync => card.pair = Bottom)
      /\ ~Unhooked => InSync /\ ZcCtxs # {} /\ zc.stable = 2
  BY <1>0, TakenFacts
<1>2. /\ z.cur = zc.cur /\ z.next = b /\ z.stable = zc.stable /\ z.prog[Top] = b /\ z.prog[Bottom] = zc.prog[Bottom]
      /\ b \notin InZc(zc) /\ (zc.stable < 2 \/ ZcCtxs = {} => b = Null)
  BY <1>0 DEF HalfTaken
<1>3. /\ (zc.stable < 2 \/ ZcCtxs = {} => Unhooked') /\ (started /\ zc.stable > 0 => InSync)
  BY <1>0, <1>2 DEF Unhooked, PictureInv, HookInv
<1>4. ~Unhooked' => InSync
  <2>1. CASE zc.stable > 0
    BY <1>1, <1>3, <2>1
  <2>2. CASE ~(zc.stable > 0)
    <3>1. zc.stable < 2
      BY <2>2, PictureFacts DEF ZcStates, Stables
    <3> QED  BY <1>3, <3>1
  <2> QED  BY <2>1, <2>2
<1>5. zc.prog[Bottom] = zc.cur
  <2>1. CASE Unhooked
    BY <1>0, <2>1 DEF Unhooked
  <2>2. CASE ~Unhooked
    BY <1>0, <1>1, <2>2 DEF PictureInv, HookInv
  <2> QED  BY <2>1, <2>2
<1>6. card.dst # Null => card.dst # b
  <2>1. card.dst \in InZc(zc) \cup {Null}
    BY <1>1 DEF Settled, CardNeverWritesReturned
  <2> QED  BY <1>2, <2>1
<1>7. ASSUME card.dst \in {zc.cur, b}, card.dst # Null PROVE card.dst = z.prog[card.pair]
  <2>1. InSync /\ card.dst = zc.prog[card.pair]
    BY <1>6, <1>7 DEF PictureInv, HookInv
  <2> QED  BY <1>1, <1>2, <2>1
<1>8. ASSUME z.prog[card.pair] # Null PROVE card.dst = z.prog[card.pair]
  <2>1. ~Unhooked'
    BY <1>0, <1>8 DEF Unhooked
  <2>2. card.pair = Bottom
    BY <1>1, <1>4, <2>1
  <2> QED  BY <1>1, <1>2, <1>8, <2>2 DEF PictureInv, HookInv
<1>9. ASSUME ~Unhooked'
      PROVE  /\ thr'.busy => NextIs(Other(thr.pair))'
             /\ NextIs(Bottom)' => z.prog[Top] = z.next /\ z.prog[Bottom] = z.cur
             /\ ~NextIs(Top)'
  BY <1>0, <1>1, <1>2, <1>4, <1>5, <1>9
<1>10. card.dst # Null => InSync
  BY DEF PictureInv, HookInv
<1> QED  BY <1>0, <1>1, <1>2, <1>3, <1>7, <1>8, <1>9, <1>10 DEF HookInv

\* ... and that of a bottom half joins it.
LEMMA TakenBottomHook ==
  ASSUME OnTime, Settled, PictureInv, HalfBegin,
         NEW z \in ZcStates, NEW m, NEW p \in Pairs, NEW b, NEW stale, HalfTaken(z, m, p, b, stale),
         p = Bottom, zc'.stable = z.stable, zc'.prog = z.prog,
         \/ zc'.cur = z.cur /\ zc'.next = z.next /\ thr'.busy /\ thr'.pair = Bottom
         \/ zc'.cur = z.next /\ zc'.next = Null /\ ~thr'.busy
  PROVE  HookInv'
<1>0. /\ Pairs = {Top, Bottom} /\ Top # Bottom /\ card.pair \in Pairs /\ Other(Bottom) = Top
      /\ card.dst \in BufOrNull
  BY PictureFacts DEF Other, Top, Bottom
<1>1. /\ UNCHANGED <<started, card>> /\ started /\ ~thr.busy /\ (InSync' <=> InSync) /\ InSync
      /\ \A q \in Pairs : NextIs(q)' <=> card.pair = q
      /\ NextIs(Bottom) /\ card.pair = Top
  BY <1>0, TakenFacts
<1>2. /\ z.cur = zc.cur /\ z.next = zc.next /\ z.stable = zc.stable
      /\ z.prog[Top] = zc.prog[Top] /\ z.prog[Bottom] = zc.next
  BY <1>0 DEF HalfTaken
<1>3. zc.prog[Top] = zc.next
  <2>1. CASE Unhooked
    BY <1>0, <2>1 DEF Unhooked
  <2>2. CASE ~Unhooked
    BY <1>1, <2>2 DEF PictureInv, HookInv
  <2> QED  BY <2>1, <2>2
<1>4. Unhooked => Unhooked'
  BY <1>0, <1>2 DEF Unhooked
<1>5. Coming' = zc.next /\ (~thr'.busy => zc'.next = Null)
  BY <1>0, <1>2 DEF Coming, CopyingBottom
<1>6. \A q \in Pairs : zc'.prog[q] = zc.next
  BY <1>0, <1>2, <1>3
<1>7. thr'.busy => NextIs(Other(thr.pair))'
  BY <1>0, <1>1
<1>8. /\ zc.stable < 2 \/ ZcCtxs = {} => Unhooked'
      /\ zc'.prog[card.pair] # Null => card.dst = zc'.prog[card.pair]
      /\ card.dst \in {zc'.cur, zc'.next} /\ card.dst # Null => card.dst = zc'.prog[card.pair]
  BY <1>0, <1>1, <1>2, <1>3, <1>4, <1>6 DEF PictureInv, HookInv
<1> QED  BY <1>0, <1>1, <1>2, <1>5, <1>6, <1>7, <1>8 DEF HookInv

\* Marks after the half was taken: a clear one in the DMA buffers is that of the
\* half being copied.
LEMMA TakenMark ==
  ASSUME OnTime, Settled, PictureInv, HalfBegin,
         NEW z \in ZcStates, NEW m \in MarkStates, NEW p \in Pairs, NEW b, NEW stale \in BOOLEAN,
         HalfTaken(z, m, p, b, stale),
         zc'.stable = zc.stable,
         \/ mark'[Null] = mark[Null] /\ thr'.busy /\ thr'.pair = p /\ thr'.zf = zc.cur
         \/ mark'[Null] = mark[Null] /\ stale
         \/ mark'[Null] = SetMark(m, zc.cur, p)[Null] /\ ~stale,
         frame'.done => thr'.busy /\ thr'.pair = p /\ (p = Bottom => mark'[Null] = mark[Null] /\ frame.done)
  PROVE  MarkInv'
<1>0. /\ Pairs = {Top, Bottom} /\ Top # Bottom /\ card.pair \in Pairs /\ p = card.toggle
  BY PictureFacts DEF HalfTaken
<1>1. /\ UNCHANGED <<started, card>> /\ started /\ ~thr.busy /\ Coming = zc.cur
      /\ zc.cur # Null => ZcCtxs # {}
  BY TakenFacts
<1>2. ASSUME NEW q \in Pairs, mark'[Null][q] = "clear" PROVE mark[Null][q] = "clear"
  <2>1. m[Null] = mark[Null]
    BY DEF HalfTaken
  <2> QED  BY <1>2, <2>1, SetMarkFacts
<1>3. ASSUME zc.stable = 2, ZcCtxs # {}, NEW q \in Pairs, mark'[Null][q] = "clear"
      PROVE  thr'.busy /\ thr'.pair = q /\ thr'.zf = Null
  <2>1. mark[Null][q] = "clear" /\ q = p /\ zc.cur = Null
    BY <1>0, <1>1, <1>2, <1>3 DEF PictureInv, MarkInv
  <2>2. ~stale
    BY <1>3, <2>1 DEF HalfTaken
  <2>3. SetMark(m, zc.cur, p)[Null][p] # "clear"
    BY <2>1, SetMarkFacts
  <2> QED  BY <1>3, <2>1, <2>2, <2>3
<1>4. card.dst # Null => mark'[Null][card.pair] # "clear"
  BY <1>0, <1>1, <1>2 DEF PictureInv, MarkInv
<1>5. ASSUME zc.stable > 0, frame'.done, ~CopyingTop' PROVE mark'[Null][Top] # "clear"
  <2>1. p = Bottom /\ mark'[Null] = mark[Null] /\ frame.done
    BY <1>0, <1>5 DEF CopyingTop
  <2> QED  BY <1>0, <1>1, <1>5, <2>1 DEF PictureInv, MarkInv, CopyingTop
<1> QED  BY <1>1, <1>3, <1>4, <1>5 DEF MarkInv

\* The DMA buffers keep what they hold.
LEMMA TakenFresh ==
  ASSUME OnTime, Settled, PictureInv, HalfBegin,
         NEW z \in ZcStates, NEW m, NEW p \in Pairs, NEW b, NEW stale, HalfTaken(z, m, p, b, stale),
         pic'[Null] = pic[Null]
  PROVE  FreshInv'
<1>1. ~Due' /\ (InSync' <=> InSync)
  BY TakenFacts
<1> QED  BY <1>1 DEF PictureInv, FreshInv

\* Stale, or a bottom half without its top half: the frame is over.
LEMMA TakenWithout ==
  ASSUME OnTime, Settled, PictureInv, HalfBegin,
         NEW z \in ZcStates, NEW m \in MarkStates, NEW p \in Pairs, NEW b, NEW stale \in BOOLEAN,
         HalfTaken(z, m, p, b, stale),
         \/ stale /\ p = Top /\ StaleTop(z, m, b)
         \/ stale /\ p = Bottom /\ EndWithoutFrame(z, m, frame.done)
         \/ ~stale /\ p = Bottom /\ EndWithoutFrame(z, SetMark(m, zc.cur, p), TRUE)
  PROVE  PictureInv'
<1>0. /\ ~thr.busy /\ m[Null] = mark[Null] /\ z.stable = zc.stable /\ Null \in Dests /\ Null \notin Bufs
      /\ Top # Bottom /\ Pairs = {Top, Bottom}
  BY PictureFacts, ValueTypes DEF HalfTaken
<1>1. /\ ~thr'.busy /\ ~frame'.done /\ pic'[Null] = pic[Null]
      /\ mark'[Null] = (IF stale THEN m ELSE SetMark(m, zc.cur, p))[Null]
      /\ zc'.stable = zc.stable
      /\ p = Top => zc' = z
      /\ p = Bottom => zc'.cur = z.next /\ zc'.next = Null /\ zc'.prog = z.prog
  <2>1. CASE StaleTop(z, m, b) /\ stale /\ p = Top
    BY <1>0, <2>1 DEF StaleTop, NoTop
  <2>2. ASSUME NEW k, NEW moved, EndWithoutFrame(z, k, moved), p = Bottom,
               k = IF stale THEN m ELSE SetMark(m, zc.cur, p)
        PROVE  /\ ~thr'.busy /\ ~frame'.done /\ pic'[Null] = pic[Null]
               /\ mark'[Null] = (IF stale THEN m ELSE SetMark(m, zc.cur, p))[Null]
               /\ zc'.stable = zc.stable
               /\ p = Top => zc' = z
               /\ p = Bottom => zc'.cur = z.next /\ zc'.next = Null /\ zc'.prog = z.prog
    <3>1. Releasable(Advance(z)) \subseteq Bufs
      BY FrameEndFacts
    <3>2. pic'[Null] = pic[Null] /\ mark'[Null] = k[Null]
      BY <1>0, <2>2, <3>1 DEF EndWithoutFrame, Forget, Unmark
    <3>3. /\ zc'.cur = z.next /\ zc'.next = Null /\ zc'.prog = z.prog /\ zc'.stable = z.stable
      BY <2>2, FrameEndFlags, FrameEndStable DEF EndWithoutFrame
    <3>4. ~thr'.busy /\ ~frame'.done
      BY <1>0, <2>2 DEF EndWithoutFrame, NoTop
    <3> QED  BY <1>0, <2>2, <3>2, <3>3, <3>4
  <2> QED  BY <2>1, <2>2
<1>2. HookInv'
  <2>1. CASE p = Top
    BY <1>1, <2>1, TakenTopHook
  <2>2. CASE p = Bottom
    BY <1>0, <1>1, <2>2, TakenBottomHook
  <2> QED  BY <1>0, <2>1, <2>2
<1>3. PipeInv' /\ FreshInv'
  BY <1>1, TakenPipe, TakenFresh
<1>4. MarkInv'
  BY <1>0, <1>1, TakenMark
<1>5. HalfInv'
  BY <1>1 DEF HalfInv, Owed
<1>6. CopyInv'
  BY <1>1 DEF CopyInv, CopyingTop
<1> QED  BY <1>2, <1>3, <1>4, <1>5, <1>6 DEF PictureInv

\* A top half starts its frame.
LEMMA TakenTop ==
  ASSUME OnTime, Settled, PictureInv, HalfBegin,
         NEW z \in ZcStates, NEW m \in MarkStates, NEW p \in Pairs, NEW b \in BufOrNull,
         HalfTaken(z, m, p, b, FALSE),
         p = Top, NEW hdcp, TopBegin(z, m, b, 0, hdcp)
  PROVE  PictureInv'
<1>0. /\ m[Null] = mark[Null] /\ z.stable = zc.stable /\ Null \in Dests /\ Null \notin Bufs
      /\ Top # Bottom /\ Pairs = {Top, Bottom} /\ TypeOK /\ OnePlace /\ BufOrNull = Dests
      /\ zc.cur \in Dests /\ Null \notin HeldBufs /\ zc.cur \notin HeldBufs
      /\ \A q \in Ctxs : zc.cur \notin queue[q]
  <2>1. zc.cur \in Bufs => \A q \in Ctxs : zc.cur \notin queue[q]
    BY CaptureAssumption DEF Settled, Known, OnePlace, InZc
  <2>2. \A q \in Ctxs : Null \notin queue[q]
    BY CaptureAssumption DEF Settled, Known, TypeOK
  <2> QED  BY <2>1, <2>2, PictureFacts, ValueTypes DEF HalfTaken, Settled, Known, BufOrNull
<1> DEFINE zf == zc.cur
           skip == IF zf = Null THEN Null ELSE Owner[zf]
           twice == HeldTwice(skip)
           q == QueueWithout(queue, {b})
           ahd == IF frame.done THEN NextSeq(ahead) ELSE ahead
<1>1. /\ thr' = [busy |-> TRUE, pair |-> Top, ts |-> 0, zf |-> zc.cur, src |-> pic[zc.cur][Top], hdcp |-> hdcp]
      /\ zc' = z
      /\ \E t \in HoldChoices(q, skip, ahd) :
           LET back == twice \cup (Image(t) \cap SmallBufs) IN
           pic' = Forget(pic, back) /\ mark' = Unmark(m, back)
  BY DEF TopBegin
<1> PICK t \in HoldChoices(q, skip, ahd) :
           LET back == twice \cup (Image(t) \cap SmallBufs) IN
           pic' = Forget(pic, back) /\ mark' = Unmark(m, back)
  BY <1>1
<1> DEFINE back == twice \cup (Image(t) \cap SmallBufs)
<1>2. Null \notin back /\ zc.cur \notin back
  <2>1. twice \subseteq HeldBufs
    <3>1. zf # Null => Owner[zf] \in Ctxs
      BY <1>0, CaptureAssumption DEF Dests
    <3> QED  BY <3>1, CaptureAssumption DEF HeldTwice, HeldBufs
  <2>2. Image(t) \subseteq UNION {queue[c] : c \in Ctxs}
    <3>1. q \in [Ctxs -> SUBSET Bufs] /\ \A c \in Ctxs : q[c] \subseteq queue[c]
      BY <1>0 DEF QueueWithout, TypeOK
    <3> HIDE DEF q, skip, ahd
    <3>2. DOMAIN t \subseteq Ctxs /\ \A c \in DOMAIN t : t[c] \in q[c]
      BY <1>0, <3>1, HoldTypes
    <3> QED  BY <3>1, <3>2 DEF Image
  <2>3. Image(t) \subseteq Bufs
    BY <1>0, <2>2 DEF TypeOK
  <2> HIDE DEF twice
  <2> QED  BY <1>0, <2>1, <2>2, <2>3
<1>3. pic'[Null] = pic[Null] /\ pic'[zc.cur] = pic[zc.cur] /\ mark'[Null] = mark[Null]
  <2> HIDE DEF back
  <2>1. pic' = Forget(pic, back) /\ mark' = Unmark(m, back)
    BY DEF back
  <2> QED  BY <1>0, <1>2, <2>1 DEF Forget, Unmark
<1>4. /\ thr'.busy /\ thr'.pair = Top /\ thr'.zf = zc.cur /\ thr'.src = pic[zc.cur][Top] /\ CopyingTop'
  BY <1>1 DEF CopyingTop
<1> HIDE DEF zf, skip, twice, q, ahd, back
<1>5. PipeInv' /\ FreshInv'
  BY <1>3, <1>4, TakenPipe, TakenFresh
<1>6. HookInv'
  BY <1>1, <1>4, TakenTopHook
<1>7. MarkInv'
  BY <1>0, <1>1, <1>3, <1>4, TakenMark
<1>8. HalfInv'
  BY <1>4 DEF HalfInv, Owed
<1>9. CopyInv'
  <2>1. /\ InSync => pic[zc.cur][Top] = AgeOf(Top) /\ pic[zc.cur][Top] \in Ages
        /\ ~InSync => zc.cur = Null /\ pic[Null][Top] = Torn
    BY TakenSource
  <2>2. /\ (InSync' <=> InSync) /\ AgeOf(Top)' = AgeOf(Top) /\ (gap'.prev = 1 => InSync)
    BY <1>0, TakenFacts
  <2> QED  BY <1>3, <1>4, <2>1, <2>2, DamageFacts DEF CopyInv
<1> QED  BY <1>5, <1>6, <1>7, <1>8, <1>9 DEF PictureInv

\* A bottom half joins the frame of the top half before it.
LEMMA TakenBottom ==
  ASSUME OnTime, Settled, PictureInv, HalfBegin,
         NEW z \in ZcStates, NEW m \in MarkStates, NEW p \in Pairs, NEW b,
         HalfTaken(z, m, p, b, FALSE),
         p = Bottom, frame.done, NEW hdcp, BottomBegin(z, m, 0, hdcp)
  PROVE  PictureInv'
<1>0. /\ m[Null] = mark[Null] /\ z.stable = zc.stable /\ z.cur = zc.cur /\ Top # Bottom
  BY PictureFacts DEF HalfTaken
<1>1. /\ thr'.busy /\ thr'.pair = Bottom /\ thr'.zf = zc.cur /\ thr'.src = pic[zc.cur][Bottom]
      /\ zc' = z /\ mark' = m /\ UNCHANGED <<frame, held, pic>>
  BY DEF BottomBegin
<1>2. CopyingBottom' /\ ~CopyingTop' /\ HeldBufs' = HeldBufs
  BY <1>0, <1>1 DEF CopyingTop, CopyingBottom, HeldBufs
<1>3. /\ ~thr.busy /\ Due /\ InSync /\ InSync' /\ card.pair = Top /\ card.toggle = Bottom
      /\ AgeOf(Bottom)' = AgeOf(Bottom)
  <2>1. card.toggle = p
    BY DEF HalfTaken
  <2> QED  BY <2>1, TakenFacts
<1>4. PipeInv' /\ FreshInv'
  BY <1>1, TakenPipe, TakenFresh
<1>5. HookInv'
  BY <1>1, TakenBottomHook
<1>6. MarkInv'
  BY <1>0, <1>1, TakenMark
<1>7. HalfInv'
  <2>1. Owed /\ OwedAge = 1 /\ OwedAge' = 1 /\ ~CopyingTop
    BY <1>2, <1>3 DEF Owed, OwedAge, BottomNext, CopyingTop, CopyingBottom
  <2> QED  BY <1>0, <1>1, <1>2, <1>3, <2>1 DEF PictureInv, HalfInv
<1>8. CopyInv'
  <2>1. pic[zc.cur][Bottom] = AgeOf(Bottom) /\ pic[zc.cur][Bottom] \in Ages
    BY <1>3, TakenSource
  <2> QED  BY <1>1, <1>2, <1>3, <2>1 DEF CopyInv
<1> QED  BY <1>4, <1>5, <1>6, <1>7, <1>8 DEF PictureInv

\* hws_video_half() up to the start of the copy.
LEMMA HalfBeginKeepsPicture ==
  ASSUME OnTime, Settled, PictureInv, HalfBegin
  PROVE  PictureInv'
<1> PICK z \in ZcStates, m \in MarkStates, p \in Pairs, b \in BufOrNull, stale \in BOOLEAN :
      HalfTaken(z, m, p, b, stale)
  BY HalfBeginTaken
<1>1. \/ stale /\ p = Top /\ StaleTop(z, m, b)
      \/ stale /\ p = Bottom /\ EndWithoutFrame(z, m, frame.done)
      \/ ~stale /\ p = Top /\ \E hdcp : TopBegin(z, m, b, 0, hdcp)
      \/ ~stale /\ p = Bottom /\ frame.done /\ \E hdcp : BottomBegin(z, m, 0, hdcp)
      \/ ~stale /\ p = Bottom /\ EndWithoutFrame(z, SetMark(m, zc.cur, p), TRUE)
  BY DEF HalfTaken
<1>2. CASE \/ stale /\ p = Top /\ StaleTop(z, m, b)
           \/ stale /\ p = Bottom /\ EndWithoutFrame(z, m, frame.done)
           \/ ~stale /\ p = Bottom /\ EndWithoutFrame(z, SetMark(m, zc.cur, p), TRUE)
  BY <1>2, TakenWithout
<1>3. CASE ~stale /\ p = Top /\ \E hdcp : TopBegin(z, m, b, 0, hdcp)
  <2>1. HalfTaken(z, m, p, b, FALSE)
    BY <1>3
  <2> QED  BY <1>3, <2>1, TakenTop
<1>4. CASE ~stale /\ p = Bottom /\ frame.done /\ \E hdcp : BottomBegin(z, m, 0, hdcp)
  <2>1. HalfTaken(z, m, p, b, FALSE)
    BY <1>4
  <2> QED  BY <1>4, <2>1, TakenBottom
<1> QED  BY <1>1, <1>2, <1>3, <1>4

-----------------------------------------------------------------------------
(* The card completes a half.                                              *)

\* What the run leaves in the pairs.
HalfWritten(p, q, d) ==
  /\ \A x \in Dests, r \in Pairs :
       pic'[x][r] = IF x = zc.prog[q] /\ r = q THEN Torn
                    ELSE LET was == IF x = d /\ r = p THEN 0 ELSE pic[x][r]
                         IN IF p = Bottom THEN Older(was) ELSE was
  /\ \A r \in Pairs : mark'[Null][r] = mark[Null][r] \/ (d = Null /\ r = p)

\* What a completed half and the start of the other pair's run make of the pictures.
LEMMA CardHalfDonePics ==
  ASSUME Settled, CardHalfDone
  PROVE  HalfWritten(card.pair, Other(card.pair), card.dst)
<1> DEFINE p == card.pair
           d == card.dst
           q == Other(p)
           done == [pic EXCEPT ![d][p] = 0]
           aged == IF p = Bottom THEN AgeFrames(done) ELSE done
<1>0. /\ pic \in PicStates /\ mark \in MarkStates /\ p \in Pairs /\ q \in Pairs /\ d \in Dests
      /\ zc.prog[q] \in Dests /\ Null \in Dests
  BY PictureFacts, ValueTypes
<1>1. pic' = StartRun(aged, zc.prog[q], q) /\ \E k : mark' = [mark EXCEPT ![d][p] = k]
  BY DEF CardHalfDone
<1>2. done \in PicStates /\ \A x \in Dests, r \in Pairs : done[x][r] = IF x = d /\ r = p THEN 0 ELSE pic[x][r]
  BY <1>0, ValueTypes DEF PicStates
<1>3. \A r \in Pairs : mark'[Null][r] = mark[Null][r] \/ (d = Null /\ r = p)
  BY <1>0, <1>1 DEF MarkStates
<1> HIDE DEF done
<1>4. aged \in PicStates /\ \A x \in Dests, r \in Pairs :
                               aged[x][r] = IF p = Bottom THEN Older(done[x][r]) ELSE done[x][r]
  BY <1>2, AgeFramesType DEF AgeFrames
<1> HIDE DEF aged
<1>5. \A x \in Dests, r \in Pairs :
        pic'[x][r] = IF x = zc.prog[q] /\ r = q THEN Torn ELSE aged[x][r]
  BY <1>0, <1>1, <1>4 DEF StartRun, PicStates
<1> HIDE DEF p, q, d
<1>6. HalfWritten(p, q, d)
  BY <1>2, <1>3, <1>4, <1>5 DEF HalfWritten
<1> QED  BY <1>6 DEF p, q, d

\* Ages up to 1 grow, and damage stays.
LEMMA OlderFacts ==
  /\ Older(0) = 1 /\ \A x \in Damaged : Older(x) = x
  /\ \A x \in Contents : Older(x) = Torn => x = Torn
  /\ \A x \in Ages : Older(x) # 0
BY CaptureAssumption DEF Older, Min2, Ages, Damaged, Torn, Unmeasured, Contents

\* With no event waiting, the completed half is the one the thread takes next.
LEMMA CardHalfDoneKeeps ==
  ASSUME OnTime, Settled, PictureInv, CardHalfDone, fifo = <<>>
  PROVE  PictureInv'
<1> PICK p \in Pairs, q \in Pairs, d \in BufOrNull : p = card.pair /\ q = Other(p) /\ d = card.dst
  BY PictureFacts, ValueTypes
<1>0. /\ zc \in ZcStates /\ Pairs = {Top, Bottom} /\ Top # Bottom
      /\ p \in Pairs /\ card.toggle \in Pairs /\ d \in BufOrNull /\ seen \in Pairs
      /\ Null \notin Bufs /\ Null \notin HeldBufs /\ HeldBufs \subseteq Dests /\ Null \in Dests
      /\ zc.cur \in Dests /\ zc.next \in Dests /\ (zc.cur # Null => zc.cur # zc.next)
      /\ \A r \in Pairs : zc.prog[r] \notin HeldBufs /\ zc.prog[r] \in Dests
      /\ \A b \in HeldBufs : b # d
      /\ thr.busy => thr.zf = zc.cur /\ frame.done
      /\ power = "on" /\ thr.pair \in Pairs /\ thr.src \in Contents /\ thr.ts \in Ages
      /\ pic \in PicStates
      /\ q = (IF p = Top THEN Bottom ELSE Top) /\ zc.stable \in {0, 1, 2}
      /\ Other(Top) = Bottom /\ Other(Bottom) = Top
  BY PictureFacts, ValueTypes DEF CardHalfDone, Other, Top, Bottom, ZcStates, Stables
<1>1. /\ started /\ ~lost /\ irq = "none" /\ irq' = "pending" /\ fifo' = <<>>
      /\ UNCHANGED <<started, lost, power, status, seen, frame, zc, held>>
      /\ card' = [pair |-> q, dst |-> zc.prog[q], toggle |-> p]
      /\ gap'.prev = gap.prev
  <2>1. irq = "none"
    BY DEF CardHalfDone, OnTime
  <2>2. fifo' = <<>>
    BY DEF CardHalfDone
  <2>3. gap'.prev = gap.prev
    BY DEF CardHalfDone, Settled, Known, TypeOK
  <2> QED  BY <2>1, <2>2, <2>3 DEF CardHalfDone, hostVars
<1>2. /\ thr'.busy = thr.busy /\ thr'.pair = thr.pair /\ thr'.zf = thr.zf
      /\ thr.busy => thr'.ts = Older(thr.ts) /\ thr'.src = IF p = Bottom THEN Older(thr.src) ELSE thr.src
  BY DEF CardHalfDone, Settled, Known, TypeOK, Copies
<1>3. HalfWritten(p, q, d)
  BY CardHalfDonePics
<1>4. /\ card'.pair = q /\ card'.dst = zc.prog[q] /\ card'.toggle = p
      /\ card.pair = p /\ card.dst = d /\ InSync' /\ ~Due /\ (Due' <=> p # seen)
      /\ (CopyingTop' <=> CopyingTop) /\ (CopyingBottom' <=> CopyingBottom)
      /\ (Unhooked' <=> Unhooked) /\ HeldBufs' = HeldBufs /\ Coming' = Coming
  BY <1>0, <1>1, <1>2 DEF InSync, Due, CopyingTop, CopyingBottom, Unhooked, HeldBufs, Coming
<1>5. /\ InSync => Due'
      /\ ~InSync => p = Top /\ card.toggle = Top
      /\ thr.busy /\ p = thr.pair => ~InSync
      /\ CopyingBottom => InSync /\ p = Top
  BY <1>0, <1>1, <1>4 DEF PictureInv, PipeInv, InSync, CopyingBottom
<1>6. /\ ~Unhooked \/ zc.cur # Null \/ zc.next # Null \/ (\E r \in Pairs : zc.prog[r] # Null) =>
           ~Unhooked /\ zc.stable = 2 /\ ZcCtxs # {} /\ InSync /\ Due'
      /\ d # Null => InSync /\ Due'
  BY <1>0, <1>1, <1>4, <1>5 DEF Unhooked, PictureInv, HookInv
<1>7. ~Unhooked => /\ thr.busy => p = Other(thr.pair)
                   /\ p = Bottom => zc.prog[Top] = zc.next /\ zc.prog[Bottom] = zc.cur
                   /\ p = Top => /\ \A r \in Pairs : zc.prog[r] = Coming
                                 /\ ~thr.busy => zc.next = Null
  BY <1>0, <1>1, <1>4 DEF PictureInv, HookInv, NextIs
<1>8. ~CopyingBottom => Coming = zc.cur
  BY DEF Coming
<1>9. zc.prog[p] = Coming
  <2>1. CASE Unhooked
    BY <1>0, <2>1 DEF Unhooked, Coming
  <2>2. CASE ~Unhooked /\ p = Top
    BY <1>0, <1>7, <2>2
  <2>3. CASE ~Unhooked /\ p = Bottom
    BY <1>0, <1>5, <1>7, <1>8, <2>3
  <2> QED  BY <1>0, <2>1, <2>2, <2>3
<1>10. /\ Coming # Null => d = Coming
       /\ d = Null => Coming = Null
  BY <1>0, <1>1, <1>4, <1>9 DEF PictureInv, HookInv
<1>11. PipeInv'
  BY <1>0, <1>1, <1>2, <1>4, <1>5 DEF PictureInv, PipeInv, CopyingBottom
<1>12. HookInv'
  <2>1. \A r \in Pairs : ~Unhooked => (NextIs(r)' <=> p = r)
    BY <1>4, <1>6 DEF NextIs
  <2>2. (zc.stable < 2 \/ ZcCtxs = {} => Unhooked)
    BY DEF PictureInv, HookInv
  <2>3. \A r \in Pairs : Other(r) \in Pairs
    BY ValueTypes
  <2> QED  BY <1>0, <1>1, <1>2, <1>4, <1>7, <2>1, <2>2, <2>3 DEF HookInv
<1>13. MarkInv'
  <2>1. ASSUME zc.stable = 2, ZcCtxs # {}, NEW r \in Pairs, mark'[Null][r] = "clear"
        PROVE  \/ Due' /\ p = r /\ Coming = Null
               \/ thr.busy /\ thr.pair = r /\ thr.zf = Null
    <3>1. CASE d = Null /\ r = p
      <4>1. InSync
        BY <1>1, <2>1 DEF PictureInv, HookInv
      <4> QED  BY <1>5, <1>10, <3>1, <4>1
    <3>2. CASE ~(d = Null /\ r = p)
      BY <1>1, <1>3, <1>4, <2>1, <3>2 DEF HalfWritten, PictureInv, MarkInv
    <3> QED  BY <3>1, <3>2
  <2>2. ASSUME zc.stable > 0, frame.done, ~CopyingTop, mark'[Null][Top] = "clear"
        PROVE  Due' /\ p = Top
    <3>1. InSync
      BY <1>1, <2>2 DEF PictureInv, HookInv
    <3>2. p = Top
      BY <1>0, <1>1, <1>3, <1>4, <2>2 DEF HalfWritten, PictureInv, MarkInv
    <3> QED  BY <1>5, <3>1, <3>2
  <2>3. ASSUME zc.prog[q] # Null, mark'[Null][q] = "clear"
        PROVE  thr.busy /\ thr.pair = q /\ thr.zf = Null
    <3>1. zc.stable = 2 /\ ZcCtxs # {} /\ p # q /\ q \in Pairs
      BY <1>0, <1>6, <2>3
    <3> QED  BY <2>1, <2>3, <3>1
  <2> QED  BY <1>1, <1>2, <1>4, <2>1, <2>2, <2>3 DEF MarkInv
<1>14. AgeOf(p)' = (IF p = Top THEN 0 ELSE 1)
  BY <1>0, <1>4 DEF AgeOf
<1>15. pic'[d][p] = AgeOf(p)'
  <2>1. d \in Dests /\ p # q
    BY <1>0, ValueTypes
  <2> QED  BY <1>0, <1>3, <1>14, <2>1, OlderFacts DEF HalfWritten
<1>16. FreshInv'
  <2>1. ASSUME mark'[Null][p] = "clear" PROVE d = Null
    <3>1. ASSUME d # Null PROVE FALSE
      <4>1. mark[Null][p] = "clear"
        BY <1>0, <1>3, <2>1, <3>1 DEF HalfWritten
      <4>2. thr.busy /\ thr.pair = p /\ InSync
        BY <1>4, <1>6, <3>1, <4>1 DEF PictureInv, MarkInv
      <4> QED  BY <1>5, <4>2
    <3> QED  BY <3>1
  <2> QED  BY <1>4, <1>10, <1>15, <2>1 DEF FreshInv
<1>17. \A b \in HeldBufs : /\ pic'[b][Top] = IF p = Bottom THEN Older(pic[b][Top]) ELSE pic[b][Top]
                           /\ pic[b][Top] \in Contents
  <2>1. ASSUME NEW b \in HeldBufs
        PROVE pic'[b][Top] = (IF p = Bottom THEN Older(pic[b][Top]) ELSE pic[b][Top])
    <3>1. b \in Dests /\ b # d /\ b # zc.prog[q]
      BY <1>0
    <3> QED  BY <1>0, <1>3, <3>1 DEF HalfWritten
  <2>2. \A b \in HeldBufs : pic[b][Top] \in Contents
    BY <1>0 DEF PicStates
  <2> QED  BY <2>1, <2>2
<1>18. HalfInv'
  <2>1. ASSUME frame.done, ~CopyingTop, CopyingBottom \/ BottomNext'
        PROVE  /\ \A b \in HeldBufs : pic'[b][Top] \in Damaged \cup {OwedAge'}
               /\ zc.cur # Null => pic'[zc.cur][Top] = OwedAge'
    <3>1. CASE CopyingBottom
      <4>1. Owed /\ OwedAge = 1 /\ OwedAge' = 1 /\ p = Top /\ q = Bottom
        BY <1>0, <1>4, <1>5, <2>1, <3>1 DEF Owed, OwedAge
      <4>2. ASSUME zc.cur # Null PROVE pic'[zc.cur][Top] = pic[zc.cur][Top]
        <5>1. ~Unhooked /\ Coming = zc.next
          BY <1>6, <3>1, <4>2 DEF Coming
        <5>2. d # zc.cur
          <6>1. d # Null /\ d = zc.cur => zc.cur = zc.prog[p]
            BY <1>4 DEF PictureInv, HookInv
          <6> QED  BY <1>0, <1>9, <4>2, <5>1, <6>1
        <5> QED  BY <1>0, <1>3, <4>1, <5>2 DEF HalfWritten
      <4> QED  BY <1>0, <1>17, <4>1, <4>2 DEF PictureInv, HalfInv
    <3>2. CASE ~CopyingBottom /\ p = Bottom
      <4>1. Owed /\ OwedAge = 0 /\ OwedAge' = 1 /\ q = Top
        BY <1>0, <1>1, <1>4, <2>1, <3>2 DEF Owed, OwedAge, BottomNext
      <4>2. ASSUME zc.cur # Null PROVE pic'[zc.cur][Top] = Older(pic[zc.cur][Top])
        <5>1. zc.prog[q] # zc.cur
          BY <1>0, <1>6, <1>7, <3>2, <4>1, <4>2
        <5> QED  BY <1>0, <1>3, <3>2, <4>1, <5>1 DEF HalfWritten
      <4> QED  BY <1>0, <1>17, <3>2, <4>1, <4>2, OlderFacts DEF PictureInv, HalfInv
    <3>3. CASE ~CopyingBottom /\ p = Top
      <4>1. ~Due' /\ ~InSync /\ seen = Top /\ zc.cur = Null
        BY <1>0, <1>4, <1>5, <1>6, <2>1, <3>3 DEF BottomNext
      <4>2. \A b \in HeldBufs : pic[b][Top] \in Damaged
        BY <1>1, <1>4, <2>1, <4>1 DEF PictureInv, HalfInv
      <4> QED  BY <1>0, <1>17, <3>3, <4>1, <4>2
    <3> QED  BY <1>0, <3>1, <3>2, <3>3
  <2>2. \A b \in HeldBufs : pic'[b][Top] = Torn => pic[b][Top] = Torn
    BY <1>17, OlderFacts
  <2> QED  BY <1>1, <1>4, <2>1, <2>2 DEF PictureInv, HalfInv, Owed
<1>19. CopyInv'
  <2>1. ASSUME thr.busy PROVE thr'.src \in Damaged \cup {AgeOf(thr.pair)'}
    <3>1. CASE p = thr.pair
      <4>1. p = Top /\ thr.src \in Damaged
        BY <1>5, <2>1, <3>1 DEF PictureInv, CopyInv, CopyingTop
      <4> QED  BY <1>0, <1>2, <2>1, <4>1
    <3>2. CASE p = Bottom /\ thr.pair = Top
      <4>1. AgeOf(Top) = 0 /\ AgeOf(Top)' = 1 /\ thr.src \in Damaged \cup {0}
        BY <1>0, <1>4, <2>1, <3>2 DEF PictureInv, CopyInv, AgeOf
      <4> QED  BY <1>2, <2>1, <3>2, <4>1, OlderFacts
    <3>3. CASE p = Top /\ thr.pair = Bottom
      <4>1. AgeOf(Bottom) = 1 /\ AgeOf(Bottom)' = 1 /\ thr.src \in Damaged \cup {1}
        BY <1>0, <2>1, <3>3 DEF PictureInv, CopyInv, AgeOf
      <4> QED  BY <1>0, <1>2, <2>1, <3>3, <4>1
    <3> QED  BY <1>0, <3>1, <3>2, <3>3
  <2>2. ASSUME thr.busy, thr.zf # Null
        PROVE  /\ pic'[thr.zf][thr.pair] = AgeOf(thr.pair)'
               /\ pic[thr.zf][thr.pair] = thr.src => thr'.src = AgeOf(thr.pair)'
    <3>1. /\ thr.zf = zc.cur /\ zc.cur # Null /\ ~Unhooked /\ p = Other(thr.pair)
          /\ pic[zc.cur][thr.pair] = AgeOf(thr.pair)
      BY <1>0, <1>6, <1>7, <2>2 DEF PictureInv, CopyInv
    <3>2. zc.prog[q] = zc.next
      <4>1. CASE p = Bottom
        BY <1>0, <1>7, <3>1, <4>1
      <4>2. CASE p = Top
        <5>1. Coming = zc.next
          BY <1>0, <2>2, <3>1, <4>2 DEF Coming, CopyingBottom
        <5> QED  BY <1>0, <1>7, <3>1, <4>2, <5>1
      <4> QED  BY <1>0, <4>1, <4>2
    <3>3. pic'[zc.cur][thr.pair] = IF p = Bottom THEN Older(pic[zc.cur][thr.pair]) ELSE pic[zc.cur][thr.pair]
      BY <1>0, <1>3, <3>1, <3>2 DEF HalfWritten
    <3>4. /\ p = Bottom => thr.pair = Top /\ AgeOf(Top) = 0 /\ AgeOf(Top)' = 1
          /\ p = Top => thr.pair = Bottom /\ AgeOf(Bottom) = 1 /\ AgeOf(Bottom)' = 1
      BY <1>0, <1>4, <3>1 DEF AgeOf
    <3> QED  BY <1>0, <1>2, <2>2, <3>1, <3>3, <3>4, OlderFacts
  <2>3. thr.busy => thr'.ts # 0
    BY <1>0, <1>2, OlderFacts
  <2>4. ASSUME thr.busy, gap.prev = 1, thr.zf # Null
        PROVE  thr'.src \in Ages /\ pic'[thr.zf][thr.pair] = thr'.src
    <3>1. pic[thr.zf][thr.pair] = thr.src
      BY <2>4 DEF PictureInv, CopyInv
    <3>2. AgeOf(thr.pair)' \in Ages
      BY CaptureAssumption DEF AgeOf, Ages
    <3> QED  BY <2>2, <2>4, <3>1, <3>2
  <2> QED  BY <1>1, <1>2, <1>4, <2>1, <2>2, <2>3, <2>4 DEF CopyInv
<1> QED  BY <1>11, <1>12, <1>13, <1>16, <1>18, <1>19 DEF PictureInv

-----------------------------------------------------------------------------
(* The other steps.                                                        *)

\* hws_zc_stop() also clears zc_stable.
LEMMA ZcStopUnhooks ==
  ASSUME NEW z \in ZcStates, NEW stopped \in BOOLEAN
  PROVE  LET done == ZcStop(z, stopped) IN
         /\ done.cur = Null /\ done.next = Null /\ done.stable = 0
         /\ \A p \in Pairs : done.prog[p] = Null
<1> DEFINE off == Program(Program(z, Top, Null, FALSE), Bottom, Null, FALSE)
           ret == Retire(Retire(off, z.cur), z.next)
           empty == [ret EXCEPT !.cur = Null, !.next = Null, !.ctx = Null, !.stable = 0]
           need == IF stopped THEN [b \in Bufs |-> IF b \in empty.rel THEN Zero2 ELSE empty.need[b]]
                   ELSE empty.need
           rest == Unhook(z, stopped)
           out == Releasable(rest)
           in == [b \in Bufs |-> IF b \in out THEN False2 ELSE rest.in[b]]
           away == [b \in Bufs |-> IF b \in out THEN False2 ELSE rest.away[b]]
<1>1. off \in ZcStates
  <2>1. Top \in Pairs /\ Bottom \in Pairs /\ Null \in BufOrNull /\ FALSE \in BOOLEAN
    BY ValueTypes DEF BufOrNull
  <2>2. Program(z, Top, Null, FALSE) \in ZcStates
    BY <2>1, ProgramFacts
  <2> QED  BY <2>1, <2>2, ProgramFacts
<1> HIDE DEF off
<1>2. ret \in ZcStates
  <2>1. z.cur \in BufOrNull /\ z.next \in BufOrNull
    BY DEF ZcStates
  <2>2. Retire(off, z.cur) \in ZcStates
    BY <1>1, <2>1, RetireFacts
  <2> QED  BY <2>1, <2>2, RetireFacts
<1> HIDE DEF ret
<1>3. empty.stable = 0 /\ DOMAIN empty = DOMAIN ret
  BY <1>2 DEF ZcStates
<1>4. rest = [empty EXCEPT !.need = need]
  BY DEF Unhook, NoWaits, empty, ret, off
<1> HIDE DEF empty, need
<1>5. rest.stable = 0
  BY <1>3, <1>4
<1> HIDE DEF rest
<1>6. Release(rest) = [rest EXCEPT !.rel = rest.rel \ out, !.in = in, !.away = away]
  BY DEF Release
<1> HIDE DEF out, in, away
<1>7. Release(rest).stable = 0
  BY <1>5, <1>6
<1>8. LET done == ZcStop(z, stopped) IN
         /\ done.cur = Null /\ done.next = Null
         /\ \A p \in Pairs : done.prog[p] = Null
  BY ZcStopFlags
<1> QED  BY <1>7, <1>8 DEF ZcStop, rest

\* No frame was completed as good with halves of two input frames, or with a torn one.
Sound == \A b \in Bufs : res[b] \notin {"mixed", "torn"}

\* What a step gives frames that are not judged by their picture.
Unjudged == \A b \in Bufs : res'[b] \in {"ok", "error", "unmeasured", "repeat", res[b]}

\* hws_zc_stop() in its callers.
LEMMA TakeBackPicture ==
  ASSUME Settled, NEW stopped \in BOOLEAN, NEW pics, TakeBackZc(stopped, pics)
  PROVE  /\ Unhooked' /\ zc'.stable = 0
         /\ \A d \in HeldBufs \cup {Null} : pic'[d] = pics[d]
         /\ mark'[Null] = mark[Null] /\ zc'.prog[Top] = Null /\ Unjudged
<1> DEFINE back == ZcStopBack(zc, stopped)
<1>0. /\ zc \in ZcStates /\ HeldBufs \subseteq Dests /\ Null \in Dests /\ Top \in Pairs
      /\ \A b \in HeldBufs : b \notin InZc(zc)
  BY PictureFacts, ValueTypes
<1>1. zc' = ZcStop(zc, stopped) /\ pic' = Forget(pics, back) /\ mark' = Unmark(mark, back)
      /\ res' = Failed({zc.cur, zc.next}, back)
  BY DEF TakeBackZc
<1>2. back \subseteq InZc(zc)
  BY <1>0, ZcStopFlags
<1> HIDE DEF back
<1>3. \A d \in HeldBufs \cup {Null} : d \in Dests /\ d \notin back
  BY <1>0, <1>2 DEF InZc
<1>4. /\ zc'.cur = Null /\ zc'.next = Null /\ zc'.stable = 0 /\ \A p \in Pairs : zc'.prog[p] = Null
  BY <1>0, <1>1, ZcStopUnhooks
<1>5. Unjudged
  BY <1>1 DEF Unjudged, Failed
<1> QED  BY <1>0, <1>1, <1>3, <1>4, <1>5 DEF Forget, Unmark, Unhooked

\* hws_deliver_no_video() in its callers.
LEMMA DeliverPicture ==
  ASSUME Settled, NEW back, NEW pics, DeliverNoVideo(back, pics), back \subseteq InZc(zc)
  PROVE  /\ HeldBufs' = {} /\ Unjudged
         /\ \A d \in {Null, zc.cur, zc.next} \ back : pic'[d] = pics[d]
         /\ mark'[Null] = mark[Null]
<1>0. /\ TypeOK /\ OnePlace /\ zc.cur \in Dests /\ zc.next \in Dests /\ Null \in Dests
      /\ Null \notin HeldBufs /\ \A b \in HeldBufs : b # zc.cur /\ b # zc.next
  BY PictureFacts, ValueTypes DEF Settled, Known
<1> PICK t \in HoldChoices(queue, Null, ahead) :
      LET small == Image(t) \cap SmallBufs
          blue == HeldBufs \cup (Image(t) \ SmallBufs)
      IN /\ held' = [c \in Ctxs |-> Null]
         /\ res' = [b \in Bufs |-> IF b \in blue THEN Verdict(pic, b, TRUE)
                                   ELSE Failed({zc.cur, zc.next} \ {zc'.cur, zc'.next},
                                               small \cup back)[b]]
         /\ pic' = Forget(pics, back \cup small \cup blue)
         /\ mark' = Unmark(mark, back \cup small \cup blue)
  BY DEF DeliverNoVideo
<1> DEFINE small == Image(t) \cap SmallBufs
           blue == HeldBufs \cup (Image(t) \ SmallBufs)
           failed == {zc.cur, zc.next} \ {zc'.cur, zc'.next}
           gone == back \cup small \cup blue
<1>1. Image(t) \subseteq UNION {queue[c] : c \in Ctxs}
  BY <1>0, HoldPlaces DEF TypeOK
<1>2. \A d \in {Null, zc.cur, zc.next} \ back : d \in Dests /\ d \notin gone
  <2>1. ASSUME NEW d \in {Null, zc.cur, zc.next} PROVE d \notin Image(t)
    <3>1. CASE d = Null
      BY <1>0, <1>1, <3>1, CaptureAssumption DEF TypeOK
    <3>2. CASE d # Null
      BY <1>0, <1>1, <2>1, <3>2 DEF OnePlace, InZc
    <3> QED  BY <3>1, <3>2
  <2> QED  BY <1>0, <2>1
<1>3. Null \in {Null, zc.cur, zc.next} \ back
  BY DEF InZc
<1>4. ASSUME NEW b \in Bufs PROVE res'[b] \in {"ok", "error", "unmeasured", "repeat", res[b]}
  <2>1. res'[b] = IF b \in blue THEN Verdict(pic, b, TRUE) ELSE Failed(failed, small \cup back)[b]
    OBVIOUS
  <2> HIDE DEF blue, failed, small
  <2> QED  BY <2>1 DEF Verdict, Failed
<1>5. pic' = Forget(pics, gone) /\ mark' = Unmark(mark, gone) /\ held' = [c \in Ctxs |-> Null]
  OBVIOUS
<1> HIDE DEF gone, blue, failed, small
<1>6. HeldBufs' = {}
  BY <1>5 DEF HeldBufs
<1>7. Unjudged
  BY <1>4 DEF Unjudged
<1>8. \A d \in {Null, zc.cur, zc.next} \ back : pic'[d] = pics[d]
  BY <1>2, <1>5 DEF Forget
<1>9. mark'[Null] = mark[Null]
  BY <1>2, <1>3, <1>5 DEF Unmark
<1> QED  BY <1>6, <1>7, <1>8, <1>9

\* A start of the card writes its own buffers.
LEMMA StartedCard ==
  ASSUME card' = StartCard(zc'), zc'.prog[Top] = Null
  PROVE  card' = [card EXCEPT !.pair = Top, !.dst = Null]
BY DEF StartCard

\* Every action is one of these.
PictureStep ==
  \/ Steady /\ Unjudged
  \/ Restarted /\ Unjudged
  \/ Suspended /\ Unjudged
  \/ Resume \/ IrqHandler \/ ThreadSkips \/ TopEnd \/ BottomEnd \/ HalfBegin \/ CardHalfDone

\* The status thread, the applications and a sleep only do what Steady, Restarted and
\* Suspended say.
LEMMA NextPictureStep ==
  ASSUME OnTime, Settled, PictureInv, [Next]_vars
  PROVE  PictureStep
<1>0. /\ TypeOK /\ OnePlace /\ started \in BOOLEAN /\ zc \in ZcStates
      /\ HeldBufs \subseteq Dests /\ Null \notin HeldBufs /\ Null \in Dests
      /\ \A b \in HeldBufs : b \notin InZc(zc) /\ b # zc.cur /\ b # zc.next
      /\ zc.cur \in Dests /\ zc.next \in Dests /\ TRUE \in BOOLEAN /\ FALSE \in BOOLEAN
      /\ held \in [Ctxs -> BufOrNull]
  BY PictureFacts, ValueTypes DEF Settled, Known, TypeOK
<1>1. irq # "sampled" /\ ~lost /\ status # "reinit" /\ "card_loss" \notin Env
  BY DEF PictureInv, PipeInv, OnTime
<1>2. UNCHANGED res => Unjudged
  BY DEF Unjudged
<1>3. UNCHANGED held => HeldBufs' = HeldBufs
  BY DEF HeldBufs
<1>4. ASSUME UNCHANGED <<card, irq, seen, fifo, thr, gap, lost, power, frame, zc, held, pic, mark, res>>,
             status' # "reinit", started' => started
      PROVE  PictureStep
  BY <1>2, <1>3, <1>4 DEF PictureStep, Steady
<1>5. ASSUME TakeBackZc(FALSE, pic) \/ TakeBackZc(TRUE, pic), ~thr.busy,
             UNCHANGED <<card, irq, seen, fifo, thr, gap, lost, power, frame, held>>,
             status' # "reinit", started' => started
      PROVE  PictureStep
  <2>1. Unhooked' /\ zc'.stable = 0 /\ \A d \in HeldBufs \cup {Null} : pic'[d] = pic[d]
        /\ mark'[Null] = mark[Null] /\ Unjudged
    BY <1>0, <1>5, TakeBackPicture
  <2>2. zc'.cur = Null /\ zc'.next = Null
    BY <2>1 DEF Unhooked
  <2> QED  BY <1>3, <1>5, <2>1, <2>2 DEF PictureStep, Steady
<1>6. ASSUME TakeBackZc(FALSE, StartFrame) \/ TakeBackZc(TRUE, StartFrame), ~thr.busy,
             card' = StartCard(zc'), UNCHANGED <<irq, fifo, thr, power, held>>, ~lost', seen' = Bottom,
             status' # "reinit", gap'.last \in {None, MaxAge}, frame' = frame \/ ~frame'.done
      PROVE  PictureStep
  <2>1. Unhooked' /\ zc'.stable = 0 /\ \A d \in HeldBufs \cup {Null} : pic'[d] = StartFrame[d]
        /\ mark'[Null] = mark[Null] /\ zc'.prog[Top] = Null /\ Unjudged
    BY <1>0, <1>6, TakeBackPicture
  <2>2. card' = [card EXCEPT !.pair = Top, !.dst = Null]
    BY <1>6, <2>1, StartedCard
  <2> QED  BY <1>3, <1>6, <2>1, <2>2 DEF PictureStep, Restarted
<1>7. gap' = Paused => gap'.last \in {None, MaxAge}
  BY <1>0 DEF Paused, TypeOK
<1>8. CASE CardLoses \/ IrqAcknowledge \/ StatusFindsLoss \/ Reinit
  BY <1>1, <1>8 DEF CardLoses, IrqAcknowledge, StatusFindsLoss, Reinit, StatusTurn
<1>9. CASE StatusFindsCapture \/ PollSame
  BY <1>4, <1>9 DEF StatusFindsCapture, PollSame, StatusTurn, cardVars
<1>10. ASSUME NEW b \in Bufs, QBuf(b) PROVE res'[b] = "ok" /\ Steady
  <2>1. res' = [res EXCEPT ![b] = "ok"] /\ res \in [Bufs -> Results]
    BY <1>0, <1>10 DEF QBuf, TypeOK
  <2> QED  BY <1>1, <1>3, <1>10, <2>1 DEF QBuf, cardVars, hostVars, Steady
<1>11. ASSUME NEW b \in Bufs, QBuf(b) PROVE PictureStep
  <2>1. \A x \in Bufs : res'[x] = IF x = b THEN "ok" ELSE res[x]
    BY <1>0, <1>11 DEF QBuf, TypeOK
  <2>2. Unjudged
    BY <2>1 DEF Unjudged
  <2> QED  BY <1>10, <1>11, <2>2 DEF PictureStep
<1>12. ASSUME NEW c \in Ctxs, StreamOn(c) \/ JoinEngine(c) \/ StopWaited(c) \/ StopTimesOut(c) \/ StopTimeout(c)
                              \/ StopEngine(c)
       PROVE PictureStep
  BY <1>1, <1>4, <1>12 DEF StreamOn, JoinEngine, StopWaited, StopTimesOut, StopTimeout,
                   StopEngine, cardVars, hostVars
<1>13. ASSUME NEW c \in Ctxs, StreamOff(c) PROVE PictureStep
  <2>1. Unjudged
    BY <1>13 DEF StreamOff, Unjudged, Failed
  <2> QED  BY <1>1, <1>3, <1>13, <2>1 DEF StreamOff, cardVars, hostVars, PictureStep, Steady
<1>14. CASE PollNoVideo
  <2>1. CASE started
    <3>1. /\ zc' = zc /\ ~frame'.done /\ DeliverNoVideo({}, pic) /\ status' = "idle"
          /\ UNCHANGED <<card, irq, seen, fifo, thr, gap, lost, power, started>>
      BY <1>14, <2>1 DEF PollNoVideo, StatusTurn, NoTop, cardVars
    <3>2. /\ HeldBufs' = {} /\ Unjudged /\ mark'[Null] = mark[Null]
          /\ \A d \in {Null, zc.cur, zc.next} : pic'[d] = pic[d]
      BY <3>1, DeliverPicture
    <3> QED  BY <3>1, <3>2 DEF PictureStep, Steady
  <2>2. CASE ~started
    BY <1>4, <1>14, <2>2 DEF PollNoVideo, StatusTurn, cardVars
  <2> QED  BY <1>0, <2>1, <2>2
<1>15. CASE PollResize
  <2>1. CASE started
    <3>1. TakeBackZc(TRUE, StartFrame)
      BY <1>15, <2>1 DEF PollResize, RestartPics
    <3>2. /\ ~thr.busy /\ status' = "idle" /\ card' = StartCard(zc') /\ seen' = Bottom /\ ~lost' /\ gap' = Paused
          /\ UNCHANGED <<irq, fifo, thr, power, frame, held>>
      BY <1>15, <2>1 DEF PollResize, StatusTurn, Restart, ToggleAtStart
    <3> QED  BY <1>6, <1>7, <3>1, <3>2
  <2>2. CASE ~started
    <3>1. TakeBackZc(FALSE, pic) /\ ~thr.busy /\ status' = "idle"
          /\ UNCHANGED <<card, irq, seen, fifo, thr, gap, lost, power, frame, held, started>>
      <4>1. TakeBackZc(started, RestartPics) /\ started = FALSE /\ RestartPics = pic
        BY <1>0, <1>15, <2>2 DEF PollResize, RestartPics
      <4>2. TakeBackZc(FALSE, pic)
        BY <4>1
      <4> QED  BY <1>15, <2>2, <4>2 DEF PollResize, StatusTurn, Restart
    <3> QED  BY <1>5, <3>1
  <2> QED  BY <1>0, <2>1, <2>2
<1>16. CASE PollBadSize
  <2>1. CASE started
    <3>1. /\ zc' = ZcStop(zc, TRUE) /\ ~frame'.done
          /\ ~thr.busy /\ status' = "idle" /\ card' = StartCard(zc') /\ seen' = Bottom /\ ~lost' /\ gap' = Paused
          /\ UNCHANGED <<irq, fifo, thr, power>>
      BY <1>16, <2>1 DEF PollBadSize, StatusTurn, Restart, ToggleAtStart, NoTop
    <3>2. ZcStopBack(zc, TRUE) \subseteq InZc(zc) /\ Null \notin ZcStopBack(zc, TRUE)
      <4>1. ZcStopBack(zc, TRUE) \subseteq InZc(zc)
        BY <1>0, ZcStopFlags
      <4> QED  BY <4>1 DEF InZc
    <3>3. HeldBufs' = {} /\ Unjudged /\ mark'[Null] = mark[Null] /\ pic'[Null] = StartFrame[Null]
      <4> DEFINE back == ZcStopBack(zc, TRUE)
      <4>1. RestartPics = StartFrame
        BY <2>1 DEF RestartPics
      <4>2. DeliverNoVideo(ZcStopBack(zc, started), RestartPics) /\ started = TRUE
        BY <1>0, <1>16, <2>1 DEF PollBadSize
      <4>3. DeliverNoVideo(back, StartFrame)
        BY <4>1, <4>2
      <4>4. back \subseteq InZc(zc) /\ Null \notin back
        BY <3>2
      <4> HIDE DEF back
      <4>5. /\ HeldBufs' = {} /\ Unjudged /\ mark'[Null] = mark[Null]
            /\ \A d \in {Null, zc.cur, zc.next} \ back : pic'[d] = StartFrame[d]
        BY <4>3, <4>4, DeliverPicture
      <4> QED  BY <4>4, <4>5
    <3>4. Unhooked' /\ zc'.stable = 0 /\ zc'.prog[Top] = Null
      BY <1>0, <3>1, ZcStopUnhooks, ValueTypes DEF Unhooked
    <3>5. card' = [card EXCEPT !.pair = Top, !.dst = Null]
      BY <3>1, <3>4, StartedCard
    <3> QED  BY <1>7, <3>1, <3>3, <3>4, <3>5 DEF PictureStep, Restarted
  <2>2. CASE ~started
    <3>1. TakeBackZc(FALSE, pic) /\ ~thr.busy /\ status' = "idle"
          /\ UNCHANGED <<card, irq, seen, fifo, thr, gap, lost, power, frame, held, started>>
      BY <1>16, <2>2 DEF PollBadSize, StatusTurn, Restart
    <3> QED  BY <1>5, <3>1
  <2> QED  BY <1>0, <2>1, <2>2
<1>17. ASSUME NEW c \in Ctxs, StartEngine(c) PROVE PictureStep
  <2>1. /\ TakeBackZc(TRUE, StartFrame) /\ ~thr.busy /\ card' = StartCard(zc') /\ seen' = Bottom /\ ~lost'
        /\ UNCHANGED <<irq, fifo, thr, power, held, status>> /\ gap'.last = None /\ ~frame'.done
    BY <1>17 DEF StartEngine, ToggleAtStart, NoTop, hostVars
  <2> QED  BY <1>1, <1>6, <2>1
<1>18. ASSUME NEW c \in Ctxs, StopTakeBack(c) PROVE PictureStep
  <2> DEFINE mine == zc.ctx = c
             back == ({held[c]} \ {Null}) \cup (IF mine THEN ZcStopBack(zc, FALSE) ELSE {})
  <2>1. /\ ~thr.busy /\ zc' = (IF mine THEN ZcStop(zc, FALSE) ELSE zc)
        /\ res' = Failed(IF mine THEN {zc.cur, zc.next} ELSE {}, back)
        /\ pic' = Forget(pic, back) /\ mark' = Unmark(mark, back)
        /\ held' = [held EXCEPT ![c] = Null]
        /\ UNCHANGED <<card, irq, seen, fifo, thr, gap, lost, power, frame, started, status>>
    BY <1>18 DEF StopTakeBack, cardVars, hostVars
  <2>2. ZcStopBack(zc, FALSE) \subseteq InZc(zc)
    BY <1>0, ZcStopFlags
  <2> HIDE DEF mine
  <2>3. \A x \in Ctxs : held'[x] = IF x = c THEN Null ELSE held[x]
    BY <1>0, <2>1
  <2>4. \A d \in HeldBufs' : d \in HeldBufs /\ d # held[c]
    <3>1. \A x, y \in Ctxs : held[x] # Null /\ held[x] = held[y] => x = y
      BY <1>0 DEF OnePlace
    <3> QED  BY <2>3, <3>1 DEF HeldBufs
  <2>5. /\ \A d \in HeldBufs' \cup {Null} : d \in Dests /\ d \notin back
        /\ ~mine => zc.cur \notin back /\ zc.next \notin back
    <3>1. Null \notin InZc(zc)
      BY DEF InZc
    <3>2. held[c] # Null => held[c] \in HeldBufs
      BY DEF HeldBufs
    <3> QED  BY <1>0, <2>2, <2>4, <3>1, <3>2
  <2> HIDE DEF back
  <2>6. Unjudged
    BY <2>1 DEF Unjudged, Failed
  <2>7. mine => Unhooked' /\ zc'.stable = 0 /\ zc'.cur = Null /\ zc'.next = Null
    BY <1>0, <2>1, ZcStopUnhooks DEF Unhooked
  <2>8. \A d \in HeldBufs' \cup {Null, zc'.cur, zc'.next} : pic'[d] = pic[d]
    BY <1>0, <2>1, <2>5, <2>7 DEF Forget
  <2>9. mark'[Null] = mark[Null]
    BY <1>0, <2>1, <2>5 DEF Unmark
  <2> QED  BY <1>1, <2>1, <2>4, <2>6, <2>7, <2>8, <2>9 DEF PictureStep, Steady
<1>19. ASSUME NEW c \in Ctxs, StopForce(c) PROVE PictureStep
  <2>1. CASE OtherUsers
    <3>1. /\ TakeBackZc(TRUE, StartFrame) /\ ~thr.busy /\ card' = StartCard(zc') /\ seen' = Bottom /\ ~lost'
          /\ UNCHANGED <<irq, fifo, thr, power, held, status, frame>> /\ gap' = Paused
      BY <1>19, <2>1 DEF StopForce, ToggleAtStart, hostVars
    <3> QED  BY <1>1, <1>6, <1>7, <3>1
  <2>2. CASE ~OtherUsers
    <3>1. /\ TakeBackZc(TRUE, pic) /\ ~thr.busy /\ ~started'
          /\ UNCHANGED <<card, irq, seen, fifo, thr, gap, lost, power, held, status, frame>>
      BY <1>19, <2>2 DEF StopForce, hostVars
    <3> QED  BY <1>1, <1>5, <3>1
  <2> QED  BY <2>1, <2>2
<1>20. CASE Suspend
  <2>1. /\ TakeBackZc(TRUE, pic) /\ ~thr.busy /\ ~started' /\ irq' = "none" /\ fifo' = <<>>
        /\ UNCHANGED <<card, seen, thr, gap, lost, held, status, frame>>
    BY <1>20 DEF Suspend
  <2>2. Unhooked' /\ zc'.stable = 0 /\ \A d \in HeldBufs \cup {Null} : pic'[d] = pic[d]
        /\ mark'[Null] = mark[Null] /\ Unjudged
    BY <1>0, <2>1, TakeBackPicture
  <2> QED  BY <2>1, <2>2 DEF PictureStep, Suspended
<1>21. CASE UNCHANGED vars
  BY <1>1, <1>4, <1>21 DEF vars, cardVars, hostVars
<1>22. CASE Resume \/ IrqHandler \/ ThreadSkips \/ TopEnd \/ BottomEnd \/ HalfBegin \/ CardHalfDone
  BY <1>22 DEF PictureStep
<1> QED  BY <1>8, <1>9, <1>11, <1>12, <1>13, <1>14, <1>15, <1>16, <1>17, <1>18, <1>19, <1>20, <1>21, <1>22
         DEF Next, Thread, HalfEnd, Status, StopSteps

\* Each step keeps what the frames hold.
LEMMA NextPicture ==
  ASSUME OnTime, Settled, PictureInv, SkipsClean, [Next]_vars, CardHalfDone => fifo = <<>>
  PROVE  PictureInv'
<1>1. PictureStep
  BY NextPictureStep
<1> QED  BY <1>1, SteadyKeeps, RestartedKeeps, SuspendedKeeps, ResumeKeeps, IrqHandlerKeeps,
            ThreadSkipsKeeps, TopEndKeeps, BottomEndKeeps, HalfBeginKeepsPicture, CardHalfDoneKeeps
         DEF PictureStep

\* Each step gives the application sound frames only.
LEMMA NextSound ==
  ASSUME OnTime, Settled, PictureInv, Sound, [Next]_vars
  PROVE  Sound'
<1>1. PictureStep
  BY NextPictureStep
<1>2. ASSUME Unjudged PROVE Sound'
  BY <1>2 DEF Unjudged, Sound
<1>3. CASE BottomEnd
  <2> PICK good \in BOOLEAN : FrameDone(good)
    BY <1>3, BottomEndFrame
  <2> QED  BY <1>2 DEF FrameDone, Unjudged
<1>4. CASE HalfBegin
  <2> PICK z \in ZcStates, m \in MarkStates, p \in Pairs, b \in BufOrNull, stale \in BOOLEAN :
        HalfTaken(z, m, p, b, stale)
    BY <1>4, HalfBeginTaken
  <2>1. UNCHANGED res \/ \E S, back : res' = Failed(S, back)
    <3>1. CASE StaleTop(z, m, b)
      BY <3>1 DEF StaleTop
    <3>2. CASE \E k, moved : EndWithoutFrame(z, k, moved)
      BY <3>2 DEF EndWithoutFrame
    <3>3. CASE \E hdcp : TopBegin(z, m, b, 0, hdcp)
      BY <3>3 DEF TopBegin
    <3>4. CASE \E hdcp : BottomBegin(z, m, 0, hdcp)
      BY <3>4 DEF BottomBegin
    <3> QED  BY <3>1, <3>2, <3>3, <3>4 DEF HalfTaken
  <2>2. Unjudged
    BY <2>1 DEF Failed, Unjudged
  <2> QED  BY <1>2, <2>2
<1>5. CASE Resume \/ IrqHandler \/ ThreadSkips \/ TopEnd \/ CardHalfDone
  <2>1. UNCHANGED res
    BY <1>5 DEF Resume, IrqHandler, ThreadSkips, TopEnd, CardHalfDone
  <2> QED  BY <1>2, <2>1 DEF Unjudged
<1> QED  BY <1>1, <1>2, <1>3, <1>4, <1>5 DEF PictureStep

\* At the start nothing is captured.
LEMMA InitPicture == Init /\ OnTime => PictureInv /\ Sound
<1> SUFFICES ASSUME Init, OnTime PROVE PictureInv /\ Sound
  OBVIOUS
<1>1. Top # Bottom /\ Top \in Pairs /\ Bottom \in Pairs /\ HeldBufs = {}
  BY ValueTypes DEF Top, Bottom, Init, HeldBufs
<1>2. Unhooked /\ zc.stable = 0 /\ ~Due /\ InSync /\ ~thr.busy /\ ~frame.done /\ ~started
  BY <1>1 DEF Init, Unhooked, Due, InSync, Idle, NoTop
<1>3. PipeInv
  BY <1>1, <1>2 DEF Init, PipeInv, CopyingBottom
<1>4. HookInv
  BY <1>1, <1>2 DEF Init, HookInv
<1>5. MarkInv /\ FreshInv /\ HalfInv /\ CopyInv
  BY <1>1, <1>2 DEF Init, MarkInv, FreshInv, HalfInv, CopyInv, Owed, CopyingTop
<1> QED  BY <1>3, <1>4, <1>5 DEF PictureInv, Sound, Init

-----------------------------------------------------------------------------
(* The theorems.                                                           *)

\* What the other proofs say of every state.
LEMMA SettledAlways == Spec /\ NeverBehind => []Settled
<1>1. Init => CurInv /\ EngineInv
  BY InitCur, InitEngine
<1>2. Known /\ CurInv /\ EngineInv /\ [Next]_vars => CurInv' /\ EngineInv'
  BY NextCur, NextEngine DEF Known
<1>3. Known /\ RegistersInFlight /\ CurInv /\ EngineInv /\ CardNeverWritesReturned => Settled
  BY DEF Settled
<1> QED  BY <1>1, <1>2, <1>3, KnownAlways, RegistersSafe, CardWritesInFlight, PTL DEF Spec

\* The invariant of every run in which the thread keeps up and skips cleanly.
LEMMA SoundAlways ==
  ASSUME OnTime
  PROVE  Spec /\ NeverBehind /\ []SkipsClean => []Sound
<1>1. Settled /\ PictureInv /\ Sound /\ SkipsClean /\ [Next]_vars /\ [CardHalfDone => fifo = <<>>]_vars
        => PictureInv' /\ Sound'
  <2> SUFFICES ASSUME Settled, PictureInv, Sound, SkipsClean, [Next]_vars, [CardHalfDone => fifo = <<>>]_vars
               PROVE  PictureInv' /\ Sound'
    OBVIOUS
  <2>1. Sound'
    BY NextSound
  <2>2. CASE CardHalfDone => fifo = <<>>
    BY <2>1, <2>2, NextPicture
  <2>3. CASE UNCHANGED vars
    <3>1. CardHalfDone => fifo = <<>>
      <4>1. CardHalfDone => card' # card
        <5>1. card.pair \in Pairs
          BY PictureFacts
        <5> QED  BY <5>1 DEF CardHalfDone, Other, Pairs, Top, Bottom
      <4> QED  BY <2>3, <4>1 DEF vars, cardVars
    <3> QED  BY <2>1, <3>1, NextPicture
  <2> QED  BY <2>2, <2>3
<1>2. Init => PictureInv /\ Sound
  BY InitPicture
<1> QED  BY <1>1, <1>2, SettledAlways, PTL DEF Spec, NeverBehind

\* "Copy a half into every consumer once": a frame the application gets as good
\* has both halves of one input frame.  StaleTop, the bottom half's marks and
\* top_done leave out what the card did not refresh, as long as the IRQ thread
\* takes each event before the next half completes and while nothing is skipped
\* in the middle of a frame.
THEOREM FramesWhole ==
  ASSUME OnTime
  PROVE  Spec /\ NeverBehind /\ []SkipsClean => []NoMixedFrame
<1>1. Sound => NoMixedFrame
  BY DEF Sound, NoMixedFrame
<1> QED  BY <1>1, SoundAlways, PTL

\* hws_copy_late(): a half that was overwritten during its copy fails its frame,
\* on the same terms.
THEOREM OverwrittenFail ==
  ASSUME OnTime
  PROVE  Spec /\ NeverBehind /\ []SkipsClean => []LateCopyFails
<1>1. Sound => LateCopyFails
  BY DEF Sound, LateCopyFails
<1> QED  BY <1>1, SoundAlways, PTL

-----------------------------------------------------------------------------
(* A single handle, whose thread never has more than one event to take.    *)

\* With EngineInv this is inductive for a single handle: events are skipped with
\* no half frame and nothing being copied, also after a system sleep.
QuietInv ==
  noVideo /\ (started \/ power = "sleep_capturing") =>
    ~frame.done /\ ~thr.busy /\ (ZcCtxs = {} \/ zc.stable = 0)

\* Neither the signal nor the engine changes, or the engine stops: nothing the
\* thread takes later is joined.
LEMMA QuietStays ==
  ASSUME QuietInv, noVideo' => noVideo, started' => started, power' = power,
         frame'.done => frame.done, thr'.busy => thr.busy, zc'.stable = zc.stable \/ zc'.stable = 0
  PROVE  QuietInv'
BY DEF QuietInv

\* hws_deliver_no_video() drops the frame, a refused size and every start of the
\* engine do, and only a usable signal lets the thread take a half.
LEMMA NextQuiet ==
  ASSUME NEW h, Ctxs = {h}, "no_video" \in Env => ZcCtxs = {}, TypeOK, EngineInv, QuietInv, [Next]_vars
  PROVE  QuietInv'
<1>0. /\ TypeOK /\ zc \in ZcStates /\ TRUE \in BOOLEAN /\ FALSE \in BOOLEAN /\ started \in BOOLEAN
      /\ power # "on" => ~started /\ status = "idle" /\ \A c \in Ctxs : pc[c] \in {"off", "on"}
  BY DEF TypeOK, EngineInv
<1>1. \A stopped \in BOOLEAN : ZcStop(zc, stopped).stable = 0
  BY <1>0, ZcStopUnhooks
<1>2. ASSUME UNCHANGED <<noVideo, started, power, frame, zc>>, thr'.busy => thr.busy PROVE QuietInv'
  BY <1>2, QuietStays
<1>3. ~OtherUsers
  <2>1. Users \subseteq {h}
    BY DEF Users
  <2>2. Cardinality({h}) = 1 /\ IsFiniteSet({h})
    BY FS_Singleton
  <2>3. Cardinality(Users) <= 1
    BY <2>1, <2>2, FS_Subset
  <2> QED  BY <2>3, <1>0 DEF EngineInv, OtherUsers, TypeOK
<1>4. CASE CardHalfDone
  <2>1. thr'.busy => thr.busy
    <3>1. thr' = (IF ~thr.busy THEN thr ELSE
                  [thr EXCEPT !.ts = Older(@), !.src = IF card.pair = Bottom THEN Older(@) ELSE @])
      BY <1>4 DEF CardHalfDone
    <3> QED  BY <3>1
  <2> QED  BY <1>2, <1>4, <2>1 DEF CardHalfDone, hostVars
<1>5. CASE CardLoses \/ IrqHandler \/ IrqAcknowledge \/ ThreadSkips
  BY <1>2, <1>5 DEF CardLoses, IrqHandler, IrqAcknowledge, ThreadSkips, hostVars
<1>6. CASE HalfBegin
  BY <1>6 DEF HalfBegin, QuietInv
<1>7. CASE TopEnd \/ BottomEnd
  <2>1. thr.busy /\ UNCHANGED <<noVideo, started, power>>
    BY <1>7 DEF TopEnd, BottomEnd, hostVars
  <2> QED  BY <2>1 DEF QuietInv
<1>8. CASE StatusFindsLoss \/ StatusFindsCapture
  BY <1>2, <1>8 DEF StatusFindsLoss, StatusFindsCapture
<1>9. CASE PollSame \/ PollResize
  BY <1>9 DEF PollSame, PollResize, QuietInv
<1>10. CASE PollNoVideo
  <2>1. power = "on" /\ ~thr.busy /\ "no_video" \in Env /\ UNCHANGED <<started, power, thr>>
    BY <1>0, <1>10 DEF PollNoVideo, StatusTurn
  <2>2. started => ~frame'.done
    BY <1>10 DEF PollNoVideo, NoTop
  <2> QED  BY <2>1, <2>2 DEF QuietInv
<1>11. CASE PollBadSize
  <2>1. power = "on" /\ ~thr.busy /\ UNCHANGED <<started, power, thr>>
    BY <1>0, <1>11 DEF PollBadSize, StatusTurn
  <2>2. started => ~frame'.done /\ zc' = ZcStop(zc, TRUE)
    BY <1>11 DEF PollBadSize, NoTop
  <2> QED  BY <1>1, <2>1, <2>2 DEF QuietInv
<1>12. CASE Reinit
  BY <1>1, <1>12, QuietStays DEF Reinit, TakeBackZc
<1>13. CASE \E b \in Bufs : QBuf(b)
  BY <1>2, <1>13 DEF QBuf, hostVars
<1>14. ASSUME NEW c \in Ctxs, StreamOn(c) \/ JoinEngine(c) \/ StreamOff(c) \/ StopWaited(c) PROVE QuietInv'
  BY <1>2, <1>14 DEF StreamOn, JoinEngine, StreamOff, StopWaited, hostVars
<1>15. ASSUME NEW c \in Ctxs, StartEngine(c) PROVE QuietInv'
  <2>1. ~thr.busy /\ ~frame'.done /\ zc' = ZcStop(zc, TRUE) /\ UNCHANGED thr
    BY <1>15 DEF StartEngine, NoTop, TakeBackZc
  <2> QED  BY <1>1, <2>1 DEF QuietInv
<1>16. ASSUME NEW c \in Ctxs, StopTakeBack(c) PROVE QuietInv'
  <2>1. UNCHANGED <<noVideo, started, power, frame, thr>> /\ (zc' = ZcStop(zc, FALSE) \/ zc' = zc)
    BY <1>16 DEF StopTakeBack, hostVars
  <2> QED  BY <1>1, <2>1, QuietStays
<1>17. ASSUME NEW c \in Ctxs, StopTimesOut(c) \/ StopTimeout(c) \/ StopEngine(c) PROVE QuietInv'
  <2>1. UNCHANGED <<noVideo, power, frame, thr, zc>> /\ (started' => started)
    <3>1. CASE StopTimesOut(c)
      BY <3>1 DEF StopTimesOut, hostVars
    <3>2. CASE StopTimeout(c)
      BY <3>2 DEF StopTimeout, hostVars
    <3>3. CASE StopEngine(c)
      BY <3>3 DEF StopEngine, hostVars
    <3> QED  BY <1>17, <3>1, <3>2, <3>3
  <2> QED  BY <2>1, QuietStays
<1>18. ASSUME NEW c \in Ctxs, StopForce(c) PROVE QuietInv'
  <2>1. UNCHANGED <<noVideo, power, frame, thr>> /\ ~started' /\ zc' = ZcStop(zc, TRUE)
    BY <1>3, <1>18 DEF StopForce, hostVars, TakeBackZc
  <2> QED  BY <1>1, <2>1, QuietStays
<1>19. CASE Suspend
  <2>1. /\ power = "on" /\ power' = (IF started THEN "sleep_capturing" ELSE "sleep") /\ ~started'
        /\ UNCHANGED <<noVideo, frame, thr>> /\ zc' = ZcStop(zc, TRUE)
    BY <1>19 DEF Suspend, TakeBackZc
  <2> QED  BY <1>1, <2>1 DEF QuietInv
<1>20. CASE Resume
  <2>1. /\ power' = "on" /\ started' = (power = "sleep_capturing")
        /\ UNCHANGED <<noVideo, frame, thr, zc>>
    BY <1>20 DEF Resume
  <2> QED  BY <2>1 DEF QuietInv
<1>21. CASE UNCHANGED vars
  BY <1>2, <1>21 DEF vars, hostVars
<1> QED  BY <1>4, <1>5, <1>6, <1>7, <1>8, <1>9, <1>10, <1>11, <1>12, <1>13, <1>14, <1>15, <1>16, <1>17,
            <1>18, <1>19, <1>20, <1>21 DEF Next, Thread, HalfEnd, Status, StopSteps

\* A single handle's thread that never has two events to take meets both
\* conditions of SoundAlways.
LEMMA SoundOne ==
  ASSUME OnTime, MaxWaiting = 1, NEW h, Ctxs = {h}, "no_video" \in Env => ZcCtxs = {}
  PROVE  Spec => []Sound
<1>1. Init => QuietInv
  BY DEF Init, QuietInv
<1>2. Known /\ EngineInv /\ [Next]_vars => EngineInv'
  BY NextEngine DEF Known
<1>3. Known /\ EngineInv /\ QuietInv /\ [Next]_vars => QuietInv'
  BY NextQuiet DEF Known
<1>4. QuietInv => SkipsClean
  BY DEF QuietInv, SkipsClean
<1>5. Spec => []SkipsClean
  BY <1>1, <1>2, <1>3, <1>4, InitEngine, KnownAlways, PTL DEF Spec
<1> QED  BY <1>5, NeverBehindOne, SoundAlways, PTL

\* A single handle, zero-copy or not, gets whole frames only, whatever its
\* STREAMOFFs, sleeps and changes of the input run into; with a signal that comes
\* and goes, without zero-copy.
THEOREM FramesWholeOne ==
  ASSUME OnTime, MaxWaiting = 1, NEW h, Ctxs = {h}, "no_video" \in Env => ZcCtxs = {}
  PROVE  Spec => []NoMixedFrame
<1>1. Sound => NoMixedFrame
  BY DEF Sound, NoMixedFrame
<1> QED  BY <1>1, SoundOne, PTL

\* ... and an overwritten half fails its frame.
THEOREM OverwrittenFailOne ==
  ASSUME OnTime, MaxWaiting = 1, NEW h, Ctxs = {h}, "no_video" \in Env => ZcCtxs = {}
  PROVE  Spec => []LateCopyFails
<1>1. Sound => LateCopyFails
  BY DEF Sound, LateCopyFails
<1> QED  BY <1>1, SoundOne, PTL

-----------------------------------------------------------------------------
(* A usable signal that stays, any number of handles.                      *)

\* Without a change of the signal and without a refused size m_curr_No_Video stays clear.
LEMMA NextSignal ==
  ASSUME "no_video" \notin Env, BadGeoms = {}, ~noVideo, [Next]_vars
  PROVE  ~noVideo'
<1>1. CASE CardHalfDone \/ CardLoses \/ IrqHandler \/ IrqAcknowledge \/ Thread \/ Suspend \/ Resume
           \/ UNCHANGED vars
  BY <1>1 DEF CardHalfDone, CardLoses, IrqHandler, IrqAcknowledge, Thread, ThreadSkips, HalfBegin, HalfEnd,
              TopEnd, BottomEnd, Suspend, Resume, vars
<1>2. CASE Status
  BY <1>2 DEF Status, StatusFindsLoss, StatusFindsCapture, PollSame, PollResize, PollNoVideo, PollBadSize,
              Reinit
<1>3. CASE \E b \in Bufs : QBuf(b)
  BY <1>3 DEF QBuf
<1>4. ASSUME NEW c \in Ctxs, StreamOn(c) \/ JoinEngine(c) \/ StartEngine(c) \/ StreamOff(c) \/ StopSteps(c)
      PROVE ~noVideo'
  BY <1>4 DEF StreamOn, JoinEngine, StartEngine, StreamOff, StopSteps, StopTakeBack, StopWaited,
              StopTimesOut, StopTimeout, StopForce, StopEngine
<1> QED  BY <1>1, <1>2, <1>3, <1>4 DEF Next

\* Any number of handles with such a signal meets the conditions as well.
LEMMA SoundSignal ==
  ASSUME OnTime, MaxWaiting = 1, "no_video" \notin Env, BadGeoms = {}
  PROVE  Spec => []Sound
<1>1. Init => ~noVideo
  BY DEF Init
<1>2. ~noVideo /\ [Next]_vars => ~noVideo'
  BY NextSignal
<1>3. ~noVideo => SkipsClean
  BY DEF SkipsClean
<1>4. Spec => []SkipsClean
  BY <1>1, <1>2, <1>3, PTL DEF Spec
<1> QED  BY <1>4, NeverBehindOne, SoundAlways, PTL

\* Handles that come and go, some with zero-copy, while the input is resized and the
\* system sleeps, all get whole frames, none with a half that was overwritten.
THEOREM FramesWholeSignal ==
  ASSUME OnTime, MaxWaiting = 1, "no_video" \notin Env, BadGeoms = {}
  PROVE  Spec => [](NoMixedFrame /\ LateCopyFails)
<1>1. Sound => NoMixedFrame /\ LateCopyFails
  BY DEF Sound, NoMixedFrame, LateCopyFails
<1> QED  BY <1>1, SoundSignal, PTL

==============================================================================
