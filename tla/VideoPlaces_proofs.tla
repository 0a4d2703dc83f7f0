-------------------------- MODULE VideoPlaces_proofs --------------------------
(***************************************************************************)
(* That a video buffer is in exactly one place, for any number of handles  *)
(* and buffers (OnePlace), and the lemmas it rests on.                     *)
(***************************************************************************)
EXTENDS VideoCapture_proofs

-----------------------------------------------------------------------------
(* What the zero-copy bookkeeping does to the set of buffers it keeps.     *)

\* The zero-copy state keeps no buffer twice.
Parts(z) ==
  /\ z.cur # Null => z.cur # z.next /\ z.cur \notin z.rel
  /\ z.next \notin z.rel

\* A register write moves no buffer.
LEMMA ProgramPlaces ==
  ASSUME NEW z \in ZcStates, NEW p \in Pairs, NEW b \in BufOrNull, NEW inTime \in BOOLEAN
  PROVE  /\ InZc(Program(z, p, b, inTime)) = InZc(z)
         /\ Parts(z) => Parts(Program(z, p, b, inTime))
<1> DEFINE done == Program(z, p, b, inTime)
<1>1. done.cur = z.cur /\ done.next = z.next /\ done.rel = z.rel
  BY DEF Program
<1> HIDE DEF done
<1>2. InZc(done) = InZc(z) /\ (Parts(z) => Parts(done))
  BY <1>1 DEF InZc, Parts
<1> QED  BY <1>2 DEF done

\* A top half adds the buffer hws_zc_pick() took, a bottom half none.
LEMMA NextHalfPlaces ==
  ASSUME NEW z \in ZcStates, NEW p \in Pairs, NEW b \in BufOrNull, NEW inTime \in BOOLEAN,
         Parts(z), p # Top => b = z.next, p = Top => b \notin InZc(z)
  PROVE  LET done == Program(NextHalf(z, p, b), p, b, inTime)
         IN InZc(done) = InZc(z) \cup ({b} \ {Null}) /\ Parts(done)
<1> DEFINE counted == CountEvent(z, p)
           ret == Retire(counted, z.next)
           moved == NextHalf(z, p, b)
<1>1. counted \in ZcStates /\ counted.cur = z.cur /\ counted.next = z.next /\ counted.rel = z.rel
  BY CountEventFacts DEF CountEvent
<1>2. moved \in ZcStates /\ InZc(moved) = InZc(z) \cup ({b} \ {Null}) /\ Parts(moved)
  <2>1. CASE p = Bottom
    <3>1. moved = counted /\ b = z.next
      BY <2>1 DEF NextHalf, Top, Bottom
    <3> HIDE DEF moved, counted
    <3> QED  BY <1>1, <3>1 DEF InZc, Parts
  <2>2. CASE p # Bottom
    <3>0. p = Top /\ z.next \in BufOrNull
      BY <2>2 DEF Pairs, Top, Bottom, ZcStates
    <3>1. ret \in ZcStates /\ ret.cur = z.cur /\ ret.rel = z.rel \cup ({z.next} \ {Null})
      <4> HIDE DEF counted
      <4> QED  BY <1>1, <3>0, RetireFacts DEF Retire, ZcStates
    <3> DEFINE c == IF b = Null THEN ret.ctx ELSE Owner[b]
    <3>2. c \in CtxOrNull
      BY <3>1, CaptureAssumption DEF ZcStates, BufOrNull, CtxOrNull
    <3>3. moved = [ret EXCEPT !.next = b, !.ctx = c]
      <4>1. moved = [ret EXCEPT !.next = b, !.ctx = IF b = Null THEN @ ELSE Owner[b]]
        BY <2>2 DEF NextHalf
      <4> HIDE DEF ret
      <4> QED  BY <3>1, <4>1 DEF ZcStates
    <3> HIDE DEF c, ret, moved
    <3>4. moved \in ZcStates /\ moved.cur = z.cur /\ moved.next = b
          /\ moved.rel = z.rel \cup ({z.next} \ {Null})
      BY <3>1, <3>2, <3>3 DEF ZcStates
    <3>5. b \notin InZc(z)
      BY <3>0
    <3>6. z.rel \subseteq Bufs
      BY DEF ZcStates
    <3> QED  BY <3>4, <3>5, <3>6, CaptureAssumption DEF InZc, Parts
  <2> QED  BY <2>1, <2>2
<1> HIDE DEF moved
<1> QED  BY <1>2, ProgramPlaces DEF moved

\* hws_zc_frame_end() gives back what hws_zc_release() lets go, and only that.
LEMMA FrameEndPlaces ==
  ASSUME NEW z \in ZcStates, Parts(z)
  PROVE  LET out == Releasable(Advance(z)) IN
         /\ out \subseteq InZc(z)
         /\ InZc(Release(Advance(z))) = InZc(z) \ out
         /\ Parts(Release(Advance(z)))
<1> DEFINE adv == Advance(z)
           out == Releasable(adv)
<1>1. adv.cur = z.next /\ adv.next = Null /\ adv.rel = z.rel \cup ({z.cur} \ {Null})
  BY DEF Advance, Retire, ZcStates
<1>2. out \subseteq adv.rel
  BY DEF Releasable
<1>3. Release(adv).cur = adv.cur /\ Release(adv).next = adv.next /\ Release(adv).rel = adv.rel \ out
  <2>1. adv \in ZcStates
    <3>1. z.cur \in BufOrNull /\ Retire(z, z.cur) \in ZcStates
      BY RetireFacts DEF ZcStates
    <3> QED  BY <3>1 DEF Advance, ZcStates, BufOrNull
  <2> HIDE DEF adv, out
  <2> QED  BY <2>1 DEF Release, out, ZcStates
<1>4. z.rel \subseteq Bufs
  BY DEF ZcStates
<1> HIDE DEF adv, out
<1>5. Null \notin adv.rel
  BY <1>1, <1>4, CaptureAssumption
<1> QED  BY <1>1, <1>2, <1>3, <1>4, <1>5, CaptureAssumption DEF InZc, Parts, adv, out

\* hws_zc_stop() gives back what hws_zc_release() lets go, and only that.
LEMMA ZcStopPlaces ==
  ASSUME NEW z \in ZcStates, NEW stopped \in BOOLEAN
  PROVE  LET out == ZcStopBack(z, stopped) IN
         /\ out \subseteq InZc(z)
         /\ InZc(ZcStop(z, stopped)) = InZc(z) \ out
         /\ Parts(ZcStop(z, stopped))
<1> DEFINE top == Program(z, Top, Null, FALSE)
           off == Program(top, Bottom, Null, FALSE)
           rest == Unhook(z, stopped)
           out == Releasable(rest)
<1>1. Top \in Pairs /\ Bottom \in Pairs /\ Null \in BufOrNull /\ FALSE \in BOOLEAN
  BY ValueTypes
<1>2. top \in ZcStates /\ top.cur = z.cur /\ top.next = z.next /\ top.rel = z.rel
  BY <1>1, ProgramFacts
<1>3. off \in ZcStates /\ off.cur = z.cur /\ off.next = z.next /\ off.rel = z.rel
  <2>1. top \in ZcStates
    BY <1>2
  <2> HIDE DEF top
  <2>2. Program(top, Bottom, Null, FALSE) \in ZcStates
        /\ Program(top, Bottom, Null, FALSE).cur = top.cur
        /\ Program(top, Bottom, Null, FALSE).next = top.next
        /\ Program(top, Bottom, Null, FALSE).rel = top.rel
    BY <1>1, <2>1, ProgramFacts
  <2> QED  BY <1>2, <2>2
<1> DEFINE ret == Retire(Retire(off, z.cur), z.next)
           empty == [ret EXCEPT !.cur = Null, !.next = Null, !.ctx = Null, !.stable = 0]
<1>4. rest = NoWaits(empty, stopped)
  BY DEF Unhook
<1> HIDE DEF rest
<1>5. ret \in ZcStates /\ ret.rel = z.rel \cup ({z.cur} \ {Null}) \cup ({z.next} \ {Null})
  <2>1. z.cur \in BufOrNull /\ z.next \in BufOrNull
    BY DEF ZcStates
  <2> HIDE DEF off
  <2>2. Retire(off, z.cur) \in ZcStates /\ Retire(off, z.cur).rel = z.rel \cup ({z.cur} \ {Null})
    BY <1>3, <2>1, RetireFacts DEF Retire, ZcStates
  <2>3. \A y \in ZcStates : Retire(y, z.next).rel = y.rel \cup ({z.next} \ {Null})
    BY DEF Retire, ZcStates
  <2>4. ret \in ZcStates
    BY <2>1, <2>2, RetireFacts
  <2> QED  BY <2>2, <2>3, <2>4
<1>6. empty.cur = Null /\ empty.next = Null /\ empty.rel = ret.rel
  <2> HIDE DEF ret
  <2> QED  BY <1>5 DEF ZcStates
<1>7. rest.cur = Null /\ rest.next = Null /\ rest.rel = ret.rel
  <2> HIDE DEF empty, ret
  <2> QED  BY <1>4, <1>6 DEF NoWaits
<1>8. out \subseteq rest.rel
  BY DEF Releasable
<1>9. Release(rest).cur = Null /\ Release(rest).next = Null /\ Release(rest).rel = rest.rel \ out
  BY <1>7 DEF Release, out
<1>10. z.rel \subseteq Bufs
  BY DEF ZcStates
<1>11. ZcStop(z, stopped) = Release(rest) /\ ZcStopBack(z, stopped) = out
  BY DEF ZcStop, ZcStopBack, rest
<1> HIDE DEF out, ret
<1> QED  BY <1>5, <1>7, <1>8, <1>9, <1>10, <1>11, CaptureAssumption DEF InZc, Parts

-----------------------------------------------------------------------------
(* What the helpers do to the waits and to the flags of late writes.       *)

\* hws_zc_program() touches the flags of the buffer that leaves the register,
\* and those of the pair it programs.
Programmed(z, done, p, b, inTime) ==
  \A x \in Bufs, q \in Pairs :
    /\ done.need[x][q] = IF x = z.prog[p] /\ q = p THEN Await(inTime) ELSE z.need[x][q]
    /\ done.away[x][q] = IF x = z.prog[p] /\ q = p THEN inTime ELSE z.away[x][q]
    /\ done.prog[q] = IF q = p THEN b ELSE z.prog[q]

\* A register write does exactly that.
LEMMA ProgramFlags ==
  ASSUME NEW z \in ZcStates, NEW p \in Pairs, NEW b \in BufOrNull, NEW inTime \in BOOLEAN
  PROVE  Programmed(z, Program(z, p, b, inTime), p, b, inTime)
<1> SUFFICES ASSUME NEW x \in Bufs, NEW q \in Pairs
    PROVE  LET done == Program(z, p, b, inTime) IN
           /\ done.need[x][q] = IF x = z.prog[p] /\ q = p THEN Await(inTime) ELSE z.need[x][q]
           /\ done.away[x][q] = IF x = z.prog[p] /\ q = p THEN inTime ELSE z.away[x][q]
           /\ done.prog[q] = IF q = p THEN b ELSE z.prog[q]
  BY DEF Programmed
<1> DEFINE old == z.prog[p]
           away == [y \in Bufs |-> IF y = old THEN [z.away[y] EXCEPT ![p] = inTime] ELSE z.away[y]]
           need == [y \in Bufs |-> IF y = old THEN [z.need[y] EXCEPT ![p] = Await(inTime)] ELSE z.need[y]]
           in   == [y \in Bufs |-> IF y = b THEN [z.in[y] EXCEPT ![p] = inTime] ELSE z.in[y]]
           done == Program(z, p, b, inTime)
<1>0. /\ z.need[x] \in [Pairs -> 0 .. 1] /\ z.away[x] \in [Pairs -> BOOLEAN]
      /\ z.prog \in [Pairs -> BufOrNull] /\ x # Null
  BY CaptureAssumption DEF ZcStates
<1>1. CASE b = Null /\ old = Null
  <2>1. done = z
    BY <1>1 DEF Program
  <2> QED  BY <1>0, <1>1, <2>1
<1>2. CASE ~(b = Null /\ old = Null)
  <2>1. done = [z EXCEPT !.prog[p] = b, !.away = away, !.need = need, !.in = in]
    BY <1>2 DEF Program
  <2>2. /\ need[x][q] = IF x = old /\ q = p THEN Await(inTime) ELSE z.need[x][q]
        /\ away[x][q] = IF x = old /\ q = p THEN inTime ELSE z.away[x][q]
    BY <1>0
  <2>3. done.need = need /\ done.away = away /\ done.prog = [z.prog EXCEPT ![p] = b]
    <3> HIDE DEF need, away, in, done
    <3> QED  BY <2>1 DEF ZcStates
  <2> HIDE DEF need, away, in, done, old
  <2>4. done.prog[q] = IF q = p THEN b ELSE z.prog[q]
    BY <1>0, <2>3
  <2> QED  BY <2>2, <2>3, <2>4 DEF done, old
<1> QED  BY <1>1, <1>2

\* hws_zc_release() changes no register and no wait, and wipes the flags of what leaves.
LEMMA ReleaseFlags ==
  ASSUME NEW z \in ZcStates
  PROVE  LET done == Release(z) IN
         /\ done.prog = z.prog /\ done.need = z.need /\ done.cur = z.cur /\ done.next = z.next
         /\ done.rel = z.rel \ Releasable(z)
         /\ \A x \in Bufs : done.away[x] = IF x \in Releasable(z) THEN False2 ELSE z.away[x]
<1> DEFINE out == Releasable(z)
           in == [b \in Bufs |-> IF b \in out THEN False2 ELSE z.in[b]]
           away == [b \in Bufs |-> IF b \in out THEN False2 ELSE z.away[b]]
           done == Release(z)
<1>1. done = [z EXCEPT !.rel = z.rel \ out, !.in = in, !.away = away]
  BY DEF Release
<1>2. \A x \in Bufs : away[x] = IF x \in out THEN False2 ELSE z.away[x]
  OBVIOUS
<1> HIDE DEF in, away, out, done
<1>3. /\ done.prog = z.prog /\ done.need = z.need /\ done.cur = z.cur /\ done.next = z.next
      /\ done.rel = z.rel \ out /\ done.away = away
  BY <1>1 DEF ZcStates
<1> QED  BY <1>2, <1>3 DEF done, out

\* hws_zc_stop() up to its release: nothing is captured into a buffer any more,
\* and a buffer a register pointed at waits for the card, if the card still runs.
LEMMA UnhookFacts ==
  ASSUME NEW z \in ZcStates, NEW stopped \in BOOLEAN
  PROVE  LET rest == Unhook(z, stopped) IN
         /\ rest \in ZcStates /\ rest.cur = Null /\ rest.next = Null
         /\ rest.rel = InZc(z)
         /\ \A p \in Pairs : rest.prog[p] = Null
         /\ stopped => \A x \in rest.rel : rest.need[x] = Zero2
         /\ ~stopped => \A x \in Bufs, p \in Pairs :
                          rest.need[x][p] = IF z.prog[p] = x THEN 1 ELSE z.need[x][p]
         /\ \A x \in Bufs, p \in Pairs :
              rest.away[x][p] => z.away[x][p] /\ z.prog[p] # x
<1> DEFINE top == Program(z, Top, Null, FALSE)
           off == Program(top, Bottom, Null, FALSE)
           half == Retire(off, z.cur)
           ret == Retire(half, z.next)
           empty == [ret EXCEPT !.cur = Null, !.next = Null, !.ctx = Null, !.stable = 0]
           need == IF stopped THEN [b \in Bufs |-> IF b \in empty.rel THEN Zero2 ELSE empty.need[b]]
                   ELSE empty.need
           rest == NoWaits(empty, stopped)
<1>1. Top \in Pairs /\ Bottom \in Pairs /\ Null \in BufOrNull /\ FALSE \in BOOLEAN
      /\ Null \in CtxOrNull /\ Top # Bottom /\ Pairs = {Top, Bottom} /\ 0 \in Stables
  BY ValueTypes DEF Top, Bottom, Stables, Pairs, BufOrNull, CtxOrNull
<1>2. top \in ZcStates /\ top.cur = z.cur /\ top.next = z.next /\ top.rel = z.rel
  BY <1>1, ProgramFacts
<1>3. Programmed(z, top, Top, Null, FALSE)
  BY <1>1, ProgramFlags
<1>3a. top.prog = [z.prog EXCEPT ![Top] = Null]
  BY <1>1, ProgramFacts
<1> HIDE DEF top
<1>4. off \in ZcStates /\ off.cur = z.cur /\ off.next = z.next /\ off.rel = z.rel
  BY <1>1, <1>2, ProgramFacts
<1>5. Programmed(top, off, Bottom, Null, FALSE)
  BY <1>1, <1>2, ProgramFlags
<1>6. \A q \in Pairs : off.prog[q] = Null
  <2>1. off.prog = [top.prog EXCEPT ![Bottom] = Null]
    BY <1>1, <1>2, ProgramFacts
  <2> QED  BY <1>1, <1>2, <1>3a, <2>1 DEF ZcStates
<1>7. \A x \in Bufs, q \in Pairs :
        /\ off.need[x][q] = IF x = z.prog[q] THEN 1 ELSE z.need[x][q]
        /\ off.away[x][q] => z.away[x][q] /\ x # z.prog[q]
  <2> SUFFICES ASSUME NEW x \in Bufs, NEW q \in Pairs
               PROVE  /\ off.need[x][q] = IF x = z.prog[q] THEN 1 ELSE z.need[x][q]
                      /\ off.away[x][q] => z.away[x][q] /\ x # z.prog[q]
    OBVIOUS
  <2>1. top.prog[Bottom] = z.prog[Bottom] /\ Await(FALSE) = 1
    BY <1>1, <1>3a DEF ZcStates, Await
  <2>2. /\ off.need[x][q] = IF x = z.prog[Bottom] /\ q = Bottom THEN 1 ELSE top.need[x][q]
        /\ off.away[x][q] = IF x = z.prog[Bottom] /\ q = Bottom THEN FALSE ELSE top.away[x][q]
    BY <1>5, <2>1 DEF Programmed
  <2>3. /\ top.need[x][q] = IF x = z.prog[Top] /\ q = Top THEN 1 ELSE z.need[x][q]
        /\ top.away[x][q] = IF x = z.prog[Top] /\ q = Top THEN FALSE ELSE z.away[x][q]
    BY <1>3, <2>1 DEF Programmed
  <2>4. CASE q = Top
    BY <1>1, <2>2, <2>3, <2>4
  <2>5. CASE q = Bottom
    BY <1>1, <2>2, <2>3, <2>5
  <2> QED  BY <1>1, <2>4, <2>5
<1> HIDE DEF off
<1>8. z.cur \in BufOrNull /\ z.next \in BufOrNull
  BY DEF ZcStates
<1>9. half \in ZcStates /\ half.rel = z.rel \cup ({z.cur} \ {Null}) /\ half.prog = off.prog
      /\ half.need = off.need /\ half.away = off.away
  BY <1>4, <1>8, RetireFacts DEF Retire, ZcStates
<1> HIDE DEF half
<1>10. ret \in ZcStates /\ ret.rel = half.rel \cup ({z.next} \ {Null}) /\ ret.prog = off.prog
       /\ ret.need = off.need /\ ret.away = off.away
  BY <1>8, <1>9, RetireFacts DEF Retire, ZcStates
<1> HIDE DEF ret
<1>11. /\ empty \in ZcStates /\ empty.cur = Null /\ empty.next = Null /\ empty.rel = ret.rel
       /\ empty.prog = off.prog /\ empty.need = off.need /\ empty.away = off.away
  BY <1>1, <1>10 DEF ZcStates
<1> HIDE DEF empty
<1>12. /\ need \in [Bufs -> [Pairs -> 0 .. 1]]
       /\ stopped => \A x \in empty.rel : need[x] = Zero2
       /\ ~stopped => need = empty.need
  BY <1>11 DEF ZcStates, Zero2
<1>13. rest = [empty EXCEPT !.need = need]
  BY DEF NoWaits
<1> HIDE DEF need, rest
<1>14. /\ rest \in ZcStates /\ rest.cur = Null /\ rest.next = Null /\ rest.rel = empty.rel
       /\ rest.prog = off.prog /\ rest.need = need /\ rest.away = off.away
  BY <1>11, <1>12, <1>13 DEF ZcStates
<1>15. rest.rel = InZc(z)
  <2>1. Null \notin z.rel
    BY CaptureAssumption DEF ZcStates
  <2> QED  BY <1>9, <1>10, <1>11, <1>14, <2>1 DEF InZc
<1>16. Unhook(z, stopped) = rest
  BY DEF Unhook, rest, empty, ret, half, off, top
<1> QED  BY <1>6, <1>7, <1>11, <1>12, <1>14, <1>15, <1>16

\* The whole of hws_zc_stop(); with the card at rest every buffer goes back.
LEMMA ZcStopEmpties ==
  ASSUME NEW z \in ZcStates, NEW stopped \in BOOLEAN
  PROVE  /\ \A p \in Pairs : ZcStop(z, stopped).prog[p] = Null
         /\ stopped \/ InZc(z) = {} => InZc(ZcStop(z, stopped)) = {}
<1> DEFINE rest == Unhook(z, stopped)
<1>1. /\ rest \in ZcStates /\ rest.cur = Null /\ rest.next = Null /\ rest.rel = InZc(z)
      /\ \A p \in Pairs : rest.prog[p] = Null
      /\ stopped => \A x \in rest.rel : rest.need[x] = Zero2
  BY UnhookFacts
<1>2. rest.rel \subseteq Bufs
  BY <1>1 DEF ZcStates
<1> HIDE DEF rest
<1>3. /\ Release(rest).prog = rest.prog /\ Release(rest).cur = Null /\ Release(rest).next = Null
      /\ Release(rest).rel = rest.rel \ Releasable(rest)
  BY <1>1, ReleaseFlags
<1>4. stopped => Releasable(rest) = rest.rel
  BY <1>1, <1>2, CaptureAssumption DEF Releasable
<1> QED  BY <1>1, <1>3, <1>4 DEF ZcStop, InZc, rest

-----------------------------------------------------------------------------
(* Moving buffers.                                                         *)

\* An action that takes the buffers T from the queues, gives "back" to the app
\* and keeps the rest of them and of those in flight, each once.
LEMMA QueueMoves ==
  ASSUME TypeOK, OnePlace, TypeOK', NEW T, NEW back,
         T \subseteq UNION {queue[c] : c \in Ctxs},
         queue' = QueueWithout(queue, T),
         app' = app \cup back,
         HeldBufs' \cup InZc(zc') \cup back = HeldBufs \cup InZc(zc) \cup T,
         HeldBufs' \cap InZc(zc') = {},
         back \cap (HeldBufs' \cup InZc(zc')) = {},
         \A c \in Ctxs : held'[c] # Null => Owner[held'[c]] = c,
         Parts(zc')
  PROVE  OnePlace'
<1>1. \A c \in Ctxs : queue'[c] = queue[c] \ T
  BY DEF QueueWithout
<1>2. \A c, d \in Ctxs : c # d => queue[c] \cap queue[d] = {}
  BY DEF OnePlace
<1>3. \A c \in Ctxs : queue'[c] \cap (app' \cup HeldBufs' \cup InZc(zc')) = {}
  BY <1>1, <1>2 DEF OnePlace
<1>4. app' \cap (HeldBufs' \cup InZc(zc')) = {}
  BY DEF OnePlace
<1>5. \A c \in Ctxs : \A b \in queue'[c] : Owner[b] = c
  BY <1>1 DEF OnePlace
<1>6. app' \cup (UNION {queue'[c] : c \in Ctxs}) \cup HeldBufs' \cup InZc(zc') = Bufs
  <2>1. (UNION {queue'[c] : c \in Ctxs}) = (UNION {queue[c] : c \in Ctxs}) \ T
    BY <1>1
  <2>2. app \cup (UNION {queue[c] : c \in Ctxs}) \cup HeldBufs \cup InZc(zc) = Bufs
    BY DEF OnePlace
  <2> QED  BY <2>1, <2>2
<1> QED  BY <1>3, <1>4, <1>5, <1>6 DEF OnePlace, Parts

\* The buffers that are neither queued nor with the app.
Flight == HeldBufs \cup InZc(zc)

\* What every action keeps.
PlacesKept == OnePlace' /\ (InflightExact => InflightExact')

\* Nothing in flight moved and "inflight" did not either.
LEMMA FlightStays ==
  ASSUME UNCHANGED <<held, inflight>>, InZc(zc') = InZc(zc), InflightExact
  PROVE  InflightExact'
BY DEF InflightExact, HeldBufs, CountOf

\* ctx->inflight counts the buffers taken and the buffers given back.
LEMMA FlightCounted ==
  ASSUME TypeOK, TypeOK', InflightExact, NEW T, NEW back, Complete(back, T),
         T \subseteq Bufs, back \subseteq Bufs, T \cap Flight = {}, back \cap Flight' = {},
         Flight' \cup back = Flight \cup T
  PROVE  InflightExact'
<1> SUFFICES ASSUME NEW c \in Ctxs PROVE inflight'[c] = CountOf(Flight', c)
  BY DEF InflightExact, Flight, CountOf
<1> DEFINE Mine(S) == {b \in S : Owner[b] = c}
<1>1. Flight \subseteq Bufs /\ Flight' \subseteq Bufs
  BY HeldBufsType DEF Flight, TypeOK, ZcStates, InZc, HeldBufs, BufOrNull
<1>2. \A S, U \in SUBSET Bufs : S \cap U = {} =>
         Cardinality(Mine(S \cup U)) = Cardinality(Mine(S)) + Cardinality(Mine(U))
  <2> TAKE S, U \in SUBSET Bufs
  <2> HAVE S \cap U = {}
  <2>1. IsFiniteSet(Mine(S)) /\ IsFiniteSet(Mine(U))
    BY FiniteAssumption, FS_Subset
  <2>2. Mine(S \cup U) = Mine(S) \cup Mine(U) /\ Mine(S) \cap Mine(U) = {}
    OBVIOUS
  <2>3. Cardinality(Mine(S)) \in Nat /\ Cardinality(Mine(U)) \in Nat
    BY <2>1, FS_CardinalityType
  <2> HIDE DEF Mine
  <2>4. Cardinality(Mine(S) \cup Mine(U))
          = Cardinality(Mine(S)) + Cardinality(Mine(U)) - Cardinality(Mine(S) \cap Mine(U))
    BY <2>1, FS_Union
  <2>5. Cardinality(Mine(S) \cap Mine(U)) = 0
    BY <2>2, FS_EmptySet
  <2>6. Cardinality(Mine(S) \cup Mine(U)) = Cardinality(Mine(S)) + Cardinality(Mine(U))
    BY <2>3, <2>4, <2>5
  <2> QED  BY <2>2, <2>6
<1>3. \A S \in SUBSET Bufs : CountOf(S, c) = Cardinality(Mine(S)) /\ Cardinality(Mine(S)) \in Nat
  BY CountOfType DEF CountOf
<1>4. CountOf(Flight' \cup back, c) = CountOf(Flight', c) + CountOf(back, c)
  <2>1. Flight' \cap back = {} /\ Flight' \cup back \in SUBSET Bufs
    BY <1>1
  <2> HIDE DEF Mine
  <2> QED  BY <1>1, <1>2, <1>3, <2>1
<1>5. CountOf(Flight \cup T, c) = CountOf(Flight, c) + CountOf(T, c)
  <2>1. Flight \cap T = {} /\ Flight \cup T \in SUBSET Bufs
    BY <1>1
  <2> HIDE DEF Mine
  <2> QED  BY <1>1, <1>2, <1>3, <2>1
<1>6. inflight'[c] = inflight[c] + CountOf(T, c) - CountOf(back, c)
  BY DEF Complete
<1>7. inflight[c] = CountOf(Flight, c)
  BY DEF InflightExact, Flight
<1>8. CountOf(Flight, c) \in Nat /\ CountOf(Flight', c) \in Nat /\ CountOf(T, c) \in Nat
      /\ CountOf(back, c) \in Nat
  BY <1>1, CountOfType
<1>9. CountOf(Flight', c) + CountOf(back, c) = CountOf(Flight, c) + CountOf(T, c)
  BY <1>4, <1>5
<1> HIDE DEF Mine
<1> QED  BY <1>6, <1>7, <1>8, <1>9

\* Completing nothing.
LEMMA NothingCompleted ==
  ASSUME TypeOK, UNCHANGED <<app, inflight>>
  PROVE  Complete({}, {})
<1>1. \A c : CountOf({}, c) = 0
  <2>1. \A c : {b \in {} : Owner[b] = c} = {}
    OBVIOUS
  <2> QED  BY <2>1, FS_EmptySet DEF CountOf
<1>2. inflight \in [Ctxs -> Int]
  BY DEF TypeOK
<1> QED  BY <1>1, <1>2 DEF Complete

\* An action that takes the buffers T from the queues, completes "back" and
\* keeps the rest of them and of those in flight, each once.
LEMMA Moves ==
  ASSUME TypeOK, OnePlace, TypeOK', NEW T, NEW back,
         T \subseteq UNION {queue[c] : c \in Ctxs},
         queue' = QueueWithout(queue, T),
         Complete(back, T),
         HeldBufs' \cup InZc(zc') \cup back = HeldBufs \cup InZc(zc) \cup T,
         HeldBufs' \cap InZc(zc') = {},
         back \cap (HeldBufs' \cup InZc(zc')) = {},
         \A c \in Ctxs : held'[c] # Null => Owner[held'[c]] = c,
         Parts(zc')
  PROVE  PlacesKept
<1>1. app' = app \cup back
  BY DEF Complete
<1>2. OnePlace'
  BY <1>1, QueueMoves
<1>3. ASSUME InflightExact PROVE InflightExact'
  <2>1. T \subseteq Bufs /\ T \cap Flight = {}
    BY DEF OnePlace, Flight, TypeOK
  <2>2. Flight' \cup back = Flight \cup T /\ back \cap Flight' = {}
    BY DEF Flight
  <2>3. back \subseteq Bufs
    BY <2>1, <2>2, HeldBufsType DEF Flight, TypeOK, ZcStates, InZc, BufOrNull
  <2> QED  BY <1>3, <2>1, <2>2, <2>3, FlightCounted
<1> QED  BY <1>2, <1>3 DEF PlacesKept

\* hws_zc_stop() in any of its callers.
LEMMA TakeBackZcPlaces ==
  ASSUME TypeOK, OnePlace, TypeOK', NEW stopped \in BOOLEAN, NEW pics,
         TakeBackZc(stopped, pics), UNCHANGED <<queue, held>>
  PROVE  PlacesKept
<1> DEFINE back == ZcStopBack(zc, stopped)
<1>1. zc \in ZcStates
  BY DEF TypeOK
<1>2. back \subseteq InZc(zc) /\ InZc(zc') = InZc(zc) \ back /\ Parts(zc')
  BY <1>1, ZcStopPlaces DEF TakeBackZc
<1>3. Complete(back, {})
  BY DEF TakeBackZc
<1>4. HeldBufs' = HeldBufs
  BY DEF HeldBufs
<1>5. queue' = QueueWithout(queue, {})
  BY DEF QueueWithout, TypeOK
<1>6. HeldBufs \cap InZc(zc) = {} /\ \A c \in Ctxs : held'[c] # Null => Owner[held'[c]] = c
  BY DEF OnePlace
<1> HIDE DEF back
<1> QED  BY <1>2, <1>3, <1>4, <1>5, <1>6, Moves

\* hws_hold_buffers() moves queued buffers of handles that hold none.
LEMMA HoldPlaces ==
  ASSUME TypeOK, OnePlace, NEW q \in [Ctxs -> SUBSET Bufs], \A c \in Ctxs : q[c] \subseteq queue[c],
         NEW skip, NEW ahd, NEW t \in HoldChoices(q, skip, ahd)
  PROVE  /\ Image(t) \subseteq UNION {q[c] : c \in Ctxs}
         /\ {HeldAfter(t)[c] : c \in Ctxs} \ {Null} = HeldBufs \cup (Image(t) \ SmallBufs)
         /\ \A c \in Ctxs : HeldAfter(t)[c] # Null => Owner[HeldAfter(t)[c]] = c
<1>1. DOMAIN t \subseteq Ctxs /\ \A c \in DOMAIN t : t[c] \in q[c]
  BY HoldTypes
<1>2. \A c \in DOMAIN t : held[c] = Null
  BY DEF HoldChoices, Takers
<1>3. \A c \in DOMAIN t : t[c] \in Bufs /\ t[c] # Null /\ Owner[t[c]] = c
  BY <1>1, CaptureAssumption DEF OnePlace
<1>4. Image(t) \subseteq UNION {q[c] : c \in Ctxs}
  BY <1>1 DEF Image
<1>5. {HeldAfter(t)[c] : c \in Ctxs} \ {Null} = HeldBufs \cup (Image(t) \ SmallBufs)
  BY <1>1, <1>2, <1>3 DEF HeldAfter, HeldBufs, Image
<1>6. \A c \in Ctxs : HeldAfter(t)[c] # Null => Owner[HeldAfter(t)[c]] = c
  BY <1>3 DEF HeldAfter, OnePlace
<1> QED  BY <1>4, <1>5, <1>6

\* The blue frames of hws_deliver_no_video(), with the buffers hws_zc_stop() gave back.
LEMMA DeliverNoVideoPlaces ==
  ASSUME TypeOK, OnePlace, TypeOK', NEW out, NEW pics, DeliverNoVideo(out, pics),
         out \subseteq InZc(zc), InZc(zc') = InZc(zc) \ out, Parts(zc')
  PROVE  PlacesKept
<1> PICK t \in HoldChoices(queue, Null, ahead) :
      /\ queue' = QueueWithout(queue, Image(t))
      /\ held' = [c \in Ctxs |-> Null]
      /\ Complete(out \cup (Image(t) \cap SmallBufs) \cup (HeldBufs \cup (Image(t) \ SmallBufs)),
                  Image(t))
  BY DEF DeliverNoVideo
<1>1. Image(t) \subseteq UNION {queue[c] : c \in Ctxs}
  BY HoldPlaces DEF TypeOK
<1>2. HeldBufs' = {}
  BY DEF HeldBufs
<1>3. Image(t) \cap (HeldBufs \cup InZc(zc)) = {} /\ HeldBufs \cap InZc(zc) = {}
  BY <1>1 DEF OnePlace
<1> DEFINE back == out \cup (Image(t) \cap SmallBufs) \cup (HeldBufs \cup (Image(t) \ SmallBufs))
<1>4. Complete(back, Image(t))
  OBVIOUS
<1>5. HeldBufs' \cup InZc(zc') \cup back = HeldBufs \cup InZc(zc) \cup Image(t)
      /\ HeldBufs' \cap InZc(zc') = {} /\ back \cap (HeldBufs' \cup InZc(zc')) = {}
  BY <1>2, <1>3
<1>6. \A c \in Ctxs : held'[c] # Null => Owner[held'[c]] = c
  OBVIOUS
<1> HIDE DEF back
<1> QED  BY <1>1, <1>4, <1>5, <1>6, Moves


-----------------------------------------------------------------------------
(* The two sections of a half.                                             *)

\* The first section, with what it does to the set of zero-copy buffers.
LEMMA HalfBeginPlaces ==
  ASSUME TypeOK, OnePlace, HalfBegin
  PROVE  \E z \in ZcStates, b \in BufOrNull :
           /\ b \notin InZc(zc) => b = Null \/ b \in UNION {queue[c] : c \in Ctxs}
           /\ InZc(z) = InZc(zc) \cup ({b} \ {Null}) /\ Parts(z)
           /\ \/ /\ b \notin InZc(zc)
                 /\ \/ \E m : StaleTop(z, m, b)
                    \/ \E m, ts, hdcp : TopBegin(z, m, b, ts, hdcp)
              \/ /\ b \in InZc(zc) \cup {Null}
                 /\ \/ \E m, moved : EndWithoutFrame(z, m, moved)
                    \/ \E m, ts, hdcp : BottomBegin(z, m, ts, hdcp)
<1> DEFINE ev == Head(fifo)
           p == ev.pair
<1>1. p \in Pairs
  <2>1. fifo \in Seq(Events) /\ fifo # <<>>
    BY DEF HalfBegin, TypeOK
  <2>2. ev \in Events
    BY <2>1
  <2> QED  BY <2>2 DEF Events
<1> HIDE DEF ev
<1> PICK hdcp \in HdcpReads, inTime \in BOOLEAN, knob \in BOOLEAN,
         b \in (IF p = Top THEN UNION {Picks(h) : h \in HdcpReads} ELSE {zc.next}) :
      HalfWays(ev, hdcp, knob, b, Program(NextHalf(zc, p, b), p, b, inTime), MarkNext(p, b))
  BY DEF HalfBegin, InTimeWays, ev
<1> DEFINE z == Program(NextHalf(zc, p, b), p, b, inTime)
           m == MarkNext(p, b)
<1>2. zc \in ZcStates /\ Parts(zc)
  BY DEF TypeOK, OnePlace, Parts
<1>3. p = Top => b = Null \/ b \in UNION {queue[c] : c \in Ctxs}
  <2>1. \A h : \A x \in Picks(h) : x = Null \/ x \in UNION {queue[c] : c \in Ctxs}
    <3>1. \A c \in ZcFound : c \in Ctxs
      BY DEF ZcFound, ZcEligible, TypeOK
    <3> QED  BY <3>1 DEF Picks
  <2> QED  BY <2>1
<1>4. p # Top => b = zc.next
  OBVIOUS
<1>5. b \in BufOrNull
  BY <1>2, <1>3, <1>4 DEF TypeOK, ZcStates, BufOrNull
<1>6. p = Top => b \notin InZc(zc)
  BY <1>3 DEF OnePlace, InZc
<1>7. p # Top => b \in InZc(zc) \cup {Null}
  BY <1>4 DEF InZc
<1>8. z \in ZcStates /\ InZc(z) = InZc(zc) \cup ({b} \ {Null}) /\ Parts(z)
  <2> HIDE DEF p
  <2> QED  BY <1>1, <1>2, <1>4, <1>5, <1>6, HalfDoneFacts, NextHalfPlaces
<1>9. \/ p = Top /\ (StaleTop(z, m, b) \/ TopBegin(z, m, b, ev.ts, hdcp))
      \/ p = Bottom /\ \/ EndWithoutFrame(z, m, frame.done)
                       \/ BottomBegin(z, m, ev.ts, hdcp)
                       \/ EndWithoutFrame(z, SetMark(m, zc.cur, p), TRUE)
  BY DEF HalfWays
<1>10. p = Bottom => b \in InZc(zc) \cup {Null}
  BY <1>7 DEF Top, Bottom
<1>11. b \notin InZc(zc) => b = Null \/ b \in UNION {queue[c] : c \in Ctxs}
  BY <1>1, <1>3, <1>10 DEF Pairs, InZc
<1> HIDE DEF z, m, p
<1>12. CASE p = Top /\ (StaleTop(z, m, b) \/ TopBegin(z, m, b, ev.ts, hdcp))
  BY <1>5, <1>6, <1>8, <1>11, <1>12
<1>13. CASE p = Bottom /\ \/ EndWithoutFrame(z, m, frame.done)
                          \/ BottomBegin(z, m, ev.ts, hdcp)
                          \/ EndWithoutFrame(z, SetMark(m, zc.cur, p), TRUE)
  <2>1. \/ \E k, moved : EndWithoutFrame(z, k, moved)
        \/ \E k, ts, h : BottomBegin(z, k, ts, h)
    <3>1. CASE EndWithoutFrame(z, m, frame.done)
      BY <3>1
    <3>2. CASE BottomBegin(z, m, ev.ts, hdcp)
      BY <3>2
    <3>3. CASE EndWithoutFrame(z, SetMark(m, zc.cur, p), TRUE)
      BY <3>3
    <3> QED  BY <1>13, <3>1, <3>2, <3>3
  <2>2. b \in InZc(zc) \cup {Null}
    BY <1>10, <1>13
  <2> QED  BY <1>5, <1>8, <1>11, <2>1, <2>2
<1> QED  BY <1>9, <1>12, <1>13

\* A fresh top half: the buffers taken from the queues are held or go straight back, the one picked for zero-copy is in flight.
LEMMA TopBeginPlaces ==
  ASSUME TypeOK, OnePlace, TypeOK', NEW z \in ZcStates, NEW m, NEW b \in BufOrNull, NEW ts, NEW hdcp,
         b = Null \/ b \in UNION {queue[c] : c \in Ctxs}, b \notin InZc(zc),
         InZc(z) = InZc(zc) \cup ({b} \ {Null}), Parts(z), TopBegin(z, m, b, ts, hdcp)
  PROVE  PlacesKept
<1> DEFINE skip == IF zc.cur = Null THEN Null ELSE Owner[zc.cur]
           twice == HeldTwice(skip)
           q == QueueWithout(queue, {b})
           ahd == IF frame.done THEN NextSeq(ahead) ELSE ahead
<1> PICK t \in HoldChoices(q, skip, ahd) :
      /\ held' = [c \in Ctxs |-> IF held[c] \in twice THEN Null ELSE HeldAfter(t)[c]]
      /\ queue' = QueueWithout(q, Image(t))
      /\ zc' = z
      /\ Complete(twice \cup (Image(t) \cap SmallBufs), Image(t) \cup ({b} \ {Null}))
  BY DEF TopBegin
<1> DEFINE back == twice \cup (Image(t) \cap SmallBufs)
           T == Image(t) \cup ({b} \ {Null})
<1>1. q \in [Ctxs -> SUBSET Bufs] /\ \A c \in Ctxs : q[c] = queue[c] \ {b}
  BY DEF TypeOK, QueueWithout
<1>2. twice \subseteq HeldBufs /\ \A c \in Ctxs : held[c] \in twice => c = skip
  <2>1. skip # Null => skip \in Ctxs
    BY CaptureAssumption DEF TypeOK, ZcStates, BufOrNull
  <2> HIDE DEF skip
  <2> QED  BY <2>1 DEF HeldTwice, HeldBufs, OnePlace
<1>3. /\ Image(t) \subseteq UNION {q[c] : c \in Ctxs}
      /\ {HeldAfter(t)[c] : c \in Ctxs} \ {Null} = HeldBufs \cup (Image(t) \ SmallBufs)
      /\ \A c \in Ctxs : HeldAfter(t)[c] # Null => Owner[HeldAfter(t)[c]] = c
      /\ HeldAfter(t) \in [Ctxs -> BufOrNull]
  <2> HIDE DEF q, skip, ahd
  <2> QED  BY <1>1, HoldPlaces, HoldTypes
<1>4. \A c \in Ctxs : held[c] \in twice => HeldAfter(t)[c] = held[c]
  <2>1. \A c \in DOMAIN t : held[c] = Null
    BY DEF HoldChoices, Takers
  <2>2. Null \notin twice
    BY <1>2 DEF HeldBufs
  <2> HIDE DEF twice
  <2> QED  BY <2>1, <2>2 DEF HeldAfter
<1>5. Image(t) \subseteq UNION {queue[c] : c \in Ctxs} /\ b \notin Image(t)
  <2> HIDE DEF q
  <2>1. \A x \in Image(t) : \E c \in Ctxs : x \in q[c]
    BY <1>3
  <2>2. \A x \in Image(t) : x # b /\ \E c \in Ctxs : x \in queue[c]
    BY <1>1, <2>1
  <2> QED  BY <2>2
<1>6. T \subseteq UNION {queue[c] : c \in Ctxs}
  BY <1>5
<1>7. T \cap (HeldBufs \cup InZc(zc)) = {} /\ HeldBufs \cap InZc(zc) = {}
  BY <1>6 DEF OnePlace
<1>8. queue' = QueueWithout(queue, T)
  <2>1. Null \notin UNION {queue[c] : c \in Ctxs}
    BY CaptureAssumption DEF TypeOK
  <2>2. \A c \in Ctxs : (queue[c] \ {b}) \ Image(t) = queue[c] \ T
    BY <2>1
  <2>3. queue' = [c \in Ctxs |-> (queue[c] \ {b}) \ Image(t)]
    BY <1>1 DEF QueueWithout
  <2> QED  BY <2>2, <2>3 DEF QueueWithout
<1>9. HeldBufs' = (HeldBufs \ twice) \cup (Image(t) \ SmallBufs)
  <2>1. HeldBufs' = {IF held[c] \in twice THEN Null ELSE HeldAfter(t)[c] : c \in Ctxs} \ {Null}
    BY DEF HeldBufs
  <2>2. Image(t) \cap HeldBufs = {}
    BY <1>7
  <2>3. \A x \in HeldBufs \ twice : \E c \in Ctxs : held[c] \notin twice /\ HeldAfter(t)[c] = x
    <3> TAKE x \in HeldBufs \ twice
    <3>1. PICK c \in Ctxs : HeldAfter(t)[c] = x
      BY <1>3
    <3>2. held[c] \notin twice
      BY <1>4, <3>1
    <3> QED  BY <3>1, <3>2
  <2>4. \A x \in Image(t) \ SmallBufs :
           \E c \in Ctxs : held[c] \notin twice /\ HeldAfter(t)[c] = x
    <3> TAKE x \in Image(t) \ SmallBufs
    <3>1. PICK c \in Ctxs : HeldAfter(t)[c] = x
      BY <1>3
    <3>2. held[c] \notin twice
      BY <1>2, <1>4, <2>2, <3>1
    <3> QED  BY <3>1, <3>2
  <2>5. \A x \in Image(t) : x # Null
    BY <1>5, CaptureAssumption DEF TypeOK
  <2>6. \A c \in Ctxs : held[c] \notin twice /\ HeldAfter(t)[c] # Null
           => HeldAfter(t)[c] \in (HeldBufs \ twice) \cup (Image(t) \ SmallBufs)
    <3> TAKE c \in Ctxs
    <3> HAVE held[c] \notin twice /\ HeldAfter(t)[c] # Null
    <3>1. HeldAfter(t)[c] \in HeldBufs \cup (Image(t) \ SmallBufs)
      BY <1>3
    <3>2. HeldAfter(t)[c] \notin twice
      <4>1. SUFFICES ASSUME HeldAfter(t)[c] \in twice PROVE FALSE
        OBVIOUS
      <4>2. Owner[HeldAfter(t)[c]] = c
        BY <1>3
      <4>3. PICK e \in Ctxs : held[e] = HeldAfter(t)[c]
        BY <1>2, <4>1 DEF HeldBufs
      <4>4. e = c
        BY <4>2, <4>3 DEF OnePlace
      <4> QED  BY <4>1, <4>3, <4>4
    <3> QED  BY <3>1, <3>2
  <2> HIDE DEF twice
  <2> QED  BY <2>1, <2>3, <2>4, <2>5, <2>6 DEF HeldBufs
<1>10. /\ HeldBufs' \cup InZc(zc') \cup back = HeldBufs \cup InZc(zc) \cup T
       /\ HeldBufs' \cap InZc(zc') = {} /\ back \cap (HeldBufs' \cup InZc(zc')) = {}
  <2>1. zc' = z /\ b \notin Image(t)
    BY <1>5
  <2>2. twice \cap Image(t) = {} /\ b \notin HeldBufs
    BY <1>2, <1>7 DEF HeldBufs
  <2> HIDE DEF twice
  <2> QED  BY <1>2, <1>7, <1>9, <2>1, <2>2
<1>11. Complete(back, T) /\ Parts(zc')
  OBVIOUS
<1>12. \A c \in Ctxs : held'[c] # Null => Owner[held'[c]] = c
  BY <1>3
<1> HIDE DEF back, T, twice, q, skip, ahd
<1> QED  BY <1>6, <1>8, <1>10, <1>11, <1>12, Moves

\* The start of hws_video_half() keeps every buffer in one place.
LEMMA HalfBeginOnePlace ==
  ASSUME TypeOK, OnePlace, TypeOK', HalfBegin
  PROVE  PlacesKept
<1> PICK z \in ZcStates, b \in BufOrNull :
           /\ b \notin InZc(zc) => b = Null \/ b \in UNION {queue[c] : c \in Ctxs}
           /\ InZc(z) = InZc(zc) \cup ({b} \ {Null}) /\ Parts(z)
           /\ \/ /\ b \notin InZc(zc)
                 /\ \/ \E m : StaleTop(z, m, b)
                    \/ \E m, ts, hdcp : TopBegin(z, m, b, ts, hdcp)
              \/ /\ b \in InZc(zc) \cup {Null}
                 /\ \/ \E m, moved : EndWithoutFrame(z, m, moved)
                    \/ \E m, ts, hdcp : BottomBegin(z, m, ts, hdcp)
  BY HalfBeginPlaces
<1>1. HeldBufs \cap InZc(zc) = {} /\ \A c \in Ctxs : held[c] # Null => Owner[held[c]] = c
  BY DEF OnePlace
<1>2. queue = QueueWithout(queue, {})
  BY DEF QueueWithout, TypeOK
<1>3. UNCHANGED held => HeldBufs' = HeldBufs
  BY DEF HeldBufs
<1>4. CASE b \notin InZc(zc) /\ \E m : StaleTop(z, m, b)
  <2> DEFINE T == {b} \ {Null}
  <2>1. queue' = QueueWithout(queue, {b}) /\ zc' = z /\ Complete({}, T) /\ UNCHANGED held
    BY <1>4 DEF StaleTop
  <2>2. T \subseteq UNION {queue[c] : c \in Ctxs}
    BY <1>4
  <2>3. Null \notin UNION {queue[c] : c \in Ctxs}
    BY CaptureAssumption DEF TypeOK
  <2>4. QueueWithout(queue, {b}) = QueueWithout(queue, T)
    <3>1. \A c \in Ctxs : queue[c] \ {b} = queue[c] \ T
      BY <2>3
    <3> QED  BY <3>1 DEF QueueWithout
  <2>5. T \cap HeldBufs = {}
    BY <2>2 DEF OnePlace
  <2> HIDE DEF T
  <2>6. InZc(z) = InZc(zc) \cup T
    BY DEF T
  <2>7. HeldBufs' \cup InZc(zc') \cup {} = HeldBufs \cup InZc(zc) \cup T
        /\ HeldBufs' \cap InZc(zc') = {} /\ {} \cap (HeldBufs' \cup InZc(zc')) = {}
    BY <1>1, <1>3, <2>1, <2>5, <2>6
  <2>8. \A c \in Ctxs : held'[c] # Null => Owner[held'[c]] = c
    BY <1>1, <2>1
  <2> QED  BY <2>1, <2>2, <2>4, <2>7, <2>8, Moves
<1>5. CASE b \notin InZc(zc) /\ \E m, ts, hdcp : TopBegin(z, m, b, ts, hdcp)
  BY <1>5, TopBeginPlaces
<1>6. CASE b \in InZc(zc) \cup {Null} /\ \E m, moved : EndWithoutFrame(z, m, moved)
  <2> DEFINE back == Releasable(Advance(z))
  <2>1. Complete(back, {}) /\ zc' = Release(Advance(z)) /\ UNCHANGED <<held, queue>>
    BY <1>6 DEF EndWithoutFrame
  <2>2. back \subseteq InZc(z) /\ InZc(zc') = InZc(z) \ back /\ Parts(zc')
    BY <2>1, FrameEndPlaces
  <2>3. InZc(z) = InZc(zc)
    BY <1>6
  <2> HIDE DEF back
  <2>4. HeldBufs' \cup InZc(zc') \cup back = HeldBufs \cup InZc(zc) \cup {}
        /\ HeldBufs' \cap InZc(zc') = {} /\ back \cap (HeldBufs' \cup InZc(zc')) = {}
    BY <1>1, <1>3, <2>1, <2>2, <2>3
  <2> QED  BY <1>1, <1>2, <2>1, <2>2, <2>4, Moves
<1>7. CASE b \in InZc(zc) \cup {Null} /\ \E m, ts, hdcp : BottomBegin(z, m, ts, hdcp)
  <2>1. Complete({}, {}) /\ zc' = z /\ UNCHANGED <<held, queue>>
    BY <1>7, NothingCompleted DEF BottomBegin
  <2>2. InZc(z) = InZc(zc)
    BY <1>7
  <2>3. HeldBufs' \cup InZc(zc') \cup {} = HeldBufs \cup InZc(zc) \cup {}
        /\ HeldBufs' \cap InZc(zc') = {} /\ {} \cap (HeldBufs' \cup InZc(zc')) = {}
    BY <1>1, <1>3, <2>1, <2>2
  <2> QED  BY <1>1, <1>2, <2>1, <2>3, Moves
<1> QED  BY <1>4, <1>5, <1>6, <1>7

\* The end of a frame keeps every buffer in one place.
LEMMA BottomEndPlaces ==
  ASSUME TypeOK, OnePlace, TypeOK', BottomEnd
  PROVE  PlacesKept
<1>1. PICK stable : LET ended == Advance([zc EXCEPT !.stable = stable]) IN
        /\ stable \in Stables
        /\ zc' = Release(ended)
        /\ Complete(HeldBufs \cup Releasable(ended), {})
  <2>1. zc \in ZcStates
    BY DEF TypeOK
  <2>2. zc.stable \in Stables /\ Min2(zc.stable + 1, 2) \in Stables
    BY <2>1 DEF ZcStates, Stables, Min2
  <2> DEFINE black == frame.hdcp \/ thr.hdcp
             late == CopyLate /\ ~black /\ (Direct \/ HeldBufs # {})
             good(r) == r /\ ~frame.late /\ ~late
             ended(r) == Advance([zc EXCEPT !.stable = IF good(r) THEN Min2(@ + 1, 2) ELSE @])
  <2>3. PICK r : zc' = Release(ended(r)) /\ Complete(HeldBufs \cup Releasable(ended(r)), {})
    BY DEF BottomEnd
  <2> DEFINE stable == IF good(r) THEN Min2(zc.stable + 1, 2) ELSE zc.stable
  <2>4. [zc EXCEPT !.stable = IF good(r) THEN Min2(@ + 1, 2) ELSE @] = [zc EXCEPT !.stable = stable]
    BY <2>1 DEF ZcStates
  <2>5. stable \in Stables
    BY <2>2
  <2> HIDE DEF good, stable
  <2> QED  BY <2>3, <2>4, <2>5
<1> DEFINE rated == [zc EXCEPT !.stable = stable]
           out == Releasable(Advance(rated))
           back == HeldBufs \cup out
<1>2. zc \in ZcStates /\ Parts(zc)
  BY DEF TypeOK, OnePlace, Parts
<1>3. rated \in ZcStates /\ InZc(rated) = InZc(zc) /\ Parts(rated)
  BY <1>1, <1>2 DEF ZcStates, InZc, Parts
<1>4. zc' = Release(Advance(rated)) /\ Complete(back, {})
  BY <1>1
<1> HIDE DEF rated
<1>5. out \subseteq InZc(zc) /\ InZc(zc') = InZc(zc) \ out /\ Parts(zc')
  BY <1>3, <1>4, FrameEndPlaces
<1>6. HeldBufs \cap InZc(zc) = {}
  BY DEF OnePlace
<1>7. held' = [c \in Ctxs |-> Null] /\ queue' = queue
  BY DEF BottomEnd
<1>8. HeldBufs' = {} /\ queue' = QueueWithout(queue, {})
  BY <1>7 DEF HeldBufs, QueueWithout, TypeOK
<1> HIDE DEF out
<1>9. HeldBufs' \cup InZc(zc') \cup back = HeldBufs \cup InZc(zc) \cup {}
      /\ HeldBufs' \cap InZc(zc') = {} /\ back \cap (HeldBufs' \cup InZc(zc')) = {}
  BY <1>5, <1>6, <1>8
<1> HIDE DEF back
<1> QED  BY <1>4, <1>5, <1>7, <1>8, <1>9, Moves


-----------------------------------------------------------------------------
(* The other actions and the theorem.                                      *)

\* QBUF: from the app to the queue of the buffer's handle.
LEMMA QBufPlaces ==
  ASSUME TypeOK, OnePlace, NEW b \in Bufs, QBuf(b)
  PROVE  PlacesKept
<1>1. b \in app /\ app' = app \ {b} /\ UNCHANGED <<held, zc, inflight>>
      /\ queue' = [queue EXCEPT ![Owner[b]] = @ \cup {b}]
  BY DEF QBuf
<1>2. HeldBufs' = HeldBufs
  BY <1>1 DEF HeldBufs
<1>3. \A c \in Ctxs : queue'[c] = IF c = Owner[b] THEN queue[c] \cup {b} ELSE queue[c]
  BY <1>1 DEF TypeOK
<1>4. Owner[b] \in Ctxs
  BY CaptureAssumption
<1>5. (UNION {queue'[c] : c \in Ctxs}) = (UNION {queue[c] : c \in Ctxs}) \cup {b}
  <2>0. \A c \in Ctxs : \A x \in queue'[c] : x = b \/ x \in queue[c]
    BY <1>3
  <2>1. \A x \in UNION {queue'[c] : c \in Ctxs} : x = b \/ \E c \in Ctxs : x \in queue[c]
    BY <2>0
  <2>2. \A x \in UNION {queue[c] : c \in Ctxs} : \E c \in Ctxs : x \in queue'[c]
    BY <1>3
  <2>3. b \in queue'[Owner[b]]
    BY <1>3, <1>4
  <2> QED  BY <1>4, <2>1, <2>2, <2>3
<1>6. \A c \in Ctxs : queue'[c] \cap (app' \cup HeldBufs' \cup InZc(zc')) = {}
  BY <1>1, <1>2, <1>3 DEF OnePlace
<1>7. app' \cup (UNION {queue'[c] : c \in Ctxs}) \cup HeldBufs' \cup InZc(zc') = Bufs
  <2>1. app \cup (UNION {queue[c] : c \in Ctxs}) \cup HeldBufs \cup InZc(zc) = Bufs
    BY DEF OnePlace
  <2> QED  BY <1>1, <1>2, <1>5, <2>1
<1>8. \A c \in Ctxs : \A x \in queue'[c] : Owner[x] = c
  <2>1. \A c \in Ctxs : \A x \in queue'[c] : (c = Owner[b] /\ x = b) \/ x \in queue[c]
    BY <1>3
  <2>2. \A c \in Ctxs : \A x \in queue[c] : Owner[x] = c
    BY DEF OnePlace
  <2> QED  BY <2>1, <2>2
<1>9. app' \cap (HeldBufs' \cup InZc(zc')) = {} /\ HeldBufs' \cap InZc(zc') = {}
  BY <1>1, <1>2 DEF OnePlace
<1>10. OnePlace'
  BY <1>1, <1>6, <1>7, <1>8, <1>9 DEF OnePlace
<1> QED  BY <1>1, <1>10, FlightStays DEF PlacesKept

\* STREAMOFF: the handle's queue goes to the app.
LEMMA StreamOffPlaces ==
  ASSUME TypeOK, OnePlace, TypeOK', NEW c \in Ctxs, StreamOff(c)
  PROVE  PlacesKept
<1>1. queue' = [queue EXCEPT ![c] = {}] /\ app' = app \cup queue[c] /\ UNCHANGED <<held, zc, inflight>>
  BY DEF StreamOff
<1>2. HeldBufs' = HeldBufs
  BY <1>1 DEF HeldBufs
<1>3. queue' = QueueWithout(queue, queue[c])
  <2>1. \A d \in Ctxs : queue[d] \ queue[c] = IF d = c THEN {} ELSE queue[d]
    BY DEF OnePlace
  <2> QED  BY <1>1, <2>1 DEF QueueWithout, TypeOK
<1>4. queue[c] \subseteq UNION {queue[d] : d \in Ctxs}
  OBVIOUS
<1>5. queue[c] \cap (HeldBufs \cup InZc(zc)) = {} /\ HeldBufs \cap InZc(zc) = {}
      /\ Parts(zc) /\ \A d \in Ctxs : held[d] # Null => Owner[held[d]] = d
  BY DEF OnePlace, Parts
<1>6. HeldBufs' \cup InZc(zc') \cup queue[c] = HeldBufs \cup InZc(zc) \cup queue[c]
      /\ HeldBufs' \cap InZc(zc') = {} /\ queue[c] \cap (HeldBufs' \cup InZc(zc')) = {}
  BY <1>1, <1>2, <1>5
<1>7. Parts(zc') /\ \A d \in Ctxs : held'[d] # Null => Owner[held'[d]] = d
  BY <1>1, <1>5
<1>8. OnePlace'
  BY <1>1, <1>3, <1>4, <1>6, <1>7, QueueMoves
<1> QED  BY <1>1, <1>8, FlightStays DEF PlacesKept

\* STREAMOFF: the buffer being filled goes back, and the zero-copy buffers if
\* the handle is the zero-copy consumer.
LEMMA StopTakeBackPlaces ==
  ASSUME TypeOK, OnePlace, TypeOK', NEW c \in Ctxs, StopTakeBack(c)
  PROVE  PlacesKept
<1> DEFINE mine == zc.ctx = c
           out == IF mine THEN ZcStopBack(zc, FALSE) ELSE {}
           back == ({held[c]} \ {Null}) \cup out
<1>1. zc \in ZcStates
  BY DEF TypeOK
<1>2. Complete(back, {}) /\ held' = [held EXCEPT ![c] = Null] /\ UNCHANGED queue
      /\ zc' = (IF mine THEN ZcStop(zc, FALSE) ELSE zc)
  BY DEF StopTakeBack
<1>3. out \subseteq InZc(zc) /\ InZc(zc') = InZc(zc) \ out /\ Parts(zc')
  <2>1. CASE mine
    BY <1>1, <1>2, <2>1, ZcStopPlaces
  <2>2. CASE ~mine
    BY <1>2, <2>2 DEF OnePlace, Parts
  <2> QED  BY <2>1, <2>2
<1> HIDE DEF out, mine
<1>4. \A d \in Ctxs : held'[d] = IF d = c THEN Null ELSE held[d]
  BY <1>2 DEF TypeOK
<1>5. \A d \in Ctxs : held[d] # Null => Owner[held[d]] = d
  BY DEF OnePlace
<1>6. HeldBufs' = HeldBufs \ {held[c]}
  BY <1>4, <1>5 DEF HeldBufs
<1>7. HeldBufs \cap InZc(zc) = {} /\ ({held[c]} \ {Null}) \subseteq HeldBufs
  BY DEF OnePlace, HeldBufs
<1>8. queue' = QueueWithout(queue, {})
  BY <1>2 DEF QueueWithout, TypeOK
<1>9. HeldBufs' \cup InZc(zc') \cup back = HeldBufs \cup InZc(zc) \cup {}
      /\ HeldBufs' \cap InZc(zc') = {} /\ back \cap (HeldBufs' \cup InZc(zc')) = {}
  <2>1. Null \notin HeldBufs
    BY DEF HeldBufs
  <2> QED  BY <1>3, <1>6, <1>7, <2>1
<1>10. \A d \in Ctxs : held'[d] # Null => Owner[held'[d]] = d
  BY <1>4, <1>5
<1> HIDE DEF back
<1> QED  BY <1>2, <1>3, <1>8, <1>9, <1>10, Moves

\* An action that moves no buffer.
LEMMA StaysPlaces ==
  ASSUME OnePlace, UNCHANGED <<queue, app, held, zc, inflight>>
  PROVE  PlacesKept
<1>1. OnePlace'
  BY DEF OnePlace, HeldBufs
<1> QED  BY <1>1, FlightStays DEF PlacesKept

\* OnePlace is inductive with TypeOK: one step per action of Next.
LEMMA NextPlaces == TypeOK /\ OnePlace /\ [Next]_vars => PlacesKept
<1> SUFFICES ASSUME TypeOK, OnePlace, TypeOK', [Next]_vars PROVE PlacesKept
  BY NextType
<1>0. zc \in ZcStates /\ started \in BOOLEAN
  BY DEF TypeOK
<1>1. CASE CardHalfDone \/ CardLoses \/ IrqHandler \/ IrqAcknowledge
  BY <1>1, StaysPlaces DEF CardHalfDone, CardLoses, IrqHandler, IrqAcknowledge
<1>2. CASE ThreadSkips \/ TopEnd
  BY <1>2, StaysPlaces DEF ThreadSkips, TopEnd
<1>3. CASE HalfBegin \/ BottomEnd
  BY <1>3, HalfBeginOnePlace, BottomEndPlaces
<1>4. CASE StatusFindsLoss \/ StatusFindsCapture \/ PollSame
  BY <1>4, StaysPlaces DEF StatusFindsLoss, StatusFindsCapture, PollSame
<1>5. CASE PollResize
  BY <1>0, <1>5, TakeBackZcPlaces DEF PollResize
<1>6. CASE Reinit
  BY <1>0, <1>6, TakeBackZcPlaces DEF Reinit
<1>7. CASE PollNoVideo
  <2>1. CASE started
    <3>1. DeliverNoVideo({}, pic) /\ zc' = zc
      BY <1>7, <2>1 DEF PollNoVideo
    <3>2. {} \subseteq InZc(zc) /\ InZc(zc') = InZc(zc) \ {} /\ Parts(zc')
      BY <3>1 DEF OnePlace, Parts
    <3> QED  BY <3>1, <3>2, DeliverNoVideoPlaces
  <2>2. CASE ~started
    BY <1>7, <2>2, StaysPlaces DEF PollNoVideo
  <2> QED  BY <2>1, <2>2
<1>8. CASE PollBadSize
  <2>1. CASE started
    <3>1. DeliverNoVideo(ZcStopBack(zc, TRUE), RestartPics) /\ zc' = ZcStop(zc, TRUE)
      BY <1>8, <2>1 DEF PollBadSize
    <3> DEFINE out == ZcStopBack(zc, TRUE)
    <3>2. out \subseteq InZc(zc) /\ InZc(zc') = InZc(zc) \ out /\ Parts(zc')
      BY <1>0, <3>1, ZcStopPlaces
    <3>3. DeliverNoVideo(out, RestartPics)
      BY <3>1
    <3> HIDE DEF out
    <3> QED  BY <3>2, <3>3, DeliverNoVideoPlaces
  <2>2. CASE ~started
    BY <1>8, <2>2, TakeBackZcPlaces DEF PollBadSize
  <2> QED  BY <2>1, <2>2
<1>9. ASSUME NEW b \in Bufs, QBuf(b) PROVE PlacesKept
  BY <1>9, QBufPlaces
<1>10. ASSUME NEW c \in Ctxs, StreamOn(c) \/ JoinEngine(c) PROVE PlacesKept
  BY <1>10, StaysPlaces DEF StreamOn, JoinEngine
<1>11. ASSUME NEW c \in Ctxs, StartEngine(c) PROVE PlacesKept
  BY <1>11, TakeBackZcPlaces DEF StartEngine
<1>12. ASSUME NEW c \in Ctxs, StreamOff(c) PROVE PlacesKept
  BY <1>12, StreamOffPlaces
<1>13. ASSUME NEW c \in Ctxs, StopSteps(c) PROVE PlacesKept
  <2>1. CASE StopTakeBack(c)
    BY <2>1, StopTakeBackPlaces
  <2>2. CASE StopWaited(c) \/ StopTimesOut(c) \/ StopTimeout(c) \/ StopEngine(c)
    BY <2>2, StaysPlaces DEF StopWaited, StopTimesOut, StopTimeout, StopEngine
  <2>3. CASE StopForce(c)
    <3>1. TakeBackZc(TRUE, IF OtherUsers THEN StartFrame ELSE pic)
          /\ UNCHANGED <<queue, held>>
      BY <2>3 DEF StopForce
    <3> QED  BY <3>1, TakeBackZcPlaces
  <2> QED  BY <1>13, <2>1, <2>2, <2>3 DEF StopSteps
<1>14. CASE Suspend
  BY <1>14, TakeBackZcPlaces DEF Suspend
<1>15. CASE Resume
  BY <1>15, StaysPlaces DEF Resume
<1>16. CASE UNCHANGED vars
  BY <1>16, StaysPlaces DEF vars
<1> QED  BY <1>1, <1>2, <1>3, <1>4, <1>5, <1>6, <1>7, <1>8, <1>9, <1>10, <1>11, <1>12, <1>13,
            <1>14, <1>15, <1>16 DEF Next, Thread, HalfEnd, Status

\* At the start every buffer is with the app.
LEMMA InitPlaces == Init => OnePlace
<1> SUFFICES ASSUME Init PROVE OnePlace
  OBVIOUS
<1>1. HeldBufs = {} /\ InZc(zc) = {} /\ app = Bufs
  BY DEF Init, HeldBufs, InZc
<1>2. \A c \in Ctxs : queue[c] = {} /\ held[c] = Null
  BY DEF Init
<1>3. zc.cur = Null /\ zc.next = Null /\ zc.rel = {}
  BY DEF Init
<1> QED  BY <1>1, <1>2, <1>3 DEF OnePlace

\* A buffer is in exactly one place and none is ever lost, for any number of
\* handles and buffers: with the app, on its handle's queue, held for the frame
\* being copied, or once in the zero-copy state.
THEOREM OnePlaceAlways == Spec => []OnePlace
<1>1. TypeOK /\ OnePlace /\ [Next]_vars => OnePlace'
  BY NextPlaces DEF PlacesKept
<1> QED  BY <1>1, InitType, NextType, InitPlaces, PTL DEF Spec

\* At the start nothing is in flight.
LEMMA InitInflight == Init => InflightExact
<1> SUFFICES ASSUME Init PROVE InflightExact
  OBVIOUS
<1>1. HeldBufs \cup InZc(zc) = {}
  BY DEF Init, HeldBufs, InZc
<1>2. \A c : {b \in {} : Owner[b] = c} = {}
  OBVIOUS
<1>3. \A c \in Ctxs : CountOf(HeldBufs \cup InZc(zc), c) = 0 /\ inflight[c] = 0
  BY <1>1, <1>2, FS_EmptySet DEF CountOf, Init
<1> QED  BY <1>3 DEF InflightExact

\* ctx->inflight counts exactly the buffers of the handle that are held or in
\* the zero-copy state: STREAMOFF, which waits for 0, waits for all of them and
\* for nothing else.
THEOREM InflightCounts == Spec => []InflightExact
<1>1. TypeOK /\ OnePlace /\ [Next]_vars => OnePlace'
  BY NextPlaces DEF PlacesKept
<1>2. TypeOK /\ OnePlace /\ InflightExact /\ [Next]_vars => InflightExact'
  BY NextPlaces DEF PlacesKept
<1> QED  BY <1>1, <1>2, InitType, NextType, InitPlaces, InitInflight, PTL DEF Spec

=============================================================================
