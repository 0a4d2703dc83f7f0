------------------------ MODULE VideoOwnership_proofs ------------------------
(***************************************************************************)
(* That stop_streaming returns every buffer, that VideoCapture implements  *)
(* BufferOwnership, and that the engine follows its users, for any number  *)
(* of handles and buffers.                                                 *)
(***************************************************************************)
EXTENDS VideoPlaces_proofs

-----------------------------------------------------------------------------
(* What a step does to the queues and to the app's buffers.                *)

\* Nothing is queued and the app keeps its buffers; only the queues of handles
\* that stream get shorter.
Served ==
  /\ app \subseteq app'
  /\ \A c \in Ctxs : queue'[c] \subseteq queue[c]
  /\ \A c \in Ctxs : c \notin streaming => queue'[c] = queue[c]

\* T holds queued buffers of streaming handles only.
OfStreamers(T) == \A x \in T : \A c \in Ctxs : x \in queue[c] => c \in streaming

\* Buffers taken for a frame come from queues of streaming handles.
LEMMA TakenServed ==
  ASSUME TypeOK, NEW T, OfStreamers(T), queue' = QueueWithout(queue, T), NEW back, app' = app \cup back
  PROVE  Served
<1>1. \A c \in Ctxs : queue'[c] = queue[c] \ T
  BY DEF QueueWithout
<1> QED  BY <1>1 DEF Served, OfStreamers

\* A step that leaves the queues alone serves, whatever it gives back.
LEMMA StaysServed ==
  ASSUME TypeOK, UNCHANGED queue, NEW back, app' = app \cup back
  PROVE  Served
BY DEF Served

\* hws_hold_buffers() takes from handles that stream.
LEMMA HoldServed ==
  ASSUME TypeOK, OnePlace, NEW q \in [Ctxs -> SUBSET Bufs], \A c \in Ctxs : q[c] \subseteq queue[c],
         NEW skip, NEW ahd, NEW t \in HoldChoices(q, skip, ahd)
  PROVE  OfStreamers(Image(t))
<1>1. \A c \in DOMAIN t : c \in streaming /\ c \in Ctxs /\ t[c] \in queue[c]
  BY DEF HoldChoices, Takers, TypeOK
<1>2. \A c, d \in Ctxs : \A x \in queue[c] : x \in queue[d] => c = d
  BY DEF OnePlace
<1> QED  BY <1>1, <1>2 DEF Image, OfStreamers

\* hws_zc_pick() takes from handles that stream.
LEMMA PicksServed ==
  ASSUME TypeOK, OnePlace, NEW h, NEW b \in Picks(h)
  PROVE  OfStreamers({b} \ {Null})
<1>1. \A c \in ZcFound : c \in streaming /\ c \in Ctxs
  BY DEF ZcFound, ZcEligible, TypeOK
<1>2. b = Null \/ \E c \in ZcFound : b \in queue[c]
  BY DEF Picks
<1>3. \A c, d \in Ctxs : \A x \in queue[c] : x \in queue[d] => c = d
  BY DEF OnePlace
<1> QED  BY <1>1, <1>2, <1>3 DEF OfStreamers

\* The start of hws_video_half().
LEMMA HalfBeginServed ==
  ASSUME TypeOK, OnePlace, HalfBegin
  PROVE  Served
<1> DEFINE ev == Head(fifo)
           p == ev.pair
<1> PICK hdcp \in HdcpReads, inTime \in BOOLEAN, knob \in BOOLEAN,
         b \in (IF p = Top THEN UNION {Picks(h) : h \in HdcpReads} ELSE {zc.next}) :
      HalfWays(ev, hdcp, knob, b, Program(NextHalf(zc, p, b), p, b, inTime), MarkNext(p, b))
  BY DEF HalfBegin, InTimeWays
<1> DEFINE z == Program(NextHalf(zc, p, b), p, b, inTime)
           m == MarkNext(p, b)
<1>1. \/ p = Top /\ (StaleTop(z, m, b) \/ TopBegin(z, m, b, ev.ts, hdcp))
      \/ EndWithoutFrame(z, m, frame.done)
      \/ BottomBegin(z, m, ev.ts, hdcp)
      \/ EndWithoutFrame(z, SetMark(m, zc.cur, p), TRUE)
  BY DEF HalfWays
<1>2. p = Top => OfStreamers({b} \ {Null})
  BY PicksServed
<1>3. Null \notin UNION {queue[c] : c \in Ctxs}
  BY CaptureAssumption DEF TypeOK
<1>4. \A T : \A c \in Ctxs : (queue[c] \ {b}) \ T = queue[c] \ (T \cup ({b} \ {Null}))
  BY <1>3
<1> HIDE DEF z, m, p, ev
<1>5. CASE p = Top /\ StaleTop(z, m, b)
  <2>1. queue' = QueueWithout(queue, {b}) /\ app' = app \cup {}
    BY <1>5 DEF StaleTop, Complete
  <2>2. queue' = QueueWithout(queue, {b} \ {Null})
    <3>1. \A c \in Ctxs : queue[c] \ {b} = queue[c] \ ({b} \ {Null})
      BY <1>3
    <3> QED  BY <2>1, <3>1 DEF QueueWithout
  <2> QED  BY <1>2, <1>5, <2>1, <2>2, TakenServed
<1>6. CASE p = Top /\ TopBegin(z, m, b, ev.ts, hdcp)
  <2> DEFINE skip == IF zc.cur = Null THEN Null ELSE Owner[zc.cur]
             q == QueueWithout(queue, {b})
             ahd == IF frame.done THEN NextSeq(ahead) ELSE ahead
  <2>1. PICK t \in HoldChoices(q, skip, ahd) :
          /\ queue' = QueueWithout(q, Image(t))
          /\ \E back : app' = app \cup back
    BY <1>6 DEF TopBegin, Complete
  <2>2. q \in [Ctxs -> SUBSET Bufs] /\ \A c \in Ctxs : q[c] = queue[c] \ {b}
    BY DEF TypeOK, QueueWithout
  <2> HIDE DEF q, skip, ahd
  <2>3. OfStreamers(Image(t))
    BY <2>2, HoldServed
  <2> DEFINE T == Image(t) \cup ({b} \ {Null})
  <2>4. OfStreamers(T)
    BY <1>2, <1>6, <2>3 DEF OfStreamers
  <2>5. queue' = QueueWithout(queue, T)
    <3>1. queue' = [c \in Ctxs |-> (queue[c] \ {b}) \ Image(t)]
      BY <2>1, <2>2 DEF QueueWithout
    <3> QED  BY <1>4, <3>1 DEF QueueWithout
  <2> HIDE DEF T
  <2> QED  BY <2>1, <2>4, <2>5, TakenServed
<1>7. CASE \E k, moved : EndWithoutFrame(z, k, moved)
  BY <1>7, StaysServed DEF EndWithoutFrame, Complete
<1>8. CASE BottomBegin(z, m, ev.ts, hdcp)
  BY <1>8, StaysServed DEF BottomBegin
<1> QED  BY <1>1, <1>5, <1>6, <1>7, <1>8

\* The blue frames of hws_deliver_no_video().
LEMMA DeliverNoVideoServed ==
  ASSUME TypeOK, OnePlace, NEW out, NEW pics, DeliverNoVideo(out, pics)
  PROVE  Served
<1> PICK t \in HoldChoices(queue, Null, ahead) :
      queue' = QueueWithout(queue, Image(t)) /\ \E back : app' = app \cup back
  BY DEF DeliverNoVideo, Complete
<1>1. OfStreamers(Image(t))
  BY HoldServed DEF TypeOK
<1> QED  BY <1>1, TakenServed

\* Taking the zero-copy state back serves: it empties no queue.
LEMMA TakeBackZcServed ==
  ASSUME TypeOK, UNCHANGED queue, NEW stopped, NEW pics, TakeBackZc(stopped, pics)
  PROVE  Served
BY StaysServed DEF TakeBackZc, Complete

-----------------------------------------------------------------------------
(* The steps of a handle.                                                  *)

Stopping == {"drained", "waiting", "timed_out", "quiesced", "waiting_again", "leaving"}

\* Where STREAMON and STREAMOFF of handle c are, before and after a step.
PcStep(c) ==
  \/ pc[c] = "starting" /\ pc' = [pc EXCEPT ![c] = "on"]
  \/ pc[c] \in Stopping /\ \E v \in Stopping \ {"leaving"} : pc' = [pc EXCEPT ![c] = v]
  \/ /\ pc[c] \in Stopping /\ pc' = [pc EXCEPT ![c] = "leaving"]
     /\ inflight[c] = 0 /\ UNCHANGED <<queue, app, held, zc>>
  \/ pc[c] = "leaving" /\ pc' = [pc EXCEPT ![c] = "off"] /\ UNCHANGED <<queue, app, held, zc>>

\* Every step is one of these.
LEMMA NextKinds ==
  ASSUME TypeOK, OnePlace, [Next]_vars
  PROVE  \/ Served /\ UNCHANGED <<streaming, pc>>
         \/ \E b \in Bufs : QBuf(b)
         \/ \E c \in Ctxs : StreamOn(c) \/ StreamOff(c)
         \/ \E c \in Ctxs : Served /\ UNCHANGED streaming /\ PcStep(c)
<1> DEFINE Goal == \/ Served /\ UNCHANGED <<streaming, pc>>
                   \/ \E b \in Bufs : QBuf(b)
                   \/ \E c \in Ctxs : StreamOn(c) \/ StreamOff(c)
                   \/ \E c \in Ctxs : Served /\ UNCHANGED streaming /\ PcStep(c)
<1>0. UNCHANGED <<queue, app>> => Served
  BY StaysServed
<1>1. CASE CardHalfDone \/ CardLoses \/ IrqHandler \/ IrqAcknowledge
  BY <1>0, <1>1 DEF CardHalfDone, CardLoses, IrqHandler, IrqAcknowledge, ctxVars
<1>2. CASE ThreadSkips \/ TopEnd
  BY <1>0, <1>2 DEF ThreadSkips, TopEnd, ctxVars
<1>3. CASE HalfBegin
  BY <1>3, HalfBeginServed DEF HalfBegin, ctxVars
<1>4. CASE BottomEnd
  <2>1. UNCHANGED <<queue, streaming, pc>> /\ \E back : app' = app \cup back
    BY <1>4 DEF BottomEnd, Complete, ctxVars
  <2> QED  BY <2>1, StaysServed
<1>5. CASE StatusFindsLoss \/ StatusFindsCapture \/ PollSame
  BY <1>0, <1>5 DEF StatusFindsLoss, StatusFindsCapture, PollSame, ctxVars
<1>6. CASE PollResize
  BY <1>6, TakeBackZcServed DEF PollResize, ctxVars
<1>7. CASE Reinit
  BY <1>7, TakeBackZcServed DEF Reinit, ctxVars
<1>8. CASE PollNoVideo
  BY <1>0, <1>8, DeliverNoVideoServed DEF PollNoVideo, ctxVars
<1>9. CASE PollBadSize
  BY <1>9, DeliverNoVideoServed, TakeBackZcServed DEF PollBadSize, ctxVars
<1>10. ASSUME NEW c \in Ctxs, JoinEngine(c) PROVE Goal
  BY <1>0, <1>10 DEF JoinEngine, PcStep
<1>11. ASSUME NEW c \in Ctxs, StartEngine(c) PROVE Goal
  BY <1>11, TakeBackZcServed DEF StartEngine, PcStep
<1>12. ASSUME NEW c \in Ctxs, StopTakeBack(c) PROVE Goal
  <2>1. UNCHANGED <<queue, streaming>> /\ \E back : app' = app \cup back
    BY <1>12 DEF StopTakeBack, Complete
  <2>2. PcStep(c)
    BY <1>12 DEF StopTakeBack, PcStep, Stopping
  <2> QED  BY <2>1, <2>2, StaysServed
<1>13. ASSUME NEW c \in Ctxs, StopWaited(c) PROVE Goal
  BY <1>0, <1>13 DEF StopWaited, WaitDone, PcStep, Stopping
<1>14. ASSUME NEW c \in Ctxs, StopTimesOut(c) \/ StopTimeout(c) PROVE Goal
  BY <1>0, <1>14 DEF StopTimesOut, StopTimeout, PcStep, Stopping
<1>15. ASSUME NEW c \in Ctxs, StopForce(c) PROVE Goal
  BY <1>15, TakeBackZcServed DEF StopForce, PcStep, Stopping
<1>16. ASSUME NEW c \in Ctxs, StopEngine(c) PROVE Goal
  BY <1>0, <1>16 DEF StopEngine, PcStep
<1>17. CASE Suspend
  BY <1>17, TakeBackZcServed DEF Suspend, ctxVars
<1>18. CASE Resume
  BY <1>0, <1>18 DEF Resume, ctxVars
<1>19. CASE UNCHANGED vars
  BY <1>0, <1>19 DEF vars, ctxVars
<1> QED  BY <1>1, <1>2, <1>3, <1>4, <1>5, <1>6, <1>7, <1>8, <1>9, <1>10, <1>11, <1>12, <1>13,
            <1>14, <1>15, <1>16, <1>17, <1>18, <1>19
         DEF Next, Thread, HalfEnd, Status, StopSteps

-----------------------------------------------------------------------------
(* What holds of a handle that stops.                                      *)

\* With the places this is inductive: only handles that are on stream, a queue
\* stays empty once STREAMOFF drained it, and a handle that left has nothing in
\* flight.
StopInv ==
  /\ \A c \in Ctxs : c \in streaming <=> pc[c] \in {"starting", "on"}
  /\ \A c \in Ctxs : pc[c] \in Stopping => queue[c] = {}
  /\ \A c \in Ctxs : pc[c] \in {"leaving", "off"} => \A b \in Flight : Owner[b] # c

\* What was with the app stays there, and only streamers' buffers enter flight.
LEMMA ServedPlaces ==
  ASSUME TypeOK, OnePlace, TypeOK', OnePlace', Served
  PROVE  \A b \in Flight' : b \in Flight \/ (b \in queue[Owner[b]] /\ Owner[b] \in streaming)
<1> TAKE b \in Flight'
<1>1. b \in Bufs /\ b \notin app'
  BY DEF OnePlace, Flight
<1>2. \A c \in Ctxs : b \notin queue'[c]
  BY DEF OnePlace, Flight
<1>3. b \notin app
  BY <1>1 DEF Served
<1>4. b \in Flight \/ \E c \in Ctxs : b \in queue[c]
  BY <1>1, <1>3 DEF OnePlace, Flight
<1>5. ASSUME NEW c \in Ctxs, b \in queue[c] PROVE c = Owner[b] /\ c \in streaming
  BY <1>2, <1>5 DEF Served, OnePlace
<1> QED  BY <1>4, <1>5

\* A handle nothing is in flight for.
LEMMA NoneInFlight ==
  ASSUME TypeOK, InflightExact, NEW c \in Ctxs, inflight[c] = 0
  PROVE  \A b \in Flight : Owner[b] # c
<1> DEFINE Mine == {b \in Flight : Owner[b] = c}
<1>1. Cardinality(Mine) = 0
  BY DEF InflightExact, CountOf, Flight
<1>2. Flight \subseteq Bufs
  BY HeldBufsType DEF Flight, TypeOK, ZcStates, InZc, HeldBufs, BufOrNull
<1>3. IsFiniteSet(Mine)
  BY <1>2, FiniteAssumption, FS_Subset
<1>4. Mine = {}
  <2> HIDE DEF Mine
  <2> QED  BY <1>1, <1>3, FS_EmptySet
<1> QED  BY <1>4

\* Every step keeps StopInv.
LEMMA NextStop ==
  ASSUME TypeOK, OnePlace, InflightExact, StopInv, TypeOK', OnePlace', [Next]_vars
  PROVE  StopInv'
<1>0. pc \in [Ctxs -> PcValues]
  BY DEF TypeOK
<1>1. CASE Served /\ UNCHANGED <<streaming, pc>>
  <2>1. \A c \in Ctxs : pc'[c] \in Stopping => queue'[c] = {}
    BY <1>1 DEF StopInv, Served
  <2>2. \A c \in Ctxs : pc'[c] \in {"leaving", "off"} => \A b \in Flight' : Owner[b] # c
    BY <1>1, ServedPlaces DEF StopInv
  <2> QED  BY <1>1, <2>1, <2>2 DEF StopInv
<1>2. ASSUME NEW b \in Bufs, QBuf(b) PROVE StopInv'
  <2>1. UNCHANGED <<streaming, pc>> /\ Flight' = Flight
    BY <1>2 DEF QBuf, ctxVars, Flight, HeldBufs
  <2>2. \A c \in Ctxs : pc[c] \in Stopping => queue'[c] = queue[c]
    BY <1>2 DEF QBuf, Stopping, TypeOK
  <2> QED  BY <2>1, <2>2 DEF StopInv
<1>3. ASSUME NEW c \in Ctxs, StreamOn(c) PROVE StopInv'
  <2>1. streaming' = streaming \cup {c} /\ pc' = [pc EXCEPT ![c] = "starting"]
        /\ UNCHANGED <<queue, held, zc>>
    BY <1>3 DEF StreamOn
  <2>2. Flight' = Flight
    BY <2>1 DEF Flight, HeldBufs
  <2> QED  BY <1>0, <2>1, <2>2 DEF StopInv, Stopping
<1>4. ASSUME NEW c \in Ctxs, StreamOff(c) PROVE StopInv'
  <2>1. streaming' = streaming \ {c} /\ pc' = [pc EXCEPT ![c] = "drained"]
        /\ queue' = [queue EXCEPT ![c] = {}] /\ UNCHANGED <<held, zc>>
    BY <1>4 DEF StreamOff
  <2>2. Flight' = Flight
    BY <2>1 DEF Flight, HeldBufs
  <2>3. \A d \in Ctxs : queue'[d] = IF d = c THEN {} ELSE queue[d]
    BY <2>1 DEF TypeOK
  <2> QED  BY <1>0, <2>1, <2>2, <2>3 DEF StopInv, Stopping
<1>5. ASSUME NEW c \in Ctxs, Served, UNCHANGED streaming, PcStep(c) PROVE StopInv'
  <2>1. \A d \in Ctxs \ {c} : pc'[d] = pc[d]
    BY <1>0, <1>5 DEF PcStep
  <2>2. \A d \in Ctxs : d \in streaming' <=> pc'[d] \in {"starting", "on"}
    BY <1>0, <1>5, <2>1 DEF PcStep, StopInv, Stopping
  <2>3. \A d \in Ctxs : pc'[d] \in Stopping => pc[d] \in Stopping
    BY <1>0, <1>5, <2>1 DEF PcStep, Stopping
  <2>4. \A d \in Ctxs : pc'[d] \in Stopping => queue'[d] = {}
    BY <1>5, <2>3 DEF StopInv, Served
  <2>5. ASSUME NEW d \in Ctxs, pc'[d] \in {"leaving", "off"} PROVE \A b \in Flight' : Owner[b] # d
    <3>1. CASE pc[d] \in {"leaving", "off"}
      <4>1. \A b \in Flight : Owner[b] # d
        BY <3>1 DEF StopInv
      <4>2. d \notin streaming
        BY <3>1 DEF StopInv
      <4> QED  BY <1>5, <4>1, <4>2, ServedPlaces
    <3>2. CASE pc[d] \notin {"leaving", "off"}
      <4>1. d = c /\ inflight[c] = 0 /\ UNCHANGED <<held, zc>>
        BY <1>0, <1>5, <2>1, <2>5, <3>2 DEF PcStep, Stopping
      <4>2. Flight' = Flight
        BY <4>1 DEF Flight, HeldBufs
      <4> QED  BY <4>1, <4>2, NoneInFlight
    <3> QED  BY <3>1, <3>2
  <2> QED  BY <2>2, <2>4, <2>5 DEF StopInv
<1> QED  BY <1>1, <1>2, <1>3, <1>4, <1>5, NextKinds

\* No handle stops in the initial states.
LEMMA InitStop == Init => StopInv
<1> SUFFICES ASSUME Init PROVE StopInv
  OBVIOUS
<1>1. Flight = {}
  BY DEF Init, Flight, HeldBufs, InZc
<1> QED  BY <1>1 DEF Init, StopInv, Stopping

\* What is known of every reachable state.
Known == TypeOK /\ OnePlace /\ InflightExact /\ StopInv

\* What the other parts may use is inductive.
LEMMA KnownInductive == Known /\ [Next]_vars => Known'
<1> SUFFICES ASSUME Known, [Next]_vars PROVE Known'
  OBVIOUS
<1>1. TypeOK' /\ OnePlace' /\ InflightExact'
  BY NextType, NextPlaces DEF Known, PlacesKept
<1>2. StopInv'
  BY <1>1, NextStop DEF Known
<1> QED  BY <1>1, <1>2 DEF Known

\* ... and holds in every reachable state.
LEMMA KnownAlways == Spec => []Known
<1>1. Init => Known
  <2> SUFFICES ASSUME Init PROVE Known
    OBVIOUS
  <2>1. TypeOK /\ OnePlace /\ StopInv
    BY InitType, InitPlaces, InitStop
  <2>2. InflightExact
    BY InitInflight
  <2> QED  BY <2>1, <2>2 DEF Known
<1> QED  BY <1>1, KnownInductive, PTL DEF Spec

\* vb2 has every buffer of a handle back when stop_streaming returns, whether
\* the wait ended by itself or the card had to be stopped.
THEOREM StopReturnsAllAlways == Spec => []StopReturnsAll
<1>1. Known => StopReturnsAll
  <2> SUFFICES ASSUME Known, NEW c \in Ctxs, pc[c] \in {"leaving", "off"}
               PROVE  held[c] = Null /\ \A b \in InZc(zc) : Owner[b] # c
    BY DEF StopReturnsAll
  <2>1. \A b \in Flight : Owner[b] # c
    BY DEF Known, StopInv
  <2>2. held[c] # Null => held[c] \in Flight /\ Owner[held[c]] = c
    BY DEF Known, OnePlace, Flight, HeldBufs
  <2> QED  BY <2>1, <2>2 DEF Flight
<1> QED  BY <1>1, KnownAlways, PTL

-----------------------------------------------------------------------------
(* VideoCapture implements BufferOwnership.                                *)

\* The mapped state, by where a buffer is.
Mapped ==
  \A b \in Bufs :
    /\ Place[b] \in Own!Places
    /\ Place[b] = "app" <=> b \in app
    /\ Place[b] = "queued" <=> b \in queue[Owner[b]]
    /\ Place[b] = "flight" <=> b \in Flight

\* The three places of a buffer are those of the refinement.
LEMMA PlaceOf == OnePlace => Mapped
<1> SUFFICES ASSUME OnePlace, NEW b \in Bufs
             PROVE  /\ Place[b] \in Own!Places
                    /\ Place[b] = "app" <=> b \in app
                    /\ Place[b] = "queued" <=> b \in queue[Owner[b]]
                    /\ Place[b] = "flight" <=> b \in Flight
  BY DEF Mapped
<1>1. Owner[b] \in Ctxs
  BY CaptureAssumption
<1>2. b \in app \/ b \in queue[Owner[b]] \/ b \in Flight
  <2>1. b \in app \/ (\E c \in Ctxs : b \in queue[c]) \/ b \in Flight
    BY DEF OnePlace, Flight
  <2> QED  BY <2>1 DEF OnePlace
<1>3. /\ b \in app => b \notin queue[Owner[b]] /\ b \notin Flight
      /\ b \in queue[Owner[b]] => b \notin Flight
  BY <1>1 DEF OnePlace, Flight
<1> QED  BY <1>2, <1>3 DEF Place, Own!Places

\* What Served allows is what Serve allows.
LEMMA ServeSimulated ==
  ASSUME Known, Known', Served
  PROVE  \A b \in Bufs : \/ Place'[b] = Place[b]
                         \/ Place[b] = "flight" /\ Place'[b] = "app"
                         \/ Place[b] = "queued" /\ Phase[Owner[b]] = "on"
<1>1. OnePlace' => Mapped'
  BY PlaceOf, PTL
<1>2. Mapped /\ Mapped'
  BY <1>1, PlaceOf DEF Known
<1> TAKE b \in Bufs
<1>3. Owner[b] \in Ctxs
  BY CaptureAssumption
<1>4. OnePlace /\ OnePlace' /\ TypeOK /\ TypeOK'
  BY DEF Known
<1>5. /\ Place'[b] = "app" <=> b \in app'
      /\ Place'[b] = "queued" <=> b \in queue'[Owner[b]]
      /\ Place'[b] = "flight" <=> b \in Flight'
      /\ Place'[b] \in Own!Places
  BY <1>2 DEF Mapped
<1>6. CASE b \in app
  BY <1>2, <1>5, <1>6 DEF Mapped, Served
<1>7. CASE b \in queue[Owner[b]]
  <2>1. CASE Owner[b] \in streaming
    <3>1. Phase[Owner[b]] = "on"
      BY <1>3, <2>1 DEF Known, StopInv, Phase
    <3> QED  BY <1>2, <1>7, <3>1 DEF Mapped
  <2>2. CASE Owner[b] \notin streaming
    BY <1>2, <1>3, <1>5, <1>7, <2>2 DEF Mapped, Served
  <2> QED  BY <2>1, <2>2
<1>8. CASE b \in Flight
  <2>1. b \notin queue'[Owner[b]]
    BY <1>3, <1>4, <1>8 DEF Served, OnePlace, Flight
  <2>2. Place'[b] \in {"app", "flight"}
    BY <1>5, <2>1 DEF Own!Places
  <2> QED  BY <1>2, <1>8, <2>2 DEF Mapped
<1> QED  BY <1>2, <1>6, <1>7, <1>8 DEF Mapped, Own!Places


\* Initial states map to initial states of BufferOwnership.
LEMMA InitSimulated == Init => Own!Init
BY DEF Init, Own!Init, Place, Phase

\* One step per kind of step.
LEMMA NextSimulated == Known /\ Known' /\ [Next]_vars => [Own!Next]_(Own!vars)
<1> SUFFICES ASSUME Known, Known', [Next]_vars PROVE Own!Next \/ UNCHANGED Own!vars
  OBVIOUS
<1>0. /\ TypeOK /\ OnePlace /\ pc \in [Ctxs -> PcValues] /\ queue \in [Ctxs -> SUBSET Bufs]
      /\ \A b \in Bufs : Owner[b] \in Ctxs
  BY CaptureAssumption DEF Known, TypeOK
<1>1. ASSUME Served, UNCHANGED pc PROVE Own!Serve
  <2>1. Place' \in [Bufs -> Own!Places]
    BY DEF Place, Own!Places
  <2>2. Phase' = Phase
    BY <1>1 DEF Phase
  <2> QED  BY <1>1, <2>1, <2>2, ServeSimulated DEF Own!Serve
<1>2. ASSUME NEW b \in Bufs, QBuf(b) PROVE Own!QBuf(b)
  <2>1. /\ b \in app /\ pc[Owner[b]] \in {"off", "on"} /\ app' = app \ {b} /\ pc' = pc
        /\ queue' = [queue EXCEPT ![Owner[b]] = @ \cup {b}]
    BY <1>2 DEF QBuf, ctxVars
  <2>2. Phase[Owner[b]] # "stopping" /\ Place[b] = "app" /\ Phase' = Phase
    BY <1>0, <2>1 DEF Phase, Place
  <2>3. \A c \in Ctxs : queue'[c] = IF c = Owner[b] THEN queue[c] \cup {b} ELSE queue[c]
    BY <1>0, <2>1
  <2>4. \A x \in Bufs : Place'[x] = IF x = b THEN "queued" ELSE Place[x]
    BY <1>0, <2>1, <2>3 DEF Place
  <2>5. Place' = [Place EXCEPT ![b] = "queued"]
    BY <2>4 DEF Place
  <2> QED  BY <2>2, <2>5 DEF Own!QBuf
<1>3. ASSUME NEW c \in Ctxs, StreamOn(c) PROVE Own!StreamOn(c)
  <2>1. pc[c] = "off" /\ pc' = [pc EXCEPT ![c] = "starting"] /\ UNCHANGED <<queue, app>>
    BY <1>3 DEF StreamOn
  <2>2. Place' = Place /\ Phase[c] = "off"
    BY <2>1 DEF Place, Phase
  <2>3. Phase' = [Phase EXCEPT ![c] = "on"]
    BY <1>0, <2>1 DEF Phase
  <2> QED  BY <2>2, <2>3 DEF Own!StreamOn
<1>4. ASSUME NEW c \in Ctxs, StreamOff(c) PROVE Own!StreamOff(c)
  <2>1. /\ pc[c] = "on" /\ pc' = [pc EXCEPT ![c] = "drained"]
        /\ queue' = [queue EXCEPT ![c] = {}] /\ app' = app \cup queue[c]
    BY <1>4 DEF StreamOff
  <2>2. Phase[c] = "on" /\ Phase' = [Phase EXCEPT ![c] = "stopping"]
    BY <1>0, <2>1 DEF Phase
  <2>3. \A b \in queue[c] : Owner[b] = c /\ b \notin app
    BY <1>0 DEF OnePlace
  <2>4. \A d \in Ctxs : queue'[d] = IF d = c THEN {} ELSE queue[d]
    BY <1>0, <2>1
  <2>5. \A b \in Bufs :
          Place'[b] = IF Owner[b] = c /\ Place[b] = "queued" THEN "app" ELSE Place[b]
    BY <1>0, <2>1, <2>3, <2>4 DEF Place
  <2>6. Place' = [b \in Bufs |-> IF b \in Own!BufsOf(c) /\ Place[b] = "queued" THEN "app" ELSE Place[b]]
    BY <2>5 DEF Place, Own!BufsOf
  <2> QED  BY <2>2, <2>6 DEF Own!StreamOff
<1>5. ASSUME NEW c \in Ctxs, Served, PcStep(c) PROVE Own!Next \/ UNCHANGED Own!vars
  <2>1. CASE pc[c] # "leaving" \/ pc'[c] # "off"
    <3>1. Phase' = Phase
      BY <1>0, <1>5, <2>1 DEF PcStep, Phase, Stopping
    <3>2. Place' \in [Bufs -> Own!Places]
      BY DEF Place, Own!Places
    <3> QED  BY <1>5, <3>1, <3>2, ServeSimulated DEF Own!Serve, Own!Next
  <2>2. CASE pc[c] = "leaving" /\ pc'[c] = "off"
    <3>1. pc' = [pc EXCEPT ![c] = "off"] /\ UNCHANGED <<queue, app>>
      BY <1>0, <1>5, <2>2 DEF PcStep, Stopping
    <3>2. Phase[c] = "stopping" /\ Phase' = [Phase EXCEPT ![c] = "off"] /\ Place' = Place
      BY <1>0, <2>2, <3>1 DEF Phase, Place
    <3>3. queue[c] = {} /\ \A b \in Flight : Owner[b] # c
      BY <2>2 DEF Known, StopInv, Stopping
    <3>4. \A b \in Own!BufsOf(c) : Place[b] = "app"
      BY <1>0, <3>3, PlaceOf DEF Mapped, Own!BufsOf, Own!Places
    <3> QED  BY <3>2, <3>4 DEF Own!Leave, Own!Next
  <2> QED  BY <2>1, <2>2
<1> QED  BY <1>0, <1>1, <1>2, <1>3, <1>4, <1>5, NextKinds DEF Own!Next

\* Video capture implements what vb2 and the applications rely on, with any
\* number of handles and buffers and under every fault the model knows: buffers
\* move only as BufferOwnership allows.
THEOREM OwnershipKept == Spec => KeepsOwnership
<1>1. Spec => [][Own!Next]_(Own!vars)
  BY KnownAlways, NextSimulated, PTL DEF Spec
<1> QED  BY <1>1, InitSimulated, PTL DEF Spec, KeepsOwnership, Own!Spec


-----------------------------------------------------------------------------
(* Who counts on the engine.                                               *)

\* The handles "engine_users" counts: from the end of STREAMON's engine_lock
\* section to that of STREAMOFF.
Counts(v) == v \in {"on"} \cup Stopping
Users == {c \in Ctxs : Counts(pc[c])}

\* With the types this is inductive.  engine_users is the number of those
\* handles, engine_lock is kept only by a forced stop and with the engine off,
\* and neither the engine nor the sleep flag outlives the last of them.
EngineInv ==
  /\ IsFiniteSet(Users) /\ users = Cardinality(Users)
  /\ \A c \in Ctxs : engine = c <=> pc[c] = "quiesced"
  /\ engine # Null => ~started
  /\ started \/ power = "sleep_capturing" => users > 0
  /\ power # "on" => ~started /\ status = "idle" /\ \A c \in Ctxs : pc[c] \in {"off", "on"}

\* STREAMON counts at its end, STREAMOFF until its end.
LEMMA UsersValues ==
  /\ ~Counts("off") /\ ~Counts("starting") /\ Counts("on")
  /\ \A v \in Stopping : Counts(v)
BY DEF Counts, Stopping

\* A step of one handle changes the set by that handle at most.
LEMMA UsersMove ==
  ASSUME TypeOK, NEW c \in Ctxs, NEW v, pc' = [pc EXCEPT ![c] = v]
  PROVE  /\ (Counts(v) <=> Counts(pc[c])) => Users' = Users
         /\ Counts(v) /\ ~Counts(pc[c]) => c \notin Users /\ Users' = Users \cup {c}
         /\ ~Counts(v) /\ Counts(pc[c]) => c \in Users /\ Users' = Users \ {c}
<1>1. \A d \in Ctxs : pc'[d] = IF d = c THEN v ELSE pc[d]
  BY DEF TypeOK
<1> QED  BY <1>1 DEF Users

\* The count moves with them.
LEMMA UsersCount ==
  ASSUME IsFiniteSet(Users), NEW c
  PROVE  /\ Cardinality(Users) \in Nat
         /\ IsFiniteSet(Users \cup {c}) /\ IsFiniteSet(Users \ {c})
         /\ c \notin Users => Cardinality(Users \cup {c}) = Cardinality(Users) + 1
         /\ c \in Users => Cardinality(Users \ {c}) = Cardinality(Users) - 1 /\ Cardinality(Users) > 0
         /\ c \in Users /\ Cardinality(Users) = 1 => Users = {c}
         /\ Cardinality(Users) = 0 => Users = {}
<1>1. Cardinality(Users) \in Nat
  BY FS_CardinalityType
<1>2. IsFiniteSet(Users \cup {c}) /\ (c \notin Users => Cardinality(Users \cup {c}) = Cardinality(Users) + 1)
  BY FS_AddElement
<1>3. IsFiniteSet(Users \ {c})
      /\ (c \in Users => Cardinality(Users \ {c}) = Cardinality(Users) - 1)
  BY FS_RemoveElement
<1>4. Cardinality(Users) = 0 => Users = {}
  BY FS_EmptySet
<1>5. c \in Users => Cardinality(Users) > 0
  BY <1>1, <1>4
<1>6. ASSUME c \in Users, Cardinality(Users) = 1 PROVE Users = {c}
  <2>1. Cardinality(Users \ {c}) = 0
    BY <1>3, <1>6
  <2>2. Users \ {c} = {}
    BY <1>3, <2>1, FS_EmptySet
  <2> QED  BY <1>6, <2>2
<1> QED  BY <1>1, <1>2, <1>3, <1>4, <1>5, <1>6

\* Each step keeps the count and what holds engine_lock.
LEMMA NextEngine == TypeOK /\ EngineInv /\ [Next]_vars => EngineInv'
<1> SUFFICES ASSUME TypeOK, EngineInv, [Next]_vars PROVE EngineInv'
  OBVIOUS
<1>0. pc \in [Ctxs -> PcValues] /\ users \in Int /\ Null \notin Ctxs /\ started \in BOOLEAN
      /\ engine \in Ctxs \cup {Null}
  BY CaptureAssumption DEF TypeOK, CtxOrNull
<1>1. ASSUME UNCHANGED <<started, power, users, engine, pc>>,
             status' = "idle" \/ power = "on" \/ UNCHANGED status
      PROVE  EngineInv'
  BY <1>1 DEF EngineInv, Users
<1>2. CASE CardHalfDone \/ CardLoses \/ IrqHandler \/ IrqAcknowledge
  BY <1>1, <1>2 DEF CardHalfDone, CardLoses, IrqHandler, IrqAcknowledge, ctxVars, hostVars
<1>3. CASE ThreadSkips \/ HalfBegin \/ TopEnd \/ BottomEnd
  BY <1>1, <1>3 DEF ThreadSkips, HalfBegin, TopEnd, BottomEnd, ctxVars, hostVars
<1>4. CASE Status
  <2>1. UNCHANGED <<started, power, users, engine, pc>>
    BY <1>4 DEF Status, StatusFindsLoss, StatusFindsCapture, PollSame, PollResize, PollNoVideo,
                PollBadSize, Reinit, ctxVars
  <2>2. status' = "idle" \/ power = "on"
    BY <1>4 DEF Status, StatusFindsLoss, StatusFindsCapture, PollSame, PollResize, PollNoVideo,
                PollBadSize, Reinit, StatusTurn
  <2> QED  BY <1>1, <2>1, <2>2
<1>5. ASSUME NEW b \in Bufs, QBuf(b) PROVE EngineInv'
  BY <1>1, <1>5 DEF QBuf, ctxVars, hostVars
<1>6. ASSUME NEW c \in Ctxs, StreamOn(c) PROVE EngineInv'
  <2>1. /\ pc[c] = "off" /\ pc' = [pc EXCEPT ![c] = "starting"] /\ power = "on"
        /\ UNCHANGED <<started, power, status, users, engine>>
    BY <1>6 DEF StreamOn, hostVars
  <2>2. Users' = Users
    BY <2>1, UsersMove, UsersValues DEF Stopping
  <2> QED  BY <1>0, <2>1, <2>2 DEF EngineInv
<1>7. ASSUME NEW c \in Ctxs, JoinEngine(c) PROVE EngineInv'
  <2>1. /\ pc[c] = "starting" /\ pc' = [pc EXCEPT ![c] = "on"] /\ engine = Null
        /\ users > 0 /\ users' = users + 1 /\ UNCHANGED <<started, power, status, engine>>
    BY <1>7 DEF JoinEngine, hostVars
  <2>2. c \notin Users /\ Users' = Users \cup {c}
    BY <2>1, UsersMove, UsersValues DEF Stopping
  <2>3. IsFiniteSet(Users') /\ users' = Cardinality(Users')
    BY <2>1, <2>2, UsersCount DEF EngineInv
  <2> QED  BY <1>0, <2>1, <2>3 DEF EngineInv
<1>8. ASSUME NEW c \in Ctxs, StartEngine(c) PROVE EngineInv'
  <2>1. /\ pc[c] = "starting" /\ pc' = [pc EXCEPT ![c] = "on"] /\ engine = Null
        /\ users = 0 /\ users' = 1 /\ UNCHANGED <<power, status, engine>>
    BY <1>8 DEF StartEngine, hostVars
  <2>2. c \notin Users /\ Users' = Users \cup {c}
    BY <2>1, UsersMove, UsersValues DEF Stopping
  <2>3. IsFiniteSet(Users') /\ users' = Cardinality(Users')
    BY <2>1, <2>2, UsersCount DEF EngineInv
  <2> QED  BY <1>0, <2>1, <2>3 DEF EngineInv
<1>9. ASSUME NEW c \in Ctxs, StreamOff(c) PROVE EngineInv'
  <2>1. /\ pc[c] = "on" /\ pc' = [pc EXCEPT ![c] = "drained"] /\ power = "on"
        /\ UNCHANGED <<started, power, status, users, engine>>
    BY <1>9 DEF StreamOff, hostVars
  <2>2. Users' = Users
    BY <2>1, UsersMove, UsersValues DEF Stopping
  <2> QED  BY <1>0, <2>1, <2>2 DEF EngineInv
<1>10. ASSUME NEW c \in Ctxs, StopTakeBack(c) \/ StopWaited(c) \/ StopTimesOut(c) PROVE EngineInv'
  <2>1. /\ \E v \in {"waiting", "timed_out", "leaving"} : pc' = [pc EXCEPT ![c] = v]
        /\ pc[c] \in {"drained", "waiting", "waiting_again"}
        /\ UNCHANGED <<started, power, status, users, engine>>
    BY <1>10 DEF StopTakeBack, StopWaited, StopTimesOut, hostVars
  <2>2. Users' = Users
    BY <2>1, UsersMove, UsersValues DEF Stopping
  <2> QED  BY <1>0, <2>1, <2>2 DEF EngineInv
<1>11. ASSUME NEW c \in Ctxs, StopTimeout(c) PROVE EngineInv'
  <2>1. /\ pc[c] = "timed_out" /\ pc' = [pc EXCEPT ![c] = "quiesced"] /\ engine = Null
        /\ engine' = c /\ started' = FALSE /\ UNCHANGED <<power, status, users>>
    BY <1>11 DEF StopTimeout, hostVars
  <2>2. Users' = Users
    BY <2>1, UsersMove, UsersValues DEF Stopping
  <2> QED  BY <1>0, <2>1, <2>2 DEF EngineInv
<1>12. ASSUME NEW c \in Ctxs, StopForce(c) PROVE EngineInv'
  <2>1. /\ pc[c] = "quiesced" /\ pc' = [pc EXCEPT ![c] = "waiting_again"] /\ engine' = Null
        /\ started' = (users > 1) /\ UNCHANGED <<power, status, users>>
    BY <1>12 DEF StopForce, OtherUsers, hostVars
  <2>2. Users' = Users
    BY <2>1, UsersMove, UsersValues DEF Stopping
  <2>3. engine = c
    BY <2>1 DEF EngineInv
  <2> QED  BY <1>0, <2>1, <2>2, <2>3 DEF EngineInv
<1>13. ASSUME NEW c \in Ctxs, StopEngine(c) PROVE EngineInv'
  <2>1. /\ pc[c] = "leaving" /\ pc' = [pc EXCEPT ![c] = "off"] /\ engine = Null
        /\ users' = users - 1 /\ started' = (started /\ users > 1)
        /\ UNCHANGED <<power, status, engine>>
    BY <1>13 DEF StopEngine, OtherUsers, hostVars
  <2>2. c \in Users /\ Users' = Users \ {c}
    BY <2>1, UsersMove, UsersValues DEF Stopping
  <2>3. IsFiniteSet(Users') /\ users' = Cardinality(Users')
    BY <2>1, <2>2, UsersCount DEF EngineInv
  <2>4. power = "on"
    BY <2>1 DEF EngineInv
  <2>5. started' => users > 1
    BY <2>1
  <2>6. started' => users' > 0
    BY <1>0, <2>1, <2>5
  <2> QED  BY <1>0, <2>1, <2>3, <2>4, <2>6 DEF EngineInv
<1>14. CASE Suspend
  <2>1. /\ started' = FALSE /\ power = "on" /\ power' = IF started THEN "sleep_capturing" ELSE "sleep"
        /\ status = "idle" /\ \A c \in Ctxs : pc[c] \in {"off", "on"}
        /\ UNCHANGED <<status, users, engine, pc>>
    BY <1>14 DEF Suspend, ctxVars
  <2>2. Users' = Users
    BY <2>1 DEF Users
  <2> QED  BY <1>0, <2>1, <2>2 DEF EngineInv
<1>15. CASE Resume
  <2>1. power # "on" /\ power' = "on" /\ started' = (power = "sleep_capturing")
        /\ UNCHANGED <<status, users, engine, pc>>
    BY <1>15 DEF Resume, ctxVars
  <2>2. Users' = Users
    BY <2>1 DEF Users
  <2>3. engine = Null
    BY <1>0, <2>1 DEF EngineInv
  <2> QED  BY <1>0, <2>1, <2>2, <2>3 DEF EngineInv
<1>16. CASE UNCHANGED vars
  BY <1>1, <1>16 DEF vars, ctxVars, hostVars
<1> QED  BY <1>2, <1>3, <1>4, <1>5, <1>6, <1>7, <1>8, <1>9, <1>10, <1>11, <1>12, <1>13, <1>14,
            <1>15, <1>16 DEF Next, Thread, HalfEnd, StopSteps

\* Nobody counts at the start.
LEMMA InitEngine == Init => EngineInv
<1> SUFFICES ASSUME Init PROVE EngineInv
  OBVIOUS
<1>1. Users = {}
  BY DEF Init, Users, Counts, Stopping
<1>2. IsFiniteSet(Users) /\ Cardinality(Users) = 0
  BY <1>1, FS_EmptySet
<1> QED  BY <1>2, CaptureAssumption DEF Init, EngineInv

-----------------------------------------------------------------------------
(* The engine and the handles that need it.                                *)

\* No handle is in STREAMON, between "streaming" and engine_lock, while another
\* is in STREAMOFF.  Runs in which they overlap break what follows.
StartsApart == \A c, d \in Ctxs : pc[c] = "starting" => pc[d] \notin Stopping

\* The engine is on, or will be again, for every handle that is on; off and
\* free it has nothing in the zero-copy state.
FollowInv ==
  /\ \A c \in Ctxs : pc[c] = "on" => started \/ engine # Null \/ power = "sleep_capturing"
  /\ ~started /\ engine = Null => InZc(zc) = {}

\* A handle alone among the users, with nobody starting: all others are off.
LEMMA LastUser ==
  ASSUME Known, EngineInv, StartsApart, NEW c \in Ctxs, pc[c] \in Stopping, users <= 1
  PROVE  \A d \in Ctxs \ {c} : pc[d] = "off"
<1>1. c \in Users
  BY UsersValues DEF Users
<1>2. Users = {c}
  <2>1. users \in Int /\ IsFiniteSet(Users) /\ users = Cardinality(Users)
    BY DEF EngineInv, Known, TypeOK
  <2>2. /\ Cardinality(Users) > 0
        /\ Cardinality(Users) = 1 => Users = {c}
    BY <1>1, <2>1, UsersCount
  <2> QED  BY <2>1, <2>2
<1>3. \A d \in Ctxs \ {c} : pc[d] \notin {"on"} \cup Stopping
  BY <1>2 DEF Users, Counts
<1>4. \A d \in Ctxs : pc[d] \in PcValues
  BY DEF Known, TypeOK
<1> QED  BY <1>3, <1>4 DEF StartsApart, PcValues, Stopping

\* Handles that are off have nothing in flight.
LEMMA AllOff ==
  ASSUME Known, NEW c \in Ctxs, pc[c] \in {"leaving", "off"}, \A d \in Ctxs \ {c} : pc[d] = "off"
  PROVE  Flight = {}
<1>1. Flight \subseteq Bufs
  BY HeldBufsType DEF Known, Flight, TypeOK, ZcStates, InZc, HeldBufs, BufOrNull
<1>2. \A b \in Flight : Owner[b] \in Ctxs
  BY <1>1, CaptureAssumption
<1>3. \A d \in Ctxs : \A b \in Flight : Owner[b] # d
  BY DEF Known, StopInv
<1> QED  BY <1>2, <1>3

\* Frames that end and hws_zc_stop() add nothing to an empty zero-copy state.
LEMMA EmptyStays ==
  ASSUME TypeOK, OnePlace, InZc(zc) = {}
  PROVE  /\ BottomEnd => InZc(zc') = {}
         /\ \A s \in BOOLEAN : InZc(ZcStop(zc, s)) = {}
<1>1. zc \in ZcStates
  BY DEF TypeOK
<1>2. \A s \in BOOLEAN : InZc(ZcStop(zc, s)) = {}
  BY <1>1, ZcStopEmpties
<1>3. ASSUME BottomEnd PROVE InZc(zc') = {}
  <2>1. PICK good \in BOOLEAN :
          zc' = Release(Advance([zc EXCEPT !.stable = IF good THEN Min2(@ + 1, 2) ELSE @]))
    BY <1>3 DEF BottomEnd
  <2> DEFINE stable == IF good THEN Min2(zc.stable + 1, 2) ELSE zc.stable
             z == [zc EXCEPT !.stable = stable]
  <2>2a. stable \in Stables
    <3>1. zc.stable \in Stables
      BY <1>1 DEF ZcStates
    <3> QED  BY <3>1 DEF Stables, Min2
  <2> HIDE DEF stable
  <2>2. z \in ZcStates /\ z.cur = zc.cur /\ z.next = zc.next /\ z.rel = zc.rel
    BY <1>1, <2>2a DEF ZcStates
  <2>3. Parts(z) /\ InZc(z) = {}
    BY <2>2 DEF OnePlace, Parts, InZc
  <2> HIDE DEF z
  <2>4. InZc(Release(Advance(z))) = InZc(z) \ Releasable(Advance(z))
    BY <2>2, <2>3, FrameEndPlaces
  <2> QED  BY <2>1, <2>3, <2>4 DEF z, stable
<1> QED  BY <1>2, <1>3

\* JoinEngine finds a handle that is on, so the engine runs; what turns the
\* engine off is done by a handle that leaves nobody on, or turns it on again.
LEMMA NextFollow == Known /\ EngineInv /\ StartsApart /\ FollowInv /\ [Next]_vars => FollowInv'
<1> SUFFICES ASSUME Known, EngineInv, StartsApart, FollowInv, [Next]_vars PROVE FollowInv'
  OBVIOUS
<1>0. /\ TypeOK /\ OnePlace /\ zc \in ZcStates /\ started \in BOOLEAN /\ Null \notin Ctxs
      /\ pc \in [Ctxs -> PcValues] /\ users \in Int
  BY CaptureAssumption DEF Known, TypeOK
<1>1. ASSUME UNCHANGED <<started, power, engine, pc>>, started \/ zc' = zc PROVE FollowInv'
  BY <1>1 DEF FollowInv
<1>2. CASE CardHalfDone \/ CardLoses \/ IrqHandler \/ IrqAcknowledge \/ ThreadSkips \/ TopEnd
  BY <1>1, <1>2 DEF CardHalfDone, CardLoses, IrqHandler, IrqAcknowledge, ThreadSkips, TopEnd,
                    ctxVars, hostVars
<1>3. CASE HalfBegin
  BY <1>1, <1>3 DEF HalfBegin, ctxVars, hostVars
<1>4. CASE BottomEnd
  <2>1. UNCHANGED <<started, power, engine, pc>>
    BY <1>4 DEF BottomEnd, ctxVars, hostVars
  <2> QED  BY <1>0, <1>4, <2>1, EmptyStays DEF FollowInv
<1>5. CASE StatusFindsLoss \/ StatusFindsCapture \/ PollSame \/ PollNoVideo
  BY <1>1, <1>5 DEF StatusFindsLoss, StatusFindsCapture, PollSame, PollNoVideo, ctxVars
<1>6. CASE PollResize \/ PollBadSize \/ Reinit
  <2>1. UNCHANGED <<started, power, engine, pc>> /\ \E s \in BOOLEAN : zc' = ZcStop(zc, s)
    BY <1>0, <1>6 DEF PollResize, PollBadSize, Reinit, TakeBackZc, ctxVars
  <2> QED  BY <1>0, <2>1, EmptyStays DEF FollowInv
<1>7. ASSUME NEW b \in Bufs, QBuf(b) PROVE FollowInv'
  BY <1>1, <1>7 DEF QBuf, ctxVars, hostVars
<1>8. ASSUME NEW c \in Ctxs, StreamOn(c) \/ StreamOff(c) \/ StopWaited(c) \/ StopTimesOut(c)
      PROVE  FollowInv'
  <2>1. /\ \E v \in {"starting", "drained", "timed_out", "leaving"} : pc' = [pc EXCEPT ![c] = v]
        /\ UNCHANGED <<started, power, engine, zc>>
    BY <1>8 DEF StreamOn, StreamOff, StopWaited, StopTimesOut, hostVars
  <2>2. \A d \in Ctxs : pc'[d] = "on" => pc[d] = "on"
    BY <1>0, <2>1
  <2> QED  BY <2>1, <2>2 DEF FollowInv
<1>9. ASSUME NEW c \in Ctxs, JoinEngine(c) PROVE FollowInv'
  <2>1. /\ pc[c] = "starting" /\ engine = Null /\ users > 0
        /\ UNCHANGED <<started, power, engine, zc>>
    BY <1>9 DEF JoinEngine, hostVars
  <2>2. Users # {}
    BY <2>1, FS_EmptySet DEF EngineInv
  <2>3. PICK d \in Ctxs : pc[d] = "on"
    BY <2>1, <2>2 DEF Users, Counts, StartsApart
  <2>4. power = "on"
    BY <2>1 DEF EngineInv
  <2>5. started
    BY <2>1, <2>3, <2>4 DEF FollowInv
  <2> QED  BY <2>1, <2>5 DEF FollowInv
<1>10. ASSUME NEW c \in Ctxs, StartEngine(c) PROVE FollowInv'
  BY <1>10 DEF StartEngine, FollowInv
<1>11. ASSUME NEW c \in Ctxs, StopTakeBack(c) PROVE FollowInv'
  <2>1. /\ pc' = [pc EXCEPT ![c] = "waiting"] /\ UNCHANGED <<started, power, engine>>
        /\ zc' = zc \/ zc' = ZcStop(zc, FALSE)
    BY <1>11 DEF StopTakeBack, hostVars
  <2>2. \A d \in Ctxs : pc'[d] = "on" => pc[d] = "on"
    BY <1>0, <2>1
  <2> QED  BY <1>0, <2>1, <2>2, EmptyStays DEF FollowInv
<1>12. ASSUME NEW c \in Ctxs, StopTimeout(c) PROVE FollowInv'
  BY <1>0, <1>12 DEF StopTimeout, FollowInv
<1>13. ASSUME NEW c \in Ctxs, StopForce(c) PROVE FollowInv'
  <2>1. /\ pc[c] = "quiesced" /\ pc' = [pc EXCEPT ![c] = "waiting_again"]
        /\ started' = (users > 1) /\ zc' = ZcStop(zc, TRUE)
    BY <1>13 DEF StopForce, OtherUsers, TakeBackZc
  <2>2. InZc(zc') = {}
    BY <1>0, <2>1, ZcStopEmpties
  <2>3. CASE users > 1
    BY <2>1, <2>2, <2>3 DEF FollowInv
  <2>4. CASE users <= 1
    <3>1. \A d \in Ctxs : pc'[d] # "on"
      BY <1>0, <2>1, <2>4, LastUser DEF Stopping
    <3> QED  BY <2>2, <3>1 DEF FollowInv
  <2> QED  BY <1>0, <2>3, <2>4
<1>14. ASSUME NEW c \in Ctxs, StopEngine(c) PROVE FollowInv'
  <2>1. /\ pc[c] = "leaving" /\ pc' = [pc EXCEPT ![c] = "off"] /\ engine = Null
        /\ started' = (started /\ users > 1) /\ UNCHANGED <<power, engine, zc>>
    BY <1>14 DEF StopEngine, OtherUsers, hostVars
  <2>2. CASE users > 1
    <3>1. started' = started
      BY <1>0, <2>1, <2>2
    <3>2. \A d \in Ctxs : pc'[d] = "on" => pc[d] = "on"
      BY <1>0, <2>1
    <3> QED  BY <2>1, <3>1, <3>2 DEF FollowInv
  <2>3. CASE users <= 1
    <3>1. \A d \in Ctxs \ {c} : pc[d] = "off"
      BY <2>1, <2>3, LastUser DEF Stopping
    <3>2. InZc(zc') = {}
      BY <2>1, <3>1, AllOff DEF Flight
    <3>3. \A d \in Ctxs : pc'[d] # "on"
      BY <1>0, <2>1, <3>1
    <3> QED  BY <3>2, <3>3 DEF FollowInv
  <2> QED  BY <1>0, <2>2, <2>3
<1>15. CASE Suspend
  <2>1. /\ power = "on" /\ engine = Null /\ power' = IF started THEN "sleep_capturing" ELSE "sleep"
        /\ zc' = ZcStop(zc, TRUE) /\ UNCHANGED <<engine, pc>>
    BY <1>15 DEF Suspend, TakeBackZc, ctxVars
  <2>2. InZc(zc') = {}
    BY <1>0, <2>1, ZcStopEmpties
  <2> QED  BY <2>1, <2>2 DEF FollowInv
<1>16. CASE Resume
  <2>1. /\ power # "on" /\ started' = (power = "sleep_capturing") /\ UNCHANGED <<engine, pc, zc>>
    BY <1>16 DEF Resume, ctxVars
  <2>2. ~started
    BY <2>1 DEF EngineInv
  <2> QED  BY <1>0, <2>1, <2>2 DEF FollowInv
<1>17. CASE UNCHANGED vars
  BY <1>1, <1>17 DEF vars, ctxVars, hostVars
<1> QED  BY <1>2, <1>3, <1>4, <1>5, <1>6, <1>7, <1>8, <1>9, <1>10, <1>11, <1>12, <1>13, <1>14,
            <1>15, <1>16, <1>17 DEF Next, Thread, HalfEnd, Status, StopSteps

\* Nothing runs at the start.
LEMMA InitFollow == Init => FollowInv
BY DEF Init, FollowInv, InZc

\* What is known of every state in which starts and stops were apart so far.
LEMMA FollowAlways == Spec /\ []StartsApart => [](Known /\ EngineInv /\ FollowInv)
<1>1. Known /\ EngineInv /\ [Next]_vars => EngineInv'
  BY NextEngine DEF Known
<1> QED  BY <1>1, KnownAlways, InitEngine, InitFollow, NextFollow, PTL DEF Spec

\* One handle cannot overlap itself.
LEMMA OneApart ==
  ASSUME NEW h, Ctxs = {h}
  PROVE  Spec => []StartsApart
<1>1. StartsApart
  BY DEF StartsApart, Stopping
<1> QED  BY <1>1, PTL

\* "Start hardware engine only once, on first streamer": any number of handles
\* may start, stop, time out and be restarted for, the engine runs while one of
\* them streams and stops with the last, unless a STREAMON meets a STREAMOFF.
THEOREM EngineFollows == Spec /\ []StartsApart => []EngineFollowsUsers
<1>1. Known /\ EngineInv /\ FollowInv => EngineFollowsUsers
  BY DEF EngineInv, FollowInv, EngineFollowsUsers
<1> QED  BY <1>1, FollowAlways, PTL

\* A single handle's engine always follows it, whatever its STREAMOFF runs into.
THEOREM EngineFollowsOne ==
  ASSUME NEW h, Ctxs = {h}
  PROVE  Spec => []EngineFollowsUsers
<1>1. Spec => []StartsApart
  BY OneApart
<1> QED  BY <1>1, EngineFollows, PTL

\* ChangeVideoSize() changes the lengths with nothing in the zero-copy state and
\* both registers at the DMA buffers, whether it finds the engine on or off.
THEOREM ResizesAtRest == Spec /\ []StartsApart => ResizeAtRest
<1> DEFINE AtRest == InZc(zc') = {} /\ \A p \in Pairs : zc'.prog[p] = Null
<1>1. ASSUME Known, FollowInv, [Next]_vars PROVE geom' # geom => AtRest
  <2> SUFFICES ASSUME geom' # geom PROVE AtRest
    OBVIOUS
  <2>0. TypeOK /\ OnePlace /\ zc \in ZcStates /\ started \in BOOLEAN
    BY <1>1 DEF Known, TypeOK
  <2>1. PollResize \/ \E c \in Ctxs : StartEngine(c)
    BY <1>1 DEF Next, Thread, HalfEnd, Status, StopSteps, CardHalfDone, CardLoses, IrqHandler,
       IrqAcknowledge, ThreadSkips, HalfBegin, TopEnd, BottomEnd, StatusFindsLoss,
       StatusFindsCapture, PollSame, PollNoVideo, PollBadSize, Reinit, QBuf, StreamOn,
       JoinEngine, StreamOff, StopTakeBack, StopWaited, StopTimesOut, StopTimeout, StopForce,
       StopEngine,
       Suspend, Resume, vars
  <2>2. CASE PollResize
    <3>1. zc' = ZcStop(zc, started) /\ engine = Null
      BY <2>2 DEF PollResize, TakeBackZc, StatusTurn
    <3>2. started \/ InZc(zc) = {}
      BY <1>1, <3>1 DEF FollowInv
    <3> QED  BY <2>0, <3>1, <3>2, ZcStopEmpties
  <2>3. CASE \E c \in Ctxs : StartEngine(c)
    <3>1. zc' = ZcStop(zc, TRUE)
      BY <2>3 DEF StartEngine, TakeBackZc
    <3> QED  BY <2>0, <3>1, ZcStopEmpties
  <2> QED  BY <2>1, <2>2, <2>3
<1>2. Known /\ FollowInv /\ [Next]_vars => [geom' # geom => AtRest]_vars
  BY <1>1
<1> QED  BY <1>2, FollowAlways, PTL DEF Spec, ResizeAtRest

\* A single handle meets no other one: the lengths change only at rest.
THEOREM ResizesAtRestOne ==
  ASSUME NEW h, Ctxs = {h}
  PROVE  Spec => ResizeAtRest
<1>1. Spec => []StartsApart
  BY OneApart
<1> QED  BY <1>1, ResizesAtRest, PTL

=============================================================================
