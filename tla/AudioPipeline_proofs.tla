------------------------ MODULE AudioPipeline_proofs ------------------------
(***************************************************************************)
(* Proofs about AudioPipeline, for rings of any size and any bounds: no    *)
(* work writes the ALSA buffer once hw_free freed it, the silence work     *)
(* stays alive as long as the stream runs; types, no packet left in a slot *)
(* without a work to drain it, packets in the order they were filled,      *)
(* nothing heard from before a clean start, and no more silence than time  *)
(* that passed.                                                            *)
(***************************************************************************)
EXTENDS AudioPipeline, FiniteSetTheorems, SequenceTheorems, TLAPS

\* The work is a record of the four fields, and of a known kind.
WorkShape ==
  /\ DOMAIN work = {"what", "deliver", "slot", "due"}
  /\ work.what \in {"none", "audio", "silence"}

\* Between cancel_delayed_work_sync() and the end of hw_free no silence work
\* runs and none can begin, since the stream is stopped; a trigger and hw_free
\* exclude each other; only a work that runs delivers.
BufferGuarded ==
  /\ WorkShape
  /\ running = (pcm = "running")
  /\ call = "freeing" => pcm = "setup" /\ work.what # "silence"
  /\ call = "starting" => pcm = "running"
  /\ work.what = "none" => ~work.deliver
  /\ BufferInUse

\* The works' steps keep the guard: whether a run delivers is decided while the
\* buffer is there, and only the trigger's STOP changes the stream under it.
LEMMA QueueKeepsBuffer ==
  ASSUME BufferGuarded, Queue
  PROVE  BufferGuarded'
<1> USE DEF BufferGuarded, WorkShape, BufferInUse, HasBuffer
<1>1. CASE AudioBegins
  BY <1>1 DEF AudioBegins, Resting, streamVars
<1>2. CASE AudioTakes
  BY <1>2 DEF AudioTakes, streamVars
<1>3. CASE AudioNext
  BY <1>3 DEF AudioNext, SlotDone, streamVars
<1>4. CASE AudioOverruns
  BY <1>4 DEF AudioOverruns, SlotDone, Stop
<1>5. CASE AudioEnds
  BY <1>5 DEF AudioEnds, Resting, streamVars
<1>6. CASE SilenceBegins
  <2>1. CASE running
    <3>1. PICK due \in GapPackets :
            work' = [Resting EXCEPT !.what = "silence", !.deliver = TRUE, !.due = due]
      BY <1>6, <2>1 DEF SilenceBegins
    <3> QED  BY <1>6, <2>1, <3>1 DEF SilenceBegins, Resting, streamVars
  <2>2. CASE ~running
    BY <1>6, <2>2 DEF SilenceBegins, streamVars
  <2> QED  BY <2>1, <2>2
<1>7. CASE SilenceDelivers
  BY <1>7 DEF SilenceDelivers, streamVars, workVars
<1>8. CASE SilenceOverruns
  BY <1>8 DEF SilenceOverruns, Stop
<1>9. CASE SilenceEnds
  BY <1>9 DEF SilenceEnds, Resting, streamVars
<1> QED  BY <1>1, <1>2, <1>3, <1>4, <1>5, <1>6, <1>7, <1>8, <1>9 DEF Queue

\* The callbacks keep the guard: hw_free waits for both works before it frees.
LEMMA CallbacksKeepBuffer ==
  ASSUME BufferGuarded, Application \/ Finishing
  PROVE  BufferGuarded'
<1> USE DEF BufferGuarded, WorkShape, BufferInUse, HasBuffer
<1>1. CASE Open
  BY <1>1 DEF Open, workVars
<1>2. CASE HwParams
  BY <1>2 DEF HwParams, workVars
<1>3. CASE Start
  BY <1>3 DEF Start
<1>4. CASE StopCall
  BY <1>4 DEF StopCall, Stop
<1>5. CASE FreeSilence
  BY <1>5 DEF FreeSilence
<1>6. CASE Close
  BY <1>6 DEF Close
<1>7. CASE StartCapture
  BY <1>7 DEF StartCapture, workVars
<1>8. CASE FreeBuffer
  <2>1. work.what = "none"
    BY <1>8 DEF FreeBuffer, WorkCancelled
  <2> QED  BY <1>8, <2>1 DEF FreeBuffer
<1> QED  BY <1>1, <1>2, <1>3, <1>4, <1>5, <1>6, <1>7, <1>8 DEF Application, Finishing

\* The card, the tasklet, the timer and the status thread do not touch what the
\* guard speaks of.
LEMMA OthersKeepBuffer ==
  ASSUME BufferGuarded,
         \/ Card \/ Tasklet \/ TimerFires \/ ReinitFinds \/ ReinitEnables
         \/ UNCHANGED vars
  PROVE  BufferGuarded'
<1>1. UNCHANGED <<pcm, call, running, work>>
  <2>1. CASE Card
    BY <2>1 DEF Card, Silent, Packet, streamVars, workVars
  <2>2. CASE Tasklet
    BY <2>2 DEF Tasklet, TaskletBegin, TaskletFills, TaskletQueues, streamVars, workVars
  <2>3. CASE TimerFires
    BY <2>3 DEF TimerFires, streamVars
  <2>4. CASE ReinitFinds \/ ReinitEnables
    BY <2>4 DEF ReinitFinds, ReinitEnables, streamVars, workVars
  <2>5. CASE UNCHANGED vars
    BY <2>5 DEF vars, streamVars, workVars
  <2> QED  BY <2>1, <2>2, <2>3, <2>4, <2>5
<1> QED  BY <1>1 DEF BufferGuarded, WorkShape, BufferInUse, HasBuffer

\* The guard is inductive.
LEMMA BufferGuardedAlways == Spec => []BufferGuarded
<1>1. Init => BufferGuarded
  <2> SUFFICES ASSUME Init PROVE BufferGuarded
    OBVIOUS
  <2>1. WorkShape /\ work.what = "none" /\ ~work.deliver
    BY DEF Init, WorkShape, Resting
  <2>2. pcm = "closed" /\ call = "none" /\ running = FALSE
    BY DEF Init
  <2> QED  BY <2>1, <2>2 DEF BufferGuarded, BufferInUse
<1>2. BufferGuarded /\ [Next]_vars => BufferGuarded'
  <2> SUFFICES ASSUME BufferGuarded, [Next]_vars PROVE BufferGuarded'
    OBVIOUS
  <2>1. CASE Queue
    BY <2>1, QueueKeepsBuffer
  <2>2. CASE Application \/ Finishing
    BY <2>2, CallbacksKeepBuffer
  <2>3. CASE Card \/ Tasklet \/ TimerFires \/ ReinitFinds \/ ReinitEnables \/ UNCHANGED vars
    BY <2>3, OthersKeepBuffer
  <2> QED  BY <2>1, <2>2, <2>3 DEF Next
<1> QED  BY <1>1, <1>2, PTL DEF Spec

\* "Both write the buffer" (hws_pcie_audio_hw_free): no work writes the ALSA
\* buffer of a stream that is closed or freed, whatever the trigger, overruns,
\* timers and the tasklet do.
THEOREM BufferStaysInUse == Spec => []BufferInUse
<1>1. BufferGuarded => BufferInUse
  BY DEF BufferGuarded
<1> QED  BY <1>1, BufferGuardedAlways, PTL

-----------------------------------------------------------------------------
(* The silence work.                                                       *)

WorkqueueType == wq \in Seq(Works) /\ timer \in BOOLEAN

\* The empty queue has the type.
LEMMA EmptySeqTyped == <<>> \in Seq(Works)
OBVIOUS

\* Queueing a work keeps those that are pending.
LEMMA PendingAppend ==
  ASSUME NEW w \in Works, NEW x \in Works, wq \in Seq(Works), wq' = Append(wq, x)
  PROVE  Pending(w)' <=> Pending(w) \/ x = w
<1>1. Len(wq') = Len(wq) + 1 /\ DOMAIN wq = 1 .. Len(wq) /\ DOMAIN wq' = 1 .. Len(wq) + 1
  OBVIOUS
<1>2. wq'[Len(wq) + 1] = x /\ \A i \in DOMAIN wq : wq'[i] = wq[i]
  OBVIOUS
<1> QED  BY <1>1, <1>2 DEF Pending

\* Taking the head keeps those behind it.
LEMMA PendingTail ==
  ASSUME NEW w \in Works, wq \in Seq(Works), wq # <<>>, Head(wq) # w, wq' = Tail(wq), Pending(w)
  PROVE  Pending(w)'
<1>1. PICK i \in DOMAIN wq : wq[i] = w
  BY DEF Pending
<1>2. i \in 2 .. Len(wq)
  BY <1>1
<1>3. i - 1 \in DOMAIN wq' /\ wq'[i - 1] = w
  BY <1>1, <1>2
<1> QED  BY <1>3 DEF Pending

\* Every step keeps the type of the workqueue.
LEMMA WorkqueueTyped ==
  ASSUME WorkqueueType, [Next]_vars
  PROVE  WorkqueueType'
<1> USE DEF WorkqueueType
<1>1. \A w \in Works : Append(wq, w) \in Seq(Works) /\ Without(w) \in Seq(Works)
  BY DEF Without, Rest, Works
<1>2. "audio" \in Works /\ "silence" \in Works
  BY DEF Works
<1>3. wq # <<>> => Tail(wq) \in Seq(Works)
  OBVIOUS
<1>4. CASE Queue
  BY <1>1, <1>2, <1>3, <1>4
  DEF Queue, AudioBegins, AudioTakes, AudioNext, AudioOverruns, AudioEnds, SilenceBegins, SilenceDelivers,
      SilenceOverruns, SilenceEnds, Again, Stop, SlotDone, workVars
<1>5. CASE Application \/ Finishing
  BY <1>1, <1>2, <1>5
  DEF Application, Finishing, Open, HwParams, Start, StopCall, Stop, FreeSilence, Close, StartCapture,
      FreeBuffer, workVars
<1>6. CASE Card \/ Tasklet \/ TimerFires \/ ReinitFinds \/ ReinitEnables \/ UNCHANGED vars
  BY <1>1, <1>2, <1>6
  DEF Card, Silent, Packet, Tasklet, TaskletBegin, TaskletFills, TaskletQueues, TimerFires, ReinitFinds,
      ReinitEnables, vars, workVars
<1> QED  BY <1>4, <1>5, <1>6 DEF Next

\* The works' steps keep the silence work alive: it gives itself back to the
\* timer unless someone queued it meanwhile.
LEMMA QueueKeepsSilence ==
  ASSUME BufferGuarded, WorkqueueType, SilenceAlive, Queue
  PROVE  SilenceAlive'
<1> USE DEF SilenceAlive, SilencePending
<1>1. CASE AudioBegins
  <2>1. Pending("silence") => Pending("silence")'
    BY <1>1, PendingTail DEF AudioBegins, WorkqueueType, Works
  <2> QED  BY <1>1, <2>1 DEF AudioBegins, Resting, streamVars
<1>2. CASE AudioTakes \/ AudioNext \/ SilenceDelivers
  BY <1>2 DEF AudioTakes, AudioNext, SlotDone, SilenceDelivers, streamVars, workVars, Pending,
              BufferGuarded, WorkShape
<1>3. CASE AudioOverruns \/ SilenceOverruns
  BY <1>3 DEF AudioOverruns, SilenceOverruns, Stop
<1>4. CASE AudioEnds
  BY <1>4 DEF AudioEnds, streamVars, Pending
<1>5. CASE SilenceBegins
  <2>1. CASE running
    <3>1. PICK due \in GapPackets :
            work' = [Resting EXCEPT !.what = "silence", !.deliver = TRUE, !.due = due]
      BY <1>5, <2>1 DEF SilenceBegins
    <3> QED  BY <3>1 DEF Resting
  <2>2. CASE ~running
    BY <1>5, <2>2 DEF SilenceBegins, streamVars
  <2> QED  BY <2>1, <2>2
<1>6. CASE SilenceEnds
  BY <1>6 DEF SilenceEnds, Again, Pending
<1> QED  BY <1>1, <1>2, <1>3, <1>4, <1>5, <1>6 DEF Queue

\* A start queues the silence work unless it is pending; nothing else that
\* cancels it leaves the stream running.
LEMMA OthersKeepSilence ==
  ASSUME BufferGuarded, WorkqueueType, SilenceAlive,
         \/ Application \/ Finishing
         \/ Card \/ Tasklet \/ TimerFires \/ ReinitFinds \/ ReinitEnables
         \/ UNCHANGED vars
  PROVE  SilenceAlive'
<1> USE DEF SilenceAlive, SilencePending
<1>1. CASE Start
  <2>1. CASE timer \/ Pending("silence")
    BY <1>1, <2>1 DEF Start, Pending
  <2>2. CASE ~(timer \/ Pending("silence"))
    <3>1. wq' = Append(wq, "silence")
      BY <1>1, <2>2 DEF Start
    <3> QED  BY <3>1, PendingAppend DEF WorkqueueType, Works
  <2> QED  BY <2>1, <2>2
<1>2. CASE StopCall
  BY <1>2 DEF StopCall, Stop
<1>3. CASE FreeSilence \/ FreeBuffer \/ Close
  <2>1. ~running
    BY <1>3 DEF FreeSilence, FreeBuffer, Close, BufferGuarded
  <2> QED  BY <1>3, <2>1 DEF FreeSilence, FreeBuffer, Close
<1>4. CASE TaskletQueues
  <2>1. Pending("silence") => Pending("silence")'
    <3>1. CASE wq' = wq
      BY <3>1 DEF Pending
    <3>2. CASE wq' = Append(wq, "audio")
      BY <3>2, PendingAppend DEF WorkqueueType, Works
    <3> QED  BY <1>4, <3>1, <3>2 DEF TaskletQueues
  <2> QED  BY <1>4, <2>1 DEF TaskletQueues, streamVars
<1>5. CASE TimerFires
  <2>1. wq' = Append(wq, "silence")
    BY <1>5 DEF TimerFires
  <2> QED  BY <2>1, PendingAppend DEF WorkqueueType, Works
<1>6. CASE \/ Open \/ HwParams \/ StartCapture
           \/ Card \/ TaskletBegin \/ TaskletFills \/ ReinitFinds \/ ReinitEnables
           \/ UNCHANGED vars
  <2>1. UNCHANGED <<running, wq, timer, work>>
    BY <1>6 DEF Open, HwParams, StartCapture, Card, Silent, Packet, TaskletBegin, TaskletFills,
                ReinitFinds, ReinitEnables, vars, streamVars, workVars
  <2> QED  BY <2>1 DEF Pending
<1> QED  BY <1>1, <1>2, <1>3, <1>4, <1>5, <1>6 DEF Application, Finishing, Tasklet

\* While the stream runs the silence work is pending or runs, although the
\* trigger's cancel_delayed_work() may race the work queueing itself again: a
\* gap of the card's packets never goes unnoticed.
THEOREM SilenceStaysAlive == Spec => []SilenceAlive
<1>1. Init => WorkqueueType /\ SilenceAlive
  <2> SUFFICES ASSUME Init PROVE WorkqueueType /\ SilenceAlive
    OBVIOUS
  <2>1. wq = <<>> /\ timer = FALSE /\ running = FALSE
    BY DEF Init
  <2>2. WorkqueueType
    <3>1. wq \in Seq(Works)
      BY <2>1, EmptySeqTyped
    <3> QED  BY <2>1, <3>1 DEF WorkqueueType
  <2>3. SilenceAlive
    BY <2>1 DEF SilenceAlive
  <2> QED  BY <2>2, <2>3
<1>2. BufferGuarded /\ WorkqueueType /\ SilenceAlive /\ [Next]_vars => (WorkqueueType /\ SilenceAlive)'
  <2> SUFFICES ASSUME BufferGuarded, WorkqueueType, SilenceAlive, [Next]_vars
               PROVE  (WorkqueueType /\ SilenceAlive)'
    OBVIOUS
  <2>1. WorkqueueType'
    BY WorkqueueTyped
  <2>2. CASE Queue
    BY <2>1, <2>2, QueueKeepsSilence
  <2>3. CASE ~Queue
    BY <2>1, <2>3, OthersKeepSilence DEF Next
  <2> QED  BY <2>2, <2>3
<1> QED  BY <1>1, <1>2, BufferGuardedAlways, PTL DEF Spec

-----------------------------------------------------------------------------
(* The search for a slot.                                                  *)

\* A nonempty set of naturals up to n has a least element.  The intervals below
\* its members are finite sets, of which strict inclusion has a minimal one.
LEMMA LeastExists ==
  ASSUME NEW n \in Nat, NEW T \in SUBSET (0 .. n), T # {}
  PROVE  \E x \in T : \A y \in T : x <= y
<1> DEFINE S == 0 .. n
           Below(x) == 0 .. x
           D == {Below(x) : x \in T}
<1>1. IsWellFoundedOn(StrictSubsetOrdering(S), FiniteSubsetsOf(S))
  BY FS_StrictSubsetOrderingWellFounded
<1>2. D \subseteq FiniteSubsetsOf(S) /\ D # {}
  <2>1. \A x \in T : Below(x) \subseteq S
    OBVIOUS
  <2>2. IsFiniteSet(S)
    BY FS_Interval
  <2>3. \A x \in T : IsFiniteSet(Below(x))
    BY <2>1, <2>2, FS_Subset
  <2> QED  BY <2>1, <2>3 DEF FiniteSubsetsOf
<1>3. PICK d \in D : \A e \in D : ~(<<e, d>> \in StrictSubsetOrdering(S))
  <2> HIDE DEF D, S
  <2> QED  BY <1>1, <1>2, WFMin
<1>4. PICK x \in T : d = Below(x)
  OBVIOUS
<1>5. \A y \in T : ~(y < x)
  <2> SUFFICES ASSUME NEW y \in T, y < x PROVE FALSE
    OBVIOUS
  <2>1. Below(y) \in SUBSET S /\ d \in SUBSET S
    BY <1>2, <1>4
  <2>2. Below(y) \subseteq d /\ Below(y) # d
    <3>1. x \in d /\ x \notin Below(y)
      BY <1>4
    <3> QED  BY <1>4, <3>1
  <2>3. <<Below(y), d>> \in StrictSubsetOrdering(S)
    BY <2>1, <2>2 DEF StrictSubsetOrdering
  <2> QED  BY <1>3, <2>3
<1> QED  BY <1>5

\* The search for the first slot of a nonempty set finds a slot of it.
LEMMA FirstFromIn ==
  ASSUME NEW S \in SUBSET Slots, S # {}, NEW i \in Slots
  PROVE  FirstFrom(S, i) \in S
<1> DEFINE d(s) == (s - i) % N
           T == {d(s) : s \in S}
<1>1. N \in Nat \ {0}
  BY AudioAssumption
<1>2. \A s \in Slots : d(s) \in 0 .. N - 1
  BY <1>1 DEF Slots
<1>3. PICK x \in T : \A y \in T : x <= y
  <2>1. T \in SUBSET (0 .. N - 1) /\ T # {} /\ N - 1 \in Nat
    BY <1>1, <1>2
  <2> HIDE DEF T
  <2> QED  BY <2>1, LeastExists
<1>4. \E s \in S : \A t \in S : d(s) <= d(t)
  BY <1>3
<1> QED  BY <1>4 DEF FirstFrom

\* If slot i is in the set, the search from i finds slot i.
LEMMA FirstFromSelf ==
  ASSUME NEW S \in SUBSET Slots, NEW i \in S
  PROVE  FirstFrom(S, i) = i
<1>1. N \in Nat \ {0} /\ i \in Slots
  BY AudioAssumption
<1>2. \A s \in Slots : s # i => (s - i) % N # 0
  <2> SUFFICES ASSUME NEW s \in Slots, s # i PROVE (s - i) % N # 0
    OBVIOUS
  <2>1. CASE s > i
    <3>1. s - i \in 1 .. N - 1
      BY <1>1, <2>1 DEF Slots
    <3>2. (s - i) % N = s - i
      BY <1>1, <3>1
    <3> QED  BY <3>1, <3>2
  <2>2. CASE s < i
    <3>1. s - i + N \in 1 .. N - 1
      BY <1>1, <2>2 DEF Slots
    <3>2. (s - i) % N = s - i + N
      BY <1>1, <3>1, s - i \in Int DEF Slots
    <3> QED  BY <3>1, <3>2
  <2> QED  BY <1>1, <2>1, <2>2 DEF Slots
<1>3. (i - i) % N = 0
  BY <1>1 DEF Slots
<1>4. FirstFrom(S, i) \in S
  BY <1>1, FirstFromIn
<1>5. \E s \in S : \A t \in S : (s - i) % N <= (t - i) % N
  <2>1. \A t \in S : (t - i) % N >= 0
    BY <1>1 DEF Slots
  <2> QED  BY <1>3, <2>1
<1>6. (FirstFrom(S, i) - i) % N <= (i - i) % N
  BY <1>5 DEF FirstFrom
<1>7. PICK f \in Slots : f = FirstFrom(S, i)
  BY <1>4
<1>8. (f - i) % N \in Nat /\ (f - i) % N <= 0
  BY <1>1, <1>3, <1>6, <1>7 DEF Slots
<1> QED  BY <1>2, <1>7, <1>8

\* The slot after s, without the modulus.
LEMMA AfterIs ==
  ASSUME NEW s \in Slots
  PROVE  After(s) = (IF s = N - 1 THEN 0 ELSE s + 1) /\ After(s) \in Slots
<1>1. N \in Nat \ {0} /\ s \in 0 .. N - 1
  BY AudioAssumption DEF Slots
<1>2. CASE s = N - 1
  BY <1>1, <1>2 DEF After, Slots
<1>3. CASE s # N - 1
  BY <1>1, <1>3 DEF After, Slots
<1> QED  BY <1>2, <1>3

-----------------------------------------------------------------------------
(* Types.                                                                  *)

\* Taking a slot out of the order leaves a sequence of slots.
LEMMA FilledLessTyped ==
  ASSUME filled \in Seq(Slots), NEW s
  PROVE  FilledLess(s) \in Seq(Slots)
<1>1. CASE \E i \in DOMAIN filled : filled[i] = s
  <2>1. PICK i \in DOMAIN filled :
          FilledLess(s) = SubSeq(filled, 1, i - 1) \o SubSeq(filled, i + 1, Len(filled))
    BY <1>1 DEF FilledLess
  <2>2. i \in 1 .. Len(filled)
    OBVIOUS
  <2>3. SubSeq(filled, 1, i - 1) \in Seq(Slots) /\ SubSeq(filled, i + 1, Len(filled)) \in Seq(Slots)
    BY <2>2
  <2> QED  BY <2>1, <2>3
<1>2. CASE ~(\E i \in DOMAIN filled : filled[i] = s)
  BY <1>2 DEF FilledLess
<1> QED  BY <1>1, <1>2

\* The slot the work takes and the slot the tasklet takes are slots.
LEMMA SlotsFound ==
  ASSUME TypeOK
  PROVE  /\ Occupied # {} => Oldest \in Occupied
         /\ Slots \ Occupied # {} => FirstFrom(Slots \ Occupied, wr) \in Slots \ Occupied
         /\ Occupied \in SUBSET Slots
<1>1. Occupied \in SUBSET Slots /\ wr \in Slots /\ rd \in Slots
  BY DEF Occupied, TypeOK
<1> QED  BY <1>1, FirstFromIn DEF Oldest

\* A stop keeps the types of what it sets.
LEMMA StopTyped ==
  ASSUME TypeOK, Stop
  PROVE  /\ pcm' = "setup" /\ running' = FALSE
         /\ run' = FALSE /\ acap' \in BOOLEAN
         /\ since' \in 0 .. MaxGap
         /\ quiet' = FALSE /\ aligned' = FALSE /\ heard' = "well"
<1>1. acap' = FALSE \/ acap' = acap
  BY DEF Stop, StopCapture
<1>2. since' = 0 /\ 0 \in 0 .. MaxGap
  BY AudioAssumption DEF Stop
<1> QED  BY <1>1, <1>2 DEF Stop, StopCapture, TypeOK

\* The works keep the types.
LEMMA QueueTyped ==
  ASSUME TypeOK, Queue
  PROVE  TypeOK'
<1>0. WorkqueueType /\ WorkqueueType'
  BY WorkqueueTyped DEF TypeOK, WorkqueueType, Next
<1> USE <1>0, AudioAssumption DEF WorkqueueType
<1>1. CASE AudioBegins
  <2>2. work' = [what |-> "audio", deliver |-> running /\ HasBuffer, slot |-> -1, due |-> 0]
    BY <1>1 DEF AudioBegins, Resting
  <2>3. (running /\ HasBuffer) \in BOOLEAN
    BY Zenon
  <2>4. work' \in [what : Works \cup {"none"}, deliver : BOOLEAN, slot : Slots \cup {-1}, due : 0 .. MaxGap]
    <3>1. "audio" \in Works \cup {"none"} /\ -1 \in Slots \cup {-1} /\ 0 \in 0 .. MaxGap
      BY DEF Works
    <3> QED  BY <2>2, <2>3, <3>1, Zenon
  <2> QED  BY <1>1, <2>4 DEF AudioBegins, TypeOK, streamVars, captureVars, taskletVars, ringVars, timeVars,
                             startVars
<1>2. CASE AudioTakes
  <2>1. Oldest \in Slots
    BY <1>2, SlotsFound DEF AudioTakes
  <2>2. HeardFrom(Oldest) \in {"well", "old", "swapped"}
    BY DEF HeardFrom
  <2>3. since' \in 0 .. MaxGap /\ sil' \in 0 .. MaxGap /\ heard' \in {"well", "old", "swapped"}
    <3>1. CASE work.deliver
      <4>1. 0 \in 0 .. MaxGap
        OBVIOUS
      <4> QED  BY <1>2, <2>2, <3>1, <4>1 DEF AudioTakes, TypeOK
    <3>2. CASE ~work.deliver
      BY <1>2, <3>2 DEF AudioTakes, TypeOK
    <3> QED  BY <3>1, <3>2
  <2>4. work' \in [what : Works \cup {"none"}, deliver : BOOLEAN, slot : Slots \cup {-1}, due : 0 .. MaxGap]
    BY <1>2, <2>1 DEF AudioTakes, TypeOK
  <2> QED  BY <1>2, <2>3, <2>4 DEF AudioTakes, TypeOK, streamVars, captureVars, taskletVars, ringVars, startVars
<1>3. ASSUME work.slot # -1, SlotDone
      PROVE  /\ slots' \in [Slots -> Packets \cup {"free"}] /\ filled' \in Seq(Slots) /\ rd' \in Slots
             /\ work' \in [what : Works \cup {"none"}, deliver : BOOLEAN,
                           slot : Slots \cup {-1}, due : 0 .. MaxGap]
  <2>1. work.slot \in Slots
    BY <1>3 DEF TypeOK
  <2>2. rd' \in Slots /\ filled' \in Seq(Slots)
    BY <1>3, <2>1, AfterIs, FilledLessTyped DEF SlotDone, TypeOK
  <2> QED  BY <1>3, <2>2 DEF SlotDone, TypeOK
<1>4. CASE AudioNext
  BY <1>3, <1>4 DEF AudioNext, TypeOK, streamVars, captureVars, taskletVars, timeVars, startVars
<1>5. CASE AudioOverruns
  <2>1. Stop /\ SlotDone /\ work.slot # -1 /\ UNCHANGED <<call, reinit, stale, sched, copy, skip, wr, sil>>
    BY <1>5 DEF AudioOverruns, taskletVars
  <2> QED  BY <1>3, <2>1, StopTyped DEF TypeOK
<1>6. CASE AudioEnds
  BY <1>6 DEF AudioEnds, Resting, TypeOK, streamVars, captureVars, taskletVars, ringVars, timeVars, startVars
<1>7. CASE SilenceBegins
  <2>1. work' \in [what : Works \cup {"none"}, deliver : BOOLEAN, slot : Slots \cup {-1}, due : 0 .. MaxGap]
    <3>1. \A due \in GapPackets : due \in 0 .. MaxGap
      <4>1. since \in 0 .. MaxGap
        BY DEF TypeOK
      <4>2. GapPackets = (IF since = 0 THEN {0} ELSE IF since = 1 THEN {0, 1} ELSE {since})
        BY DEF GapPackets
      <4> QED  BY <4>1, <4>2
    <3>2. CASE running
      <4>1. PICK due \in GapPackets :
              work' = [Resting EXCEPT !.what = "silence", !.deliver = TRUE, !.due = due]
        BY <1>7, <3>2 DEF SilenceBegins
      <4>2. work' = [what |-> "silence", deliver |-> TRUE, slot |-> -1, due |-> due]
        BY <4>1 DEF Resting
      <4> QED  BY <3>1, <4>2 DEF Works
    <3>3. CASE ~running
      BY <1>7, <3>3 DEF SilenceBegins, TypeOK
    <3> QED  BY <3>2, <3>3
  <2>2. UNCHANGED <<streamVars, captureVars, taskletVars, ringVars, timeVars, startVars, heard>>
    BY <1>7 DEF SilenceBegins
  <2> QED  BY <2>1, <2>2 DEF TypeOK, streamVars, captureVars, taskletVars, ringVars, timeVars, startVars
<1>8. ASSUME SilenceDue PROVE sil + 1 \in 0 .. MaxGap
  BY <1>8 DEF SilenceDue, TypeOK
<1>9. CASE SilenceDelivers
  BY <1>8, <1>9 DEF SilenceDelivers, TypeOK, streamVars, captureVars, taskletVars, ringVars, workVars, startVars
<1>10. CASE SilenceOverruns
  <2>1. Stop /\ SilenceDue /\ sil' = sil + 1
        /\ UNCHANGED <<call, reinit, stale, sched, copy, skip, wr, rd, slots, filled, work>>
    BY <1>10 DEF SilenceOverruns, taskletVars, ringVars
  <2> QED  BY <1>8, <2>1, StopTyped DEF TypeOK
<1>11. CASE SilenceEnds
  BY <1>11 DEF SilenceEnds, Resting, TypeOK, streamVars, captureVars, taskletVars, ringVars, timeVars, startVars
<1> QED  BY <1>1, <1>2, <1>4, <1>5, <1>6, <1>7, <1>9, <1>10, <1>11 DEF Queue

\* The callbacks keep the types.
LEMMA CallbacksTyped ==
  ASSUME TypeOK, Application \/ Finishing
  PROVE  TypeOK'
<1>0. WorkqueueType'
  BY WorkqueueTyped DEF TypeOK, WorkqueueType, Next
<1> USE <1>0, AudioAssumption DEF WorkqueueType
<1>1. CASE Open \/ HwParams \/ FreeSilence \/ Close \/ FreeBuffer
  BY <1>1 DEF Open, HwParams, FreeSilence, Close, FreeBuffer, TypeOK, captureVars, taskletVars, ringVars,
              workVars, timeVars, startVars
<1>2. CASE Start
  <2>1. quiet' \in BOOLEAN
    BY <1>2, Zenon DEF Start
  <2>2. since' \in 0 .. MaxGap /\ sil' \in 0 .. MaxGap
    BY <1>2 DEF Start
  <2> QED  BY <1>2, <2>1, <2>2 DEF Start, TypeOK, captureVars, taskletVars, ringVars
<1>3. CASE StopCall
  <2>1. Stop /\ UNCHANGED <<call, reinit, stale, sched, copy, skip, wr, rd, slots, filled, work, sil>>
    BY <1>3 DEF StopCall, taskletVars, ringVars
  <2> QED  BY <2>1, StopTyped DEF TypeOK
<1>4. CASE StartCapture
  <2>1. CASE acap
    BY <1>4, <2>1 DEF StartCapture, TypeOK, ringVars, workVars, timeVars
  <2>2. CASE ~acap
    <3>1. slots' \in [Slots -> Packets \cup {"free"}] /\ rd' \in Slots /\ skip' \in 0 .. StalePkts
      BY <1>4, <2>2 DEF StartCapture, SlotsAtStart, Slots
    <3>2. filled' \in Seq(Slots)
      <4>1. <<>> \in Seq(Slots)
        OBVIOUS
      <4> QED  BY <1>4, <2>2, <4>1 DEF StartCapture, TypeOK
    <3>3. sched' \in Packets \cup {"none"} /\ copy' \in [pkt : Packets \cup {"none", "filled"}, slot : Slots]
      BY <1>4, <2>2 DEF StartCapture, Aged, TypeOK, Packets
    <3>4. stale' \in 0 .. MaxStale /\ run' \in BOOLEAN /\ acap' \in BOOLEAN /\ call' = "none"
      BY <1>4, <2>2 DEF StartCapture, CardEnabled
    <3>5. aligned' \in BOOLEAN /\ heard' = "well"
      BY <1>4, <2>2 DEF StartCapture
    <3> QED  BY <1>4, <3>1, <3>2, <3>3, <3>4, <3>5 DEF StartCapture, TypeOK, workVars, timeVars
  <2> QED  BY <2>1, <2>2
<1> QED  BY <1>1, <1>2, <1>3, <1>4 DEF Application, Finishing

\* The card, the tasklet, the timer and the status thread keep the types.
LEMMA OthersTyped ==
  ASSUME TypeOK,
         \/ Card \/ Tasklet \/ TimerFires \/ ReinitFinds \/ ReinitEnables
         \/ UNCHANGED vars
  PROVE  TypeOK'
<1>0. WorkqueueType'
  BY WorkqueueTyped DEF TypeOK, WorkqueueType, Next
<1> USE <1>0, AudioAssumption DEF WorkqueueType
<1>1. CASE Silent
  BY <1>1 DEF Silent, TypeOK, streamVars, captureVars, taskletVars, ringVars, workVars, startVars
<1>2. CASE Packet
  BY <1>2 DEF Packet, CardPacket, Packets, TypeOK, streamVars, ringVars, workVars, startVars
<1>3. CASE TaskletBegin
  <2>1. skip' \in 0 .. StalePkts
    BY <1>3 DEF TaskletBegin, Skipping, TypeOK
  <2>2. copy' \in [pkt : Packets \cup {"none", "filled"}, slot : Slots]
    BY <1>3, SlotsFound DEF TaskletBegin, TypeOK, Packets
  <2> QED  BY <1>3, <2>1, <2>2 DEF TaskletBegin, TypeOK, streamVars, captureVars, ringVars, workVars, timeVars, startVars
<1>4. CASE TaskletFills
  <2>1. copy.slot \in Slots /\ After(copy.slot) \in Slots
    BY AfterIs DEF TypeOK
  <2>2. filled' \in Seq(Slots) /\ slots' \in [Slots -> Packets \cup {"free"}]
    BY <1>4, <2>1 DEF TaskletFills, TypeOK
  <2>3. copy' \in [pkt : Packets \cup {"none", "filled"}, slot : Slots]
    BY <1>4 DEF TaskletFills, Filled, Slots
  <2> QED  BY <1>4, <2>1, <2>2, <2>3 DEF TaskletFills, TypeOK, streamVars, captureVars, workVars, timeVars, startVars
<1>5. CASE TaskletQueues
  <2>1. copy' \in [pkt : Packets \cup {"none", "filled"}, slot : Slots]
    BY <1>5 DEF TaskletQueues, NoCopy, Slots
  <2> QED  BY <1>5, <2>1 DEF TaskletQueues, TypeOK, streamVars, captureVars, ringVars, timeVars, startVars
<1>6. CASE TimerFires
  BY <1>6 DEF TimerFires, TypeOK, streamVars, captureVars, taskletVars, ringVars, timeVars, startVars
<1>7. CASE ReinitFinds
  BY <1>7 DEF ReinitFinds, TypeOK, streamVars, taskletVars, ringVars, workVars, timeVars, startVars
<1>8. CASE ReinitEnables
  <2>1. stale' \in 0 .. MaxStale /\ acap' \in BOOLEAN
    BY <1>8 DEF ReinitEnables, CardEnabled
  <2>2. /\ UNCHANGED <<pcm, call, running, run, sched, copy, skip, wr, rd, slots, filled>>
        /\ UNCHANGED <<wq, timer, work, since, sil, aligned, heard>>
        /\ reinit' = "idle" /\ quiet' = FALSE
    BY <1>8 DEF ReinitEnables, streamVars, taskletVars, ringVars, workVars, timeVars
  <2>3. acap' \in BOOLEAN /\ quiet' \in BOOLEAN /\ reinit' \in {"idle", "enable"}
    BY <2>1, <2>2
  <2>4. /\ pcm' \in {"closed", "open", "setup", "running"}
        /\ call' \in {"none", "starting", "freeing"} /\ running' \in BOOLEAN
        /\ run' \in BOOLEAN
    BY <2>2 DEF TypeOK
  <2>5. /\ sched' \in Packets \cup {"none"}
        /\ copy' \in [pkt : Packets \cup {"none", "filled"}, slot : Slots] /\ skip' \in 0 .. StalePkts
        /\ wr' \in Slots /\ rd' \in Slots
    BY <2>2 DEF TypeOK
  <2>6. slots' \in [Slots -> Packets \cup {"free"}] /\ filled' \in Seq(Slots)
    BY <2>2 DEF TypeOK
  <2>7. work' \in [what : Works \cup {"none"}, deliver : BOOLEAN, slot : Slots \cup {-1}, due : 0 .. MaxGap]
    BY <2>2 DEF TypeOK
  <2>8. since' \in 0 .. MaxGap /\ sil' \in 0 .. MaxGap /\ aligned' \in BOOLEAN
        /\ heard' \in {"well", "old", "swapped"}
    BY <2>2 DEF TypeOK
  <2> QED  BY <2>1, <2>3, <2>4, <2>5, <2>6, <2>7, <2>8 DEF TypeOK
<1>9. CASE UNCHANGED vars
  BY <1>9 DEF vars, TypeOK, streamVars, captureVars, taskletVars, ringVars, workVars, timeVars, startVars
<1> QED  BY <1>1, <1>2, <1>3, <1>4, <1>5, <1>6, <1>7, <1>8, <1>9 DEF Card, Tasklet

\* Every variable of AudioPipeline keeps its type; in particular both indexes,
\* the slot of the copy and the slot in the work's hands stay inside the ring.
THEOREM AudioTypeCorrect == Spec => []TypeOK
<1>1. Init => TypeOK
  <2> SUFFICES ASSUME Init PROVE TypeOK
    OBVIOUS
  <2>1. 0 \in Slots /\ 0 \in 0 .. MaxStale /\ 0 \in 0 .. StalePkts /\ 0 \in 0 .. MaxGap
    BY AudioAssumption DEF Slots
  <2>2. wq \in Seq(Works) /\ filled \in Seq(Slots)
    <3>1. <<>> \in Seq(Slots)
      OBVIOUS
    <3> QED  BY <3>1, EmptySeqTyped DEF Init
  <2>3. work \in [what : Works \cup {"none"}, deliver : BOOLEAN, slot : Slots \cup {-1}, due : 0 .. MaxGap]
    BY <2>1 DEF Init, Resting
  <2>4. copy \in [pkt : Packets \cup {"none", "filled"}, slot : Slots]
    BY <2>1 DEF Init, NoCopy
  <2>5. slots \in [Slots -> Packets \cup {"free"}]
    BY DEF Init
  <2> QED  BY <2>1, <2>2, <2>3, <2>4, <2>5 DEF Init, TypeOK
<1>2. TypeOK /\ [Next]_vars => TypeOK'
  <2> SUFFICES ASSUME TypeOK, [Next]_vars PROVE TypeOK'
    OBVIOUS
  <2>1. CASE Queue
    BY <2>1, QueueTyped
  <2>2. CASE Application \/ Finishing
    BY <2>2, CallbacksTyped
  <2>3. CASE Card \/ Tasklet \/ TimerFires \/ ReinitFinds \/ ReinitEnables \/ UNCHANGED vars
    BY <2>3, OthersTyped
  <2> QED  BY <2>1, <2>2, <2>3 DEF Next
<1> QED  BY <1>1, <1>2, PTL DEF Spec

-----------------------------------------------------------------------------
(* No packet is stranded.                                                  *)

\* Capture runs only under a running stream, and not before the trigger ended.
RunsUnderStream ==
  /\ run => pcm = "running"
  /\ call = "starting" => ~run

\* Only the trigger switches capture on and off.
LEMMA RunKeepsUnderStream ==
  ASSUME BufferGuarded, RunsUnderStream, [Next]_vars
  PROVE  RunsUnderStream'
<1> USE DEF RunsUnderStream
<1>1. CASE Queue
  <2>1. CASE AudioOverruns \/ SilenceOverruns
    BY <2>1 DEF AudioOverruns, SilenceOverruns, Stop, StopCapture
  <2>2. CASE ~(AudioOverruns \/ SilenceOverruns)
    <3>1. UNCHANGED <<streamVars, captureVars>>
      BY <1>1, <2>2 DEF Queue, AudioBegins, AudioTakes, AudioNext, AudioEnds, SilenceBegins, SilenceDelivers,
                        SilenceEnds
    <3> QED  BY <3>1 DEF streamVars, captureVars
  <2> QED  BY <2>1, <2>2
<1>2. CASE Application \/ Finishing
  <2>1. CASE StopCall
    BY <2>1 DEF StopCall, Stop, StopCapture
  <2>2. CASE StartCapture
    BY <2>2 DEF StartCapture, BufferGuarded
  <2>3. CASE Open \/ HwParams \/ Start \/ FreeSilence \/ Close \/ FreeBuffer
    <3>1. run' = run /\ (pcm' = pcm \/ pcm # "running") /\ (call' = "starting" => pcm = "setup" \/ call' = call)
      BY <2>3 DEF Open, HwParams, Start, FreeSilence, Close, FreeBuffer, BufferGuarded, captureVars
    <3> QED  BY <3>1
  <2> QED  BY <1>2, <2>1, <2>2, <2>3 DEF Application, Finishing
<1>3. CASE Card \/ Tasklet \/ TimerFires \/ ReinitFinds \/ ReinitEnables \/ UNCHANGED vars
  BY <1>3 DEF Card, Silent, Packet, Tasklet, TaskletBegin, TaskletFills, TaskletQueues, TimerFires,
              ReinitFinds, ReinitEnables, vars, streamVars, captureVars
<1> QED  BY <1>1, <1>2, <1>3 DEF Next

\* The works' steps strand no packet: the audio work ends on an empty ring.
LEMMA QueueStrandsNone ==
  ASSUME RunsUnderStream, WorkqueueType, NoPacketStranded, Queue
  PROVE  NoPacketStranded'
<1> USE DEF NoPacketStranded
<1>1. CASE AudioBegins
  BY <1>1 DEF AudioBegins, Resting
<1>2. CASE AudioTakes
  <2>1. work'.what = "audio"
    BY <1>2 DEF AudioTakes
  <2> QED  BY <2>1
<1>3. CASE AudioNext
  <2>1. work'.what = "audio"
    BY <1>3 DEF AudioNext, SlotDone
  <2> QED  BY <2>1
<1>4. CASE AudioOverruns \/ SilenceOverruns
  BY <1>4 DEF AudioOverruns, SilenceOverruns, Stop, StopCapture
<1>5. CASE AudioEnds
  <2>1. Occupied' = {}
    BY <1>5 DEF AudioEnds, Drained, Occupied, ringVars
  <2> QED  BY <2>1
<1>6. CASE SilenceBegins
  <2>1. Pending("audio") => Pending("audio")'
    BY <1>6, PendingTail DEF SilenceBegins, WorkqueueType, Works
  <2>2. work.what # "audio" /\ Occupied' = Occupied /\ UNCHANGED <<run, call, copy>>
    BY <1>6 DEF SilenceBegins, Occupied, ringVars, captureVars, streamVars, taskletVars
  <2> QED  BY <2>1, <2>2
<1>7. CASE SilenceDelivers \/ SilenceEnds
  <2>1. work.what # "audio" /\ UNCHANGED <<run, call, copy, wq, slots>>
    BY <1>7 DEF SilenceDelivers, SilenceEnds, ringVars, captureVars, streamVars, taskletVars, workVars
  <2> QED  BY <2>1 DEF Occupied, Pending
<1> QED  BY <1>1, <1>2, <1>3, <1>4, <1>5, <1>6, <1>7 DEF Queue

\* The other steps strand no packet: the tasklet that filled a slot queues the
\* work, a start empties the ring.
LEMMA OthersStrandNone ==
  ASSUME RunsUnderStream, RunsUnderStream', WorkqueueType, NoPacketStranded,
         \/ Application \/ Finishing
         \/ Card \/ Tasklet \/ TimerFires \/ ReinitFinds \/ ReinitEnables
         \/ UNCHANGED vars
  PROVE  NoPacketStranded'
<1> USE DEF NoPacketStranded
<1>1. CASE Open \/ HwParams \/ Start \/ FreeSilence \/ Close \/ FreeBuffer \/ StopCall
  <2>1. CASE call' = "starting"
    BY <2>1
  <2>2. CASE Open \/ HwParams \/ FreeSilence \/ Close \/ FreeBuffer \/ StopCall
    BY <2>2 DEF RunsUnderStream, Open, HwParams, FreeSilence, Close, FreeBuffer, StopCall, Stop, StopCapture
  <2> QED  BY <1>1, <2>1, <2>2 DEF Start
<1>2. CASE StartCapture
  <2>1. CASE acap
    BY <1>2, <2>1 DEF StartCapture, RunsUnderStream
  <2>2. CASE ~acap
    <3>1. Occupied' = {}
      BY <1>2, <2>2 DEF StartCapture, Occupied, SlotsAtStart
    <3> QED  BY <3>1
  <2> QED  BY <2>1, <2>2
<1>3. CASE TaskletBegin
  <2>1. copy # Filled /\ UNCHANGED <<run, call, wq, work, slots>>
    BY <1>3 DEF TaskletBegin, Filled, ringVars, captureVars, streamVars, workVars
  <2> QED  BY <2>1 DEF Occupied, Pending
<1>4. CASE TaskletFills
  BY <1>4 DEF TaskletFills
<1>5. CASE TaskletQueues
  <2>1. Pending("audio")'
    <3>1. CASE Pending("audio")
      BY <1>5, <3>1 DEF TaskletQueues, Pending
    <3>2. CASE ~Pending("audio")
      BY <1>5, <3>2, PendingAppend DEF TaskletQueues, WorkqueueType, Works
    <3> QED  BY <3>1, <3>2
  <2> QED  BY <2>1
<1>6. CASE TimerFires
  <2>1. Pending("audio") => Pending("audio")'
    BY <1>6, PendingAppend DEF TimerFires, WorkqueueType, Works
  <2>2. UNCHANGED <<run, call, copy, work, slots>>
    BY <1>6 DEF TimerFires, ringVars, captureVars, streamVars, taskletVars
  <2> QED  BY <2>1, <2>2 DEF Occupied
<1>7. CASE Card \/ ReinitFinds \/ ReinitEnables \/ UNCHANGED vars
  <2>1. UNCHANGED <<run, call, copy, wq, work, slots>>
    BY <1>7 DEF Card, Silent, Packet, ReinitFinds, ReinitEnables, vars, ringVars, captureVars, streamVars,
                taskletVars, workVars
  <2> QED  BY <2>1 DEF Occupied, Pending
<1> QED  BY <1>1, <1>2, <1>3, <1>4, <1>5, <1>6, <1>7 DEF Application, Finishing, Tasklet

\* "Left packets waiting for the next IRQ" (audio_data_process): a slot is
\* filled only while a run of the work that drains it is pending, runs, or is
\* about to be queued, for any number of slots.
THEOREM NoPacketStrandedAlways == Spec => []NoPacketStranded
<1>1. Init => RunsUnderStream /\ NoPacketStranded
  BY DEF Init, RunsUnderStream, NoPacketStranded
<1>2. TypeOK /\ BufferGuarded /\ RunsUnderStream /\ NoPacketStranded /\ [Next]_vars =>
        (RunsUnderStream /\ NoPacketStranded)'
  <2> SUFFICES ASSUME TypeOK, BufferGuarded, RunsUnderStream, NoPacketStranded, [Next]_vars
               PROVE  (RunsUnderStream /\ NoPacketStranded)'
    OBVIOUS
  <2>1. WorkqueueType
    BY DEF TypeOK, WorkqueueType
  <2>2. RunsUnderStream'
    BY RunKeepsUnderStream
  <2>3. CASE Queue
    BY <2>1, <2>2, <2>3, QueueStrandsNone
  <2>4. CASE ~Queue
    BY <2>1, <2>2, <2>4, OthersStrandNone DEF Next
  <2> QED  BY <2>3, <2>4
<1> QED  BY <1>1, <1>2, AudioTypeCorrect, BufferGuardedAlways, PTL DEF Spec

-----------------------------------------------------------------------------
(* No more silence than time.                                              *)

\* After a start that found nothing in flight, what a silence work will deliver
\* is bounded by the time since the last packet.
DueInGap == quiet /\ work.what = "silence" => work.due <= since
GapInv == SilenceInGap /\ DueInGap

\* Every step keeps the bound: only the audio work, which never runs together
\* with a silence work, sets the clock back.
LEMMA GapKept ==
  ASSUME TypeOK, GapInv, [Next]_vars
  PROVE  GapInv'
<1> USE DEF GapInv, SilenceInGap, DueInGap
<1>0. since \in Nat /\ sil \in Nat /\ work.due \in Nat
  BY DEF TypeOK
<1>1. CASE Silent
  BY <1>0, <1>1 DEF Silent, startVars, workVars
<1>2. CASE Packet
  BY <1>0, <1>2 DEF Packet, startVars, workVars
<1>3. CASE AudioBegins \/ AudioNext \/ AudioEnds
  <2>1. work'.what # "silence" /\ UNCHANGED <<quiet, since, sil>>
    <3>1. CASE AudioBegins \/ AudioEnds
      <4>1. work'.what # "silence"
        <5>1. CASE AudioBegins
          <6>1. work' = [what |-> "audio", deliver |-> running /\ HasBuffer, slot |-> -1, due |-> 0]
            BY <5>1 DEF AudioBegins, Resting
          <6> QED  BY <6>1, Zenon
        <5>2. CASE AudioEnds
          BY <5>2 DEF AudioEnds, Resting
        <5> QED  BY <3>1, <5>1, <5>2
      <4> QED  BY <3>1, <4>1 DEF AudioBegins, AudioEnds, timeVars, startVars
    <3>2. CASE AudioNext
      <4>1. work'.what = work.what
        BY <3>2 DEF AudioNext, SlotDone, TypeOK
      <4> QED  BY <3>2, <4>1 DEF AudioNext, timeVars, startVars
    <3> QED  BY <1>3, <3>1, <3>2
  <2> QED  BY <2>1
<1>4. CASE AudioTakes
  <2>1. work'.what # "silence" /\ quiet' = quiet /\ ((sil' = 0 /\ since' = 0) \/ UNCHANGED <<since, sil>>)
    BY <1>4 DEF AudioTakes, startVars, TypeOK
  <2> QED  BY <2>1
<1>5. CASE AudioOverruns \/ SilenceOverruns \/ StopCall
  BY <1>5 DEF AudioOverruns, SilenceOverruns, StopCall, Stop
<1>6. CASE SilenceBegins
  <2>1. UNCHANGED <<quiet, since, sil>> /\ work.what # "silence"
    BY <1>6 DEF SilenceBegins, timeVars, startVars
  <2>2. work'.what = "silence" => work'.due <= since
    <3>1. CASE running
      <4>1. PICK due \in GapPackets :
              work' = [Resting EXCEPT !.what = "silence", !.deliver = TRUE, !.due = due]
        BY <1>6, <3>1 DEF SilenceBegins
      <4>2. work'.due = due
        BY <4>1 DEF Resting
      <4>3. GapPackets = (IF since = 0 THEN {0} ELSE IF since = 1 THEN {0, 1} ELSE {since})
        BY DEF GapPackets
      <4> QED  BY <1>0, <4>2, <4>3
    <3>2. CASE ~running
      BY <1>6, <2>1, <3>2 DEF SilenceBegins
    <3> QED  BY <3>1, <3>2
  <2> QED  BY <2>1, <2>2
<1>7. CASE SilenceDelivers
  BY <1>0, <1>7 DEF SilenceDelivers, SilenceDue, workVars, startVars
<1>8. CASE SilenceEnds
  <2>1. work'.what # "silence" /\ UNCHANGED <<quiet, since, sil>>
    BY <1>8 DEF SilenceEnds, Resting, timeVars, startVars
  <2> QED  BY <2>1
<1>9. CASE Start
  BY <1>9 DEF Start
<1>10. CASE ReinitEnables
  BY <1>10 DEF ReinitEnables
<1>11. CASE \/ Tasklet \/ TimerFires \/ ReinitFinds \/ UNCHANGED vars
            \/ Open \/ HwParams \/ FreeSilence \/ Close \/ Finishing
  <2>1. UNCHANGED <<quiet, since, sil, work>>
    BY <1>11 DEF Tasklet, TaskletBegin, TaskletFills, TaskletQueues, TimerFires, ReinitFinds, vars, Open,
                 HwParams, FreeSilence, Close, Finishing, StartCapture, FreeBuffer, timeVars, startVars,
                 workVars
  <2> QED  BY <2>1
<1> QED  BY <1>1, <1>2, <1>3, <1>4, <1>5, <1>6, <1>7, <1>8, <1>9, <1>10, <1>11
         DEF Next, Card, Queue, Application

\* "Whole packets of silence from the last packet's time" (hws_audio_silence_work):
\* after a start that found nothing in flight, the silence delivered since the
\* last packet is never more than the packet times that passed since.
THEOREM SilenceInGapAlways == Spec => []SilenceInGap
<1>1. Init => GapInv
  BY DEF Init, GapInv, SilenceInGap, DueInGap
<1>2. TypeOK /\ GapInv /\ [Next]_vars => GapInv'
  BY GapKept
<1>3. GapInv => SilenceInGap
  BY DEF GapInv
<1> QED  BY <1>1, <1>2, <1>3, AudioTypeCorrect, PTL DEF Spec

-----------------------------------------------------------------------------
(* A clean start.                                                          *)

\* Of a start that found nothing in flight: before capture is on nothing moves;
\* then the old packets the card may still send, and the one the tasklet may
\* still find, are no more than the packets still to be skipped.
ToComeOld == stale + (IF sched = "old" THEN 1 ELSE 0)

IdleBefore ==
  /\ copy.pkt = "none" /\ work.what # "audio" /\ ~Pending("audio")
  /\ call = "starting" /\ ~acap => sched = "none"

OldSkipped ==
  /\ \A s \in Slots : slots[s] # "old"
  /\ copy.pkt # "old"
  /\ sched = "new" => stale = 0
  /\ ToComeOld <= skip

Clean ==
  /\ run => acap
  /\ quiet => pcm = "running" /\ heard # "old"
  /\ quiet /\ ~run => IdleBefore
  /\ quiet /\ run => OldSkipped

\* Nothing of the queue is audio after its head left it if nothing was before.
LEMMA NotPendingTail ==
  ASSUME NEW w \in Works, wq \in Seq(Works), wq # <<>>, wq' = Tail(wq), ~Pending(w)
  PROVE  ~Pending(w)'
<1> SUFFICES ASSUME NEW i \in DOMAIN wq', wq'[i] = w PROVE FALSE
  BY DEF Pending
<1>1. i \in 1 .. Len(wq) - 1 /\ wq'[i] = wq[i + 1] /\ i + 1 \in DOMAIN wq
  OBVIOUS
<1> QED  BY <1>1 DEF Pending

\* The works keep a start clean: what the ring holds is new.
LEMMA QueueClean ==
  ASSUME TypeOK, Clean, Queue
  PROVE  Clean'
<1> USE DEF Clean, OldSkipped, IdleBefore, ToComeOld
<1>1. CASE AudioOverruns \/ SilenceOverruns
  BY <1>1 DEF AudioOverruns, SilenceOverruns, Stop, StopCapture
<1>2. CASE AudioBegins
  <2>1. quiet => run
    <3>1. Pending("audio")
      <4>1. 1 \in DOMAIN wq /\ wq[1] = "audio"
        BY <1>2 DEF AudioBegins, TypeOK
      <4> QED  BY <4>1 DEF Pending
    <3> QED  BY <3>1
  <2> QED  BY <1>2, <2>1 DEF AudioBegins, streamVars, captureVars, taskletVars, ringVars, startVars
<1>3. CASE AudioTakes
  <2>1. Oldest \in Slots /\ (quiet => run)
    BY <1>3, SlotsFound DEF AudioTakes
  <2>2. quiet => heard' # "old"
    <3>1. quiet => HeardFrom(Oldest) # "old"
      BY <2>1 DEF HeardFrom
    <3> QED  BY <1>3, <3>1 DEF AudioTakes
  <2> QED  BY <1>3, <2>1, <2>2 DEF AudioTakes, streamVars, captureVars, taskletVars, ringVars, startVars
<1>4. CASE AudioNext
  <2>1. quiet => run
    BY <1>4 DEF AudioNext
  <2>2. \A s \in Slots : slots'[s] # "old" \/ slots'[s] = slots[s]
    BY <1>4 DEF AudioNext, SlotDone, TypeOK
  <2> QED  BY <1>4, <2>1, <2>2 DEF AudioNext, streamVars, captureVars, taskletVars, startVars
<1>5. CASE AudioEnds
  BY <1>5 DEF AudioEnds, streamVars, captureVars, taskletVars, ringVars, startVars
<1>6. CASE SilenceBegins
  <2>1. work'.what # "audio"
    <3>1. CASE running
      <4>1. PICK due \in GapPackets :
              work' = [Resting EXCEPT !.what = "silence", !.deliver = TRUE, !.due = due]
        BY <1>6, <3>1 DEF SilenceBegins
      <4> QED  BY <4>1 DEF Resting
    <3>2. CASE ~running
      BY <1>6, <3>2 DEF SilenceBegins
    <3> QED  BY <3>1, <3>2
  <2>2. ~Pending("audio") => ~Pending("audio")'
    BY <1>6, NotPendingTail DEF SilenceBegins, Works, TypeOK
  <2> QED  BY <1>6, <2>1, <2>2 DEF SilenceBegins, streamVars, captureVars, taskletVars, ringVars, startVars
<1>7. CASE SilenceDelivers
  BY <1>7 DEF SilenceDelivers, streamVars, captureVars, taskletVars, ringVars, workVars, startVars, Pending
<1>8. CASE SilenceEnds
  <2>1. work'.what # "audio" /\ wq' = wq
    BY <1>8 DEF SilenceEnds, Resting
  <2> QED  BY <1>8, <2>1 DEF SilenceEnds, streamVars, captureVars, taskletVars, ringVars, startVars, Pending
<1> QED  BY <1>1, <1>2, <1>3, <1>4, <1>5, <1>6, <1>7, <1>8 DEF Queue

\* The callbacks keep a start clean: StartAudioCapture() empties the ring and
\* skips as many packets as the card may send from before.
LEMMA CallbacksClean ==
  ASSUME TypeOK, BufferGuarded, RunsUnderStream, Clean, MaxStale <= StalePkts, Application \/ Finishing
  PROVE  Clean'
<1> USE DEF Clean, OldSkipped, IdleBefore, ToComeOld
<1>1. CASE Open \/ HwParams \/ FreeSilence \/ Close \/ FreeBuffer
  <2>1. ~run /\ ~quiet /\ UNCHANGED <<run, acap, quiet>>
    <3>1. pcm # "running"
      BY <1>1 DEF Open, HwParams, FreeSilence, Close, FreeBuffer, BufferGuarded
    <3> QED  BY <1>1, <3>1 DEF RunsUnderStream, Open, HwParams, FreeSilence, Close, FreeBuffer, captureVars, startVars
  <2> QED  BY <2>1
<1>2. CASE Start
  <2>1. ~run /\ UNCHANGED <<run, acap>> /\ pcm' = "running" /\ heard' = "well"
    BY <1>2 DEF Start, RunsUnderStream, captureVars
  <2>2. ASSUME quiet' PROVE IdleBefore'
    <3>1. sched = "none" /\ copy.pkt = "none" /\ work.what = "none" /\ ~Pending("audio")
      BY <1>2, <2>2 DEF Start
    <3>2. ~Pending("audio")'
      <4>1. CASE wq' = wq
        BY <3>1, <4>1 DEF Pending
      <4>2. CASE wq' = Append(wq, "silence")
        BY <3>1, <4>2, PendingAppend DEF Works, TypeOK
      <4> QED  BY <1>2, <4>1, <4>2 DEF Start
    <3> QED  BY <1>2, <3>1, <3>2 DEF Start, taskletVars
  <2> QED  BY <2>1, <2>2
<1>3. CASE StopCall
  BY <1>3 DEF StopCall, Stop, StopCapture
<1>4. CASE StartCapture /\ acap
  <2>1. UNCHANGED <<run, acap, quiet, pcm, heard, copy, sched, stale, skip, slots, work, wq>> /\ call' = "none"
    BY <1>4 DEF StartCapture, ringVars, workVars
  <2> QED  BY <2>1 DEF Pending
<1>5. CASE StartCapture /\ ~acap
  <2>1. run' = TRUE /\ acap' = TRUE /\ stale' \in 1 .. MaxStale /\ skip' = StalePkts /\ heard' = "well"
    BY <1>5 DEF StartCapture, CardEnabled
  <2>2. UNCHANGED <<quiet, pcm>> /\ call = "starting" /\ ~run
    BY <1>5 DEF StartCapture
  <2>3. \A s \in Slots : slots'[s] # "old"
    BY <1>5 DEF StartCapture, SlotsAtStart
  <2>4. quiet => sched' = "none" /\ copy'.pkt = "none"
    <3>1. quiet => sched = "none" /\ copy.pkt = "none"
      BY <1>5, <2>2
    <3> QED  BY <1>5, <3>1 DEF StartCapture, Aged, TypeOK
  <2>5. stale' <= skip'
    BY <2>1, AudioAssumption
  <2>6. ASSUME quiet PROVE ToComeOld' <= skip'
    <3>1. ToComeOld' = stale' + 0
      BY <2>4, <2>6
    <3>2. stale' \in Nat
      BY <2>1, AudioAssumption
    <3> HIDE DEF ToComeOld
    <3> QED  BY <2>5, <3>1, <3>2
  <2>7. quiet' => OldSkipped'
    <3>1. quiet' => ToComeOld' <= skip'
      BY <2>2, <2>6
    <3>2. quiet' => /\ \A s \in Slots : slots'[s] # "old"
                    /\ copy'.pkt # "old"
                    /\ sched' # "new"
      BY <2>2, <2>3, <2>4
    <3> QED  BY <3>1, <3>2
  <2> QED  BY <2>1, <2>2, <2>7
<1> QED  BY <1>1, <1>2, <1>3, <1>4, <1>5 DEF Application, Finishing

\* The card, the tasklet, the timer and the status thread keep a start clean: a
\* packet is taken only once no old one can come.
LEMMA OthersClean ==
  ASSUME TypeOK, Clean,
         \/ Card \/ Tasklet \/ TimerFires \/ ReinitFinds \/ ReinitEnables
         \/ UNCHANGED vars
  PROVE  Clean'
<1> USE DEF Clean, OldSkipped, IdleBefore, ToComeOld
<1>0. stale \in Nat /\ skip \in Nat /\ sched \in {"none", "old", "new"}
  BY DEF TypeOK, Packets
<1>1. CASE Silent \/ ReinitFinds \/ UNCHANGED vars
  <2>1. UNCHANGED <<run, acap, quiet, pcm, heard, copy, sched, stale, skip, slots, work, wq, call>>
    BY <1>1 DEF Silent, ReinitFinds, vars, streamVars, captureVars, taskletVars, ringVars, workVars, startVars
  <2> QED  BY <2>1 DEF Pending
<1>2. CASE Packet
  <2>1. UNCHANGED <<run, acap, quiet, pcm, heard, copy, skip, slots, work, wq, call>> /\ acap
    BY <1>2 DEF Packet, streamVars, ringVars, workVars, startVars
  <2>2. ToComeOld' <= ToComeOld \/ ~(sched = "new" => stale = 0)
    BY <1>0, <1>2 DEF Packet, CardPacket
  <2>3. (sched = "new" => stale = 0) => (sched' = "new" => stale' = 0)
    BY <1>0, <1>2 DEF Packet, CardPacket
  <2>4. ToComeOld \in Nat /\ ToComeOld' \in Nat
    BY <1>0, <1>2 DEF Packet, CardPacket
  <2> QED  BY <1>0, <2>1, <2>2, <2>3, <2>4 DEF Pending
<1>3. CASE TaskletBegin
  <2>1. UNCHANGED <<run, acap, quiet, pcm, heard, stale, slots, work, wq, call>> /\ sched' = "none" /\ sched # "none"
    BY <1>3 DEF TaskletBegin, streamVars, captureVars, ringVars, workVars, startVars
  <2>2. CASE run /\ quiet
    <3>1. skip' \in Nat /\ ToComeOld' <= skip'
      BY <1>0, <1>3, <2>1, <2>2 DEF TaskletBegin, Skipping, Wanted
    <3>2. copy'.pkt # "old"
      BY <1>0, <1>3, <2>2 DEF TaskletBegin, Skipping, Wanted
    <3> QED  BY <2>1, <2>2, <3>1, <3>2
  <2>3. CASE ~run
    <3>1. copy' = copy
      BY <1>3, <2>3 DEF TaskletBegin, Wanted
    <3> QED  BY <2>1, <2>3, <3>1 DEF Pending
  <2> QED  BY <2>1, <2>2, <2>3
<1>4. CASE TaskletFills
  <2>1. UNCHANGED <<run, acap, quiet, pcm, heard, stale, sched, skip, work, wq, call>> /\ copy' = Filled
    BY <1>4 DEF TaskletFills, streamVars, captureVars, workVars, startVars
  <2>2. quiet => run
    BY <1>4 DEF TaskletFills, Packets
  <2>3. quiet => \A s \in Slots : slots'[s] # "old"
    BY <1>4, <2>2 DEF TaskletFills, TypeOK
  <2> QED  BY <2>1, <2>2, <2>3 DEF Filled
<1>5. CASE TaskletQueues
  <2>1. UNCHANGED <<run, acap, quiet, pcm, heard, stale, sched, skip, slots, work, call>> /\ copy' = NoCopy
    BY <1>5 DEF TaskletQueues, streamVars, captureVars, ringVars, startVars
  <2>2. quiet => run
    BY <1>5 DEF TaskletQueues, Filled
  <2> QED  BY <2>1, <2>2 DEF NoCopy
<1>6. CASE TimerFires
  <2>1. UNCHANGED <<run, acap, quiet, pcm, heard, copy, sched, stale, skip, slots, work, call>>
    BY <1>6 DEF TimerFires, streamVars, captureVars, taskletVars, ringVars, startVars
  <2>2. ~Pending("audio") => ~Pending("audio")'
    BY <1>6, PendingAppend DEF TimerFires, Works, TypeOK
  <2> QED  BY <2>1, <2>2
<1>7. CASE ReinitEnables
  BY <1>7 DEF ReinitEnables, CardEnabled
<1> QED  BY <1>1, <1>2, <1>3, <1>4, <1>5, <1>6, <1>7 DEF Card, Tasklet

\* HWS_AUDIO_STALE_PKTS: if the driver skips as many packets as the card may
\* send from before an enable, no such packet is heard after a start that found
\* nothing in flight, for any number of them.
THEOREM CleanStartAlways == Spec => [](MaxStale <= StalePkts => CleanStart)
<1> DEFINE CleanInv == MaxStale <= StalePkts => Clean
<1>1. Init => CleanInv
  BY DEF Init, Clean
<1>2. TypeOK /\ BufferGuarded /\ RunsUnderStream /\ CleanInv /\ [Next]_vars => CleanInv'
  <2> SUFFICES ASSUME TypeOK, BufferGuarded, RunsUnderStream, Clean, MaxStale <= StalePkts, [Next]_vars
               PROVE  Clean'
    OBVIOUS
  <2>1. CASE Queue
    BY <2>1, QueueClean
  <2>2. CASE Application \/ Finishing
    BY <2>2, CallbacksClean
  <2>3. CASE Card \/ Tasklet \/ TimerFires \/ ReinitFinds \/ ReinitEnables \/ UNCHANGED vars
    BY <2>3, OthersClean
  <2> QED  BY <2>1, <2>2, <2>3 DEF Next
<1>3. CleanInv => (MaxStale <= StalePkts => CleanStart)
  BY DEF Clean, CleanStart
<1>4. Init => RunsUnderStream
  BY DEF Init, RunsUnderStream
<1>5. BufferGuarded /\ RunsUnderStream /\ [Next]_vars => RunsUnderStream'
  BY RunKeepsUnderStream
<1> HIDE DEF CleanInv
<1> QED  BY <1>1, <1>2, <1>3, <1>4, <1>5, AudioTypeCorrect, BufferGuardedAlways, PTL DEF Spec

-----------------------------------------------------------------------------
(* The order of the ring.                                                  *)

\* The slot k places after slot i.
Ahead(i, k) == IF i + k < N THEN i + k ELSE i + k - N

\* Going on from slot to slot visits every slot once.
LEMMA AheadFacts ==
  ASSUME NEW i \in Slots
  PROVE  /\ \A k \in 0 .. N : Ahead(i, k) \in Slots
         /\ \A k, m \in 0 .. N - 1 : Ahead(i, k) = Ahead(i, m) => k = m
         /\ \A s \in Slots : \E k \in 0 .. N - 1 : s = Ahead(i, k)
         /\ Ahead(i, 0) = i /\ Ahead(i, N) = i /\ Ahead(i, 1) = After(i)
<1>0. N \in Nat \ {0} /\ i \in 0 .. N - 1
  BY AudioAssumption DEF Slots
<1>1. \A k \in 0 .. N : Ahead(i, k) \in Slots
  BY <1>0 DEF Ahead, Slots
<1>2. \A k, m \in 0 .. N - 1 : Ahead(i, k) = Ahead(i, m) => k = m
  BY <1>0 DEF Ahead
<1>3. ASSUME NEW s \in Slots PROVE \E k \in 0 .. N - 1 : s = Ahead(i, k)
  <2>1. CASE s >= i
    <3>1. s - i \in 0 .. N - 1 /\ s = Ahead(i, s - i)
      BY <1>0, <2>1 DEF Ahead, Slots
    <3> QED  BY <3>1
  <2>2. CASE s < i
    <3>1. s - i + N \in 0 .. N - 1 /\ s = Ahead(i, s - i + N)
      BY <1>0, <2>2 DEF Ahead, Slots
    <3> QED  BY <3>1
  <2> QED  BY <1>0, <2>1, <2>2 DEF Slots
<1>4. Ahead(i, 0) = i /\ Ahead(i, N) = i
  BY <1>0 DEF Ahead
<1>5. Ahead(i, 1) = After(i)
  BY <1>0, AfterIs DEF Ahead
<1> QED  BY <1>1, <1>2, <1>3, <1>4, <1>5

\* The slot after the k-th place is the next place, from i and from behind i.
LEMMA AheadNext ==
  ASSUME NEW i \in Slots, NEW k \in 0 .. N - 1
  PROVE  /\ After(Ahead(i, k)) = Ahead(i, k + 1)
         /\ Ahead(After(i), k) = Ahead(i, k + 1)
<1>0. N \in Nat \ {0} /\ i \in 0 .. N - 1
  BY AudioAssumption DEF Slots
<1>1. Ahead(i, k) \in Slots
  BY <1>0, AheadFacts
<1>2. After(Ahead(i, k)) = (IF Ahead(i, k) = N - 1 THEN 0 ELSE Ahead(i, k) + 1)
  BY <1>1, AfterIs
<1>3. After(i) = (IF i = N - 1 THEN 0 ELSE i + 1)
  BY AfterIs
<1> QED  BY <1>0, <1>2, <1>3 DEF Ahead

\* The filled slots follow each other from m_nRDAudioIndex to m_nAudioIndex, the
\* copy is for the slot behind them, and the work has the first of them in hand.
InARow ==
  /\ Len(filled) <= N
  /\ \A k \in 1 .. Len(filled) : filled[k] = Ahead(rd, k - 1)
  /\ \A s \in Slots : slots[s] # "free" <=> \E k \in 1 .. Len(filled) : filled[k] = s
  /\ wr = Ahead(rd, Len(filled))

RingOrdered ==
  /\ work.slot # -1 => work.what = "audio"
  /\ aligned => /\ InARow
                /\ copy.pkt \in Packets => copy.slot = wr /\ slots[wr] = "free"
                /\ work.slot # -1 => work.slot = rd /\ filled # <<>>
                /\ heard # "swapped"

\* As long as a slot is free, the one m_nAudioIndex points at is free.
LEMMA WriteSlotFree ==
  ASSUME TypeOK, InARow, Slots \ Occupied # {}
  PROVE  slots[wr] = "free" /\ FirstFrom(Slots \ Occupied, wr) = wr /\ Len(filled) < N
<1>0. N \in Nat \ {0} /\ rd \in Slots /\ wr \in Slots /\ Len(filled) \in Nat
  BY AudioAssumption DEF TypeOK
<1>1. Len(filled) # N
  <2> SUFFICES ASSUME Len(filled) = N, NEW s \in Slots, s \notin Occupied PROVE FALSE
    OBVIOUS
  <2>1. PICK k \in 0 .. N - 1 : s = Ahead(rd, k)
    BY <1>0, AheadFacts
  <2>2. k + 1 \in 1 .. Len(filled) /\ filled[k + 1] = s
    BY <1>0, <2>1 DEF InARow
  <2> QED  BY <2>2 DEF InARow, Occupied
<1>2. Len(filled) \in 0 .. N - 1
  BY <1>0, <1>1 DEF InARow
<1>3. slots[wr] = "free"
  <2> SUFFICES ASSUME NEW k \in 1 .. Len(filled), filled[k] = wr PROVE FALSE
    BY <1>0 DEF InARow
  <2>1. k - 1 \in 0 .. N - 1 /\ Ahead(rd, k - 1) = Ahead(rd, Len(filled))
    BY <1>0, <1>2 DEF InARow
  <2> QED  BY <1>0, <1>2, <2>1, AheadFacts
<1>4. wr \in Slots \ Occupied
  BY <1>0, <1>3 DEF Occupied
<1>5. FirstFrom(Slots \ Occupied, wr) = wr
  <2>1. Slots \ Occupied \in SUBSET Slots
    OBVIOUS
  <2> QED  BY <1>4, <2>1, FirstFromSelf
<1>6. Len(filled) < N
  BY <1>0, <1>2
<1> QED  BY <1>3, <1>5, <1>6

\* A full ring has no free slot to write, so the slot of a copy is free only
\* while there is room.
LEMMA RoomToWrite ==
  ASSUME TypeOK, InARow, slots[wr] = "free"
  PROVE  Len(filled) < N
<1>1. wr \in Slots \ Occupied
  BY DEF TypeOK, Occupied
<1> QED  BY <1>1, WriteSlotFree

\* The search from m_nRDAudioIndex finds the slot filled first.
LEMMA OldestIsFirst ==
  ASSUME TypeOK, InARow, Occupied # {}
  PROVE  Oldest = rd /\ filled # <<>> /\ Head(filled) = rd
<1>0. rd \in Slots /\ Len(filled) \in Nat /\ filled \in Seq(Slots)
  BY DEF TypeOK
<1>1. PICK k \in 1 .. Len(filled) : filled[k] \in Occupied
  BY DEF InARow, Occupied
<1>2. 1 \in 1 .. Len(filled) /\ filled[1] = rd
  <2>1. 1 \in 1 .. Len(filled)
    BY <1>0, <1>1
  <2>2. filled[1] = Ahead(rd, 1 - 1)
    BY <2>1 DEF InARow
  <2> QED  BY <1>0, <2>1, <2>2, AheadFacts
<1>3. rd \in Occupied /\ Occupied \in SUBSET Slots
  BY <1>0, <1>2 DEF InARow, Occupied
<1>4. Oldest = rd
  BY <1>3, FirstFromSelf DEF Oldest
<1> QED  BY <1>0, <1>2, <1>4

\* Filling the slot behind the row makes the row one longer.
LEMMA FillKeepsRow ==
  ASSUME TypeOK, InARow, slots[wr] = "free", NEW p \in Packets,
         slots' = [slots EXCEPT ![wr] = p], filled' = Append(filled, wr), wr' = After(wr), rd' = rd
  PROVE  InARow'
<1>0. N \in Nat \ {0} /\ rd \in Slots /\ wr \in Slots /\ Len(filled) \in Nat /\ filled \in Seq(Slots)
  BY AudioAssumption DEF TypeOK
<1>1. Len(filled) \in 0 .. N - 1
  BY <1>0, RoomToWrite
<1>2. Len(filled') = Len(filled) + 1 /\ filled'[Len(filled) + 1] = wr
      /\ \A k \in 1 .. Len(filled) : filled'[k] = filled[k]
  BY <1>0
<1>3. \A k \in 1 .. Len(filled') : filled'[k] = Ahead(rd', k - 1)
  <2> SUFFICES ASSUME NEW k \in 1 .. Len(filled) + 1 PROVE filled'[k] = Ahead(rd, k - 1)
    BY <1>2 DEF Ahead
  <2>1. CASE k = Len(filled) + 1
    BY <1>0, <1>2, <2>1 DEF InARow
  <2>2. CASE k \in 1 .. Len(filled)
    BY <1>2, <2>2 DEF InARow
  <2> QED  BY <1>0, <2>1, <2>2
<1>4. wr' = Ahead(rd', Len(filled'))
  <2>1. wr' = Ahead(rd, Len(filled) + 1)
    BY <1>0, <1>1, AheadNext DEF InARow
  <2> QED  BY <1>2, <2>1 DEF Ahead
<1>5. ASSUME NEW s \in Slots
      PROVE  slots'[s] # "free" <=> \E k \in 1 .. Len(filled') : filled'[k] = s
  <2>1. CASE s = wr
    <3>1. slots'[s] # "free"
      BY <1>0, <2>1 DEF TypeOK, Packets
    <3>2. Len(filled) + 1 \in 1 .. Len(filled')
      BY <1>0, <1>2
    <3> QED  BY <1>2, <2>1, <3>1, <3>2
  <2>2. CASE s # wr
    <3>1. slots'[s] = slots[s]
      BY <2>2 DEF TypeOK
    <3>2. (\E k \in 1 .. Len(filled') : filled'[k] = s) <=> \E k \in 1 .. Len(filled) : filled[k] = s
      BY <1>0, <1>2, <2>2
    <3> QED  BY <3>1, <3>2 DEF InARow
  <2> QED  BY <2>1, <2>2
<1>6. Len(filled') <= N
  BY <1>0, <1>1, <1>2
<1> QED  BY <1>3, <1>4, <1>5, <1>6 DEF InARow

\* Freeing the first slot of the row makes the row one shorter.
LEMMA DoneKeepsRow ==
  ASSUME TypeOK, InARow, filled # <<>>, work.slot = rd, SlotDone, wr' = wr
  PROVE  InARow'
<1>0. N \in Nat \ {0} /\ rd \in Slots /\ wr \in Slots /\ filled \in Seq(Slots) /\ Len(filled) \in 1 .. N
  BY AudioAssumption DEF TypeOK, InARow
<1>1. \A k \in 1 .. Len(filled) : filled[k] = rd <=> k = 1
  <2> SUFFICES ASSUME NEW k \in 1 .. Len(filled) PROVE filled[k] = rd <=> k = 1
    OBVIOUS
  <2>1. filled[k] = Ahead(rd, k - 1) /\ k - 1 \in 0 .. N - 1 /\ 0 \in 0 .. N - 1
    BY <1>0 DEF InARow
  <2>2. Ahead(rd, 0) = rd
    BY <1>0, AheadFacts
  <2>3. Ahead(rd, k - 1) = Ahead(rd, 0) => k - 1 = 0
    BY <1>0, <2>1, AheadFacts
  <2> QED  BY <2>1, <2>2, <2>3
<1>2. filled' = SubSeq(filled, 1, 0) \o SubSeq(filled, 2, Len(filled))
  <2>1. \E i \in DOMAIN filled : filled[i] = rd
    BY <1>0, <1>1
  <2>2. (CHOOSE i \in DOMAIN filled : filled[i] = rd) = 1
    BY <1>0, <1>1, <2>1
  <2>3. filled' = SubSeq(filled, 1, 1 - 1) \o SubSeq(filled, 1 + 1, Len(filled))
    <3>1. filled' = FilledLess(rd)
      BY DEF SlotDone
    <3> QED  BY <2>1, <2>2, <3>1, Zenon DEF FilledLess
  <2>4. 1 - 1 = 0 /\ 1 + 1 = 2
    OBVIOUS
  <2> QED  BY <2>3, <2>4, Zenon
<1>3. Len(filled') = Len(filled) - 1 /\ \A k \in 1 .. Len(filled) - 1 : filled'[k] = filled[k + 1]
  <2>1. SubSeq(filled, 1, 0) = <<>>
    BY SubSeqEmpty
  <2>2. SubSeq(filled, 2, Len(filled)) = Tail(filled)
    BY <1>0, TailIsSubSeq
  <2>3. filled' = <<>> \o Tail(filled)
    BY <1>2, <2>1, <2>2
  <2>4. Tail(filled) \in Seq(Slots) /\ <<>> \o Tail(filled) = Tail(filled)
    BY <1>0
  <2>5. filled' = Tail(filled)
    BY <2>3, <2>4
  <2> QED  BY <1>0, <2>5
<1>4. rd' = After(rd)
  BY DEF SlotDone
<1>5. \A k \in 1 .. Len(filled') : filled'[k] = Ahead(rd', k - 1)
  <2> SUFFICES ASSUME NEW k \in 1 .. Len(filled) - 1 PROVE filled'[k] = Ahead(rd', k - 1)
    BY <1>3
  <2>1. filled'[k] = Ahead(rd, k)
    <3>1. k + 1 \in 1 .. Len(filled) /\ (k + 1) - 1 = k
      BY <1>0
    <3> QED  BY <1>3, <3>1 DEF InARow
  <2>2. Ahead(After(rd), k - 1) = Ahead(rd, k)
    <3>1. k - 1 \in 0 .. N - 1 /\ (k - 1) + 1 = k
      BY <1>0
    <3> QED  BY <1>0, <3>1, AheadNext
  <2> QED  BY <1>4, <2>1, <2>2 DEF Ahead
<1>6. wr' = Ahead(rd', Len(filled'))
  <2>1. Len(filled) - 1 \in 0 .. N - 1 /\ (Len(filled) - 1) + 1 = Len(filled)
    BY <1>0
  <2>2. Ahead(After(rd), Len(filled) - 1) = Ahead(rd, Len(filled))
    BY <1>0, <2>1, AheadNext
  <2> QED  BY <1>3, <1>4, <2>2 DEF InARow, Ahead
<1>7. ASSUME NEW s \in Slots
      PROVE  slots'[s] # "free" <=> \E k \in 1 .. Len(filled') : filled'[k] = s
  <2>1. (\E k \in 1 .. Len(filled') : filled'[k] = s) <=> \E k \in 2 .. Len(filled) : filled[k] = s
    <3>1. \A k \in 2 .. Len(filled) : k - 1 \in 1 .. Len(filled') /\ filled'[k - 1] = filled[k]
      BY <1>0, <1>3
    <3>2. \A k \in 1 .. Len(filled') : k + 1 \in 2 .. Len(filled) /\ filled'[k] = filled[k + 1]
      BY <1>0, <1>3
    <3> QED  BY <3>1, <3>2
  <2>2. CASE s = rd
    <3>1. slots'[s] = "free"
      BY <1>0, <2>2 DEF SlotDone, TypeOK
    <3> QED  BY <1>0, <1>1, <2>1, <2>2, <3>1
  <2>3. CASE s # rd
    <3>1. slots'[s] = slots[s]
      BY <2>3 DEF SlotDone, TypeOK
    <3>2. (\E k \in 2 .. Len(filled) : filled[k] = s) <=> \E k \in 1 .. Len(filled) : filled[k] = s
      BY <1>0, <1>1, <2>3
    <3> QED  BY <2>1, <3>1, <3>2 DEF InARow
  <2> QED  BY <2>2, <2>3
<1>8. Len(filled') <= N
  BY <1>0, <1>3
<1> QED  BY <1>5, <1>6, <1>7, <1>8 DEF InARow

\* Nothing of the ring moves: the row stays.
LEMMA RowStays ==
  ASSUME InARow, UNCHANGED <<rd, wr, slots, filled>>
  PROVE  InARow'
BY DEF InARow, Ahead

\* The works keep the order.
LEMMA QueueOrdered ==
  ASSUME TypeOK, RingOrdered, Queue
  PROVE  RingOrdered'
<1> USE DEF RingOrdered
<1>1. CASE AudioOverruns \/ SilenceOverruns
  <2>1. ~aligned'
    BY <1>1 DEF AudioOverruns, SilenceOverruns, Stop
  <2>2. work'.slot # -1 => work'.what = "audio"
    BY <1>1 DEF AudioOverruns, SilenceOverruns, SlotDone, TypeOK
  <2> QED  BY <2>1, <2>2
<1>2. CASE AudioBegins \/ AudioEnds \/ SilenceBegins \/ SilenceDelivers \/ SilenceEnds
  <2>1. UNCHANGED <<rd, wr, slots, filled, copy, aligned>> /\ (heard' = heard \/ heard' = "well")
    BY <1>2 DEF AudioBegins, AudioEnds, SilenceBegins, SilenceDelivers, SilenceEnds, ringVars, taskletVars,
                startVars
  <2>2. work'.slot = -1 \/ work' = work
    <3>1. CASE AudioBegins
      <4>1. work' = [what |-> "audio", deliver |-> running /\ HasBuffer, slot |-> -1, due |-> 0]
        BY <3>1 DEF AudioBegins, Resting
      <4> QED  BY <4>1, Zenon
    <3>2. CASE AudioEnds \/ SilenceEnds
      BY <3>2 DEF AudioEnds, SilenceEnds, Resting
    <3>3. CASE SilenceDelivers
      BY <3>3 DEF SilenceDelivers, workVars
    <3>4. CASE SilenceBegins
      <4>1. CASE running
        <5>1. PICK due \in GapPackets :
                work' = [Resting EXCEPT !.what = "silence", !.deliver = TRUE, !.due = due]
          BY <3>4, <4>1 DEF SilenceBegins
        <5> QED  BY <5>1 DEF Resting
      <4>2. CASE ~running
        BY <3>4, <4>2 DEF SilenceBegins
      <4> QED  BY <4>1, <4>2
    <3> QED  BY <1>2, <3>1, <3>2, <3>3, <3>4
  <2>3. aligned => InARow'
    BY <2>1, RowStays
  <2> QED  BY <2>1, <2>2, <2>3
<1>3. CASE AudioTakes
  <2>1. UNCHANGED <<rd, wr, slots, filled, copy, aligned>>
    BY <1>3 DEF AudioTakes, ringVars, taskletVars, startVars
  <2>2. work'.slot = Oldest /\ work'.what = "audio"
    BY <1>3 DEF AudioTakes, TypeOK
  <2>3. aligned => Oldest = rd /\ filled # <<>> /\ Head(filled) = rd
    BY <1>3, OldestIsFirst DEF AudioTakes
  <2>4. aligned => heard' # "swapped"
    <3>1. aligned => HeardFrom(Oldest) # "swapped"
      BY <2>3 DEF HeardFrom
    <3> QED  BY <1>3, <3>1 DEF AudioTakes
  <2>5. aligned => InARow'
    BY <2>1, RowStays
  <2> QED  BY <2>1, <2>2, <2>3, <2>4, <2>5
<1>4. CASE AudioNext
  <2>1. UNCHANGED <<wr, copy, aligned, heard>> /\ SlotDone /\ work.slot # -1
    BY <1>4 DEF AudioNext, taskletVars, startVars
  <2>2. work'.slot = -1
    BY <2>1 DEF SlotDone, TypeOK
  <2>3. aligned => InARow'
    BY <2>1, DoneKeepsRow
  <2>4. slots[wr] = "free" => slots'[wr] = "free"
    BY <2>1 DEF SlotDone, TypeOK
  <2> QED  BY <2>1, <2>2, <2>3, <2>4
<1> QED  BY <1>1, <1>2, <1>3, <1>4 DEF Queue

\* The callbacks keep the order: a start sets the read index and empties the
\* ring; whether the indexes agree is what "aligned" says.
LEMMA CallbacksOrdered ==
  ASSUME TypeOK, RingOrdered, Application \/ Finishing
  PROVE  RingOrdered'
<1> USE DEF RingOrdered
<1>1. CASE Application \/ FreeBuffer
  <2>1. work' = work
    BY <1>1 DEF Application, Open, HwParams, Start, StopCall, FreeSilence, Close, FreeBuffer, workVars
  <2>2. ~aligned' \/ UNCHANGED <<rd, wr, slots, filled, copy, aligned, heard>>
    BY <1>1 DEF Application, Open, HwParams, Start, StopCall, Stop, FreeSilence, Close, FreeBuffer, ringVars,
                taskletVars, startVars
  <2>3. aligned' => InARow'
    BY <2>2, RowStays
  <2> QED  BY <2>1, <2>2, <2>3
<1>2. CASE StartCapture /\ acap
  <2>1. UNCHANGED <<rd, wr, slots, filled, copy, aligned, heard, work>>
    BY <1>2 DEF StartCapture, ringVars, workVars
  <2>2. aligned' => InARow'
    BY <2>1, RowStays
  <2> QED  BY <2>1, <2>2
<1>3. CASE StartCapture /\ ~acap
  <2>1. work' = work /\ wr' = wr /\ heard' = "well" /\ rd' = 0
    BY <1>3 DEF StartCapture, workVars
  <2>2. (\A s \in Slots : slots'[s] = "free") /\ filled' = <<>>
    BY <1>3 DEF StartCapture, SlotsAtStart
  <2>3. aligned' => wr = 0 /\ copy.pkt \notin Packets /\ work.slot = -1
    BY <1>3, <2>1 DEF StartCapture
  <2>4. copy.pkt \notin Packets => copy'.pkt \notin Packets
    BY <1>3 DEF StartCapture, Aged, Packets, TypeOK
  <2>5. aligned' => InARow'
    <3>1. Len(filled') = 0 /\ N \in Nat \ {0} /\ 0 \in Slots
      BY <2>2, AudioAssumption DEF Slots
    <3>2. ASSUME aligned' PROVE wr' = Ahead(rd', Len(filled'))
      BY <2>1, <2>3, <3>1, <3>2 DEF Ahead
    <3>3. \A k \in 1 .. Len(filled') : FALSE
      BY <3>1
    <3> QED  BY <2>2, <3>1, <3>2, <3>3 DEF InARow
  <2> QED  BY <2>1, <2>3, <2>4, <2>5
<1> QED  BY <1>1, <1>2, <1>3 DEF Finishing

\* The card, the tasklet, the timer and the status thread keep the order: the
\* tasklet takes the slot behind the row and fills it.
LEMMA OthersOrdered ==
  ASSUME TypeOK, RingOrdered,
         \/ Card \/ Tasklet \/ TimerFires \/ ReinitFinds \/ ReinitEnables
         \/ UNCHANGED vars
  PROVE  RingOrdered'
<1> USE DEF RingOrdered
<1>1. CASE TaskletBegin
  <2>1. UNCHANGED <<rd, wr, slots, filled, aligned, heard, work>>
    BY <1>1 DEF TaskletBegin, ringVars, workVars, startVars
  <2>2. copy' = copy \/ (Slots \ Occupied # {} /\ copy'.slot = FirstFrom(Slots \ Occupied, wr))
    BY <1>1 DEF TaskletBegin
  <2>3. aligned => InARow'
    BY <2>1, RowStays
  <2>4. aligned => copy' = copy \/ (copy'.slot = wr /\ slots[wr] = "free")
    BY <2>2, WriteSlotFree
  <2> QED  BY <2>1, <2>3, <2>4
<1>2. CASE TaskletFills
  <2>1. UNCHANGED <<rd, aligned, heard, work>> /\ copy.pkt \in Packets /\ copy' = Filled
    BY <1>2 DEF TaskletFills, workVars, startVars
  <2>2. copy'.pkt \notin Packets
    BY <2>1 DEF Filled, Packets
  <2>3. work.slot = -1
    BY <1>2 DEF TaskletFills
  <2>4. aligned => InARow'
    <3>1. ASSUME aligned
          PROVE  /\ InARow /\ slots[wr] = "free" /\ copy.pkt \in Packets
                 /\ slots' = [slots EXCEPT ![wr] = copy.pkt] /\ filled' = Append(filled, wr)
                 /\ wr' = After(wr)
      BY <1>2, <2>1, <3>1 DEF TaskletFills
    <3> QED  BY <2>1, <3>1, FillKeepsRow
  <2> QED  BY <2>1, <2>2, <2>3, <2>4
<1>3. CASE TaskletQueues
  <2>1. UNCHANGED <<rd, wr, slots, filled, aligned, heard, work>> /\ copy' = NoCopy
    BY <1>3 DEF TaskletQueues, ringVars, startVars
  <2>2. copy'.pkt \notin Packets
    BY <2>1 DEF NoCopy, Packets
  <2>3. aligned => InARow'
    BY <2>1, RowStays
  <2> QED  BY <2>1, <2>2, <2>3
<1>4. CASE Card \/ TimerFires \/ ReinitFinds \/ ReinitEnables \/ UNCHANGED vars
  <2>1. UNCHANGED <<rd, wr, slots, filled, aligned, heard, work, copy>>
    BY <1>4 DEF Card, Silent, Packet, TimerFires, ReinitFinds, ReinitEnables, vars, ringVars, taskletVars,
                workVars, startVars
  <2>2. aligned => InARow'
    BY <2>1, RowStays
  <2> QED  BY <2>1, <2>2
<1> QED  BY <1>1, <1>2, <1>3, <1>4 DEF Tasklet

\* Packets reach ALSA in the order they were filled, for a ring of any size and
\* however full it runs, when the stream started with both indexes equal and no
\* slot in the hands of the tasklet or of a work.
THEOREM InOrderAlways == Spec => []InOrder
<1>1. Init => RingOrdered
  BY DEF Init, RingOrdered, Resting
<1>2. TypeOK /\ RingOrdered /\ [Next]_vars => RingOrdered'
  <2> SUFFICES ASSUME TypeOK, RingOrdered, [Next]_vars PROVE RingOrdered'
    OBVIOUS
  <2>1. CASE Queue
    BY <2>1, QueueOrdered
  <2>2. CASE Application \/ Finishing
    BY <2>2, CallbacksOrdered
  <2>3. CASE Card \/ Tasklet \/ TimerFires \/ ReinitFinds \/ ReinitEnables \/ UNCHANGED vars
    BY <2>3, OthersOrdered
  <2> QED  BY <2>1, <2>2, <2>3 DEF Next
<1>3. RingOrdered => InOrder
  BY DEF RingOrdered, InOrder
<1> QED  BY <1>1, <1>2, <1>3, AudioTypeCorrect, PTL DEF Spec

=============================================================================
