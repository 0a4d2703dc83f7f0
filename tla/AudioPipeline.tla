---------------------------- MODULE AudioPipeline ----------------------------
(***************************************************************************)
(* Audio capture of the AVMATRIX VC12-4K driver (src/src/hws_video.c): the *)
(* card's packets, the interrupt handler and the tasklet that put them     *)
(* into a ring of slots, the work that hands them to ALSA, the work that   *)
(* fills gaps with silence, and the ALSA callbacks.                        *)
(*                                                                         *)
(* Both works run on one ordered workqueue, one at a time, and hold        *)
(* audiolock while they run; the tasklet takes audiolock to fill a slot.   *)
(* The trigger runs under the stream lock and takes no audiolock: its      *)
(* steps fall between the steps of a work.  A work that ends a period      *)
(* takes the stream lock and may stop the stream itself (an overrun).      *)
(*                                                                         *)
(* Time is counted in packets (1024 frames, 21.3 ms); positions and        *)
(* lengths in the ALSA ring are left out.  A packet is "new" if the card   *)
(* captured it for the stream that runs now, else "old".                   *)
(***************************************************************************)
EXTENDS Integers, Sequences, FiniteSets

CONSTANTS
  N,        \* MAX_AUDIO_QUEUE (8 in the code)
  StalePkts,\* HWS_AUDIO_STALE_PKTS: packets dropped after a start
  MaxStale, \* old packets the card may send after an enable (2: probe 6.20)
  MaxGap    \* bound: packet times since the last packet, or more

ASSUME AudioAssumption ==
  /\ N \in Nat \ {0} /\ StalePkts \in Nat /\ MaxStale \in Nat \ {0}
  /\ MaxGap \in Nat /\ MaxGap >= 2

VARIABLES
  pcm,      \* state of the ALSA stream
  call,     \* the callback in progress: "none", or one that is half done
  running,  \* hws_audio.running
  run,      \* m_bAudioRun and dwisRuning
  acap,     \* m_bACapStarted and the enable bit of register 3
  reinit,   \* hws_do_reinit(): idle, or found m_bACapStarted set
  stale,    \* old packets the card still has to send
  sched,    \* the packet a scheduled tasklet will find
  copy,     \* the packet the tasklet copies (m_nAudioBusy), and its slot
  skip,     \* m_AudioSkip
  wr, rd,   \* m_nAudioIndex, m_nRDAudioIndex
  slots,    \* pStatusInfo: "free" (MEM_UNLOCK) or the packet in the slot
  wq,       \* works pending on auwq, in order
  timer,    \* silence_work waits for its delay
  work,     \* the work that runs
  since,    \* packet times since last_pkt_ns
  sil,      \* silence_frames, in packets
  \* history, read by the properties only
  filled,   \* the filled slots in the order they were filled
  quiet,    \* nothing of an earlier stream was in flight at the start, and the
            \* card was not re-initialised since
  aligned,  \* at the start both ring indexes were equal and no slot was in use
  heard     \* how ALSA was given the last packet: "well", "old" or "swapped"

streamVars == <<pcm, call, running>>
captureVars == <<run, acap, reinit, stale>>
taskletVars == <<sched, copy, skip, wr>>
ringVars == <<rd, slots, filled>>
workVars == <<wq, timer, work>>
timeVars == <<since, sil>>
startVars == <<quiet, aligned>>
vars == <<streamVars, captureVars, taskletVars, ringVars, workVars, timeVars, startVars, heard>>

-----------------------------------------------------------------------------
(* Values. *)

Slots == 0 .. N - 1
Packets == {"old", "new"}
Works == {"audio", "silence"}
NoCopy == [pkt |-> "none", slot |-> 0]
Filled == [pkt |-> "filled", slot |-> 0]
Resting == [what |-> "none", deliver |-> FALSE, slot |-> -1, due |-> 0]

Occupied == {s \in Slots : slots[s] # "free"}

\* The slot after s.  Mutant: no wrap.
AfterLast(s) == s + 1
After(s) == (s + 1) % N

\* The first of the slots S from i on, wrapping around.
FirstFrom(S, i) == CHOOSE s \in S : \A t \in S : (s - i) % N <= (t - i) % N

Pending(w) == \E i \in DOMAIN wq : wq[i] = w

\* The queue less work w: each work is queued at most once.
Rest(w) == IF w = "audio" THEN "silence" ELSE "audio"
Without(w) == IF Pending(Rest(w)) THEN <<Rest(w)>> ELSE <<>>

\* Everything on its way to the ring was captured for an earlier stream.
Aged(p) == IF p = "new" THEN "old" ELSE p

\* A buffer is there to write to: between hw_params and hw_free.
HasBuffer == pcm \in {"setup", "running"}

-----------------------------------------------------------------------------
(* The card and the clock.  Not driver code: packets come while the enable *)
(* bit is set and the source sends audio; after an enable the first ones   *)
(* may be old (probe 6.20).                                                *)

\* One packet time passes without a packet.
Silent ==
  /\ running /\ since < MaxGap
  /\ since' = since + 1
  /\ UNCHANGED <<streamVars, captureVars, taskletVars, ringVars, workVars, sil, startVars, heard>>

CardPacket == IF stale > 0 THEN "old" ELSE "new"

\* One packet time passes, a packet is complete, and the audio part of
\* irqhandler() schedules the tasklet.  While it copies, the packet is lost.
Packet ==
  /\ acap
  /\ sched' = IF copy.pkt = "none" THEN CardPacket ELSE sched
  /\ stale' = IF stale > 0 THEN stale - 1 ELSE 0
  /\ since' = IF running /\ since < MaxGap THEN since + 1 ELSE since
  /\ UNCHANGED <<streamVars, run, acap, reinit, copy, skip, wr, ringVars, workVars, sil, startVars, heard>>

\* EnableAudioCapture().
CardEnabled == acap' = TRUE /\ stale' \in 1 .. MaxStale

-----------------------------------------------------------------------------
(* The tasklet.                                                            *)

\* MemCopyAudioToSteam() drops the packets the card sends first.
Skipping == skip > 0

\* SetAudioQuene(): nothing is taken while the engine or the stream is off.
Wanted == acap /\ run

\* MemCopyAudioToSteam() up to the copy: it drops the packet, or takes a free slot.
TaskletBegin ==
  /\ sched # "none" /\ copy.pkt = "none"
  /\ sched' = "none"
  /\ LET free == Slots \ Occupied
     IN /\ skip' = IF Wanted /\ Skipping THEN skip - 1 ELSE skip
        /\ copy' = IF Wanted /\ ~Skipping /\ free # {}
                   THEN [pkt |-> sched, slot |-> FirstFrom(free, wr)] ELSE copy
  /\ UNCHANGED <<streamVars, captureVars, wr, ringVars, workVars, timeVars, startVars, heard>>

\* audiolock: the slot is filled.
TaskletFills ==
  /\ copy.pkt \in Packets /\ work.what = "none"
  /\ slots' = [slots EXCEPT ![copy.slot] = copy.pkt]
  /\ filled' = Append(filled, copy.slot)
  /\ wr' = After(copy.slot)
  /\ copy' = Filled
  /\ UNCHANGED <<streamVars, captureVars, sched, skip, rd, workVars, timeVars, startVars, heard>>

\* queue_work(), without audiolock: nothing if the work is pending already.
TaskletQueues ==
  /\ copy = Filled
  /\ copy' = NoCopy
  /\ wq' = IF Pending("audio") THEN wq ELSE Append(wq, "audio")
  /\ UNCHANGED <<streamVars, captureVars, sched, skip, wr, ringVars, timer, work, timeVars, startVars, heard>>

-----------------------------------------------------------------------------
(* The works.                                                              *)

\* queue_delayed_work(silence_work): nothing if it is pending already.
SilencePending == timer \/ Pending("silence")

\* StopAudioCapture(), from the trigger: without m_bAudioRun it does nothing.
StopCapture ==
  /\ run' = FALSE
  /\ acap' = IF run THEN FALSE ELSE acap

\* SNDRV_PCM_TRIGGER_STOP: cancel_delayed_work() does not wait for a work that
\* runs.  The clock and the history are those of a stream that runs.
Stop ==
  /\ pcm' = "setup" /\ running' = FALSE
  /\ timer' = FALSE /\ wq' = Without("silence")
  /\ StopCapture
  /\ since' = 0 /\ quiet' = FALSE /\ aligned' = FALSE /\ heard' = "well"

\* The delay of silence_work is over (at any time: the delays are not kept).
TimerFires ==
  /\ timer
  /\ timer' = FALSE /\ wq' = Append(wq, "silence")
  /\ UNCHANGED <<streamVars, captureVars, taskletVars, ringVars, work, timeVars, startVars, heard>>

\* audio_data_process(): whether this run delivers is decided once.
AudioBegins ==
  /\ work.what = "none" /\ wq # <<>> /\ Head(wq) = "audio"
  /\ wq' = Tail(wq)
  /\ work' = [Resting EXCEPT !.what = "audio", !.deliver = running /\ HasBuffer]
  /\ UNCHANGED <<streamVars, captureVars, taskletVars, ringVars, timer, timeVars, startVars, heard>>

\* What ALSA hears when slot s is delivered.
HeardFrom(s) ==
  IF filled # <<>> /\ s # Head(filled) THEN "swapped"
  ELSE IF slots[s] = "old" THEN "old" ELSE "well"

\* The oldest slot by m_nRDAudioIndex.  Mutant: always searched from slot 0.
OldestFromZero == FirstFrom(Occupied, 0)
Oldest == FirstFrom(Occupied, rd)

\* hws_audio_card_packet(), _deliver_samples().
AudioTakes ==
  /\ work.what = "audio" /\ work.slot = -1 /\ Occupied # {}
  /\ LET s == Oldest IN
     /\ work' = [work EXCEPT !.slot = s]
     /\ IF work.deliver
        THEN since' = 0 /\ sil' = 0 /\ heard' = IF running THEN HeardFrom(s) ELSE heard
        ELSE UNCHANGED <<since, sil, heard>>
  /\ UNCHANGED <<streamVars, captureVars, taskletVars, ringVars, wq, timer, startVars>>

\* The filled slots less slot s.
FilledLess(s) ==
  IF \E i \in DOMAIN filled : filled[i] = s
  THEN LET i == CHOOSE i \in DOMAIN filled : filled[i] = s
       IN SubSeq(filled, 1, i - 1) \o SubSeq(filled, i + 1, Len(filled))
  ELSE filled

\* The slot is free again.
SlotDone ==
  /\ slots' = [slots EXCEPT ![work.slot] = "free"]
  /\ filled' = FilledLess(work.slot)
  /\ rd' = After(work.slot)
  /\ work' = [work EXCEPT !.slot = -1]

AudioNext ==
  /\ work.what = "audio" /\ work.slot # -1
  /\ SlotDone
  /\ UNCHANGED <<streamVars, captureVars, taskletVars, wq, timer, timeVars, startVars, heard>>

\* snd_pcm_period_elapsed() finds an overrun and stops the stream.
AudioOverruns ==
  /\ work.what = "audio" /\ work.slot # -1 /\ work.deliver
  /\ pcm = "running" /\ call = "none"
  /\ Stop /\ SlotDone
  /\ UNCHANGED <<call, reinit, stale, taskletVars, sil>>

\* "Drain every filled packet here".  Mutant: without the loop.
NoLoop == TRUE
Drained == Occupied = {}

AudioEnds ==
  /\ work.what = "audio" /\ work.slot = -1 /\ Drained
  /\ work' = Resting
  /\ UNCHANGED <<streamVars, captureVars, taskletVars, ringVars, wq, timer, timeVars, startVars, heard>>

\* HWS_AUD_GAP_NS, 40 ms: in the second packet time without a packet, or later.
GapPackets == CASE since = 0 -> {0} [] since = 1 -> {0, 1} [] OTHER -> {since}

\* hws_audio_silence_work(): how much silence is due is decided once.
SilenceBegins ==
  /\ work.what = "none" /\ wq # <<>> /\ Head(wq) = "silence"
  /\ wq' = Tail(wq)
  /\ IF running THEN \E due \in GapPackets :
                       work' = [Resting EXCEPT !.what = "silence", !.deliver = TRUE, !.due = due]
     ELSE UNCHANGED work
  /\ UNCHANGED <<streamVars, captureVars, taskletVars, ringVars, timer, timeVars, startVars, heard>>

\* silence_frames against what is due.  Mutants: one packet more; one in all.
DueBeyond == sil <= work.due
DueOnce == sil = 0 /\ work.due > 0
SilenceDue == sil < work.due

SilenceDelivers ==
  /\ work.what = "silence" /\ SilenceDue
  /\ sil' = sil + 1 /\ heard' = "well"
  /\ UNCHANGED <<streamVars, captureVars, taskletVars, ringVars, workVars, since, startVars>>

SilenceOverruns ==
  /\ work.what = "silence" /\ SilenceDue
  /\ pcm = "running" /\ call = "none"
  /\ sil' = sil + 1
  /\ Stop
  /\ UNCHANGED <<call, reinit, stale, taskletVars, ringVars, work>>

\* The work queues itself again, also if the stream was stopped meanwhile.
\* Mutant: only after a gap.
AgainInGap == timer \/ (work.due > 0 /\ ~Pending("silence"))
Again == timer \/ ~Pending("silence")

SilenceEnds ==
  /\ work.what = "silence" /\ ~SilenceDue
  /\ work' = Resting
  /\ timer' = Again
  /\ UNCHANGED <<streamVars, captureVars, taskletVars, ringVars, wq, timeVars, startVars, heard>>

-----------------------------------------------------------------------------
(* ALSA callbacks, in the order the PCM core allows.                       *)

Open ==
  /\ pcm = "closed" /\ pcm' = "open"
  /\ UNCHANGED <<call, running, captureVars, taskletVars, ringVars, workVars, timeVars, startVars, heard>>

HwParams ==
  /\ pcm = "open" /\ pcm' = "setup"
  /\ UNCHANGED <<call, running, captureVars, taskletVars, ringVars, workVars, timeVars, startVars, heard>>

\* hws_pcie_audio_prepare() sets positions only, which are left out; then
\* SNDRV_PCM_TRIGGER_START up to StartAudioCapture().
Start ==
  /\ pcm = "setup" /\ call = "none"
  /\ pcm' = "running" /\ running' = TRUE /\ call' = "starting"
  /\ since' = 0 /\ sil' = 0 /\ heard' = "well"
  /\ wq' = IF SilencePending THEN wq ELSE Append(wq, "silence")
  /\ quiet' = (/\ sched = "none" /\ copy.pkt = "none"
               /\ work.what = "none" /\ ~Pending("audio"))
  /\ aligned' = FALSE
  /\ UNCHANGED <<captureVars, taskletVars, ringVars, timer, work>>

\* Mutant: slots of an earlier stream stay filled.
SlotsKept == [s \in Slots |-> Aged(slots[s])]
SlotsAtStart == [s \in Slots |-> "free"]

\* StartAudioCapture(): nothing if m_bACapStarted is set.
StartCapture ==
  /\ call = "starting" /\ call' = "none"
  /\ IF acap
     THEN UNCHANGED <<run, acap, stale, sched, copy, skip, ringVars, aligned, heard>>
     ELSE /\ run' = TRUE /\ CardEnabled
          /\ rd' = 0 /\ skip' = StalePkts
          /\ slots' = SlotsAtStart /\ filled' = (IF \E s \in Slots : slots'[s] # "free" THEN filled ELSE <<>>)
          /\ sched' = Aged(sched) /\ copy' = [copy EXCEPT !.pkt = Aged(@)]
          /\ aligned' = (wr = rd' /\ copy.pkt \notin Packets /\ work.slot = -1) /\ heard' = "well"
  /\ UNCHANGED <<pcm, running, reinit, wr, workVars, timeVars, quiet>>

\* SNDRV_PCM_TRIGGER_STOP or SUSPEND from the application.
StopCall ==
  /\ pcm = "running" /\ call = "none"
  /\ Stop
  /\ UNCHANGED <<call, reinit, stale, taskletVars, ringVars, work, sil>>

\* hws_pcie_audio_hw_free(): cancel_delayed_work_sync(silence_work) ...
FreeSilence ==
  /\ pcm = "setup" /\ call = "none" /\ work.what # "silence"
  /\ call' = "freeing"
  /\ timer' = FALSE /\ wq' = Without("silence")
  /\ UNCHANGED <<pcm, running, captureVars, taskletVars, ringVars, work, timeVars, startVars, heard>>

\* ... cancel_work_sync(audiowork), snd_pcm_lib_free_pages().  Mutant: no cancel.
NoWaitForWork == TRUE
WorkCancelled == work.what # "audio"

FreeBuffer ==
  /\ call = "freeing" /\ WorkCancelled
  /\ call' = "none" /\ pcm' = "open" /\ wq' = Without("audio")
  /\ UNCHANGED <<running, captureVars, taskletVars, ringVars, timer, work, timeVars, startVars, heard>>

\* hws_pcie_audio_close().
Close ==
  /\ pcm = "open" /\ WorkCancelled
  /\ pcm' = "closed" /\ wq' = Without("audio")
  /\ UNCHANGED <<call, running, captureVars, taskletVars, ringVars, timer, work, timeVars, startVars, heard>>

-----------------------------------------------------------------------------
(* The status thread: hws_do_reinit() takes no lock the trigger takes.     *)

ReinitFinds ==
  /\ reinit = "idle" /\ acap
  /\ reinit' = "enable"
  /\ UNCHANGED <<streamVars, run, acap, stale, taskletVars, ringVars, workVars, timeVars, startVars, heard>>

ReinitEnables ==
  /\ reinit = "enable" /\ reinit' = "idle"
  /\ CardEnabled /\ quiet' = FALSE
  /\ UNCHANGED <<streamVars, run, taskletVars, ringVars, workVars, timeVars, aligned, heard>>

-----------------------------------------------------------------------------
Init ==
  /\ pcm = "closed" /\ call = "none" /\ running = FALSE
  /\ run = FALSE /\ acap = FALSE /\ reinit = "idle" /\ stale = 0
  /\ sched = "none" /\ copy = NoCopy /\ skip = 0 /\ wr = 0 /\ rd = 0
  /\ slots = [s \in Slots |-> "free"] /\ filled = <<>>
  /\ wq = <<>> /\ timer = FALSE /\ work = Resting
  /\ since = 0 /\ sil = 0
  /\ quiet = FALSE /\ aligned = FALSE /\ heard = "well"

Card == Silent \/ Packet
Tasklet == TaskletBegin \/ TaskletFills \/ TaskletQueues
Queue ==
  \/ AudioBegins \/ AudioTakes \/ AudioNext \/ AudioOverruns \/ AudioEnds
  \/ SilenceBegins \/ SilenceDelivers \/ SilenceOverruns \/ SilenceEnds
Application ==
  \/ Open \/ HwParams \/ Start \/ StopCall \/ FreeSilence \/ Close
Finishing == StartCapture \/ FreeBuffer

Next ==
  \/ Card \/ Tasklet \/ TimerFires \/ Queue
  \/ Application \/ Finishing \/ ReinitFinds \/ ReinitEnables

\* Tasklets, the workqueue and timers are served, a callback that
\* has begun goes on.  Nothing is assumed of the card or the application.
Fairness ==
  /\ WF_vars(Tasklet) /\ WF_vars(TimerFires) /\ WF_vars(Queue)
  /\ WF_vars(Finishing)

Spec == Init /\ [][Next]_vars
FairSpec == Spec /\ Fairness

-----------------------------------------------------------------------------
(* Properties.                                                             *)

\* Every variable has its type.
TypeOK ==
  /\ pcm \in {"closed", "open", "setup", "running"}
  /\ call \in {"none", "starting", "freeing"} /\ running \in BOOLEAN
  /\ run \in BOOLEAN /\ acap \in BOOLEAN /\ reinit \in {"idle", "enable"} /\ stale \in 0 .. MaxStale
  /\ sched \in Packets \cup {"none"}
  /\ copy \in [pkt : Packets \cup {"none", "filled"}, slot : Slots] /\ skip \in 0 .. StalePkts
  /\ wr \in Slots /\ rd \in Slots
  /\ slots \in [Slots -> Packets \cup {"free"}] /\ filled \in Seq(Slots)
  /\ wq \in Seq(Works) /\ timer \in BOOLEAN
  /\ work \in [what : Works \cup {"none"}, deliver : BOOLEAN, slot : Slots \cup {-1}, due : 0 .. MaxGap]
  /\ since \in 0 .. MaxGap /\ sil \in 0 .. MaxGap
  /\ quiet \in BOOLEAN /\ aligned \in BOOLEAN
  /\ heard \in {"well", "old", "swapped"}

\* "both write the buffer": no work writes the ALSA buffer once hw_free freed it.
BufferInUse == work.deliver => HasBuffer

\* While the stream runs, the silence work is pending or runs, so a gap is
\* noticed, whatever stops, overruns and restarts came before.
SilenceAlive == running => SilencePending \/ work.what = "silence"

\* "Left packets waiting for the next IRQ": a slot is filled only while a run of
\* the work that will drain it is queued, runs or is about to be queued.
NoPacketStranded ==
  run /\ call = "none" /\ Occupied # {} =>
    Pending("audio") \/ work.what = "audio" \/ copy = Filled

\* Packets reach ALSA in the order they were filled, also if the ring is full,
\* when the stream started with both indexes of the ring equal and no slot in
\* the hands of the tasklet or of a work.
InOrder == aligned => heard # "swapped"

\* No packet the card captured before the start is heard, if nothing of an
\* earlier stream was in flight at the start.
CleanStart == quiet => heard # "old"

\* "Whole packets of silence from the last packet's time": no more silence is
\* delivered than packet times passed since the last packet, if nothing of an
\* earlier stream was in flight at the start.
SilenceInGap == quiet => sil <= since

\* A stream that was started captures: "re-enable the engines that were
\* running" leaves m_bACapStarted and m_bAudioRun alike.
StreamCaptures == running /\ call = "none" => run

\* A gap is filled: with the card silent, the pointer catches up with the clock
\* or the stream stops.
GapFilled == since = MaxGap ~> (~running \/ sil = MaxGap \/ since < MaxGap)

=============================================================================
