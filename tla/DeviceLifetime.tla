---------------------------- MODULE DeviceLifetime ----------------------------
(***************************************************************************)
(* Life of one card in the AVMATRIX VC12-4K driver (src/src/hws_video.c):  *)
(* probe with the unwinding of each of its failures, remove, and the files *)
(* and threads that go on meanwhile: V4L2 handles that open, start and     *)
(* stop streaming, wait for a frame and close; an ALSA stream; the status  *)
(* thread, the IRQ thread, the audio tasklet and the works of auwq.        *)
(*                                                                         *)
(* remove() runs against all of them.  The V4L2 core refuses calls on an   *)
(* unregistered node, but it looks only when a call begins, and close is   *)
(* never refused.  So the device structure is counted (kref): probe holds  *)
(* one reference, the channel's v4l2_device one until its node and its     *)
(* last handle are gone, the sound card one until its last file is closed. *)
(*                                                                         *)
(* SetHardwareInfo() sets one channel, so there is one node and one sound  *)
(* card.  What is captured is left out (VideoCapture, AudioPipeline): here *)
(* it matters who runs, and what has been freed by then.                   *)
(***************************************************************************)
EXTENDS Integers, FiniteSets

CONSTANTS
  Handles,  \* files on the video node
  MaxChl    \* m_nMaxChl: DMA buffers of the card (4 in the code)

ASSUME LifetimeAssumption == MaxChl \in Nat \ {0}

VARIABLES
  pc,        \* how far probe or remove is
  has,       \* what probe took and has not given back
  dma,       \* DMA buffers allocated, in order
  cpu,       \* CPU buffers of the pool
  allocated, \* m_bBufferAllocate
  refs,      \* hws_pcie_dev.ref; 0 frees the structure
  v4l2,      \* references to the channel's v4l2_device
  card,      \* the sound card
  handle,    \* state of each file on the node
  closing,   \* handles whose last close runs
  errored,   \* vb2_queue_error(): a DQBUF on the queue returns at once
  pcm,       \* the file on the sound card
  running,   \* hws_audio.running
  users,     \* engine_users
  engineLock,\* who holds engine_lock
  started,   \* m_bVCapStarted
  cap,       \* enable bit of the video engine (register 2)
  acap,      \* m_bACapStarted and its enable bit (register 3)
  run,       \* run state of the card (register 0)
  gone,      \* the card is off the bus: reads return 0xFFFFFFFF
  lost,      \* m_PciDeviceLost
  removed,   \* m_Removed
  threads    \* state of each thread or work of the driver

probeVars == <<pc, has>>
poolVars == <<dma, cpu, allocated>>
refVars == <<refs, v4l2, card>>
fileVars == <<handle, closing, errored>>
audioVars == <<pcm, running, acap>>
engineVars == <<users, engineLock, started>>
cardVars == <<cap, run, gone>>
flagVars == <<lost, removed>>
vars == <<probeVars, poolVars, refVars, fileVars, audioVars, engineVars, cardVars, flagVars, threads>>

-----------------------------------------------------------------------------
(* Values. *)

Works == {"silence", "packets"}
Threads == {"status", "irq", "tasklet"} \cup Works
CpuBufs == {"staging", "scaler", "packets"}
NoOne == "none"

\* "starting" and "booting": inside STREAMON; "stopping", "rebooting" and
\* "ending": inside STREAMOFF or the last close.
HandleStates ==
  {"closed", "opening", "open", "starting", "booting", "streaming", "reading", "stopping", "rebooting",
   "ending"}

OpenFiles == {h \in Handles : handle[h] # "closed"}

\* Handles on the channel's list of consumers.
Consumers == {h \in OpenFiles : handle[h] # "opening"} \ closing

Registered == "node" \in has
CardAnswers == ~gone /\ ~removed

\* The card writes into the DMA buffers.
Capturing == run /\ (cap \/ acap)

PoolWhole == dma = MaxChl /\ cpu = CpuBufs

-----------------------------------------------------------------------------
(* References. *)

\* n references to the v4l2_device go; the last one runs hws_v4l2_release().
PutV4l2(n) ==
  /\ v4l2' = v4l2 - n
  /\ refs' = IF n > 0 /\ v4l2 = n THEN refs - 1 ELSE refs

\* hws_unregister_video(): the node goes, and the reference of the
\* registration.
UnregisterVideo ==
  /\ has' = has \ {"node"}
  /\ PutV4l2(1 + (IF Registered /\ OpenFiles = {} THEN 1 ELSE 0))

-----------------------------------------------------------------------------
(* The DMA pool. *)

\* DmaMemFreePool().
DmaMemFreePool ==
  IF allocated THEN dma' = 0 /\ cpu' = {} /\ allocated' = FALSE
               ELSE UNCHANGED poolVars

\* dma_alloc_video_buffers(): one more buffer.  Mutant: one too many.
AllocDmaOneMore ==
  /\ pc \in {"dci", "mm"} /\ dma <= MaxChl
  /\ dma' = dma + 1 /\ allocated' = TRUE
  /\ UNCHANGED <<probeVars, cpu, refVars, fileVars, audioVars, engineVars, cardVars, flagVars, threads>>
AllocDmaBuffer ==
  /\ pc \in {"dci", "mm"} /\ dma < MaxChl
  /\ dma' = dma + 1 /\ allocated' = TRUE
  /\ UNCHANGED <<probeVars, cpu, refVars, fileVars, audioVars, engineVars, cardVars, flagVars, threads>>

\* No memory, or a buffer across a 512 MiB window: what there is of this size
\* is freed; the fallback size is tried after the first, then the pool fails.
AllocDmaFails ==
  /\ pc \in {"dci", "mm"} /\ dma < MaxChl
  /\ dma' = 0 /\ allocated' = TRUE
  /\ pc' = IF pc = "dci" THEN "mm" ELSE "err_pool"
  /\ UNCHANGED <<has, cpu, refVars, fileVars, audioVars, engineVars, cardVars, flagVars, threads>>

\* The frame buffers, then the packets; the first that fails ends it.
AllocCpuBuffers ==
  /\ pc \in {"dci", "mm"} /\ dma = MaxChl
  /\ \E S \in SUBSET CpuBufs :
       /\ "packets" \in S => {"staging", "scaler"} \subseteq S
       /\ cpu' = S
       /\ \/ S = CpuBufs /\ pc' = "irq"
          \/ pc' = "err_pool"
  /\ UNCHANGED <<has, dma, allocated, refVars, fileVars, audioVars, engineVars, cardVars, flagVars, threads>>

-----------------------------------------------------------------------------
(* The engine. *)

\* EnableVideoCapture(): nothing once the card is lost; the write does
\* nothing once BAR0 is unmapped.
EnableVideoCapture(en) ==
  IF lost THEN UNCHANGED <<started, cap>>
          ELSE started' = en /\ cap' = IF CardAnswers THEN en ELSE cap

StopVideoCapture ==
  IF started THEN EnableVideoCapture(FALSE) ELSE UNCHANGED <<started, cap>>

EnableAudioCapture(en) ==
  acap' = IF lost \/ ~CardAnswers THEN acap ELSE en

\* CheckCardStatus(): a card without its run state is initialised again.
CheckCardStatus == run' = (run \/ CardAnswers)

-----------------------------------------------------------------------------
(* probe: each step takes one thing or fails, and a failure jumps to the   *)
(* label that gives back what was taken before.                            *)

\* Step s of probe: on success takes r and goes on at t.
Take(s, r, t) ==
  /\ pc = s /\ has' = has \cup r /\ pc' = t
Fail(s, t) == pc = s /\ pc' = t /\ UNCHANGED has

\* alloc_dev_instance(), pci_enable_device() and probe_scan_for_msi() (its
\* legacy fallback, which has less to give back, is left out).
ProbeEnable ==
  /\ \/ Take("start", {"pci", "msi"}, "map")
     \/ Fail("start", "err_free")
  /\ refs' = 1
  /\ UNCHANGED <<poolVars, v4l2, card, fileVars, audioVars, engineVars, cardVars, flagVars, threads>>

\* ioremap(), then ReadChipId(): the card is reset.
ProbeMap ==
  /\ \/ Take("map", {"bar"}, "wq")
     \/ Fail("map", "err_msi")
  /\ run' = FALSE
  /\ UNCHANGED <<poolVars, refVars, fileVars, audioVars, engineVars, cap, gone, flagVars, threads>>

ProbeWorkqueue ==
  /\ \/ Take("wq", {"wq"}, "dci")
     \/ Fail("wq", "err_unmap")
  /\ UNCHANGED <<poolVars, refVars, fileVars, audioVars, engineVars, cardVars, flagVars, threads>>

ProbeIrq ==
  /\ \/ Take("irq", {"irq"}, "init")
     \/ Fail("irq", "err_dma")
  /\ UNCHANGED <<poolVars, refVars, fileVars, audioVars, engineVars, cardVars, flagVars, threads>>

\* InitVideoSys(0).
ProbeInit ==
  /\ pc = "init" /\ pc' = "thread"
  /\ run' = CardAnswers
  /\ EnableVideoCapture(FALSE) /\ EnableAudioCapture(FALSE)
  /\ UNCHANGED <<has, poolVars, refVars, fileVars, pcm, running, users, engineLock, gone, flagVars, threads>>

ProbeThread ==
  /\ \/ Take("thread", {"thread"}, "v4l2") /\ threads' = [threads EXCEPT !["status"] = "idle"]
     \/ Fail("thread", "err_irq") /\ UNCHANGED threads
  /\ UNCHANGED <<poolVars, refVars, fileVars, audioVars, engineVars, cardVars, flagVars>>

\* hws_video_register(), first loop.
RegisterV4l2 ==
  /\ \/ Fail("v4l2", "node") /\ v4l2' = 1 /\ refs' = refs + 1
     \/ Fail("v4l2", "err_thread") /\ UNCHANGED <<refs, v4l2>>
  /\ UNCHANGED <<poolVars, card, fileVars, audioVars, engineVars, cardVars, flagVars, threads>>

\* Second loop: the controls and the node.  Handles may open from here on.
RegisterNode ==
  /\ \/ Take("node", {"node"}, "card") /\ v4l2' = v4l2 + 1 /\ UNCHANGED refs
     \/ pc = "node" /\ pc' = "err_thread" /\ UnregisterVideo
  /\ UNCHANGED <<poolVars, card, fileVars, audioVars, engineVars, cardVars, flagVars, threads>>

\* hws_audio_register(): snd_card_new() with its reference.
NewCard ==
  /\ \/ Fail("card", "pcm") /\ card' = "new" /\ refs' = refs + 1
     \/ Fail("card", "err_video") /\ UNCHANGED <<card, refs>>
  /\ UNCHANGED <<poolVars, v4l2, fileVars, audioVars, engineVars, cardVars, flagVars, threads>>

\* snd_pcm_new() and snd_card_register(); on failure snd_card_free() drops the
\* reference through private_free.
RegisterCard ==
  /\ \/ Take("pcm", {"debugfs"}, "live") /\ card' = "live" /\ UNCHANGED refs
     \/ Fail("pcm", "err_video") /\ card' = "none" /\ refs' = refs - 1
  /\ UNCHANGED <<poolVars, v4l2, fileVars, audioVars, engineVars, cardVars, flagVars, threads>>

Probe ==
  \/ ProbeEnable \/ ProbeMap \/ ProbeWorkqueue
  \/ AllocDmaBuffer \/ AllocDmaFails \/ AllocCpuBuffers
  \/ ProbeIrq \/ ProbeInit \/ ProbeThread
  \/ RegisterV4l2 \/ RegisterNode \/ NewCard \/ RegisterCard

-----------------------------------------------------------------------------
(* Steps that the unwinding and remove share. *)

\* kthread_stop() waits for the end of a poll.
StopKSThread(s, t) ==
  /\ pc = s /\ pc' = t
  /\ threads["status"] \in {"none", "idle"}
  /\ threads' = [threads EXCEPT !["status"] = "none"]
  /\ has' = has \ {"thread"}
  /\ UNCHANGED <<poolVars, refVars, fileVars, audioVars, engineVars, cardVars, flagVars>>

\* StopDevice(): the run state and both engines go; a card that does not
\* answer is lost.
StopDevice(s, t) ==
  /\ pc = s /\ pc' = t
  /\ run' = FALSE /\ lost' = (lost \/ ~CardAnswers)
  /\ IF lost' THEN UNCHANGED started /\ cap' = FALSE /\ UNCHANGED acap
              ELSE EnableVideoCapture(FALSE) /\ EnableAudioCapture(FALSE)
  /\ UNCHANGED <<has, poolVars, refVars, fileVars, pcm, running, users, engineLock, gone, removed,
                 threads>>

\* free_irq() waits for the IRQ thread.  Mutant: it does not.
FreeIrqNow(s, t) ==
  /\ pc = s /\ pc' = t
  /\ has' = has \ {"irq"}
  /\ UNCHANGED <<poolVars, refVars, fileVars, audioVars, engineVars, cardVars, flagVars, threads>>
FreeIrq(s, t) ==
  /\ pc = s /\ pc' = t
  /\ threads["irq"] = "idle"
  /\ has' = has \ {"irq"}
  /\ UNCHANGED <<poolVars, refVars, fileVars, audioVars, engineVars, cardVars, flagVars, threads>>

FreePool(s, t) ==
  /\ pc = s /\ pc' = t /\ DmaMemFreePool
  /\ UNCHANGED <<has, refVars, fileVars, audioVars, engineVars, cardVars, flagVars, threads>>

\* tasklet_kill() waits until the tasklet is neither scheduled nor running.
KillTasklet(s, t) ==
  /\ pc = s /\ pc' = t
  /\ threads["tasklet"] = "idle"
  /\ UNCHANGED <<has, poolVars, refVars, fileVars, audioVars, engineVars, cardVars, flagVars, threads>>

\* destroy_workqueue() waits for the works it still holds.
DestroyWorkqueue(s, t) ==
  /\ pc = s /\ pc' = t
  /\ \A w \in Works : threads[w] = "idle"
  /\ has' = has \ {"wq"}
  /\ UNCHANGED <<poolVars, refVars, fileVars, audioVars, engineVars, cardVars, flagVars, threads>>

-----------------------------------------------------------------------------
(* The unwinding of a failed probe, label by label. *)

\* err_unmap: and err_msi:, without a step between them that waits.
Unmap(t) ==
  /\ pc' = t /\ has' = has \ {"bar"} /\ removed' = TRUE

\* hws_unregister_video() at err_video:.
ErrUnregister ==
  /\ pc = "err_unreg" /\ pc' = "err_thread" /\ UnregisterVideo
  /\ UNCHANGED <<poolVars, card, fileVars, audioVars, engineVars, cardVars, flagVars, threads>>

ErrUnmap ==
  /\ pc = "err_unmap" /\ Unmap("err_msi")
  /\ UNCHANGED <<poolVars, refVars, fileVars, audioVars, engineVars, cardVars, lost, threads>>

ErrMsi ==
  /\ pc = "err_msi" /\ pc' = "err_free" /\ has' = has \ {"pci", "msi"}
  /\ UNCHANGED <<poolVars, refVars, fileVars, audioVars, engineVars, cardVars, flagVars, threads>>

\* Probe's own reference: err_free:, and the end of remove.
PutDev(s) ==
  /\ pc = s /\ pc' = "gone" /\ refs' = refs - 1
  /\ UNCHANGED <<has, poolVars, v4l2, card, fileVars, audioVars, engineVars, cardVars, flagVars, threads>>

Unwind ==
  \/ StopKSThread("err_video", "err_unreg") \/ ErrUnregister
  \/ StopKSThread("err_thread", "err_irq")
  \/ StopDevice("err_irq", "err_freeirq")
  \/ FreeIrq("err_freeirq", "err_dma")
  \/ FreePool("err_dma", "err_wq") \/ FreePool("err_pool", "err_wq")
  \/ KillTasklet("err_wq", "err_flush") \/ DestroyWorkqueue("err_flush", "err_unmap")
  \/ ErrUnmap \/ ErrMsi \/ PutDev("err_free")

-----------------------------------------------------------------------------
(* remove. *)

\* snd_card_disconnect(): no more calls on the PCM; a running stream stops.
RemoveBegins ==
  /\ pc = "live" /\ pc' = "rm_node"
  /\ card' = "disconnected"
  /\ IF pcm = "running" THEN pcm' = "open" /\ running' = FALSE /\ EnableAudioCapture(FALSE)
                        ELSE UNCHANGED audioVars
  /\ UNCHANGED <<has, poolVars, refs, v4l2, fileVars, engineVars, cardVars, flagVars, threads>>

\* video_unregister_device(): calls that begin from now on are refused.
RemoveNode ==
  /\ pc = "rm_node" /\ pc' = "rm_wake"
  /\ has' = has \ {"node"}
  /\ PutV4l2(IF OpenFiles = {} THEN 1 ELSE 0)
  /\ UNCHANGED <<poolVars, card, fileVars, audioVars, engineVars, cardVars, flagVars, threads>>

\* vb2_queue_error() on the queue of every consumer; debugfs goes.  Mutant:
\* only the queues of handles that are not in a call.
WakeIdleReaders ==
  /\ pc = "rm_wake" /\ pc' = "rm_thread" /\ has' = has \ {"debugfs"}
  /\ errored' = errored \cup {h \in Consumers : handle[h] \in {"open", "streaming"}}
  /\ UNCHANGED <<poolVars, refVars, handle, closing, audioVars, engineVars, cardVars, flagVars, threads>>
WakeReaders ==
  /\ pc = "rm_wake" /\ pc' = "rm_thread" /\ has' = has \ {"debugfs"}
  /\ errored' = errored \cup Consumers
  /\ UNCHANGED <<poolVars, refVars, handle, closing, audioVars, engineVars, cardVars, flagVars, threads>>

\* hws_video_quiesce(), without engine_lock.
RemoveQuiesce ==
  /\ pc = "rm_quiesce" /\ pc' = "rm_stop"
  /\ StopVideoCapture
  /\ UNCHANGED <<has, poolVars, refVars, fileVars, audioVars, users, engineLock, run, gone, flagVars, threads>>

\* The works are cancelled, the silence work for good: it queues itself only
\* while running is set.
CancelWorks ==
  /\ pc = "rm_work" /\ pc' = "rm_wq"
  /\ running' = FALSE
  /\ \A w \in Works : threads[w] # "busy"
  /\ threads' = [w \in Threads |-> IF w \in Works THEN "idle" ELSE threads[w]]
  /\ UNCHANGED <<has, poolVars, refVars, fileVars, pcm, acap, engineVars, cardVars, flagVars>>

\* The flags, then iounmap() and the PCI device.
RemoveUnmap ==
  /\ pc = "rm_unmap" /\ pc' = "rm_v4l2" /\ has' = has \ {"bar", "msi", "pci"}
  /\ lost' = TRUE /\ removed' = TRUE
  /\ UNCHANGED <<poolVars, refVars, fileVars, audioVars, engineVars, cardVars, threads>>

\* v4l2_device_unregister() and _put().
RemoveV4l2 ==
  /\ pc = "rm_v4l2" /\ pc' = "rm_card" /\ PutV4l2(1)
  /\ UNCHANGED <<has, poolVars, card, fileVars, audioVars, engineVars, cardVars, flagVars, threads>>

\* snd_card_free_when_closed().  Mutant: frees the card at once.
FreeCardNow ==
  /\ pc = "rm_card" /\ pc' = "rm_put"
  /\ card' = "none" /\ refs' = refs - 1
  /\ UNCHANGED <<has, poolVars, v4l2, fileVars, audioVars, engineVars, cardVars, flagVars, threads>>
FreeCardWhenClosed ==
  /\ pc = "rm_card" /\ pc' = "rm_put"
  /\ IF pcm = "closed" THEN card' = "none" /\ refs' = refs - 1
                       ELSE card' = "freeing" /\ UNCHANGED refs
  /\ UNCHANGED <<has, poolVars, v4l2, fileVars, audioVars, engineVars, cardVars, flagVars, threads>>

Remove ==
  \/ RemoveNode \/ WakeReaders
  \/ StopKSThread("rm_thread", "rm_quiesce") \/ RemoveQuiesce
  \/ StopDevice("rm_stop", "rm_irq")
  \/ FreeIrq("rm_irq", "rm_tasklet") \/ KillTasklet("rm_tasklet", "rm_work")
  \/ CancelWorks \/ DestroyWorkqueue("rm_wq", "rm_pool") \/ FreePool("rm_pool", "rm_unmap")
  \/ RemoveUnmap \/ RemoveV4l2 \/ FreeCardWhenClosed \/ PutDev("rm_put")

-----------------------------------------------------------------------------
(* Files on the video node.  v4l2_open() and v4l2_ioctl() look whether the *)
(* node is registered when they begin, and only then.                      *)

Goes(h, s) == handle' = [handle EXCEPT ![h] = s]

OpenBegins(h) ==
  /\ handle[h] = "closed" /\ Registered
  /\ Goes(h, "opening") /\ errored' = errored \ {h}
  /\ UNCHANGED <<probeVars, poolVars, refVars, closing, audioVars, engineVars, cardVars, flagVars, threads>>

\* hws_open(): the handle joins the consumers.
OpenEnds(h) ==
  /\ handle[h] = "opening" /\ Goes(h, "open")
  /\ UNCHANGED <<probeVars, poolVars, refVars, closing, errored, audioVars, engineVars, cardVars, flagVars,
                 threads>>

\* STREAMON, up to engine_lock.
StreamOn(h) ==
  /\ handle[h] = "open" /\ h \notin closing /\ Registered
  /\ Goes(h, "starting")
  /\ UNCHANGED <<probeVars, poolVars, refVars, closing, errored, audioVars, engineVars, cardVars, flagVars,
                 threads>>

\* hws_start_streaming_multi(): the first user starts the engine, still under
\* engine_lock.
CountsUser(h) ==
  /\ handle[h] = "starting" /\ engineLock = NoOne
  /\ users' = users + 1
  /\ IF users = 0 THEN engineLock' = h /\ Goes(h, "booting")
                  ELSE UNCHANGED engineLock /\ Goes(h, "streaming")
  /\ UNCHANGED <<probeVars, poolVars, refVars, closing, errored, audioVars, started, cardVars, flagVars,
                 threads>>

\* StartVideoCapture(), and the end of the section under engine_lock.  Mutant:
\* the restart after a timeout keeps the lock.
StartEngineLocked(h) ==
  /\ handle[h] \in {"booting", "rebooting"}
  /\ Goes(h, IF handle[h] = "booting" THEN "streaming" ELSE "ending")
  /\ CheckCardStatus /\ EnableVideoCapture(TRUE)
  /\ engineLock' = IF handle[h] = "booting" THEN NoOne ELSE h
  /\ UNCHANGED <<probeVars, poolVars, refVars, closing, errored, audioVars, users, gone, flagVars,
                 threads>>
StartEngine(h) ==
  /\ handle[h] \in {"booting", "rebooting"}
  /\ Goes(h, IF handle[h] = "booting" THEN "streaming" ELSE "ending")
  /\ CheckCardStatus /\ EnableVideoCapture(TRUE)
  /\ engineLock' = NoOne
  /\ UNCHANGED <<probeVars, poolVars, refVars, closing, errored, audioVars, users, gone, flagVars,
                 threads>>

\* STREAMOFF, or the last close of a streaming handle.
StopBegins(h) ==
  /\ handle[h] = "streaming" /\ Goes(h, "stopping")
  /\ \/ Registered /\ UNCHANGED closing
     \/ closing' = closing \cup {h}
  /\ UNCHANGED <<probeVars, poolVars, refVars, errored, audioVars, engineVars, cardVars, flagVars, threads>>

\* 250 ms have passed: stop the engine, let go, start it again for the others.
StopTimesOut(h) ==
  /\ handle[h] = "stopping" /\ engineLock = NoOne
  /\ StopVideoCapture
  /\ IF users > 1 THEN engineLock' = h /\ Goes(h, "rebooting")
                  ELSE UNCHANGED engineLock /\ Goes(h, "ending")
  /\ UNCHANGED <<probeVars, poolVars, refVars, closing, errored, audioVars, users, run, gone, flagVars,
                 threads>>

\* The end of the last close: the file lets go of the node.  Mutant: it does
\* not look whether it was the last file of an unregistered node.
CloseKeepsNode(h) ==
  /\ Goes(h, "closed") /\ closing' = closing \ {h} /\ PutV4l2(0)
CloseFile(h) ==
  /\ Goes(h, "closed") /\ closing' = closing \ {h}
  /\ PutV4l2(IF ~Registered /\ OpenFiles = {h} THEN 1 ELSE 0)

\* Nothing of the handle is in flight any more.  The last user stops the
\* engine; a closing handle is closed.
StopEnds(h) ==
  /\ handle[h] \in {"stopping", "ending"} /\ engineLock = NoOne
  /\ users' = users - 1
  /\ IF users = 1 THEN StopVideoCapture ELSE UNCHANGED <<started, cap>>
  /\ IF h \in closing THEN CloseFile(h) ELSE Goes(h, "open") /\ UNCHANGED <<closing, v4l2, refs>>
  /\ errored' = errored \ {h}
  /\ UNCHANGED <<probeVars, poolVars, card, audioVars, engineLock, run, gone, flagVars, threads>>

\* hws_release() of a handle that does not stream.
Close(h) ==
  /\ handle[h] = "open" /\ CloseFile(h)
  /\ UNCHANGED <<probeVars, poolVars, card, errored, audioVars, engineVars, cardVars, flagVars, threads>>

\* A DQBUF that waits; a frame, a signal or the queue's error ends it.
ReadBegins(h) ==
  /\ handle[h] = "streaming" /\ Registered /\ h \notin errored
  /\ Goes(h, "reading")
  /\ UNCHANGED <<probeVars, poolVars, refVars, closing, errored, audioVars, engineVars, cardVars, flagVars,
                 threads>>
ReadEnds(h) ==
  /\ handle[h] = "reading" /\ Goes(h, "streaming")
  /\ UNCHANGED <<probeVars, poolVars, refVars, closing, errored, audioVars, engineVars, cardVars, flagVars,
                 threads>>

\* The part of a call that the driver alone decides on.
Progress(h) ==
  \/ OpenEnds(h) \/ CountsUser(h) \/ StartEngine(h)
  \/ StopTimesOut(h) \/ StopEnds(h)

File(h) ==
  \/ OpenBegins(h) \/ StreamOn(h) \/ StopBegins(h) \/ Close(h) \/ ReadBegins(h) \/ ReadEnds(h)
  \/ Progress(h)

-----------------------------------------------------------------------------
(* The file on the sound card.  ALSA refuses calls on a disconnected card  *)
(* under the lock the disconnect takes.                                    *)

PcmOpen ==
  /\ pcm = "closed" /\ card = "live" /\ pcm' = "open"
  /\ UNCHANGED <<probeVars, poolVars, refVars, fileVars, running, acap, engineVars, cardVars, flagVars,
                 threads>>

\* hws_pcie_audio_trigger(): START.
TriggerStart ==
  /\ pcm = "open" /\ card = "live" /\ pcm' = "running"
  /\ running' = TRUE /\ EnableAudioCapture(TRUE)
  /\ threads' = [threads EXCEPT !["silence"] = IF @ = "idle" THEN "queued" ELSE @]
  /\ UNCHANGED <<probeVars, poolVars, refVars, fileVars, engineVars, cardVars, flagVars>>

\* STOP: the silence work is dequeued if it does not run.
TriggerStop ==
  /\ pcm = "running" /\ pcm' = "open"
  /\ running' = FALSE /\ EnableAudioCapture(FALSE)
  /\ threads' = [threads EXCEPT !["silence"] = IF @ = "queued" THEN "idle" ELSE @]
  /\ UNCHANGED <<probeVars, poolVars, refVars, fileVars, engineVars, cardVars, flagVars>>

\* The last close waits for both works (hw_free); a disconnected card that
\* remove has given up goes with it, and its reference (private_free).
PcmClose ==
  /\ pcm = "open" /\ pcm' = "closed"
  /\ \A w \in Works : threads[w] # "busy"
  /\ threads' = [w \in Threads |-> IF w \in Works THEN "idle" ELSE threads[w]]
  /\ IF card = "freeing" THEN card' = "none" /\ refs' = refs - 1 ELSE UNCHANGED <<card, refs>>
  /\ UNCHANGED <<probeVars, poolVars, v4l2, fileVars, running, acap, engineVars, cardVars, flagVars>>

Pcm == PcmOpen \/ TriggerStart \/ TriggerStop \/ PcmClose

-----------------------------------------------------------------------------
(* Interrupts, threads and works. *)

Becomes(w, s) == threads' = [threads EXCEPT ![w] = s]
OnlyThreads == UNCHANGED <<probeVars, poolVars, refVars, fileVars, audioVars, cardVars, flagVars>>

\* The handler wakes the IRQ thread, or schedules the tasklet.  free_irq()
\* unhooks it first, then waits.
Interrupt ==
  /\ "irq" \in has /\ pc \notin {"err_freeirq", "rm_irq"}
  /\ run /\ ~gone
  /\ \/ cap /\ threads["irq"] = "idle" /\ Becomes("irq", "busy")
     \/ acap /\ threads["tasklet"] = "idle" /\ Becomes("tasklet", "queued")
  /\ OnlyThreads /\ UNCHANGED engineVars

IrqThreadEnds ==
  /\ threads["irq"] = "busy" /\ Becomes("irq", "idle")
  /\ OnlyThreads /\ UNCHANGED engineVars

\* SetAudioQuene(): the packet is copied and its work queued.
TaskletRuns ==
  /\ threads["tasklet"] = "queued"
  /\ threads' = [threads EXCEPT !["tasklet"] = "idle",
                                !["packets"] = IF @ = "busy" THEN @ ELSE "queued"]
  /\ OnlyThreads /\ UNCHANGED engineVars

\* auwq is ordered: one work at a time.
WorkRuns(w) ==
  /\ threads[w] = "queued" /\ \A o \in Works : threads[o] # "busy"
  /\ Becomes(w, "busy")
  /\ OnlyThreads /\ UNCHANGED engineVars

\* The silence work queues itself again while the stream runs.
WorkEnds(w) ==
  /\ threads[w] = "busy"
  /\ Becomes(w, IF w = "silence" /\ running THEN "queued" ELSE "idle")
  /\ OnlyThreads /\ UNCHANGED engineVars

\* MainKsThreadHandle(): a poll looks at the card and at the canary in the
\* pool; with the engine on, or a re-initialisation due (an audio start may have
\* asked for it with the engine off), it needs engine_lock.  Told to stop, it ends.
ShouldStop == pc \in {"err_video", "err_thread", "rm_thread"}

PollBegins ==
  /\ threads["status"] = "idle" /\ ~ShouldStop
  /\ \/ Becomes("status", "waiting")
     \/ ~started /\ Becomes("status", "busy")
  /\ OnlyThreads /\ UNCHANGED engineVars

PollLocks ==
  /\ threads["status"] = "waiting" /\ engineLock = NoOne
  /\ Becomes("status", "busy") /\ engineLock' = "status"
  /\ OnlyThreads /\ UNCHANGED <<users, started>>

PollEnds ==
  /\ threads["status"] = "busy" /\ Becomes("status", "idle")
  /\ engineLock' = IF engineLock = "status" THEN NoOne ELSE engineLock
  /\ OnlyThreads /\ UNCHANGED <<users, started>>

\* The card falls off the bus.
CardGone ==
  /\ ~gone /\ gone' = TRUE /\ run' = FALSE /\ cap' = FALSE /\ acap' = FALSE
  /\ UNCHANGED <<probeVars, poolVars, refVars, fileVars, pcm, running, engineVars, flagVars, threads>>

Driver ==
  \/ IrqThreadEnds \/ TaskletRuns \/ PollLocks \/ PollEnds
  \/ \E w \in Works : WorkRuns(w) \/ WorkEnds(w)

-----------------------------------------------------------------------------

Init ==
  /\ pc = "start" /\ has = {}
  /\ dma = 0 /\ cpu = {} /\ allocated = FALSE
  /\ refs = 0 /\ v4l2 = 0 /\ card = "none"
  /\ handle = [h \in Handles |-> "closed"] /\ closing = {} /\ errored = {}
  /\ pcm = "closed" /\ running = FALSE /\ acap = FALSE
  /\ users = 0 /\ engineLock = NoOne /\ started = FALSE
  /\ cap = FALSE /\ run = FALSE /\ gone = FALSE /\ lost = FALSE /\ removed = FALSE
  /\ threads = [w \in Threads |-> IF w = "status" THEN "none" ELSE "idle"]

Next ==
  \/ Probe \/ Unwind \/ RemoveBegins \/ Remove
  \/ \E h \in Handles : File(h)
  \/ Pcm \/ Interrupt \/ Driver \/ PollBegins \/ CardGone

Spec == Init /\ [][Next]_vars

\* What runs goes on, calls included.  Nobody has to open, read, stream or
\* close, and no queued work has to run.
Fairness ==
  /\ WF_vars(Remove)
  /\ WF_vars(IrqThreadEnds) /\ WF_vars(TaskletRuns) /\ WF_vars(\E w \in Works : WorkEnds(w))
  /\ WF_vars(PollLocks) /\ WF_vars(PollEnds)
  /\ \A h \in Handles : WF_vars(Progress(h))

FairSpec == Spec /\ Fairness

-----------------------------------------------------------------------------
(* Properties. *)

\* Type invariant.
TypeOK ==
  /\ has \subseteq {"pci", "msi", "bar", "wq", "irq", "thread", "node", "debugfs"}
  /\ dma \in 0 .. MaxChl /\ cpu \subseteq CpuBufs /\ allocated \in BOOLEAN
  /\ refs \in Nat /\ v4l2 \in 0 .. 2
  /\ card \in {"none", "new", "live", "disconnected", "freeing"}
  /\ handle \in [Handles -> HandleStates]
  /\ closing \subseteq Handles /\ errored \subseteq Handles
  /\ pcm \in {"closed", "open", "running"}
  /\ {running, acap, started, cap, run, gone, lost, removed} \subseteq BOOLEAN
  /\ users \in Nat /\ engineLock \in {NoOne, "status"} \cup Handles
  /\ threads \in [Threads -> {"none", "idle", "queued", "waiting", "busy"}]

\* The device structure is freed (hws_dev_release()) only when nothing of the
\* driver can come back to it: probe or remove is through, every handle and
\* the PCM are closed, no thread or work is left.
FreedLast ==
  pc # "start" /\ refs = 0 =>
    /\ pc = "gone"
    /\ OpenFiles = {} /\ pcm = "closed" /\ card = "none" /\ v4l2 = 0
    /\ threads["status"] = "none" /\ \A w \in Threads \ {"status"} : threads[w] = "idle"

\* Who runs finds what it uses: the IRQ thread and a poll the whole pool and
\* the mapped BAR, the tasklet and the packet work the pool too, and whoever
\* queues or runs a work its queue.  A handle inside STREAMON is not among them:
\* what it finds is CardStoppedBeforeFree's.
UsersFindTheirMemory ==
  /\ threads["irq"] # "idle" => PoolWhole /\ "bar" \in has
  /\ threads["status"] \in {"waiting", "busy"} => PoolWhole /\ "bar" \in has
  /\ threads["tasklet"] # "idle" => PoolWhole /\ {"bar", "wq"} \subseteq has
  /\ threads["packets"] # "idle" => PoolWhole /\ "wq" \in has
  /\ threads["silence"] # "idle" => "wq" \in has
  /\ pcm = "running" => "wq" \in has

\* A probe that failed and a remove that is through keep nothing, whichever
\* step failed; the structure goes with the last file.
NothingLeaks ==
  pc = "gone" =>
    /\ has = {} /\ dma = 0 /\ cpu = {} /\ ~allocated
    /\ OpenFiles = {} /\ pcm = "closed" => refs = 0

\* remove(): once the queues have been told (hws_remove(), "wake readers
\* blocked in DQBUF or poll: no frame will come"), no reader goes on waiting.
ReadersWoken ==
  pc \in {"rm_thread", "rm_quiesce", "rm_stop", "rm_irq", "rm_tasklet", "rm_work", "rm_wq",
          "rm_pool", "rm_unmap", "rm_v4l2", "rm_card", "rm_put"} =>
    \A h \in Handles : handle[h] = "reading" => h \in errored

\* remove() returns, whatever handles and streams do meanwhile.
RemoveReturns == pc = "rm_node" ~> pc = "gone"

\* hws_remove() stops "everything that touches the card or its buffers (...)
\* before the devices go away and the DMA buffers are freed": between the free
\* of the pool and the end of bus mastering (pci_disable_device()) the card
\* does not write.
CardStoppedBeforeFree == pc = "rm_unmap" => ~Capturing
=============================================================================
