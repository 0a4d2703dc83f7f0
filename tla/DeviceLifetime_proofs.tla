------------------------ MODULE DeviceLifetime_proofs ------------------------
(***************************************************************************)
(* Theorems about the life of a card: the references are counted exactly,  *)
(* the device structure goes last, whoever runs finds its memory, and      *)
(* nothing leaks, for any number of handles and of DMA buffers.            *)
(***************************************************************************)
EXTENDS DeviceLifetime, FiniteSetTheorems, TLAPS

-----------------------------------------------------------------------------
(* Where probe and remove have what.  Each set names the places at which a *)
(* resource may be held, or is.                                            *)

ToWq == {"rm_node", "rm_wake", "rm_thread", "rm_quiesce", "rm_stop", "rm_irq", "rm_tasklet",
         "rm_work", "rm_wq"}
ToUnmap == ToWq \cup {"rm_pool", "rm_unmap"}
ErrIrq == {"err_video", "err_unreg", "err_thread", "err_irq", "err_freeirq"}

NodePcs == {"card", "pcm", "live", "err_video", "err_unreg", "rm_node"}
ThreadPcs == {"v4l2", "node", "card", "pcm", "live", "err_video", "err_thread", "rm_node", "rm_wake",
              "rm_thread"}
IrqPcs == {"init", "thread", "v4l2", "node", "card", "pcm", "live"} \cup ErrIrq
          \cup {"rm_node", "rm_wake", "rm_thread", "rm_quiesce", "rm_stop", "rm_irq"}
PoolPcs == {"irq", "err_dma"} \cup IrqPcs \cup {"rm_tasklet", "rm_work", "rm_wq", "rm_pool"}
WqPcs == {"dci", "mm", "irq", "err_pool", "err_dma", "err_wq", "err_flush"} \cup IrqPcs \cup ToWq
BarPcs == {"wq", "err_unmap"} \cup WqPcs \cup ToUnmap
PciPcs == {"map", "err_msi"} \cup BarPcs
V4l2Pcs == {"node", "card", "pcm", "live", "err_video", "err_unreg", "rm_v4l2"} \cup ToUnmap

\* The sound card is there from "pcm" on, and disconnected once remove began.
DisconnectedPcs == ToUnmap \cup {"rm_v4l2", "rm_card"}
TaskletPcs == {"live", "rm_node", "rm_wake", "rm_thread", "rm_quiesce", "rm_stop", "rm_irq", "rm_tasklet"}
WorkPcs == {"live"} \cup ToWq

One(b) == IF b THEN 1 ELSE 0

-----------------------------------------------------------------------------
(* The invariant. *)

\* What is held where, and nothing else.
MemInv ==
  /\ has \subseteq {"pci", "msi", "bar", "wq", "irq", "thread", "node", "debugfs"}
  /\ dma \in 0 .. MaxChl /\ cpu \subseteq CpuBufs /\ allocated \in BOOLEAN
  /\ {"pci", "msi"} \cap has # {} => pc \in PciPcs
  /\ "bar" \in has <=> pc \in BarPcs
  /\ "wq" \in has <=> pc \in WqPcs
  /\ "irq" \in has => pc \in IrqPcs
  /\ "thread" \in has => pc \in ThreadPcs
  /\ "node" \in has <=> pc \in NodePcs
  /\ "debugfs" \in has => pc \in {"live", "rm_node", "rm_wake"}
  /\ dma # 0 \/ cpu # {} => allocated
  /\ allocated => pc \in {"dci", "mm", "err_pool"} \cup PoolPcs
  /\ pc \in PoolPcs => PoolWhole

\* Each reference is held by whoever it is counted for.
RefInv ==
  /\ handle \in [Handles -> HandleStates]
  /\ v4l2 = One(pc \in V4l2Pcs) + One(Registered \/ OpenFiles # {})
  /\ refs = One(pc \notin {"start", "gone"}) + One(v4l2 # 0) + One(card # "none")
  /\ OpenFiles # {} =>
       pc \notin {"start", "map", "wq", "dci", "mm", "irq", "init", "thread", "v4l2", "node"}
  /\ card \in {"none", "new", "live", "disconnected", "freeing"}
  /\ pcm \in {"closed", "open", "running"}
  /\ card = "new" <=> pc = "pcm"
  /\ card = "live" <=> pc = "live"
  /\ card = "disconnected" <=> pc \in DisconnectedPcs
  /\ card = "freeing" => pc \in {"rm_put", "gone"} /\ pcm # "closed"
  /\ pcm # "closed" => card \in {"live", "disconnected", "freeing"}
  /\ pcm = "running" => card = "live"

\* A thread or a work runs only where it may.
ThreadInv ==
  /\ threads \in [Threads -> {"none", "idle", "queued", "waiting", "busy"}]
  /\ {running, acap, started, cap, run, gone, lost, removed} \subseteq BOOLEAN
  /\ threads["status"] # "none" => pc \in ThreadPcs
  /\ threads["irq"] # "idle" => "irq" \in has
  /\ acap => pc \in {"live", "rm_v4l2", "rm_card", "rm_put", "gone"} \cup ToUnmap
  /\ threads["tasklet"] # "idle" => pc \in TaskletPcs
  /\ \A w \in Works : threads[w] # "idle" => pc \in WorkPcs
  /\ running => pcm = "running"

\* A closing handle stops: it is not reading.
HandleInv ==
  /\ closing \subseteq Handles
  /\ \A h \in closing : handle[h] \in {"stopping", "rebooting", "ending"}

LInv == MemInv /\ RefInv /\ ThreadInv /\ HandleInv /\ ReadersWoken

-----------------------------------------------------------------------------
(* Memory: probe, its unwinding and remove.                                *)

\* The steps that change what is held.
MemStep == Probe \/ Unwind \/ RemoveBegins \/ Remove

\* Everything else leaves it.
LEMMA MemSteps == [Next]_vars => MemStep \/ UNCHANGED <<probeVars, poolVars>>
<1> SUFFICES ASSUME [Next]_vars PROVE MemStep \/ UNCHANGED <<probeVars, poolVars>>
  OBVIOUS
<1>1. ASSUME NEW h \in Handles, File(h) PROVE UNCHANGED <<probeVars, poolVars>>
  BY <1>1 DEF File, Progress, OpenBegins, OpenEnds, StreamOn, CountsUser, StartEngine, StopBegins,
     StopTimesOut, StopEnds, Close, ReadBegins, ReadEnds
<1>2. CASE Pcm
  BY <1>2 DEF Pcm, PcmOpen, TriggerStart, TriggerStop, PcmClose
<1>3. CASE Interrupt \/ Driver \/ PollBegins \/ CardGone
  BY <1>3 DEF Interrupt, Driver, IrqThreadEnds, TaskletRuns, PollLocks, PollEnds, WorkRuns, WorkEnds,
     PollBegins, CardGone, OnlyThreads
<1>4. CASE UNCHANGED vars
  BY <1>4 DEF vars
<1> QED  BY <1>1, <1>2, <1>3, <1>4 DEF Next, MemStep

\* Every step keeps what is held in step with the place in probe and remove.
LEMMA MemKept ==
  ASSUME MemInv, [Next]_vars
  PROVE  MemInv'
<1> USE LifetimeAssumption DEF MemInv, PoolWhole, CpuBufs, ToWq, ToUnmap, ErrIrq, NodePcs, ThreadPcs,
        IrqPcs, PoolPcs, WqPcs, BarPcs, PciPcs
<1>1. CASE ProbeEnable \/ ProbeMap \/ ProbeWorkqueue
  <2>1. CASE ProbeEnable
    BY <2>1 DEF ProbeEnable, Take, Fail, poolVars
  <2>2. CASE ProbeMap
    BY <2>2 DEF ProbeMap, Take, Fail, poolVars
  <2>3. CASE ProbeWorkqueue
    BY <2>3 DEF ProbeWorkqueue, Take, Fail, poolVars
  <2> HIDE DEF MemInv
  <2> QED  BY <1>1, <2>1, <2>2, <2>3
<1>2. CASE AllocDmaBuffer
  BY <1>2 DEF AllocDmaBuffer, probeVars
<1>3. CASE AllocDmaFails
  BY <1>3 DEF AllocDmaFails
<1>4. CASE AllocCpuBuffers
  BY <1>4 DEF AllocCpuBuffers
<1>5. CASE ProbeIrq \/ ProbeInit \/ ProbeThread
  BY <1>5 DEF ProbeIrq, ProbeInit, ProbeThread, Take, Fail, poolVars
<1>6. CASE RegisterV4l2 \/ RegisterNode
  BY <1>6 DEF RegisterV4l2, RegisterNode, UnregisterVideo, Take, Fail, poolVars
<1>7. CASE NewCard \/ RegisterCard
  BY <1>7 DEF NewCard, RegisterCard, Take, Fail, poolVars
<1>8. ASSUME NEW s, NEW t, StopKSThread(s, t),
             \/ s = "err_video" /\ t = "err_unreg"
             \/ s = "err_thread" /\ t = "err_irq"
             \/ s = "rm_thread" /\ t = "rm_quiesce"
      PROVE  MemInv'
  BY <1>8 DEF StopKSThread, poolVars
<1>9. ASSUME NEW s, NEW t, StopDevice(s, t),
             \/ s = "err_irq" /\ t = "err_freeirq"
             \/ s = "rm_stop" /\ t = "rm_irq"
      PROVE  MemInv'
  BY <1>9 DEF StopDevice, poolVars
<1>10. ASSUME NEW s, NEW t, FreeIrq(s, t),
             \/ s = "err_freeirq" /\ t = "err_dma"
             \/ s = "rm_irq" /\ t = "rm_tasklet"
       PROVE  MemInv'
  BY <1>10 DEF FreeIrq, poolVars
<1>11. ASSUME NEW s, NEW t, FreePool(s, t),
             \/ s \in {"err_dma", "err_pool"} /\ t = "err_wq"
             \/ s = "rm_pool" /\ t = "rm_unmap"
       PROVE  MemInv'
  <2>1. dma' = 0 /\ cpu' = {} /\ allocated' = FALSE
    BY <1>11 DEF FreePool, DmaMemFreePool, poolVars
  <2>2. has' = has /\ pc = s /\ pc' = t
    BY <1>11 DEF FreePool
  <2>3. /\ has' \subseteq {"pci", "msi", "bar", "wq", "irq", "thread", "node", "debugfs"}
        /\ "bar" \in has' <=> pc' \in BarPcs
        /\ "wq" \in has' <=> pc' \in WqPcs
        /\ "node" \in has' <=> pc' \in NodePcs
        /\ {"pci", "msi"} \cap has' # {} => pc' \in PciPcs
    BY <1>11, <2>2
  <2>4. "irq" \notin has /\ "thread" \notin has /\ "node" \notin has /\ "debugfs" \notin has
    BY <1>11, <2>2
  <2>5. pc' \notin PoolPcs
    BY <1>11, <2>2
  <2>6. dma' \in 0 .. MaxChl /\ cpu' \subseteq CpuBufs /\ allocated' \in BOOLEAN
    <3>1. dma' \in 0 .. MaxChl
      BY <2>1
    <3>2. cpu' \subseteq CpuBufs /\ allocated' \in BOOLEAN
      BY <2>1
    <3> QED  BY <3>1, <3>2
  <2>7. /\ dma' # 0 \/ cpu' # {} => allocated'
        /\ allocated' => pc' \in {"dci", "mm", "err_pool"} \cup PoolPcs
        /\ (pc \in PoolPcs => PoolWhole)'
    BY <2>1, <2>5
  <2>8. /\ ("irq" \in has => pc \in IrqPcs)'
        /\ ("thread" \in has => pc \in ThreadPcs)'
        /\ ("debugfs" \in has => pc \in {"live", "rm_node", "rm_wake"})'
    BY <2>2, <2>4
  <2> QED
    BY <2>3, <2>6, <2>7, <2>8
<1>12. ASSUME NEW s, NEW t, KillTasklet(s, t),
             \/ s = "err_wq" /\ t = "err_flush"
             \/ s = "rm_tasklet" /\ t = "rm_work"
       PROVE  MemInv'
  BY <1>12 DEF KillTasklet, poolVars
<1>13. ASSUME NEW s, NEW t, DestroyWorkqueue(s, t),
             \/ s = "err_flush" /\ t = "err_unmap"
             \/ s = "rm_wq" /\ t = "rm_pool"
       PROVE  MemInv'
  BY <1>13 DEF DestroyWorkqueue, poolVars
<1>14. CASE ErrUnregister \/ ErrUnmap \/ ErrMsi
  <2>1. CASE ErrUnregister
    BY <2>1 DEF ErrUnregister, UnregisterVideo, poolVars
  <2>2. CASE ErrUnmap
    BY <2>2 DEF ErrUnmap, Unmap, poolVars
  <2>3. CASE ErrMsi
    BY <2>3 DEF ErrMsi, poolVars
  <2> HIDE DEF MemInv
  <2> QED  BY <1>14, <2>1, <2>2, <2>3
<1>15. ASSUME NEW s, PutDev(s), s \in {"err_free", "rm_put"} PROVE MemInv'
  BY <1>15 DEF PutDev, poolVars
<1>16. CASE RemoveBegins \/ RemoveNode \/ WakeReaders \/ RemoveQuiesce \/ CancelWorks
  BY <1>16 DEF RemoveBegins, RemoveNode, WakeReaders, RemoveQuiesce, CancelWorks, poolVars
<1>17. CASE RemoveUnmap \/ RemoveV4l2 \/ FreeCardWhenClosed
  <2>1. CASE RemoveUnmap
    BY <2>1 DEF RemoveUnmap, poolVars
  <2>2. CASE RemoveV4l2
    BY <2>2 DEF RemoveV4l2, poolVars
  <2>3. CASE FreeCardWhenClosed
    BY <2>3 DEF FreeCardWhenClosed, poolVars
  <2> HIDE DEF MemInv
  <2> QED  BY <1>17, <2>1, <2>2, <2>3
<1>18. CASE UNCHANGED <<probeVars, poolVars>>
  BY <1>18 DEF probeVars, poolVars
<1> HIDE DEF MemInv
<1>19. CASE Probe
  BY <1>1, <1>2, <1>3, <1>4, <1>5, <1>6, <1>7, <1>19 DEF Probe
<1>20. CASE Unwind
  <2>1. CASE StopKSThread("err_video", "err_unreg")
    BY <1>8, <2>1
  <2>2. CASE StopKSThread("err_thread", "err_irq")
    BY <1>8, <2>2
  <2>3. CASE StopDevice("err_irq", "err_freeirq")
    BY <1>9, <2>3
  <2>4. CASE FreeIrq("err_freeirq", "err_dma")
    BY <1>10, <2>4
  <2>5. CASE FreePool("err_dma", "err_wq")
    BY <1>11, <2>5
  <2>6. CASE FreePool("err_pool", "err_wq")
    BY <1>11, <2>6
  <2>7. CASE KillTasklet("err_wq", "err_flush")
    BY <1>12, <2>7
  <2>8. CASE DestroyWorkqueue("err_flush", "err_unmap")
    BY <1>13, <2>8
  <2>9. CASE PutDev("err_free")
    BY <1>15, <2>9
  <2> QED  BY <1>14, <1>20, <2>1, <2>2, <2>3, <2>4, <2>5, <2>6, <2>7, <2>8, <2>9 DEF Unwind
<1>21. CASE RemoveBegins \/ Remove
  <2>1. CASE StopKSThread("rm_thread", "rm_quiesce")
    BY <1>8, <2>1
  <2>2. CASE StopDevice("rm_stop", "rm_irq")
    BY <1>9, <2>2
  <2>3. CASE FreeIrq("rm_irq", "rm_tasklet")
    BY <1>10, <2>3
  <2>4. CASE FreePool("rm_pool", "rm_unmap")
    BY <1>11, <2>4
  <2>5. CASE KillTasklet("rm_tasklet", "rm_work")
    BY <1>12, <2>5
  <2>6. CASE DestroyWorkqueue("rm_wq", "rm_pool")
    BY <1>13, <2>6
  <2>7. CASE PutDev("rm_put")
    BY <1>15, <2>7
  <2> QED  BY <1>16, <1>17, <1>21, <2>1, <2>2, <2>3, <2>4, <2>5, <2>6, <2>7 DEF Remove
<1> QED  BY <1>18, <1>19, <1>20, <1>21, MemSteps DEF MemStep

-----------------------------------------------------------------------------
(* References. *)

\* Where a handle goes decides whether its file is open.
LEMMA OpenFilesGo ==
  ASSUME handle \in [Handles -> HandleStates], NEW h \in Handles, NEW s \in HandleStates, Goes(h, s)
  PROVE  /\ handle' \in [Handles -> HandleStates]
         /\ s = "closed" => OpenFiles' = OpenFiles \ {h}
         /\ s # "closed" => OpenFiles' = OpenFiles \cup {h}
         /\ handle[h] # "closed" => h \in OpenFiles
  BY DEF Goes, OpenFiles, HandleStates

\* A step of probe or remove that moves on between places of the same kind.
NoFilesPcs == {"start", "map", "wq", "dci", "mm", "irq", "init", "thread", "v4l2", "node"}

Alike ==
  /\ pc \in {"start", "gone"} <=> pc' \in {"start", "gone"}
  /\ pc \in V4l2Pcs <=> pc' \in V4l2Pcs
  /\ pc' \in NoFilesPcs => pc \in NoFilesPcs
  /\ pc = "pcm" <=> pc' = "pcm"
  /\ pc = "live" <=> pc' = "live"
  /\ pc \in DisconnectedPcs <=> pc' \in DisconnectedPcs
  /\ pc \in {"rm_put", "gone"} => pc' \in {"rm_put", "gone"}
  /\ "node" \in has <=> "node" \in has'

\* A step that moves no holder and no count keeps the sums.
LEMMA RefAlike ==
  ASSUME RefInv, Alike, UNCHANGED <<handle, v4l2, refs, card, pcm>>
  PROVE  RefInv'
<1>1. OpenFiles' = OpenFiles /\ Registered' = Registered
  BY DEF OpenFiles, Registered, Alike
<1>2. /\ One(pc' \in V4l2Pcs) = One(pc \in V4l2Pcs)
      /\ One(pc' \notin {"start", "gone"}) = One(pc \notin {"start", "gone"})
  BY DEF Alike, One
<1> QED
  BY <1>1, <1>2 DEF RefInv, Alike, NoFilesPcs, V4l2Pcs, DisconnectedPcs, ToUnmap, ToWq, ErrIrq

\* The steps of probe and remove that take or drop no reference.
MovesOn ==
  \/ ProbeMap \/ ProbeWorkqueue \/ AllocDmaBuffer \/ AllocDmaFails \/ AllocCpuBuffers
  \/ ProbeIrq \/ ProbeInit \/ ProbeThread
  \/ StopKSThread("err_video", "err_unreg") \/ StopKSThread("err_thread", "err_irq")
  \/ StopKSThread("rm_thread", "rm_quiesce")
  \/ StopDevice("err_irq", "err_freeirq") \/ StopDevice("rm_stop", "rm_irq")
  \/ FreeIrq("err_freeirq", "err_dma") \/ FreeIrq("rm_irq", "rm_tasklet")
  \/ FreePool("err_dma", "err_wq") \/ FreePool("err_pool", "err_wq") \/ FreePool("rm_pool", "rm_unmap")
  \/ KillTasklet("err_wq", "err_flush") \/ KillTasklet("rm_tasklet", "rm_work")
  \/ DestroyWorkqueue("err_flush", "err_unmap") \/ DestroyWorkqueue("rm_wq", "rm_pool")
  \/ ErrUnmap \/ ErrMsi \/ WakeReaders \/ RemoveQuiesce \/ CancelWorks \/ RemoveUnmap

\* Moving on in probe or remove touches nothing the other parts look at.
LEMMA MovesAlike == MovesOn => Alike /\ UNCHANGED <<handle, v4l2, refs, card, pcm>>
<1> USE DEF Alike, NoFilesPcs, V4l2Pcs, DisconnectedPcs, ToUnmap, ToWq, ErrIrq, refVars, fileVars,
        audioVars
<1>1. CASE ProbeMap \/ ProbeWorkqueue \/ AllocDmaBuffer \/ AllocDmaFails \/ AllocCpuBuffers
  <2>1. CASE ProbeMap
    BY <2>1 DEF ProbeMap, Take, Fail
  <2>2. CASE ProbeWorkqueue
    BY <2>2 DEF ProbeWorkqueue, Take, Fail
  <2>3. CASE AllocDmaBuffer \/ AllocDmaFails
    BY <2>3 DEF AllocDmaBuffer, AllocDmaFails, probeVars
  <2>4. CASE AllocCpuBuffers
    BY <2>4 DEF AllocCpuBuffers
  <2> QED  BY <1>1, <2>1, <2>2, <2>3, <2>4
<1>2. CASE ProbeIrq \/ ProbeInit \/ ProbeThread
  <2>1. CASE ProbeIrq
    BY <2>1 DEF ProbeIrq, Take, Fail
  <2>2. CASE ProbeInit
    BY <2>2 DEF ProbeInit
  <2>3. CASE ProbeThread
    BY <2>3 DEF ProbeThread, Take, Fail
  <2> QED  BY <1>2, <2>1, <2>2, <2>3
<1>3. CASE StopKSThread("err_video", "err_unreg") \/ StopKSThread("err_thread", "err_irq")
           \/ StopKSThread("rm_thread", "rm_quiesce")
  BY <1>3 DEF StopKSThread
<1>4. CASE StopDevice("err_irq", "err_freeirq") \/ StopDevice("rm_stop", "rm_irq")
  BY <1>4 DEF StopDevice
<1>5. CASE FreeIrq("err_freeirq", "err_dma") \/ FreeIrq("rm_irq", "rm_tasklet")
  BY <1>5 DEF FreeIrq
<1>6. CASE FreePool("err_dma", "err_wq") \/ FreePool("err_pool", "err_wq")
           \/ FreePool("rm_pool", "rm_unmap")
  BY <1>6 DEF FreePool
<1>7. CASE KillTasklet("err_wq", "err_flush") \/ KillTasklet("rm_tasklet", "rm_work")
  BY <1>7 DEF KillTasklet
<1>8. CASE DestroyWorkqueue("err_flush", "err_unmap") \/ DestroyWorkqueue("rm_wq", "rm_pool")
  BY <1>8 DEF DestroyWorkqueue
<1>9. CASE ErrUnmap \/ ErrMsi \/ WakeReaders
  BY <1>9 DEF ErrUnmap, Unmap, ErrMsi, WakeReaders
<1>10. CASE RemoveQuiesce \/ CancelWorks \/ RemoveUnmap
  BY <1>10 DEF RemoveQuiesce, CancelWorks, RemoveUnmap
<1> HIDE DEF Alike
<1> QED  BY <1>1, <1>2, <1>3, <1>4, <1>5, <1>6, <1>7, <1>8, <1>9, <1>10 DEF MovesOn

\* Every step keeps the two reference counts at the sum of their holders.
LEMMA RefKept ==
  ASSUME MemInv, RefInv, [Next]_vars
  PROVE  RefInv'
<1> USE DEF RefInv, One, Registered, V4l2Pcs, DisconnectedPcs, ToUnmap, ToWq, ErrIrq
<1>1. CASE MovesOn
  BY <1>1, MovesAlike, RefAlike
<1>2. CASE ProbeEnable
  BY <1>2 DEF ProbeEnable, Take, Fail, fileVars, audioVars, OpenFiles, MemInv, NodePcs
<1>3. CASE RegisterV4l2
  BY <1>3 DEF RegisterV4l2, Fail, fileVars, audioVars, OpenFiles, MemInv, NodePcs
<1>4. CASE RegisterNode
  BY <1>4 DEF RegisterNode, Take, UnregisterVideo, PutV4l2, fileVars, audioVars, OpenFiles, MemInv, NodePcs
<1>5. CASE NewCard \/ RegisterCard
  BY <1>5 DEF NewCard, RegisterCard, Take, Fail, fileVars, audioVars, OpenFiles
<1>6. CASE ErrUnregister
  BY <1>6 DEF ErrUnregister, UnregisterVideo, PutV4l2, fileVars, audioVars, OpenFiles
<1>7. CASE PutDev("err_free") \/ PutDev("rm_put")
  BY <1>7 DEF PutDev, fileVars, audioVars, OpenFiles
<1>8. CASE RemoveBegins
  BY <1>8 DEF RemoveBegins, fileVars, audioVars, OpenFiles
<1>9. CASE RemoveNode
  <2>1. Registered /\ ~Registered' /\ OpenFiles' = OpenFiles /\ UNCHANGED <<handle, card, pcm>>
    BY <1>9 DEF RemoveNode, fileVars, audioVars, OpenFiles, MemInv, NodePcs
  <2>2. pc = "rm_node" /\ pc' = "rm_wake"
    BY <1>9 DEF RemoveNode
  <2>3. CASE OpenFiles = {}
    BY <1>9, <2>1, <2>2, <2>3 DEF RemoveNode, PutV4l2
  <2>4. CASE OpenFiles # {}
    BY <1>9, <2>1, <2>2, <2>4 DEF RemoveNode, PutV4l2
  <2> QED  BY <2>3, <2>4
<1>10. CASE RemoveV4l2
  BY <1>10 DEF RemoveV4l2, PutV4l2, fileVars, audioVars, OpenFiles, MemInv, NodePcs
<1>11. CASE FreeCardWhenClosed
  BY <1>11 DEF FreeCardWhenClosed, fileVars, audioVars, OpenFiles, MemInv, NodePcs
<1>12. ASSUME NEW h \in Handles, OpenBegins(h) PROVE RefInv'
  <2>1. Goes(h, "opening") /\ Registered /\ UNCHANGED <<pc, has, v4l2, refs, card, pcm>>
    BY <1>12 DEF OpenBegins, probeVars, refVars, audioVars
  <2>2. handle' \in [Handles -> HandleStates] /\ OpenFiles' # {}
    BY <2>1, OpenFilesGo DEF HandleStates
  <2>3. pc \notin NoFilesPcs
    BY <2>1 DEF MemInv, NodePcs, NoFilesPcs
  <2> QED  BY <2>1, <2>2, <2>3 DEF NoFilesPcs
<1>13. ASSUME NEW h \in Handles, NEW s \in HandleStates \ {"closed"}, Goes(h, s),
              handle[h] # "closed", UNCHANGED <<pc, has, v4l2, refs, card, pcm>>
       PROVE  RefInv'
  <2>1. handle' \in [Handles -> HandleStates] /\ OpenFiles' = OpenFiles
    BY <1>13, OpenFilesGo DEF OpenFiles
  <2> QED  BY <1>13, <2>1
<1>14. ASSUME NEW h \in Handles, CloseFile(h), handle[h] # "closed", UNCHANGED <<pc, has, card, pcm>>
       PROVE  RefInv'
  <2>1. handle' \in [Handles -> HandleStates] /\ OpenFiles' = OpenFiles \ {h} /\ h \in OpenFiles
    BY <1>14, OpenFilesGo DEF CloseFile, HandleStates
  <2>2. CASE ~Registered /\ OpenFiles = {h}
    <3>1. v4l2' = v4l2 - 1 /\ refs' = IF v4l2 = 1 THEN refs - 1 ELSE refs
      BY <1>14, <2>2 DEF CloseFile, PutV4l2
    <3>2. OpenFiles' = {} /\ OpenFiles # {}
      BY <2>1, <2>2
    <3> QED  BY <1>14, <2>1, <2>2, <3>1, <3>2
  <2>3. CASE ~(~Registered /\ OpenFiles = {h})
    <3>1. v4l2' = v4l2 - 0 /\ refs' = refs
      BY <1>14, <2>3 DEF CloseFile, PutV4l2
    <3>2. Registered \/ OpenFiles' # {}
      BY <2>1, <2>3
    <3> QED  BY <1>14, <2>1, <2>3, <3>1, <3>2
  <2> QED  BY <2>2, <2>3
<1>15. ASSUME NEW h \in Handles, File(h) PROVE RefInv'
  <2> USE DEF probeVars, refVars, audioVars
  <2>1. CASE OpenBegins(h)
    BY <1>12, <2>1
  <2>2. CASE OpenEnds(h)
    BY <1>13, <2>2 DEF OpenEnds, HandleStates
  <2>3. CASE StreamOn(h)
    BY <1>13, <2>3 DEF StreamOn, HandleStates
  <2>4. CASE CountsUser(h)
    BY <1>13, <2>4 DEF CountsUser, HandleStates
  <2>5. CASE StartEngine(h)
    BY <1>13, <2>5 DEF StartEngine, HandleStates
  <2>6. CASE StopBegins(h)
    BY <1>13, <2>6 DEF StopBegins, HandleStates
  <2>7. CASE StopTimesOut(h)
    BY <1>13, <2>7 DEF StopTimesOut, HandleStates
  <2>8. CASE StopEnds(h)
    BY <1>13, <1>14, <2>8 DEF StopEnds, HandleStates
  <2>9. CASE Close(h)
    BY <1>14, <2>9 DEF Close
  <2>10. CASE ReadBegins(h) \/ ReadEnds(h)
    BY <1>13, <2>10 DEF ReadBegins, ReadEnds, HandleStates
  <2> QED
    BY <1>15, <2>1, <2>2, <2>3, <2>4, <2>5, <2>6, <2>7, <2>8, <2>9, <2>10 DEF File, Progress
<1>16. CASE Pcm
  <2>1. OpenFiles' = OpenFiles /\ Registered' = Registered
    BY <1>16 DEF Pcm, PcmOpen, TriggerStart, TriggerStop, PcmClose, probeVars, fileVars, OpenFiles
  <2>2. CASE PcmOpen \/ TriggerStart \/ TriggerStop
    <3>1. UNCHANGED <<pc, has, handle, v4l2, refs, card>>
      BY <2>2 DEF PcmOpen, TriggerStart, TriggerStop, probeVars, fileVars, refVars
    <3>2. card = "live" /\ pcm' \in {"open", "running"}
      BY <2>2 DEF PcmOpen, TriggerStart, TriggerStop
    <3> QED  BY <2>1, <3>1, <3>2
  <2>3. CASE PcmClose
    BY <2>1, <2>3 DEF PcmClose, probeVars, fileVars
  <2> QED  BY <1>16, <2>2, <2>3 DEF Pcm
<1>17. CASE Interrupt \/ Driver \/ PollBegins \/ CardGone \/ UNCHANGED vars
  <2>1. UNCHANGED <<pc, has, handle, v4l2, refs, card, pcm>>
    BY <1>17 DEF Interrupt, Driver, IrqThreadEnds, TaskletRuns, PollLocks, PollEnds, WorkRuns, WorkEnds,
       PollBegins, CardGone, OnlyThreads, vars, probeVars, refVars, fileVars, audioVars
  <2> QED  BY <2>1 DEF OpenFiles
<1> HIDE DEF RefInv
<1>18. CASE Probe \/ Unwind
  BY <1>1, <1>2, <1>3, <1>4, <1>5, <1>6, <1>7, <1>18 DEF Probe, Unwind, MovesOn
<1>19. CASE RemoveBegins \/ Remove
  BY <1>1, <1>7, <1>8, <1>9, <1>10, <1>11, <1>19 DEF Remove, MovesOn
<1> QED
  BY <1>15, <1>16, <1>17, <1>18, <1>19 DEF Next

-----------------------------------------------------------------------------
(* Threads and works. *)

\* Nothing that runs outlives the place where remove and the unwinding wait
\* for it.
LEMMA ThreadKept ==
  ASSUME MemInv, RefInv, ThreadInv, [Next]_vars
  PROVE  ThreadInv'
<1> USE DEF ThreadInv, ThreadPcs, TaskletPcs, WorkPcs, ToUnmap, ToWq, ErrIrq, Threads, Works
<1>1. CASE Probe
  <2> USE DEF audioVars, engineVars, cardVars, flagVars, EnableVideoCapture, EnableAudioCapture
  <2>1. CASE ProbeEnable
    BY <2>1 DEF ProbeEnable, Take, Fail
  <2>2. CASE ProbeMap
    BY <2>2 DEF ProbeMap, Take, Fail
  <2>3. CASE ProbeWorkqueue
    BY <2>3 DEF ProbeWorkqueue, Take, Fail
  <2>4. CASE AllocDmaBuffer \/ AllocDmaFails \/ AllocCpuBuffers
    BY <2>4 DEF AllocDmaBuffer, AllocDmaFails, AllocCpuBuffers, probeVars
  <2>5. CASE ProbeIrq
    BY <2>5 DEF ProbeIrq, Take, Fail
  <2>6. CASE ProbeInit
    BY <2>6 DEF ProbeInit, CardAnswers
  <2>7. CASE ProbeThread
    BY <2>7 DEF ProbeThread, Take, Fail
  <2>8. CASE RegisterV4l2
    BY <2>8 DEF RegisterV4l2, Fail
  <2>9. CASE RegisterNode
    BY <2>9 DEF RegisterNode, Take, UnregisterVideo
  <2>10. CASE NewCard \/ RegisterCard
    BY <2>10 DEF NewCard, RegisterCard, Take, Fail
  <2> HIDE DEF ThreadInv
  <2> QED
    BY <1>1, <2>1, <2>2, <2>3, <2>4, <2>5, <2>6, <2>7, <2>8, <2>9, <2>10 DEF Probe
<1>2. CASE Unwind
  <2> USE DEF audioVars, engineVars, cardVars, flagVars, EnableVideoCapture, EnableAudioCapture
  <2>1. CASE StopKSThread("err_video", "err_unreg") \/ StopKSThread("err_thread", "err_irq")
    BY <2>1 DEF StopKSThread
  <2>2. CASE ErrUnregister
    BY <2>2 DEF ErrUnregister, UnregisterVideo
  <2>3. CASE StopDevice("err_irq", "err_freeirq")
    BY <2>3 DEF StopDevice, CardAnswers
  <2>4. CASE FreeIrq("err_freeirq", "err_dma")
    BY <2>4 DEF FreeIrq
  <2>5. CASE FreePool("err_dma", "err_wq") \/ FreePool("err_pool", "err_wq")
    <3>1. UNCHANGED <<has, threads, running, acap, started, cap, run, gone, lost, removed, pcm>>
      BY <2>5 DEF FreePool
    <3>2. pc \in {"err_dma", "err_pool"} /\ pc' = "err_wq"
      BY <2>5 DEF FreePool
    <3> QED  BY <3>1, <3>2
  <2>6. CASE KillTasklet("err_wq", "err_flush") \/ DestroyWorkqueue("err_flush", "err_unmap")
    BY <2>6 DEF KillTasklet, DestroyWorkqueue
  <2>7. CASE ErrUnmap \/ ErrMsi \/ PutDev("err_free")
    <3>1. CASE ErrUnmap
      BY <3>1 DEF ErrUnmap, Unmap
    <3>2. CASE ErrMsi
      BY <3>2 DEF ErrMsi
    <3>3. CASE PutDev("err_free")
      BY <3>3 DEF PutDev
    <3> QED  BY <2>7, <3>1, <3>2, <3>3
  <2> HIDE DEF ThreadInv
  <2> QED  BY <1>2, <2>1, <2>2, <2>3, <2>4, <2>5, <2>6, <2>7 DEF Unwind
<1>3. CASE RemoveBegins
  BY <1>3 DEF RemoveBegins, EnableAudioCapture, CardAnswers, audioVars, engineVars, cardVars, flagVars
<1>4. CASE Remove
  <2> USE DEF audioVars, engineVars, cardVars, flagVars, EnableVideoCapture, EnableAudioCapture
  <2>1. CASE RemoveNode \/ WakeReaders
    BY <2>1 DEF RemoveNode, WakeReaders
  <2>2. CASE StopKSThread("rm_thread", "rm_quiesce")
    BY <2>2 DEF StopKSThread
  <2>3. CASE RemoveQuiesce
    BY <2>3 DEF RemoveQuiesce, StopVideoCapture, CardAnswers
  <2>4. CASE StopDevice("rm_stop", "rm_irq")
    BY <2>4 DEF StopDevice, CardAnswers
  <2>5. CASE FreeIrq("rm_irq", "rm_tasklet")
    BY <2>5 DEF FreeIrq
  <2>6. CASE KillTasklet("rm_tasklet", "rm_work") \/ DestroyWorkqueue("rm_wq", "rm_pool")
    BY <2>6 DEF KillTasklet, DestroyWorkqueue
  <2>7. CASE CancelWorks
    BY <2>7 DEF CancelWorks
  <2>8. CASE FreePool("rm_pool", "rm_unmap")
    <3>1. UNCHANGED <<has, threads, running, acap, started, cap, run, gone, lost, removed, pcm>>
      BY <2>8 DEF FreePool
    <3>2. pc = "rm_pool" /\ pc' = "rm_unmap"
      BY <2>8 DEF FreePool
    <3> QED  BY <3>1, <3>2
  <2>9. CASE RemoveUnmap \/ RemoveV4l2
    <3>1. CASE RemoveUnmap
      BY <3>1 DEF RemoveUnmap
    <3>2. CASE RemoveV4l2
      BY <3>2 DEF RemoveV4l2
    <3> QED  BY <2>9, <3>1, <3>2
  <2>10. CASE FreeCardWhenClosed \/ PutDev("rm_put")
    BY <2>10 DEF FreeCardWhenClosed, PutDev
  <2> HIDE DEF ThreadInv
  <2> QED
    BY <1>4, <2>1, <2>2, <2>3, <2>4, <2>5, <2>6, <2>7, <2>8, <2>9, <2>10 DEF Remove
<1>5. ASSUME NEW h \in Handles, File(h) PROVE ThreadInv'
  <2>1. UNCHANGED <<pc, has, pcm, running, acap, gone, lost, removed, threads>>
    BY <1>5 DEF File, Progress, OpenBegins, OpenEnds, StreamOn, CountsUser, StartEngine, StopBegins,
       StopTimesOut, StopEnds, Close, ReadBegins, ReadEnds, probeVars, audioVars, flagVars, cardVars
  <2>2. started' \in BOOLEAN /\ cap' \in BOOLEAN /\ run' \in BOOLEAN
    <3> USE DEF EnableVideoCapture, StopVideoCapture, CheckCardStatus, CardAnswers, cardVars, engineVars
    <3>1. CASE OpenBegins(h) \/ OpenEnds(h) \/ StreamOn(h) \/ CountsUser(h) \/ StopBegins(h)
      BY <3>1 DEF OpenBegins, OpenEnds, StreamOn, CountsUser, StopBegins
    <3>2. CASE StartEngine(h)
      BY <3>2 DEF StartEngine
    <3>3. CASE StopTimesOut(h)
      BY <3>3 DEF StopTimesOut
    <3>4. CASE StopEnds(h)
      BY <3>4 DEF StopEnds
    <3>5. CASE Close(h) \/ ReadBegins(h) \/ ReadEnds(h)
      BY <3>5 DEF Close, ReadBegins, ReadEnds
    <3> QED  BY <1>5, <3>1, <3>2, <3>3, <3>4, <3>5 DEF File, Progress
  <2> QED  BY <2>1, <2>2
<1>6. CASE Pcm
  <2> USE DEF probeVars, engineVars, cardVars, flagVars, EnableAudioCapture, CardAnswers
  <2>1. card = "live" => pc = "live"
    BY DEF RefInv
  <2>2. CASE PcmOpen
    BY <2>2 DEF PcmOpen
  <2>3. CASE TriggerStart
    BY <2>1, <2>3 DEF TriggerStart
  <2>4. CASE TriggerStop
    BY <2>4 DEF TriggerStop
  <2>5. CASE PcmClose
    BY <2>5 DEF PcmClose
  <2> HIDE DEF ThreadInv
  <2> QED  BY <1>6, <2>2, <2>3, <2>4, <2>5 DEF Pcm
<1>7. CASE Interrupt
  <2> USE DEF OnlyThreads, Becomes, probeVars, audioVars, engineVars, cardVars, flagVars
  <2>1. acap => pc \in TaskletPcs
    BY <1>7 DEF Interrupt, MemInv, IrqPcs
  <2> QED  BY <1>7, <2>1 DEF Interrupt
<1>8. CASE Driver \/ PollBegins
  <2> USE DEF OnlyThreads, Becomes, probeVars, audioVars, engineVars, cardVars, flagVars
  <2>1. CASE IrqThreadEnds \/ TaskletRuns
    BY <2>1 DEF IrqThreadEnds, TaskletRuns
  <2>2. CASE PollLocks \/ PollEnds
    BY <2>2 DEF PollLocks, PollEnds
  <2>3. CASE PollBegins
    BY <2>3 DEF PollBegins
  <2>4. ASSUME NEW w \in Works, WorkRuns(w) \/ WorkEnds(w) PROVE ThreadInv'
    BY <2>4 DEF WorkRuns, WorkEnds
  <2> HIDE DEF ThreadInv
  <2> QED  BY <1>8, <2>1, <2>2, <2>3, <2>4 DEF Driver
<1>9. CASE CardGone
  BY <1>9 DEF CardGone, probeVars, engineVars, flagVars
<1>10. CASE UNCHANGED vars
  BY <1>10 DEF vars, probeVars, audioVars, engineVars, cardVars, flagVars
<1> HIDE DEF ThreadInv
<1> QED
  BY <1>1, <1>2, <1>3, <1>4, <1>5, <1>6, <1>7, <1>8, <1>9, <1>10 DEF Next

-----------------------------------------------------------------------------
(* Handles. *)

\* What the files do is their own: the rest of the driver only wakes them.
LEMMA HandlesAlone ==
  [Next]_vars =>
    \/ UNCHANGED fileVars /\ ~WakeReaders
    \/ WakeReaders
    \/ \E h \in Handles : File(h)
<1> SUFFICES ASSUME [Next]_vars, ~WakeReaders, \A h \in Handles : ~File(h)
             PROVE  UNCHANGED fileVars
  OBVIOUS
<1>1. CASE Probe
  BY <1>1 DEF Probe, ProbeEnable, ProbeMap, ProbeWorkqueue, AllocDmaBuffer, AllocDmaFails,
     AllocCpuBuffers, ProbeIrq, ProbeInit, ProbeThread, RegisterV4l2, RegisterNode, NewCard,
     RegisterCard
<1>2. CASE Unwind
  BY <1>2 DEF Unwind, StopKSThread, ErrUnregister, StopDevice, FreeIrq, FreePool, KillTasklet,
     DestroyWorkqueue, ErrUnmap, ErrMsi, PutDev
<1>3. CASE RemoveBegins \/ Remove
  BY <1>3 DEF RemoveBegins, Remove, RemoveNode, StopKSThread, RemoveQuiesce, StopDevice, FreeIrq,
     KillTasklet, CancelWorks, DestroyWorkqueue, FreePool, RemoveUnmap, RemoveV4l2,
     FreeCardWhenClosed, PutDev
<1>4. CASE Pcm
  BY <1>4 DEF Pcm, PcmOpen, TriggerStart, TriggerStop, PcmClose
<1>5. CASE Interrupt \/ Driver \/ PollBegins \/ CardGone \/ UNCHANGED vars
  BY <1>5 DEF Interrupt, Driver, IrqThreadEnds, TaskletRuns, PollLocks, PollEnds, WorkRuns, WorkEnds,
     PollBegins, CardGone, OnlyThreads, vars
<1> QED  BY <1>1, <1>2, <1>3, <1>4, <1>5 DEF Next

\* Every step keeps a closing handle out of its reads.
LEMMA HandleKept ==
  ASSUME RefInv, HandleInv, [Next]_vars
  PROVE  HandleInv'
<1> USE DEF HandleInv
<1>1. handle \in [Handles -> HandleStates]
  BY DEF RefInv
<1>2. CASE UNCHANGED fileVars \/ WakeReaders
  BY <1>2 DEF fileVars, WakeReaders
<1>3. ASSUME NEW h \in Handles, File(h) PROVE HandleInv'
  <2> USE DEF Goes
  <2>1. CASE OpenBegins(h) \/ OpenEnds(h) \/ StreamOn(h)
    BY <1>1, <2>1 DEF OpenBegins, OpenEnds, StreamOn
  <2>2. CASE CountsUser(h)
    BY <1>1, <2>2 DEF CountsUser
  <2>3. CASE StartEngine(h)
    BY <1>1, <2>3 DEF StartEngine
  <2>4. CASE StopBegins(h)
    BY <1>1, <2>4 DEF StopBegins
  <2>5. CASE StopTimesOut(h)
    BY <1>1, <2>5 DEF StopTimesOut
  <2>6. CASE StopEnds(h)
    BY <1>1, <2>6 DEF StopEnds, CloseFile
  <2>7. CASE Close(h)
    BY <1>1, <2>7 DEF Close, CloseFile
  <2>8. CASE ReadBegins(h) \/ ReadEnds(h)
    BY <1>1, <2>8 DEF ReadBegins, ReadEnds
  <2> HIDE DEF HandleInv
  <2> QED  BY <1>3, <2>1, <2>2, <2>3, <2>4, <2>5, <2>6, <2>7, <2>8 DEF File, Progress
<1> HIDE DEF HandleInv
<1> QED  BY <1>2, <1>3, HandlesAlone

\* Where the readers have been told.
ToldPcs ==
  {"rm_thread", "rm_quiesce", "rm_stop", "rm_irq", "rm_tasklet", "rm_work", "rm_wq", "rm_pool",
   "rm_unmap", "rm_v4l2", "rm_card", "rm_put"}

\* Only WakeReaders leads there.
LEMMA ToldOnce == [Next]_vars /\ pc' \in ToldPcs => pc \in ToldPcs \/ WakeReaders
<1> SUFFICES ASSUME [Next]_vars, pc' \in ToldPcs, pc \notin ToldPcs, ~WakeReaders PROVE FALSE
  OBVIOUS
<1> USE DEF ToldPcs
<1>1. CASE Probe
  BY <1>1 DEF Probe, ProbeEnable, ProbeMap, ProbeWorkqueue, AllocDmaBuffer, AllocDmaFails,
     AllocCpuBuffers, ProbeIrq, ProbeInit, ProbeThread, RegisterV4l2, RegisterNode, NewCard,
     RegisterCard, Take, Fail, probeVars
<1>2. CASE Unwind
  BY <1>2 DEF Unwind, StopKSThread, ErrUnregister, StopDevice, FreeIrq, FreePool, KillTasklet,
     DestroyWorkqueue, ErrUnmap, Unmap, ErrMsi, PutDev
<1>3. CASE RemoveBegins \/ Remove
  BY <1>3 DEF RemoveBegins, Remove, RemoveNode, StopKSThread, RemoveQuiesce, StopDevice, FreeIrq,
     KillTasklet, CancelWorks, DestroyWorkqueue, FreePool, RemoveUnmap, RemoveV4l2,
     FreeCardWhenClosed, PutDev
<1>4. CASE UNCHANGED <<probeVars, poolVars>>
  BY <1>4 DEF probeVars
<1> QED  BY <1>1, <1>2, <1>3, <1>4, MemSteps DEF MemStep

\* Every step keeps the readers woken once the queues are told.
LEMMA WokenKept ==
  ASSUME MemInv, RefInv, HandleInv, ReadersWoken, [Next]_vars
  PROVE  ReadersWoken'
<1> SUFFICES ASSUME pc' \in ToldPcs, NEW g \in Handles, handle'[g] = "reading"
             PROVE  g \in errored'
  BY DEF ReadersWoken, ToldPcs
<1>1. handle \in [Handles -> HandleStates]
  BY DEF RefInv
<1>2. CASE WakeReaders
  BY <1>1, <1>2 DEF WakeReaders, Consumers, OpenFiles, HandleInv
<1>3. pc \in ToldPcs \/ WakeReaders
  BY ToldOnce
<1>4. CASE pc \in ToldPcs /\ UNCHANGED fileVars
  BY <1>4 DEF ReadersWoken, ToldPcs, fileVars
<1>5. ASSUME pc \in ToldPcs, NEW h \in Handles, File(h) PROVE g \in errored'
  <2>1. ~Registered
    BY <1>5 DEF MemInv, NodePcs, ToldPcs, Registered
  <2>2. handle[g] = "reading" => g \in errored
    BY <1>5 DEF ReadersWoken, ToldPcs
  <2> USE DEF Goes
  <2>3. CASE OpenEnds(h) \/ CountsUser(h) \/ StartEngine(h) \/ StopTimesOut(h)
    BY <1>1, <2>2, <2>3 DEF OpenEnds, CountsUser, StartEngine, StopTimesOut
  <2>4. CASE StopEnds(h)
    BY <1>1, <2>2, <2>4 DEF StopEnds, CloseFile
  <2>5. CASE StopBegins(h) \/ Close(h) \/ ReadEnds(h)
    BY <1>1, <2>2, <2>5 DEF StopBegins, Close, CloseFile, ReadEnds
  <2>6. ~OpenBegins(h) /\ ~StreamOn(h) /\ ~ReadBegins(h)
    BY <2>1 DEF OpenBegins, StreamOn, ReadBegins
  <2> QED  BY <1>5, <2>3, <2>4, <2>5, <2>6 DEF File, Progress
<1> QED  BY <1>2, <1>3, <1>4, <1>5, HandlesAlone

-----------------------------------------------------------------------------
(* The theorems. *)

\* All parts together hold in every reachable state.
LEMMA LInvHolds == Spec => []LInv
<1>1. Init => LInv
  <2> SUFFICES ASSUME Init PROVE LInv
    OBVIOUS
  <2> USE DEF Init, ToWq, ToUnmap, ErrIrq, NodePcs, ThreadPcs, IrqPcs, PoolPcs, WqPcs, BarPcs, PciPcs,
          V4l2Pcs, DisconnectedPcs, TaskletPcs, WorkPcs
  <2>1. MemInv
    <3>1. dma \in 0 .. MaxChl
      BY LifetimeAssumption
    <3>2. /\ cpu \subseteq CpuBufs
          /\ has \subseteq {"pci", "msi", "bar", "wq", "irq", "thread", "node", "debugfs"}
      OBVIOUS
    <3> QED  BY <3>1, <3>2 DEF MemInv
  <2>2. RefInv
    BY DEF RefInv, One, Registered, OpenFiles, HandleStates
  <2>3. ThreadInv
    BY DEF ThreadInv, Threads, Works
  <2>4. HandleInv /\ ReadersWoken
    BY DEF HandleInv, ReadersWoken
  <2> QED  BY <2>1, <2>2, <2>3, <2>4 DEF LInv
<1>2. LInv /\ [Next]_vars => LInv'
  BY MemKept, RefKept, ThreadKept, HandleKept, WokenKept DEF LInv
<1> QED  BY <1>1, <1>2, PTL DEF Spec

\* The device structure is freed only when nothing can come back to it:
\* hws_dev_put() by probe or remove, the last file of the node, and the last
\* close of the sound card.
THEOREM FreedLastAlways == Spec => []FreedLast
<1>1. LInv => FreedLast
  <2> SUFFICES ASSUME LInv, pc # "start", refs = 0
               PROVE  /\ pc = "gone"
                      /\ OpenFiles = {} /\ pcm = "closed" /\ card = "none" /\ v4l2 = 0
                      /\ threads["status"] = "none"
                      /\ \A w \in Threads \ {"status"} : threads[w] = "idle"
    BY DEF FreedLast
  <2>1. pc = "gone" /\ v4l2 = 0 /\ card = "none"
    BY DEF LInv, RefInv, One
  <2>2. OpenFiles = {} /\ pcm = "closed"
    BY <2>1 DEF LInv, RefInv, One, V4l2Pcs, ToUnmap, ToWq
  <2>3. threads["irq"] = "idle"
    BY <2>1 DEF LInv, MemInv, ThreadInv, IrqPcs, ErrIrq
  <2>4. threads["status"] = "none" /\ threads["tasklet"] = "idle" /\ \A w \in Works : threads[w] = "idle"
    BY <2>1 DEF LInv, ThreadInv, ThreadPcs, TaskletPcs, WorkPcs, ToWq
  <2> QED  BY <2>1, <2>2, <2>3, <2>4 DEF Threads
<1> QED  BY <1>1, LInvHolds, PTL

\* Whoever runs finds its memory: remove and the unwinding free the pool, the
\* queue and the mapping after what uses them has stopped.
THEOREM UsersFindAlways == Spec => []UsersFindTheirMemory
<1>1. LInv => UsersFindTheirMemory
  <2> SUFFICES ASSUME LInv PROVE UsersFindTheirMemory
    OBVIOUS
  <2> USE DEF LInv, MemInv
  <2>1. pc \in IrqPcs => PoolWhole /\ "bar" \in has /\ "wq" \in has
    BY DEF PoolPcs, BarPcs, WqPcs
  <2>2. ThreadPcs \subseteq IrqPcs \cup {"v4l2"} /\ TaskletPcs \subseteq IrqPcs \cup {"rm_tasklet"}
        /\ WorkPcs \subseteq WqPcs \cap PoolPcs
    BY DEF ThreadPcs, IrqPcs, ErrIrq, TaskletPcs, WorkPcs, ToWq, WqPcs, PoolPcs
  <2>3. "rm_tasklet" \in PoolPcs \cap WqPcs /\ WqPcs \subseteq BarPcs /\ "v4l2" \in IrqPcs
    BY DEF PoolPcs, WqPcs, ToWq, IrqPcs, BarPcs
  <2>4. threads["irq"] # "idle" => PoolWhole /\ "bar" \in has
    BY <2>1 DEF ThreadInv
  <2>5. threads["status"] \in {"waiting", "busy"} => PoolWhole /\ "bar" \in has
    BY <2>1, <2>2, <2>3 DEF ThreadInv
  <2>6. threads["tasklet"] # "idle" => PoolWhole /\ {"bar", "wq"} \subseteq has
    BY <2>1, <2>2, <2>3 DEF ThreadInv
  <2>7. \A w \in Works : threads[w] # "idle" => PoolWhole /\ "wq" \in has
    BY <2>2 DEF ThreadInv
  <2>8. pcm = "running" => "wq" \in has
    BY <2>1 DEF RefInv, IrqPcs
  <2> QED  BY <2>4, <2>5, <2>6, <2>7, <2>8 DEF UsersFindTheirMemory, Works
<1> QED  BY <1>1, LInvHolds, PTL

\* Nothing leaks, whichever step of probe failed.
THEOREM NothingLeaksAlways == Spec => []NothingLeaks
<1>1. LInv => NothingLeaks
  <2> SUFFICES ASSUME LInv, pc = "gone"
               PROVE  /\ has = {} /\ dma = 0 /\ cpu = {} /\ ~allocated
                      /\ OpenFiles = {} /\ pcm = "closed" => refs = 0
    BY DEF NothingLeaks
  <2>1. ~allocated /\ dma = 0 /\ cpu = {}
    BY DEF LInv, MemInv, PoolPcs, IrqPcs, ErrIrq
  <2>2. has = {}
    BY DEF LInv, MemInv, PciPcs, BarPcs, WqPcs, ToUnmap, ToWq, IrqPcs, ErrIrq, ThreadPcs, NodePcs
  <2>3. OpenFiles = {} /\ pcm = "closed" => refs = 0
    BY <2>2 DEF LInv, RefInv, One, V4l2Pcs, DisconnectedPcs, ToUnmap, ToWq, Registered
  <2> QED  BY <2>1, <2>2, <2>3
<1> QED  BY <1>1, LInvHolds, PTL

\* No reader goes on waiting once remove has told the queues.
THEOREM ReadersWokenAlways == Spec => []ReadersWoken
  BY LInvHolds, PTL DEF LInv

-----------------------------------------------------------------------------
(* Types: engine_users counts handles.                                     *)

\* Between the end of STREAMON and the end of STREAMOFF.
Counted == {"booting", "streaming", "reading", "stopping", "rebooting", "ending"}
Users == {h \in Handles : handle[h] \in Counted}

\* With the types of the handles this is inductive.
UserInv ==
  /\ IsFiniteSet(Users) /\ users = Cardinality(Users)
  /\ engineLock \in {NoOne, "status"} \cup Handles
  /\ errored \subseteq Handles

\* A handle that goes from or to the counted states moves the count.
LEMMA UsersGo ==
  ASSUME handle \in [Handles -> HandleStates], NEW h \in Handles, NEW s \in HandleStates, Goes(h, s),
         IsFiniteSet(Users)
  PROVE  /\ IsFiniteSet(Users')
         /\ (handle[h] \in Counted) = (s \in Counted) => Users' = Users
         /\ handle[h] \in Counted /\ s \notin Counted =>
              Cardinality(Users') = Cardinality(Users) - 1
         /\ handle[h] \notin Counted /\ s \in Counted =>
              Cardinality(Users') = Cardinality(Users) + 1
<1>1. \A g \in Handles : handle'[g] = IF g = h THEN s ELSE handle[g]
  BY DEF Goes
<1>2. CASE (handle[h] \in Counted) = (s \in Counted)
  <2>1. Users' = Users
    BY <1>1, <1>2 DEF Users
  <2> QED  BY <1>2, <2>1
<1>3. CASE handle[h] \in Counted /\ s \notin Counted
  <2>1. Users' = Users \ {h} /\ h \in Users
    BY <1>1, <1>3 DEF Users
  <2> QED  BY <1>3, <2>1, FS_RemoveElement
<1>4. CASE handle[h] \notin Counted /\ s \in Counted
  <2>1. Users' = Users \cup {h} /\ h \notin Users
    BY <1>1, <1>4 DEF Users
  <2> QED  BY <1>4, <2>1, FS_AddElement
<1> QED  BY <1>2, <1>3, <1>4

\* Whoever is not a file leaves engine_users, and hands engine_lock on to the poll at most.
LEMMA UsersAlone ==
  [Next]_vars =>
    \/ /\ UNCHANGED <<handle, users>> /\ engineLock' \in {engineLock, NoOne, "status"}
       /\ errored' \subseteq errored \cup Consumers
    \/ \E h \in Handles : File(h)
<1> SUFFICES ASSUME [Next]_vars, \A h \in Handles : ~File(h)
             PROVE  /\ UNCHANGED <<handle, users>> /\ engineLock' \in {engineLock, NoOne, "status"}
                    /\ errored' \subseteq errored \cup Consumers
  OBVIOUS
<1> USE DEF fileVars, engineVars
<1>1. CASE Probe
  BY <1>1 DEF Probe, ProbeEnable, ProbeMap, ProbeWorkqueue, AllocDmaBuffer, AllocDmaFails,
     AllocCpuBuffers, ProbeIrq, ProbeInit, ProbeThread, RegisterV4l2, RegisterNode, NewCard,
     RegisterCard
<1>2. CASE Unwind
  BY <1>2 DEF Unwind, StopKSThread, ErrUnregister, StopDevice, FreeIrq, FreePool, KillTasklet,
     DestroyWorkqueue, ErrUnmap, ErrMsi, PutDev
<1>3. CASE RemoveBegins \/ Remove
  BY <1>3 DEF RemoveBegins, Remove, RemoveNode, WakeReaders, StopKSThread, RemoveQuiesce, StopDevice,
     FreeIrq, KillTasklet, CancelWorks, DestroyWorkqueue, FreePool, RemoveUnmap, RemoveV4l2,
     FreeCardWhenClosed, PutDev
<1>4. CASE Pcm
  BY <1>4 DEF Pcm, PcmOpen, TriggerStart, TriggerStop, PcmClose
<1>5. CASE Interrupt \/ Driver \/ PollBegins \/ CardGone \/ UNCHANGED vars
  BY <1>5 DEF Interrupt, Driver, IrqThreadEnds, TaskletRuns, PollLocks, PollEnds, WorkRuns, WorkEnds,
     PollBegins, CardGone, OnlyThreads, vars
<1> QED  BY <1>1, <1>2, <1>3, <1>4, <1>5 DEF Next

\* Every step keeps the count.
LEMMA UserKept ==
  ASSUME RefInv, UserInv, [Next]_vars
  PROVE  UserInv'
<1>0. /\ handle \in [Handles -> HandleStates] /\ IsFiniteSet(Users) /\ users = Cardinality(Users)
      /\ engineLock \in {NoOne, "status"} \cup Handles /\ errored \subseteq Handles
      /\ Cardinality(Users) \in Nat
  BY FS_CardinalityType DEF RefInv, UserInv
<1>1. CASE UNCHANGED <<handle, users>> /\ engineLock' \in {engineLock, NoOne, "status"}
           /\ errored' \subseteq errored \cup Consumers
  BY <1>0, <1>1 DEF UserInv, Users, Consumers, OpenFiles
<1>2. ASSUME NEW h \in Handles, NEW s \in HandleStates, Goes(h, s),
             users' = users + (IF s \in Counted THEN 1 ELSE 0)
                            - (IF handle[h] \in Counted THEN 1 ELSE 0),
             engineLock' \in {engineLock, NoOne, h}, errored' \subseteq errored
      PROVE  UserInv'
  <2>1. /\ IsFiniteSet(Users')
        /\ (handle[h] \in Counted) = (s \in Counted) => Users' = Users
        /\ handle[h] \in Counted /\ s \notin Counted => Cardinality(Users') = Cardinality(Users) - 1
        /\ handle[h] \notin Counted /\ s \in Counted => Cardinality(Users') = Cardinality(Users) + 1
    BY <1>0, <1>2, UsersGo
  <2>2. users' = Cardinality(Users')
    BY <1>0, <1>2, <2>1
  <2>3. engineLock' \in {NoOne, "status"} \cup Handles /\ errored' \subseteq Handles
    BY <1>0, <1>2
  <2> QED  BY <2>1, <2>2, <2>3 DEF UserInv
<1>3. ASSUME NEW h \in Handles, File(h) PROVE UserInv'
  <2> USE DEF Counted, HandleStates, engineVars
  <2>1. CASE OpenBegins(h)
    BY <1>0, <1>2, <2>1 DEF OpenBegins
  <2>2. CASE OpenEnds(h)
    BY <1>0, <1>2, <2>2 DEF OpenEnds
  <2>3. CASE StreamOn(h)
    BY <1>0, <1>2, <2>3 DEF StreamOn
  <2>4. CASE CountsUser(h)
    <3>1. CASE users = 0
      BY <1>0, <1>2, <2>4, <3>1 DEF CountsUser
    <3>2. CASE users # 0
      BY <1>0, <1>2, <2>4, <3>2 DEF CountsUser
    <3> QED  BY <3>1, <3>2
  <2>5. CASE StartEngine(h)
    <3>1. CASE handle[h] = "booting"
      BY <1>0, <1>2, <2>5, <3>1 DEF StartEngine
    <3>2. CASE handle[h] = "rebooting"
      BY <1>0, <1>2, <2>5, <3>2 DEF StartEngine
    <3> QED  BY <2>5, <3>1, <3>2 DEF StartEngine
  <2>6. CASE StopBegins(h)
    BY <1>0, <1>2, <2>6 DEF StopBegins
  <2>7. CASE StopTimesOut(h)
    <3>1. CASE users > 1
      BY <1>0, <1>2, <2>7, <3>1 DEF StopTimesOut
    <3>2. CASE ~(users > 1)
      BY <1>0, <1>2, <2>7, <3>2 DEF StopTimesOut
    <3> QED  BY <3>1, <3>2
  <2>8. CASE StopEnds(h)
    <3>1. CASE h \in closing
      BY <1>0, <1>2, <2>8, <3>1 DEF StopEnds, CloseFile
    <3>2. CASE h \notin closing
      BY <1>0, <1>2, <2>8, <3>2 DEF StopEnds
    <3> QED  BY <3>1, <3>2
  <2>9. CASE Close(h)
    BY <1>0, <1>2, <2>9 DEF Close, CloseFile
  <2>10. CASE ReadBegins(h)
    BY <1>0, <1>2, <2>10 DEF ReadBegins
  <2>11. CASE ReadEnds(h)
    BY <1>0, <1>2, <2>11 DEF ReadEnds
  <2> QED  BY <1>3, <2>1, <2>2, <2>3, <2>4, <2>5, <2>6, <2>7, <2>8, <2>9, <2>10, <2>11 DEF File, Progress
<1> QED  BY <1>1, <1>3, UsersAlone

\* Every variable has its type, whatever probe, remove, the files and the card do:
\* engine_users is never negative, since only a handle that is counted leaves.
THEOREM LifetimeTypeCorrect == Spec => []TypeOK
<1>1. Init => UserInv
  <2> SUFFICES ASSUME Init PROVE UserInv
    OBVIOUS
  <2>1. Users = {}
    BY DEF Init, Users, Counted
  <2> QED  BY <2>1, FS_EmptySet DEF Init, UserInv
<1>2. LInv /\ UserInv /\ [Next]_vars => UserInv'
  BY UserKept DEF LInv
<1>3. LInv /\ UserInv => TypeOK
  <2> SUFFICES ASSUME LInv, UserInv PROVE TypeOK
    OBVIOUS
  <2>1. v4l2 \in 0 .. 2 /\ refs \in Nat
    BY DEF LInv, RefInv, One
  <2>2. users \in Nat
    BY FS_CardinalityType DEF UserInv
  <2> QED  BY <2>1, <2>2 DEF LInv, MemInv, RefInv, ThreadInv, HandleInv, UserInv, TypeOK
<1> QED  BY <1>1, <1>2, <1>3, LInvHolds, PTL DEF Spec

=============================================================================
