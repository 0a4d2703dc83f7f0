------------------------ MODULE FormatNegotiation_proofs ------------------------
(***************************************************************************)
(* Proofs about FormatNegotiation, for any number of handles, sizes and    *)
(* inputs.                                                                 *)
(***************************************************************************)
EXTENDS FormatNegotiation, FiniteSetTheorems, TLAPS

\* The types hold at first and every step keeps them.
LEMMA FormatTypeInit == Init => TypeOK
<1> SUFFICES ASSUME Init PROVE TypeOK
  OBVIOUS
<1>1. DefaultSize \in Sizes
  BY FormatAssumption
<1>2. pc \in [Handles -> Stages] /\ fresh \in [Handles -> Sizes \cup {0}]
      /\ bufs \in [Handles -> Sizes \cup {0}] /\ where \in [Handles -> {"none", "app", "queued", "held"}]
  BY DEF Init, Stages
<1> QED
  BY <1>1, <1>2 DEF Init, TypeOK

\* Every step keeps the types.
LEMMA FormatTypeStep == TypeOK /\ [Next]_vars => TypeOK'
<1> SUFFICES ASSUME TypeOK, [Next]_vars PROVE TypeOK'
  OBVIOUS
<1>1. ASSUME NEW h \in Handles, OpenChecks(h) PROVE TypeOK'
  BY <1>1, FormatAssumption DEF OpenChecks, TypeOK, inputVars, handleVars, bufferVars, MayOpen, Usable, Stages
<1>2. ASSUME NEW h \in Handles, OpenDefaults(h) PROVE TypeOK'
  BY <1>2, FormatAssumption DEF OpenDefaults, TypeOK, inputVars, handleVars, bufferVars, Stages
<1>3. ASSUME NEW h \in Handles, OpenCounts(h) PROVE TypeOK'
  BY <1>3, FormatAssumption DEF OpenCounts, TypeOK, inputVars, handleVars, bufferVars, Stages
<1>4. ASSUME NEW h \in Handles, CloseUnlists(h) PROVE TypeOK'
  BY <1>4, FormatAssumption DEF CloseUnlists, TypeOK, inputVars, handleVars, bufferVars, Stages
<1>5. ASSUME NEW h \in Handles, CloseReleases(h) PROVE TypeOK'
  BY <1>5, FormatAssumption DEF CloseReleases, TypeOK, inputVars, handleVars, bufferVars, Stages
<1>6. ASSUME NEW h \in Handles, CloseCounts(h) PROVE TypeOK'
  BY <1>6, FormatAssumption DEF CloseCounts, TypeOK, inputVars, handleVars, bufferVars, Stages
<1>7. ASSUME NEW h \in Handles, SFmtSets(h) PROVE TypeOK'
  BY <1>7, FormatAssumption DEF SFmtSets, TypeOK, inputVars, handleVars, bufferVars, Idle, SetOps, Timings
<1>8. ASSUME NEW h \in Handles, SDvSets(h) PROVE TypeOK'
  BY <1>8, FormatAssumption DEF SDvSets, TypeOK, inputVars, handleVars, bufferVars, Idle, SetOps, Timings
<1>9. ASSUME NEW h \in Handles, GDvReads(h) PROVE TypeOK'
  BY <1>9, FormatAssumption DEF GDvReads, TypeOK, inputVars, handleVars, bufferVars, MayIoctl, Usable, Timings
<1>10. ASSUME NEW h \in Handles, GDvStores(h) PROVE TypeOK'
  BY <1>10, FormatAssumption DEF GDvStores, TypeOK, inputVars, handleVars, bufferVars, Idle
<1>11. ASSUME NEW h \in Handles, DequeueEvent(h) PROVE TypeOK'
  BY <1>11, FormatAssumption DEF DequeueEvent, TypeOK, inputVars, handleVars, bufferVars
<1>12. ASSUME NEW h \in Handles, RequestBufs(h) PROVE TypeOK'
  BY <1>12, FormatAssumption DEF RequestBufs, TypeOK, inputVars, handleVars, bufferVars
<1>13. ASSUME NEW h \in Handles, FreeBufs(h) PROVE TypeOK'
  BY <1>13, FormatAssumption DEF FreeBufs, TypeOK, inputVars, handleVars, bufferVars
<1>14. ASSUME NEW h \in Handles, QueueBuf(h) PROVE TypeOK'
  BY <1>14, FormatAssumption DEF QueueBuf, TypeOK, inputVars, handleVars, bufferVars
<1>15. ASSUME NEW h \in Handles, StreamOn(h) PROVE TypeOK'
  BY <1>15, FormatAssumption DEF StreamOn, TypeOK, inputVars, handleVars, bufferVars
<1>16. ASSUME NEW h \in Handles, StreamOff(h) PROVE TypeOK'
  BY <1>16, FormatAssumption DEF StreamOff, TypeOK, inputVars, handleVars, bufferVars
<1>17. ASSUME NEW h \in Handles, NEW x \in Sizes, SFmtChecks(h, x) PROVE TypeOK'
  BY <1>17, FormatAssumption DEF SFmtChecks, TypeOK, inputVars, handleVars, bufferVars, TryFmt, Timings, SetOps, MayIoctl, Supported, Usable
<1>19. ASSUME NEW h \in Handles, NEW x \in Timings, SDvChecks(h, x) PROVE TypeOK'
  BY <1>19, FormatAssumption DEF SDvChecks, TypeOK, inputVars, handleVars, bufferVars, Timings, SetOps
<1>20. CASE InputChanges
  BY <1>20, FormatAssumption DEF InputChanges, TypeOK, inputVars, handleVars, bufferVars
<1>21. CASE CheckSourceChange
  BY <1>21, FormatAssumption DEF CheckSourceChange, TypeOK, inputVars, handleVars, bufferVars, Consumers
<1>22. CASE TopHalf
  BY <1>22, FormatAssumption DEF TopHalf, TypeOK, inputVars, handleVars, bufferVars, Hold, Held, Overrun, Takers
<1>23. CASE HalfLost
  BY <1>23, FormatAssumption DEF HalfLost, TypeOK, inputVars, handleVars, bufferVars
<1>24. CASE BottomHalf
  BY <1>24, FormatAssumption DEF BottomHalf, TypeOK, inputVars, handleVars, bufferVars, Finish, Held, Overrun
<1>25. CASE NoVideoFrame
  <2>1. PICK S \in SUBSET Takers : past' = past \cup Overrun(Hold(S)) /\ where' = Finish(Hold(S))
    BY <1>25 DEF NoVideoFrame
  <2>2. past' \subseteq Handles
    BY <2>1 DEF Overrun, Held, TypeOK
  <2>3. where' \in [Handles -> {"none", "app", "queued", "held"}]
    BY <2>1 DEF Finish, Hold, TypeOK
  <2> QED
    BY <1>25, <2>2, <2>3 DEF NoVideoFrame, TypeOK, inputVars, handleVars
<1>26. CASE UNCHANGED vars
  BY <1>26 DEF vars, inputVars, handleVars, bufferVars, TypeOK
<1> QED
  BY <1>1, <1>2, <1>3, <1>4, <1>5, <1>6, <1>7, <1>8, <1>9, <1>10, <1>11, <1>12, <1>13, <1>14, <1>15, <1>16, <1>17, <1>19, <1>20, <1>21, <1>22, <1>23, <1>24, <1>25, <1>26
     DEF Next, OpenClose, FormatIoctl, BufferIoctl, Frame

\* Types of the variables in every reachable state.
THEOREM FormatTypeCorrect == Spec => []TypeOK
  BY FormatTypeInit, FormatTypeStep, PTL DEF Spec

-----------------------------------------------------------------------------
(* When the first open sets the format.                                    *)

Counted == {h \in Handles : pc[h] \in {"open", "unlisted", "released"}}
Opening == {h \in Handles : pc[h] \in {"opening", "defaulting"}}

CountExact == fileindex = Cardinality(Counted)
BusyIsOpen == \A h \in Handles : bufs[h] # 0 => pc[h] \in {"open", "unlisted"}
OneOpens == \A g, h \in Opening : g = h
AloneAtDefault == \A h \in Handles : pc[h] = "opening" /\ fresh[h] # 0 => Counted = {}
OpenInv == TypeOK /\ CountExact /\ BusyIsOpen /\ OneOpens /\ AloneAtDefault

\* Only opening and closing touch the count, and only REQBUFS and the end of a
\* handle the size of its buffers.
LEMMA StepKinds ==
  ASSUME [Next]_vars
  PROVE  \/ \E h \in Handles : OpenClose(h)
         \/ /\ UNCHANGED handleVars
            /\ bufs' = bufs \/ \E h \in Handles : RequestBufs(h) \/ FreeBufs(h)
<1>1. CASE \E h \in Handles : OpenClose(h)
  BY <1>1
<1>2. CASE \E h \in Handles : FormatIoctl(h)
  BY <1>2 DEF FormatIoctl, SFmtChecks, SFmtSets, SDvChecks, SDvSets, GDvReads, GDvStores,
              DequeueEvent, handleVars, bufferVars
<1>3. CASE \E h \in Handles : BufferIoctl(h)
  BY <1>3 DEF BufferIoctl, RequestBufs, FreeBufs, QueueBuf, StreamOn, StreamOff, handleVars
<1>4. CASE InputChanges \/ CheckSourceChange \/ Frame
  BY <1>4 DEF InputChanges, CheckSourceChange, Frame, TopHalf, HalfLost, BottomHalf, NoVideoFrame,
              handleVars, bufferVars
<1>5. CASE UNCHANGED vars
  BY <1>5 DEF vars, handleVars, bufferVars
<1> QED
  BY <1>1, <1>2, <1>3, <1>4, <1>5 DEF Next

\* A card just probed has no handle.
LEMMA OpenInvInit == Init => OpenInv
<1> SUFFICES ASSUME Init PROVE OpenInv
  OBVIOUS
<1>1. Counted = {} /\ Opening = {}
  BY DEF Init, Counted, Opening
<1>2. CountExact
  BY <1>1, FS_EmptySet DEF Init, CountExact
<1> QED
  BY <1>1, <1>2, FormatTypeInit DEF Init, OpenInv, BusyIsOpen, OneOpens, AloneAtDefault

\* Every step keeps the count of the handles, with opens one at a time.
LEMMA OpenInvStep ==
  ASSUME "open" \notin Overlap, OpenInv, [Next]_vars
  PROVE  OpenInv'
<1>0. TypeOK /\ TypeOK'
  BY FormatTypeStep DEF OpenInv
<1>f. IsFiniteSet(Counted)
  BY FormatAssumption, FS_Subset DEF Counted
<1>1. ASSUME NEW h \in Handles, OpenChecks(h) PROVE OpenInv'
  <2>1. Counted' = Counted /\ pc[h] = "closed" /\ pc' = [pc EXCEPT ![h] = "opening"]
    BY <1>0, <1>1 DEF OpenChecks, Counted, TypeOK
  <2>2. Opening = {}
    BY <1>1 DEF OpenChecks, MayOpen, Opening
  <2>3. fresh'[h] # 0 => Counted = {}
    BY <1>0, <1>1, <1>f, FS_EmptySet DEF OpenChecks, TypeOK, OpenInv, CountExact
  <2>4. AloneAtDefault'
    BY <2>1, <2>2, <2>3, <1>0, <1>1 DEF AloneAtDefault, Opening, TypeOK
  <2> QED
    BY <2>1, <2>2, <2>4, <1>0, <1>1
       DEF OpenChecks, OpenInv, CountExact, BusyIsOpen, OneOpens, Opening, TypeOK, bufferVars
<1>2. ASSUME NEW h \in Handles, OpenDefaults(h) PROVE OpenInv'
  <2>1. Counted' = Counted /\ Opening' = Opening
    BY <1>0, <1>2 DEF OpenDefaults, Counted, Opening, TypeOK
  <2> QED
    BY <2>1, <1>0, <1>2
       DEF OpenDefaults, OpenInv, CountExact, BusyIsOpen, OneOpens, AloneAtDefault, TypeOK, bufferVars
<1>3. ASSUME NEW h \in Handles, OpenCounts(h) PROVE OpenInv'
  <2>1. Counted' = Counted \cup {h} /\ h \notin Counted /\ Opening' = Opening \ {h} /\ h \in Opening
    BY <1>0, <1>3 DEF OpenCounts, Counted, Opening, TypeOK
  <2>2. CountExact'
    BY <2>1, <1>3, <1>f, FS_AddElement DEF OpenCounts, OpenInv, CountExact
  <2>3. Opening' = {}
    BY <2>1 DEF OpenInv, OneOpens
  <2> QED
    BY <2>2, <2>3, <1>0, <1>3
       DEF OpenCounts, OpenInv, BusyIsOpen, OneOpens, AloneAtDefault, Opening, TypeOK, bufferVars
<1>4. ASSUME NEW h \in Handles, CloseUnlists(h) PROVE OpenInv'
  <2>1. Counted' = Counted /\ Opening' = Opening
    BY <1>0, <1>4 DEF CloseUnlists, Counted, Opening, TypeOK
  <2> QED
    BY <2>1, <1>0, <1>4
       DEF CloseUnlists, OpenInv, CountExact, BusyIsOpen, OneOpens, AloneAtDefault, TypeOK, bufferVars
<1>5. ASSUME NEW h \in Handles, CloseReleases(h) PROVE OpenInv'
  <2>1. Counted' = Counted /\ Opening' = Opening
    BY <1>0, <1>5 DEF CloseReleases, Counted, Opening, TypeOK
  <2> QED
    BY <2>1, <1>0, <1>5
       DEF CloseReleases, OpenInv, CountExact, BusyIsOpen, OneOpens, AloneAtDefault, TypeOK
<1>6. ASSUME NEW h \in Handles, CloseCounts(h) PROVE OpenInv'
  <2>1. Counted' = Counted \ {h} /\ h \in Counted /\ Opening' = Opening
    BY <1>0, <1>6 DEF CloseCounts, Counted, Opening, TypeOK
  <2>2. CountExact'
    <3>1. Cardinality(Counted') = Cardinality(Counted) - 1
      BY <2>1, <1>f, FS_RemoveElement
    <3>2. Cardinality(Counted') \in Nat
      BY <2>1, <1>f, FS_RemoveElement, FS_CardinalityType
    <3> QED
      BY <3>1, <3>2, <1>6, <1>0 DEF CloseCounts, OpenInv, CountExact, TypeOK
  <2> QED
    BY <2>1, <2>2, <1>0, <1>6
       DEF CloseCounts, OpenInv, BusyIsOpen, OneOpens, AloneAtDefault, TypeOK, bufferVars
<1>7. CASE /\ UNCHANGED handleVars
           /\ bufs' = bufs \/ \E h \in Handles : RequestBufs(h) \/ FreeBufs(h)
  <2>1. Counted' = Counted /\ Opening' = Opening
    BY <1>7 DEF handleVars, Counted, Opening
  <2>2. BusyIsOpen'
    BY <1>0, <1>7 DEF handleVars, OpenInv, BusyIsOpen, RequestBufs, FreeBufs, TypeOK
  <2> QED
    BY <2>1, <2>2, <1>0, <1>7 DEF handleVars, OpenInv, CountExact, OneOpens, AloneAtDefault
<1> QED
  BY <1>1, <1>2, <1>3, <1>4, <1>5, <1>6, <1>7, StepKinds DEF OpenClose

\* If handles are opened one at a time, the first open sets the size only while
\* no other handle, a closing one included, holds buffers: the order of
\* hws_release() suffices.
THEOREM OpenResetsIdleFormat ==
  ASSUME "open" \notin Overlap
  PROVE  Spec => DefaultWhenIdle
<1>1. ASSUME OpenInv, [Next]_vars
      PROVE  [\A h \in Handles :
                pc[h] = "opening" /\ pc'[h] = "defaulting" /\ out' # out =>
                  \A g \in Handles : bufs[g] = 0]_vars
  <2> SUFFICES ASSUME NEW h \in Handles, pc[h] = "opening", pc'[h] = "defaulting", out' # out
               PROVE  \A g \in Handles : bufs[g] = 0
    OBVIOUS
  <2>1. PICK k \in Handles : OpenClose(k)
    BY StepKinds, <1>1 DEF handleVars
  <2>2. OpenDefaults(k)
    BY <2>1, <1>1 DEF OpenClose, OpenChecks, OpenCounts, CloseUnlists, CloseReleases, CloseCounts
  <2>3. k = h
    BY <2>2, <1>1 DEF OpenDefaults, OpenInv, TypeOK
  <2>4. Counted = {}
    BY <2>2, <2>3, <1>1 DEF OpenDefaults, OpenInv, AloneAtDefault
  <2> QED
    BY <2>4, <1>1 DEF OpenInv, BusyIsOpen, Counted
<1> QED
  BY <1>1, OpenInvInit, OpenInvStep, PTL DEF Spec, DefaultWhenIdle

-----------------------------------------------------------------------------
(* Frames fit their buffers.                                               *)

SizeAgreed == \A h \in Handles : bufs[h] # 0 => bufs[h] = out
BufferPlaces == \A h \in Handles : where[h] # "none" \/ h \in streaming => bufs[h] # 0
ChangeWhenIdle == io.op \in SetOps /\ io.t.size # out => \A h \in Handles : bufs[h] = 0
FitInv == OpenInv /\ SizeAgreed /\ BufferPlaces /\ ChangeWhenIdle /\ past = {}

\* The check of S_FMT and S_DV_TIMINGS sees every queue.
LEMMA NotBusy ==
  ASSUME OpenInv, ~AnyQueueBusy, \A g \in Handles : pc[g] # "unlisted"
  PROVE  \A h \in Handles : bufs[h] = 0
  BY DEF OpenInv, BusyIsOpen, AnyQueueBusy, Consumers

\* With sizes agreed, nothing is written past the end of a buffer.
LEMMA NoOverrun ==
  ASSUME FitInv, NEW S \in SUBSET Takers
  PROVE  Overrun(where) = {} /\ Overrun(Hold(S)) = {}
<1>1. ASSUME NEW h \in Handles, where[h] # "none" PROVE ~(bufs[h] < out)
  BY <1>1, FormatAssumption DEF FitInv, SizeAgreed, BufferPlaces, OpenInv, TypeOK
<1>2. \A h \in S : where[h] = "queued"
  BY DEF Takers
<1> QED
  BY <1>1, <1>2 DEF Overrun, Held, Hold

\* Every step keeps all buffers at the output size, without the overlaps.
LEMMA FitInvStep ==
  ASSUME Overlap = {}, FitInv, [Next]_vars
  PROVE  FitInv'
<1>0. TypeOK /\ TypeOK' /\ OpenInv /\ OpenInv'
  BY OpenInvStep DEF FitInv, OpenInv
<1>1. ASSUME NEW h \in Handles, OpenDefaults(h) PROVE FitInv'
  <2>1. CASE fresh[h] = 0
    BY <2>1, <1>0, <1>1 DEF OpenDefaults, FitInv, SizeAgreed, BufferPlaces, ChangeWhenIdle, bufferVars
  <2>2. CASE fresh[h] # 0
    <3>1. \A g \in Handles : bufs[g] = 0
      BY <2>2, <1>0, <1>1 DEF OpenDefaults, OpenInv, AloneAtDefault, BusyIsOpen, Counted
    <3> QED
      BY <3>1, <1>0, <1>1 DEF OpenDefaults, FitInv, SizeAgreed, BufferPlaces, ChangeWhenIdle, bufferVars
  <2> QED
    BY <2>1, <2>2
<1>2. ASSUME NEW h \in Handles, CloseReleases(h) PROVE FitInv'
  BY <1>0, <1>2 DEF CloseReleases, FitInv, SizeAgreed, BufferPlaces, ChangeWhenIdle, TypeOK
<1>3. ASSUME NEW h \in Handles, NEW s \in Sizes, SFmtChecks(h, s) PROVE FitInv'
  <2>1. TryFmt(s) = out \/ \A g \in Handles : bufs[g] = 0
    BY <1>0, <1>3, NotBusy DEF SFmtChecks, MaySet
  <2> QED
    BY <2>1, <1>0, <1>3
       DEF SFmtChecks, FitInv, SizeAgreed, BufferPlaces, ChangeWhenIdle, bufferVars
<1>4. ASSUME NEW h \in Handles, NEW t \in Timings, SDvChecks(h, t) PROVE FitInv'
  <2>1. \A g \in Handles : bufs[g] = 0
    BY <1>0, <1>4, NotBusy DEF SDvChecks, MaySet
  <2> QED
    BY <2>1, <1>0, <1>4
       DEF SDvChecks, FitInv, SizeAgreed, BufferPlaces, ChangeWhenIdle, bufferVars
<1>5. ASSUME NEW h \in Handles, SFmtSets(h) \/ SDvSets(h) PROVE FitInv'
  <2>1. out' # out => \A g \in Handles : bufs[g] = 0
    BY <1>5 DEF SFmtSets, SDvSets, FitInv, ChangeWhenIdle, SetOps
  <2> QED
    BY <2>1, <1>0, <1>5
       DEF SFmtSets, SDvSets, Idle, SetOps, FitInv, SizeAgreed, BufferPlaces, ChangeWhenIdle, bufferVars
<1>6. ASSUME NEW h \in Handles, GDvReads(h) \/ GDvStores(h) PROVE FitInv'
  BY <1>0, <1>6 DEF GDvReads, GDvStores, Idle, SetOps, FitInv, SizeAgreed, BufferPlaces,
                    ChangeWhenIdle, bufferVars
<1>7. ASSUME NEW h \in Handles, RequestBufs(h) PROVE FitInv'
  <2>1. io.op \notin SetOps
    BY <1>7 DEF RequestBufs, MayRequest
  <2>2. out # 0
    BY <1>0, FormatAssumption DEF TypeOK
  <2> QED
    BY <2>1, <2>2, <1>0, <1>7
       DEF RequestBufs, FitInv, SizeAgreed, BufferPlaces, ChangeWhenIdle, TypeOK
<1>8. ASSUME NEW h \in Handles, FreeBufs(h) PROVE FitInv'
  BY <1>0, <1>8 DEF FreeBufs, FitInv, SizeAgreed, BufferPlaces, ChangeWhenIdle, TypeOK
<1>9. ASSUME NEW h \in Handles, QueueBuf(h) PROVE FitInv'
  BY <1>0, <1>9 DEF QueueBuf, FitInv, SizeAgreed, BufferPlaces, ChangeWhenIdle, TypeOK
<1>10. ASSUME NEW h \in Handles, StreamOn(h) \/ StreamOff(h) PROVE FitInv'
  BY <1>0, <1>10 DEF StreamOn, StreamOff, FitInv, SizeAgreed, BufferPlaces, ChangeWhenIdle, TypeOK
<1>11. CASE TopHalf \/ BottomHalf \/ NoVideoFrame
  <2>1. past' = {}
    BY <1>11, NoOverrun DEF TopHalf, BottomHalf, NoVideoFrame, FitInv
  <2>2. \A h \in Handles : where'[h] # "none" => where[h] # "none"
    BY <1>0, <1>11 DEF TopHalf, BottomHalf, NoVideoFrame, Hold, Finish, Takers, TypeOK
  <2>3. bufs' = bufs /\ out' = out /\ io' = io /\ streaming' = streaming
    BY <1>11 DEF TopHalf, BottomHalf, NoVideoFrame
  <2> QED
    BY <2>1, <2>2, <2>3, <1>0 DEF FitInv, SizeAgreed, BufferPlaces, ChangeWhenIdle
<1>12. CASE UNCHANGED <<io, out, bufs, where, streaming, past>>
  BY <1>0, <1>12 DEF FitInv, SizeAgreed, BufferPlaces, ChangeWhenIdle
<1>13. \/ \E h \in Handles : \/ OpenDefaults(h) \/ CloseReleases(h)
                             \/ \E s \in Sizes : SFmtChecks(h, s)
                             \/ \E t \in Timings : SDvChecks(h, t)
                             \/ SFmtSets(h) \/ SDvSets(h) \/ GDvReads(h) \/ GDvStores(h)
                             \/ RequestBufs(h) \/ FreeBufs(h) \/ QueueBuf(h)
                             \/ StreamOn(h) \/ StreamOff(h)
       \/ TopHalf \/ BottomHalf \/ NoVideoFrame
       \/ UNCHANGED <<io, out, bufs, where, streaming, past>>
  BY DEF Next, OpenClose, FormatIoctl, BufferIoctl, Frame, OpenChecks, OpenCounts, CloseUnlists,
         CloseCounts, DequeueEvent, InputChanges, CheckSourceChange, HalfLost,
         vars, bufferVars
<1> QED
  BY <1>1, <1>2, <1>3, <1>4, <1>5, <1>6, <1>7, <1>8, <1>9, <1>10, <1>11, <1>12, <1>13

\* Where none of the three overlaps happens, no frame is written past the end
\* of a buffer, though the size is checked only when a buffer is taken.
THEOREM FramesFit ==
  ASSUME Overlap = {}
  PROVE  Spec => []FrameFits
<1>1. Init => FitInv
  BY OpenInvInit DEF Init, FitInv, SizeAgreed, BufferPlaces, ChangeWhenIdle, Idle, SetOps
<1>2. FitInv /\ [Next]_vars => FitInv'
  BY FitInvStep
<1>3. FitInv => FrameFits
  BY DEF FitInv, FrameFits
<1> QED
  BY <1>1, <1>2, <1>3, PTL DEF Spec
=============================================================================
