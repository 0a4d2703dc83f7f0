-------------------------- MODULE FormatNegotiation --------------------------
(***************************************************************************)
(* The output format all file handles of the AVMATRIX VC12-4K driver share *)
(* (src/src/hws_video.c): S_FMT, S_DV_TIMINGS, G_DV_TIMINGS and the first  *)
(* open choose it under ioctl_lock or no lock at all, while the buffer     *)
(* ioctls of other handles run under their own qmutex, the IRQ thread      *)
(* writes frames of that size, the status thread reports a changed input,  *)
(* and handles close.                                                      *)
(*                                                                         *)
(* An operation that checks in one place and changes the format in another *)
(* is two steps.  A size stands for width and height and is the number of  *)
(* bytes of a frame, up to scale; frame rates and pixel formats (there is  *)
(* one) are left out.  A handle has one buffer; how frames get into it is  *)
(* VideoCapture's subject, here only where the output size is read.        *)
(***************************************************************************)
EXTENDS Integers, FiniteSets

CONSTANTS
  Handles,      \* file handles (struct hws_vfh_ctx)
  Sizes,        \* frame sizes hws_read_input() accepts
  TableSizes,   \* sizes of support_videofmt[]
  DefaultSize,  \* 1920x1080, the size before any handle is opened
  Inputs,       \* what the status registers may say: [size, il]
  Overlap,      \* which operations of two handles overlap, see Overlaps
  Nobody        \* no handle

\* No input, and no timings.  An input whose size is not in Sizes is active but unusable.
NoInput == [size |-> 0, il |-> FALSE]
Overlaps ==
  {"open",     \* hws_open() of two handles
   "close",    \* hws_release() of a handle, and a change of the size by another
   "request"}  \* REQBUFS of a handle, and a change of the size by another

ASSUME FormatAssumption ==
  /\ Sizes \subseteq Nat \ {0} /\ TableSizes \subseteq Sizes /\ DefaultSize \in TableSizes
  /\ Inputs \subseteq [size : Nat, il : BOOLEAN] /\ NoInput \in Inputs
  /\ Overlap \subseteq Overlaps
  /\ IsFiniteSet(Handles) /\ Nobody \notin Handles

VARIABLES
  input,      \* the status registers
  src,        \* src_signal, src_w, src_h, src_il: what the status thread last saw
  events,     \* handles with a V4L2_EVENT_SOURCE_CHANGE to dequeue
  fileindex,  \* open handles, as counted
  pc,         \* where a handle is between hws_open() and the end of hws_release()
  fresh,      \* the size hws_open() found to start with, or 0
  io,         \* the ioctl that holds ioctl_lock, between its check and its change
  out,        \* current_out_width, curren_out_height
  timings,    \* dv_timings, NoInput while dv_timings.bt.width is 0
  bufs,       \* size of the buffers of a handle's vb2 queue; 0: not busy
  where,      \* where the buffer is
  streaming,  \* ctx->streaming
  top,        \* top_done
  \* history, read by the properties only
  past        \* handles whose buffer a frame was written past the end of

inputVars == <<input, src, events>>
handleVars == <<fileindex, pc, fresh>>
bufferVars == <<bufs, where, streaming, top, past>>
vars == <<inputVars, handleVars, io, out, timings, bufferVars>>

Idle == [h |-> Nobody, op |-> "none", t |-> NoInput]
SetOps == {"s_fmt", "s_dv"}
Stages == {"closed", "opening", "defaulting", "open", "unlisted", "released"}

-----------------------------------------------------------------------------
(* What the code computes.                                                 *)

\* hws_read_input() returns true.
Usable(i) == i.size \in Sizes

\* hws_size_supported
Supported(s) == s \in TableSizes \/ (Usable(input) /\ s = input.size)

\* hws_timings_supported, and the filter of v4l2_valid_dv_timings()
TimingsSupported(t) == ~t.il /\ Supported(t.size)

\* Handles on videodev->consumers.
Consumers == {h \in Handles : pc[h] = "open"}

\* Mutant: only the queues that stream count as busy.
StreamingQueueBusy == \E h \in Consumers : h \in streaming

\* hws_any_queue_busy
AnyQueueBusy == \E h \in Consumers : bufs[h] # 0

\* What Overlap leaves out.
MaySet == "close" \in Overlap \/ \A g \in Handles : pc[g] # "unlisted"
MayRequest == "request" \in Overlap \/ io.op \notin SetOps
MayOpen == "open" \in Overlap \/ \A g \in Handles : pc[g] \notin {"opening", "defaulting"}

-----------------------------------------------------------------------------
(* Opening and closing a handle.                                           *)

\* hws_open up to its reading of the input; no lock is held.
OpenChecks(h) ==
  /\ pc[h] = "closed" /\ MayOpen
  /\ pc' = [pc EXCEPT ![h] = "opening"]
  /\ fresh' = [fresh EXCEPT ![h] = IF fileindex = 0 /\ streaming = {} /\ ~AnyQueueBusy /\ Usable(input)
                                   THEN input.size ELSE 0]
  /\ UNCHANGED <<inputVars, fileindex, io, out, timings, bufferVars>>

\* The first videoslock section of hws_open().
OpenDefaults(h) ==
  /\ pc[h] = "opening"
  /\ pc' = [pc EXCEPT ![h] = "defaulting"]
  /\ out' = IF fresh[h] # 0 THEN fresh[h] ELSE out
  /\ UNCHANGED <<inputVars, fileindex, fresh, io, timings, bufferVars>>

\* The second one, and list_add_tail().
OpenCounts(h) ==
  /\ pc[h] = "defaulting"
  /\ pc' = [pc EXCEPT ![h] = "open"]
  /\ fileindex' = fileindex + 1
  /\ fresh' = [fresh EXCEPT ![h] = 0]
  /\ UNCHANGED <<inputVars, io, out, timings, bufferVars>>

\* hws_release, once no ioctl of the handle runs: off the list of consumers.
CloseUnlists(h) ==
  /\ pc[h] = "open" /\ io.h # h
  /\ "close" \in Overlap \/ io.op \notin SetOps
  /\ pc' = [pc EXCEPT ![h] = "unlisted"]
  /\ events' = events \ {h}
  /\ UNCHANGED <<input, src, fileindex, fresh, io, out, timings, bufferVars>>

\* vb2_queue_release(): stop_streaming takes a held buffer back, then the
\* buffers are freed.
CloseReleases(h) ==
  /\ pc[h] = "unlisted"
  /\ pc' = [pc EXCEPT ![h] = "released"]
  /\ streaming' = streaming \ {h}
  /\ bufs' = [bufs EXCEPT ![h] = 0]
  /\ where' = [where EXCEPT ![h] = "none"]
  /\ UNCHANGED <<inputVars, fileindex, fresh, io, out, timings, top, past>>

\* Mutant: the handle is counted as closed before its queue is gone.
CountedClosedEarly(h) ==
  \/ /\ pc[h] = "open" /\ io.h # h
     /\ pc' = [pc EXCEPT ![h] = "unlisted"]
     /\ fileindex' = IF fileindex > 0 THEN fileindex - 1 ELSE fileindex
     /\ events' = events \ {h}
     /\ UNCHANGED <<input, src, fresh, io, out, timings, bufferVars>>
  \/ /\ pc[h] = "released"
     /\ pc' = [pc EXCEPT ![h] = "closed"]
     /\ UNCHANGED <<inputVars, fileindex, fresh, io, out, timings, bufferVars>>

\* The last step of hws_release().
CloseCounts(h) ==
  /\ pc[h] = "released"
  /\ pc' = [pc EXCEPT ![h] = "closed"]
  /\ fileindex' = IF fileindex > 0 THEN fileindex - 1 ELSE fileindex
  /\ UNCHANGED <<inputVars, fresh, io, out, timings, bufferVars>>

-----------------------------------------------------------------------------
(* ioctls under ioctl_lock.  One that fails changes nothing and is no step. *)

MayIoctl(h) == pc[h] = "open" /\ io = Idle

\* hws_vidioc_try_fmt_vid_cap: a size it cannot deliver gets the current one.
TryFmt(s) == IF Supported(s) THEN s ELSE out

\* vidioc_s_fmt_vid_cap up to its videoslock section.
SFmtChecks(h, s) ==
  /\ MayIoctl(h) /\ MaySet
  /\ TryFmt(s) = out \/ ~AnyQueueBusy
  /\ io' = [h |-> h, op |-> "s_fmt", t |-> [size |-> TryFmt(s), il |-> FALSE]]
  /\ UNCHANGED <<inputVars, handleVars, out, timings, bufferVars>>

SFmtSets(h) ==
  /\ io.h = h /\ io.op = "s_fmt"
  /\ out' = io.t.size
  /\ io' = Idle
  /\ UNCHANGED <<inputVars, handleVars, timings, bufferVars>>

\* hws_s_dv_timings accepts t: the live input's, or supported ones.
Acceptable(t) == (Usable(input) /\ t = input) \/ TimingsSupported(t)

\* hws_s_dv_timings; it returns 0 at once where dv_timings match already.
SDvChecks(h, t) ==
  /\ MayIoctl(h) /\ MaySet
  /\ Acceptable(t) /\ t # timings /\ ~AnyQueueBusy
  /\ io' = [h |-> h, op |-> "s_dv", t |-> t]
  /\ UNCHANGED <<inputVars, handleVars, out, timings, bufferVars>>

SDvSets(h) ==
  /\ io.h = h /\ io.op = "s_dv"
  /\ timings' = io.t
  /\ out' = io.t.size
  /\ io' = Idle
  /\ UNCHANGED <<inputVars, handleVars, bufferVars>>

\* Mutant: an error of hws_query_timings() is ignored.
GDvIgnoresErrors(h) ==
  /\ MayIoctl(h) /\ timings = NoInput
  /\ io' = [h |-> h, op |-> "g_dv", t |-> input]
  /\ UNCHANGED <<inputVars, handleVars, out, timings, bufferVars>>

\* hws_g_dv_timings with no timings: the input is read, then stored.
GDvReads(h) ==
  /\ MayIoctl(h) /\ timings = NoInput /\ Usable(input)
  /\ io' = [h |-> h, op |-> "g_dv", t |-> input]
  /\ UNCHANGED <<inputVars, handleVars, out, timings, bufferVars>>

GDvStores(h) ==
  /\ io.h = h /\ io.op = "g_dv"
  /\ timings' = io.t
  /\ io' = Idle
  /\ UNCHANGED <<inputVars, handleVars, out, bufferVars>>

-----------------------------------------------------------------------------
(* The input and the status thread.                                        *)

InputChanges ==
  /\ input' \in Inputs \ {input}
  /\ UNCHANGED <<src, events, handleVars, io, out, timings, bufferVars>>

\* Mutant: interlacing is not compared.
IgnoresInterlace ==
  /\ fileindex > 0 /\ input.size # src.size
  /\ src' = input
  /\ timings' = NoInput
  /\ events' = events \cup Consumers
  /\ UNCHANGED <<input, handleVars, io, out, bufferVars>>

\* hws_check_source_change, for a channel with an open handle.
CheckSourceChange ==
  /\ fileindex > 0 /\ input # src
  /\ src' = input
  /\ timings' = NoInput
  /\ events' = events \cup Consumers
  /\ UNCHANGED <<input, handleVars, io, out, bufferVars>>

\* DQEVENT
DequeueEvent(h) ==
  /\ h \in events
  /\ events' = events \ {h}
  /\ UNCHANGED <<input, src, handleVars, io, out, timings, bufferVars>>

-----------------------------------------------------------------------------
(* Buffer ioctls, under the handle's own qmutex.                           *)

\* REQBUFS of some buffers (hws_queue_setup_multi) or of none.
RequestBufs(h) ==
  /\ pc[h] = "open" /\ h \notin streaming /\ MayRequest
  /\ bufs' = [bufs EXCEPT ![h] = out]
  /\ where' = [where EXCEPT ![h] = "app"]
  /\ UNCHANGED <<inputVars, handleVars, io, out, timings, streaming, top, past>>

FreeBufs(h) ==
  /\ pc[h] = "open" /\ h \notin streaming /\ bufs[h] # 0
  /\ bufs' = [bufs EXCEPT ![h] = 0]
  /\ where' = [where EXCEPT ![h] = "none"]
  /\ UNCHANGED <<inputVars, handleVars, io, out, timings, streaming, top, past>>

\* QBUF: hws_buffer_prepare_multi refuses a buffer below the output size.
QueueBuf(h) ==
  /\ pc[h] = "open" /\ where[h] = "app" /\ bufs[h] >= out
  /\ where' = [where EXCEPT ![h] = "queued"]
  /\ UNCHANGED <<inputVars, handleVars, io, out, timings, bufs, streaming, top, past>>

StreamOn(h) ==
  /\ pc[h] = "open" /\ h \notin streaming /\ bufs[h] # 0
  /\ streaming' = streaming \cup {h}
  /\ top' = IF streaming = {} THEN FALSE ELSE top
  /\ UNCHANGED <<inputVars, handleVars, io, out, timings, bufs, where, past>>

\* hws_stop_streaming_multi: every buffer is back.
StreamOff(h) ==
  /\ pc[h] = "open" /\ h \in streaming
  /\ streaming' = streaming \ {h}
  /\ where' = [where EXCEPT ![h] = "app"]
  /\ UNCHANGED <<inputVars, handleVars, io, out, timings, bufs, top, past>>

-----------------------------------------------------------------------------
(* The frames, as far as they depend on the output size.                   *)

\* Consumers with a buffer to take; one that asked for a lower rate skips frames.
Takers == {h \in Consumers \cap streaming : where[h] = "queued"}

\* hws_hold_buffers: a buffer that is too small fails.
Hold(S) == [h \in Handles |-> IF h \notin S THEN where[h] ELSE IF bufs[h] < out THEN "app" ELSE "held"]
Held(w) == {h \in Handles : w[h] = "held"}

\* hws_finish_frame
Finish(w) == [h \in Handles |-> IF w[h] = "held" THEN "app" ELSE w[h]]

\* Frames of size out go to the buffers held in w.
Overrun(w) == {h \in Held(w) : bufs[h] < out}

\* A top half; with "direct" it is copied into the buffers at once.
TopHalf ==
  /\ streaming # {}
  /\ \E S \in SUBSET Takers, direct \in BOOLEAN :
       /\ where' = Hold(S)
       /\ past' = IF direct THEN past \cup Overrun(where') ELSE past
  /\ top' = TRUE
  /\ UNCHANGED <<inputVars, handleVars, io, out, timings, bufs, streaming>>

\* A bottom half without its top half, or a half the card did not refresh:
\* the frame is lost, held buffers wait for the next one.
HalfLost ==
  /\ streaming # {} /\ top
  /\ top' = FALSE
  /\ UNCHANGED <<inputVars, handleVars, io, out, timings, bufs, where, streaming, past>>

\* A bottom half that completes the frame; current_out_width is read again.
BottomHalf ==
  /\ streaming # {} /\ top
  /\ past' = past \cup Overrun(where)
  /\ where' = Finish(where)
  /\ top' = FALSE
  /\ UNCHANGED <<inputVars, handleVars, io, out, timings, bufs, streaming>>

\* hws_deliver_no_video: a whole frame at once.
NoVideoFrame ==
  /\ streaming # {}
  /\ \E S \in SUBSET Takers :
       /\ past' = past \cup Overrun(Hold(S))
       /\ where' = Finish(Hold(S))
  /\ top' = FALSE
  /\ UNCHANGED <<inputVars, handleVars, io, out, timings, bufs, streaming>>

-----------------------------------------------------------------------------
Timings == [size : Sizes, il : BOOLEAN]

Init ==
  /\ input \in Inputs /\ src = input /\ events = {}
  /\ fileindex = 0 /\ pc = [h \in Handles |-> "closed"] /\ fresh = [h \in Handles |-> 0]
  /\ io = Idle /\ out = DefaultSize /\ timings = NoInput
  /\ bufs = [h \in Handles |-> 0] /\ where = [h \in Handles |-> "none"]
  /\ streaming = {} /\ top = FALSE /\ past = {}

OpenClose(h) == OpenChecks(h) \/ OpenDefaults(h) \/ OpenCounts(h)
                \/ CloseUnlists(h) \/ CloseReleases(h) \/ CloseCounts(h)
FormatIoctl(h) ==
  \/ \E s \in Sizes : SFmtChecks(h, s)
  \/ \E t \in Timings : SDvChecks(h, t)
  \/ SFmtSets(h) \/ SDvSets(h) \/ GDvReads(h) \/ GDvStores(h) \/ DequeueEvent(h)
BufferIoctl(h) == RequestBufs(h) \/ FreeBufs(h) \/ QueueBuf(h) \/ StreamOn(h) \/ StreamOff(h)
Frame == TopHalf \/ HalfLost \/ BottomHalf \/ NoVideoFrame

Next ==
  \/ \E h \in Handles : OpenClose(h) \/ FormatIoctl(h) \/ BufferIoctl(h)
  \/ InputChanges \/ CheckSourceChange \/ Frame

Spec == Init /\ [][Next]_vars

\* The status thread polls for as long as the driver is loaded.
FairSpec == Spec /\ WF_vars(CheckSourceChange)

-----------------------------------------------------------------------------
(* Properties.                                                             *)

\* Types of the variables.
TypeOK ==
  /\ input \in Inputs /\ src \in Inputs /\ events \subseteq Handles
  /\ fileindex \in Nat /\ pc \in [Handles -> Stages] /\ fresh \in [Handles -> Sizes \cup {0}]
  /\ io \in {Idle} \cup [h : Handles, op : SetOps \cup {"g_dv"}, t : Timings]
  /\ out \in Sizes /\ timings \in Timings \cup {NoInput}
  /\ bufs \in [Handles -> Sizes \cup {0}]
  /\ where \in [Handles -> {"none", "app", "queued", "held"}]
  /\ streaming \subseteq Handles /\ top \in BOOLEAN /\ past \subseteq Handles

\* "Every copy checks vb2_plane_size() first" (docs/SPEC.md:56): no frame is
\* written past the end of a buffer, though the size is checked when the
\* buffer is taken (hws_hold_buffers()) and read again for every half.
FrameFits == past = {}

\* hws_open() sets the input's size only while no other handle, opening or
\* closing, holds buffers (the comment above fileindex-- in hws_release()).
DefaultWhenIdle ==
  [][\A h \in Handles :
       pc[h] = "opening" /\ pc'[h] = "defaulting" /\ out' # out =>
         \A g \in Handles : bufs[g] = 0]_vars

\* An input that stays different from what was last reported raises
\* V4L2_EVENT_SOURCE_CHANGE on every open handle (hws_check_source_change()).
ChangeAnnounced ==
  \A h \in Handles, i \in Inputs :
    (pc[h] = "open" /\ src = i /\ input # i) ~> (h \in events \/ input = i \/ pc[h] # "open")
=============================================================================
