--------------------------- MODULE BufferOwnership ---------------------------
(***************************************************************************)
(* What the driver promises vb2 and the applications about who owns a      *)
(* capture buffer, whatever the card, the input, the status thread and     *)
(* system sleep do (the four vb2 operations of src/src/hws_video.c and     *)
(* hws_complete_buffer()).  VideoCapture implements it.                    *)
(***************************************************************************)
CONSTANTS
  Ctxs,   \* open file handles
  Bufs,   \* buffers
  Owner   \* the handle a buffer belongs to

VARIABLES
  place,  \* of a buffer: with the app, queued, or in flight in the driver
  phase   \* of a handle: off, on, or stopping

vars == <<place, phase>>

Places == {"app", "queued", "flight"}
BufsOf(c) == {b \in Bufs : Owner[b] = c}

Init ==
  /\ place = [b \in Bufs |-> "app"]
  /\ phase = [c \in Ctxs |-> "off"]

\* buf_queue: a handle that is not stopping gets a buffer, streaming or not.
QBuf(b) ==
  /\ phase[Owner[b]] # "stopping" /\ place[b] = "app"
  /\ place' = [place EXCEPT ![b] = "queued"]
  /\ UNCHANGED phase

\* start_streaming.
StreamOn(c) ==
  /\ phase[c] = "off"
  /\ phase' = [phase EXCEPT ![c] = "on"]
  /\ UNCHANGED place

\* A frame, a stop of the engine, sleep: queued buffers of handles that are on
\* are taken or completed, buffers in flight are completed.  Nothing is queued
\* again, and nothing goes into flight once it is with the app.
Serve ==
  /\ place' \in [Bufs -> Places]
  /\ \A b \in Bufs :
       \/ place'[b] = place[b]
       \/ place[b] = "flight" /\ place'[b] = "app"
       \/ place[b] = "queued" /\ phase[Owner[b]] = "on"
  /\ UNCHANGED phase

\* stop_streaming begins: what is queued goes back.
StreamOff(c) ==
  /\ phase[c] = "on"
  /\ phase' = [phase EXCEPT ![c] = "stopping"]
  /\ place' = [b \in Bufs |-> IF b \in BufsOf(c) /\ place[b] = "queued" THEN "app" ELSE place[b]]

\* stop_streaming returns: the app has every buffer of the handle.
Leave(c) ==
  /\ phase[c] = "stopping"
  /\ \A b \in BufsOf(c) : place[b] = "app"
  /\ phase' = [phase EXCEPT ![c] = "off"]
  /\ UNCHANGED place

Next ==
  \/ \E b \in Bufs : QBuf(b)
  \/ \E c \in Ctxs : StreamOn(c) \/ StreamOff(c) \/ Leave(c)
  \/ Serve

Spec == Init /\ [][Next]_vars
=============================================================================
