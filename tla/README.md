# TLA+ models of the AVMATRIX VC12-4K driver

The driver (`src/src/hws_video.c`) captures one video input and its audio from a
PCI Express card, for any number of V4L2 file handles at once. This directory holds
TLA+ models of it, the TLC configurations that check them and proofs that TLAPS
checks. The code is the reference: the comments in the modules name the functions
they translate, `PROJECT.json` maps each definition to its lines.

    tlc -workers 2 -config ZeroCopy.cfg MCVideoCapture.tla
    tlapm VideoPlaces_proofs.tla

## The system

| part | state it keeps | operations | where |
|---|---|---|---|
| card (hardware) | run state, the run in progress and its address, the half-frame toggle, interrupt bits | completes a half, starts the next, loses its run state | external; `docs/SPEC.md` probes |
| interrupt handler | `video_toggle`, `half_events`, packet ring | `irqhandler` | hws_video.c 3645–3742 |
| IRQ thread | `top_done`, `frame_*`, `zc_last_ts`, `zc_gap_prev`, `m_FrameSeq` | `hws_irq_thread`, `hws_video_half`, `hws_deliver_no_video` | 1744–2381 |
| zero-copy bookkeeping | `zc_cur/next/release/prog/ev/free_after/in/away_in/stable/ctx` | `hws_zc_*` | 1956–2114 |
| consumers (handles) | `buf_queue`, `held`, `inflight`, `next_seq`, `decimate`, `streaming` | QBUF, STREAMON, STREAMOFF, completion | 1178–1330, 1766–1815 |
| engine control | `engine_users`, `m_bVCapStarted`, `dwisRuning`, `engine_lock` | start, quiesce, stop, reinit, suspend, resume | 3226–3428, 4724–4764 |
| status thread | `m_curr_No_Video`, `m_pVCAPStatus`, lengths | `MainKsThreadHandle`, `CheckVideFmt`, `ChangeVideoSize` | 3895–4095 |
| audio capture | packet ring, `m_AudioSkip`, `running`, ALSA ring position, silence work | trigger, tasklet, workqueue | 1380–1559, 2545–2760, 3253–3573 |
| formats and input | output format, interval, DV timings, `hws_read_input` | S_FMT, S_PARM, DV ioctls, source-change events | 236–400, 718–903 |
| open and release | handle list, queue, memory model | `open`, `release`, REQBUFS | 472–605, 1033–1045 |
| arithmetic | none | quarter sizes, zero-copy span, rate window, intervals | `hws_calc.h` |
| lifetime | reference count, DMA pool, registrations | probe, remove, `release` | 2404–3178, 4599–4713 |
| scaler, debugfs, controls | per-call buffers; counters; register bytes | pure loops; reports; one register write each | `hws_scale.c`, 4362–4597, 608–662 |

How they interact. A frame is two halves: quarters 0 and 1 (the top pair) and
quarters 2 and 3 (the bottom pair). The card latches the address of a pair when the
run into it starts, completes the half, flips the toggle and raises an interrupt. The
handler samples the toggle and queues one event per change; the IRQ thread takes one
event at a time under `cap_lock`, copies the half into each consumer's held buffer
and, on a bottom half, hands out the frame. With zero-copy the registers of a pair
point into a consumer's buffer instead; the driver then has to know when the card is
past that buffer. `engine_lock` orders starts and stops, `cap_lock` the use of the
frame state, `qlock` and `consumers_lock` the lists. The status thread looks at the
card every poll without a lock, then takes both.

What is hard: register writes take effect one run later; the events the thread
handles may be older than the registers; STREAMOFF may happen anywhere, has a 250 ms
timeout and a second wait without one, and lets go of `engine_lock` half way; the
copy of a half races the card's next run into it; toggles are levels and can be
missed; the status thread and system sleep stop and start the card under all of it.

What makes each part correct:

- *delivery*: a good frame is one input frame, all of it, once, in order;
- *zero-copy*: the card writes no buffer that is back with the application, every
  buffer is in one place, `inflight` counts exactly those STREAMOFF waits for;
- *engine*: it runs exactly when someone counts on it; lengths change at rest;
- *STREAMOFF*: it ends, and nothing is left in flight when it does;
- *audio*: packets reach the application in order, without duplicates across a
  restart, and silence never overtakes them; trigger, work and close do not deadlock;
- *formats*: no handle's queue holds buffers for another size; an event follows each
  change of the input;
- *arithmetic*: the quarters cover the frame, a run ends inside a buffer, comparisons
  survive wrap-around, the measured rate is the input's;
- *rendering*: no pixel outside the frame is read, every byte of the output is written,
  colours stay with their pixels;
- *lifetime*: nothing is freed while someone may use it, the structure goes last; probe
  undoes what it did; remove returns and leaves no reader waiting.

## Modules

| module | models | with |
|---|---|---|
| `VideoCapture` | card, interrupt handler, IRQ thread with both ways of delivery, zero-copy bookkeeping, consumers, engine control, the status thread's effect on capture, sleep | `MCVideoCapture`; `VideoCapture_proofs` (types, registers), `VideoPlaces_proofs` (where buffers are), `VideoOwnership_proofs` (STREAMOFF, the engine), `VideoFrames_proofs` (what becomes of frames), each extending the one before |
| `BufferOwnership` | what the frame path promises vb2: who owns a buffer | implemented by `VideoCapture`; `VideoOwnership_proofs` |
| `AudioPipeline` | audio capture | `MCAudioPipeline`, `AudioPipeline_proofs` |
| `FormatNegotiation` | the output size all handles share, opens, DV timings, events | `MCFormatNegotiation`, `FormatNegotiation_proofs` |
| `DeviceLifetime` | probe and its unwinding, remove, references, the DMA pool, who runs meanwhile | `MCDeviceLifetime`, `DeviceLifetime_proofs` |
| `HwsCalc` | block arithmetic and wrapping counters of `hws_calc.h` | `FrameMath_proofs`; extended by `FrameRender` |
| `FrameRender` | line doubling and the scalers of `hws_scale.c` | `MCFrameMath`, `FrameMath_proofs` |
| `FrameRate` | the measured input rate and the answer to G_PARM | `MCFrameMath`, `FrameMath_proofs` |

An `MC` module gives the constants of a specification small values.

How `VideoCapture` corresponds to the code:

- One action is one critical section of `cap_lock`. The copy of a half is the
  exception: `HalfBegin` is `hws_video_half()` up to the first `memcpy()`, `TopEnd` /
  `BottomEnd` the rest; `thr.busy` is the lock held in between, while the card and
  the interrupt handler run on. Every action that takes `cap_lock` has `~thr.busy`.
- `engine` is the holder of `engine_lock` where it is kept over more than one step
  (STREAMOFF's forced stop). `pc[c]` is where a handle is in its ioctl; `qmutex` is
  held throughout, so one handle has one `pc`.
- `StreamOff`, `StopTakeBack`, `StopWaited` / `StopTimesOut`, `StopTimeout`, `StopForce`,
  `StopWaited`, `StopEngine` are `hws_stop_streaming_multi()` from lock to lock. What the
  wait that timed out was for may be back by the time `engine_lock` is free.
- `zc` is the zero-copy part of `struct hws_video` and the hooks kept in each buffer.
  `need[b][p]` is `zc_free_after - zc_ev`, which is 0 or 1 in every reachable state.
- `status` remembers what the status thread read without a lock; the step that acts
  on it (`Poll…`, `Reinit`) comes later, when the locks are free, and may find the
  engine in another state.
- Time is counted in completed halves. An event's `ts` is its age; `gap` holds the
  age of the last event and the last gap, which decide `hws_copy_late()` and whether
  a register write was "in time" (`InTimeWays`). A write whose deadline has passed is
  late; one whose deadline is open may be either.
- Pictures are data nobody but the properties reads: `pic[d][p]` is how many input
  frames ago pair `p` of destination `d` was written completely, or that the card was
  writing it. `mark` is the word `HWS_HALF_MARK` the driver plants to tell a fresh
  half from a stale one; while the card writes the pair, reading it may give either.
  `res[b]` is the verdict on a frame when it was given out.
- `ahead[c]` is `next_seq - m_FrameSeq`, cut off at 0 and `decimate`: the frame
  number itself is unbounded, this difference is all the code compares.

Left open (nondeterministic): the order of `buf_queue`, whether a scaled frame can be
rendered, both reads of the HDCP register, whether the stale-half test knob is set.
The source of a handle's buffers (`Owner`), its decimation and its memory model are
constants: they change only while the queue is idle.

`AudioPipeline.tla` is audio capture, a component that shares only the card and the
status thread with video and is checked on its own (`MCAudioPipeline.tla`).

- The interrupt, the tasklet (`TaskletBegin`, `TaskletFills`, `TaskletQueues`: up to
  the copy, under `audiolock`, `queue_work()`), `audio_data_process()` one slot at a
  time, `hws_audio_silence_work()` one packet at a time. `work` is the work that runs
  on the ordered workqueue, and with it the holder of `audiolock`; `wq` what is pending.
- The trigger takes no `audiolock`, so `Start`, `StartCapture` and `StopCall` fall
  between any two of those steps. `snd_pcm_period_elapsed()` may find an overrun and
  stop the stream from within a work (`AudioOverruns`, `SilenceOverruns`).
- `hw_free` is two steps, each waiting for its `cancel_..._sync()`.
- `hws_do_reinit()` reads `m_bACapStarted` (`ReinitFinds`) and enables the engine
  (`ReinitEnables`) while the trigger may run in between.
- Time is counted in packets; positions in the ALSA ring are left out. A packet is
  "old" if it was captured for an earlier stream. The interrupt is handled when the
  packet is complete; the tasklet may be late.

`FormatNegotiation.tla` is the output size all handles share and everyone who changes,
checks or uses it; `MCFormatNegotiation` gives it values, `FormatNegotiation_proofs`
its theorems. `VideoCapture` takes that size as fixed while it streams.

- `io` is the ioctl that holds `ioctl_lock` between its check and its change: S_FMT is
  `SFmtChecks` and `SFmtSets`, S_DV_TIMINGS `SDvChecks` and `SDvSets`, or `SDvMatches`
  where it returns early. G_DV_TIMINGS reads the input and stores it in two steps. An
  ioctl that fails changes nothing and is no step.
- The buffer ioctls take only the handle's `qmutex` and run at any time.
- `hws_open()` is a check, a write and a count without a common lock; `hws_release()`
  leaves the list, then releases the queue, then counts (`pc`).
- Frames appear as the three places that read the output size: a top half that takes
  buffers of the right size, a bottom half or a "no video" frame that fills them.
  Which handles skip a frame (S_PARM) is left open.
- `Overlap` names the three overlaps of two handles that break `FrameFits`; a run or a
  theorem says which of them it leaves out. A size stands for width and height, the
  number of bytes up to scale.

`DeviceLifetime.tla` is one card from probe to the free of its structure.

- `pc` is the step of `hws_probe()`, the label of its unwinding or the step of
  `hws_remove()`; `has`, `dma`, `cpu` what was taken and not yet given back. Each step
  of probe may fail and jumps to the label the code jumps to. A step that waits
  (`kthread_stop()`, `free_irq()`, `tasklet_kill()`, `destroy_workqueue()`,
  `cancel_work_sync()`) is enabled when what it waits for is over.
- `refs` is the `kref` of the structure, `v4l2` that of the channel's `v4l2_device`.
  `handle[h]` is where a file is in its open, STREAMON, DQBUF, STREAMOFF or close. The
  V4L2 core looks whether the node is registered when a call begins, and only then, and
  never for close; ALSA looks under the lock that `snd_card_disconnect()` takes.
- `threads` says who runs: the status thread, the IRQ thread, the tasklet, both works.
  What they do with frames and packets is in the modules above. `gone` is a card off
  the bus, which answers 0xFFFFFFFF; `lost` and `removed` are the driver's flags.
- `UsersFindTheirMemory` is about threads, the tasklet and the works. A handle inside
  STREAMON is not in it: `CaptureAfterRemove` shows what it finds.
- When remove begins, the silence work stays queued if it was; the trigger STOP that
  disconnecting the PCM may cause would have cancelled it. So the model has a few more
  behaviours than the code, and the same teardown.

`HwsCalc.tla` is the block arithmetic as operators: quarters, the run of the card, the
span of a zero-copy buffer, the comparison of two counters of `EventWrap` values.

`FrameRate.tla` is `hws_rate_frame_end()` and its callers. A clock tick is 1/240000 s, so
the periods of the standard rates are whole; the times the code stores are kept as the
time passed since. `blind` is not the code's: it says that a window began with an
interval of several frames, whose length nothing tells.

`FrameRender.tla` carries a frame through `MemCopyFrame()` and a scaler row by row. A
pixel's value is left out; what is kept is which bytes are read and which written, and
for a pixel of the output the bytes its luma and chroma come from. Each scaler is a
plan: the numbers in its loops. `MCFrameMath` puts both side by side; they share nothing.

`BufferOwnership.tla` has two variables: `place`, with the application, queued or in
flight in the driver, and `phase`, off, on or stopping. `VideoCapture` implements it with
`Place` (a buffer that is held or in the zero-copy state is in flight) and `Phase` (a
handle is on from `start_streaming` on, stopping until `stop_streaming` returns).
It says what vb2 relies on: only a queued buffer of a streaming handle is taken, a
buffer comes back to the application once, STREAMOFF ends with none in flight, and no
step of the card, the status thread or sleep moves a buffer any other way.

## Runs

The runs that pass first. "Age" is `MaxAge`: ages and gaps beyond it are "at least this".
`MaxWaiting` bounds the events that wait for the IRQ thread: the card completes no half
with that many waiting. It is 1 in the runs that pass: an event is then at most two halves
old, so an age of 3 is exact for the comparisons made; 1 merges them and serves only runs
about where buffers are. What a thread further behind does is shown by `ReturnedTooEarly`
(`MaxWaiting = 2`, age 4), and stated for any number of waiting events by the theorems on
places and `LateWritesFail`. `FifoDepth` is 2 and never reached, as 16
is not in the code unless the thread is a third of a second behind. Symmetry, of the
handles, is used in `FrameTooLarge` only.

| run | instance | shows |
|---|---|---|
| `ZeroCopy` | one zero-copy handle, two buffers, two input geometries, HDCP coming and going, sleep, stale-half knob, age 3 | good frames are whole, not repeated, leave at once; a half overwritten while it was copied fails its frame; lengths change only at rest |
| `FaultsAndSleep` | one zero-copy handle, two buffers of which one has to be copied; lost run state, sleep, halves that complete before the handler samples or acknowledges, no signal, a size the driver refuses; age 1 | one place, exact counts, registers, STREAMOFF returns all, the engine runs when and only when used |
| `StopEnds` | two handles that both stop, sleep, fair scheduling; age 1 | every STREAMOFF ends though the card may stop; the frame path implements `BufferOwnership` |
| `AudioStreams` | a ring of two slots, one old packet after an enable and one dropped, gaps of up to two packets; fair scheduling | no work writes a freed buffer, no filled slot is forgotten, packets in order and none of an earlier stream, silence only for time that passed, every gap filled |
| `FormatFlow` | two handles, a size of the table and one that only the input has, progressive, interlaced or no input, none of the three overlaps; the status thread keeps polling | frames fit their buffers, the first open resets the size only while nobody has buffers, every handle hears of a changed input |
| `Lifetime` | two handles, a PCM, two DMA buffers, every failure of probe, a card that may fall off the bus; fair scheduling | the structure is freed last and always, whoever runs finds its memory, nothing leaks, no reader waits for ever, remove returns |
| `FrameMath` | every scaler at its real sizes, the general one larger and smaller, fields; inputs of 24, 59.94 and 60 Hz with jitter, missed frames, pauses, mode changes and sleep | the output is written whole from inside the frame, colours kept, lines doubled; the measured rate is the input's, and the answer to G_PARM follows a new input |

With two buffers one is captured into while the other is programmed next, waits for
release or is with the application; a steady stream keeps three at once, which the proofs
cover. Two handles give every interleaving of one STREAMOFF with another handle's start.
Whole frames through "no video", for copy handles, are left to the proofs
(`FramesWholeOne`), as are buffers too small for a frame here; whether a frame fits its
buffer is the question of `FormatFlow`.

Fairness (`FairSpec`): weak for the interrupt handler, the IRQ thread and resume;
strong for the steps of STREAMOFF, which wait for mutexes the kernel hands over and a
timer that expires. Nothing is assumed of the card, the status thread or the
applications. So `StopEnds` covers a card that dies in the middle of a stream.
In `AudioPipeline` fairness is weak for the tasklet, the workqueue, the timer and a
callback that has begun; nothing is assumed of packets or the application, so
`GapFilled` covers a source that never sends again.

In `AudioStreams` two slots fill, wrap and overflow as eight do. `since` counts packet
times up to `MaxGap`, "this long or longer"; with 2 a gap may be noticed at its second
packet or missed there, as 40 ms against 21.3 ms allow, and needs more than one packet
of silence. Dropping one packet against at most one old one is the code's two against
at most two. Three properties have a premise, kept in `quiet` and `aligned`: nothing
of an earlier stream was in flight when this one started (`CleanStart`,
`SilenceInGap`), the ring's indexes were equal and no slot in use (`InOrder`). Without
it each fails, see below.

In `FormatFlow` a frame of the larger size is past the end of a buffer of the smaller,
which is all the properties tell apart; two handles give every pair of a caller and a
bystander. The only fairness is of the poll.

In `Lifetime` the fairness is weak: for remove, for what already runs (threads, tasklet,
works) and for the part of a call the driver alone decides on. Nobody has to open,
read, stream or close, and no queued work has to run. Two DMA buffers show an
allocation that fails at the first, in the middle and not at all, as four do. The
system ends, with the card gone and every file closed, so this run does not check for
deadlock; every other run that passes does.

In `FrameMath` jitter is 0 or 40 ticks (a sixth of a millisecond), one frame end may be
missed in a row and two things may happen in a behaviour, each near the start or in the
middle of a window (`Moments`: after 0, 1 or 20 frames counted). A mode change takes
longer than 200 ms without a frame or comes with a sleep: a shorter one leaves the
shortest interval of the old mode behind, see below. The register tells whole frames
per second, or one more. The render jobs are every pair of sizes with a scaler of its
own (29), pairs for the general one, and fields, one of them with quarters programmed
for another size.

The runs with `VIEW Structure` (`FaultsAndSleep`, `StopEnds`, `ReturnedTooEarly`) ask only
where buffers are and who runs. They identify
states that differ only in what the history variables `pic`, `res`, `fed`, `reset` and
`thr.src` hold: no guard and no other variable depends on those (a bisimulation), so
the view loses nothing these properties, or the fairness of `StopEnds`, can see.

### Disagreements found

Five runs end in a counterexample of one property each.

- `EngineLeftOff` (1317). A STREAMOFF that timed out stops the engine and does not
  restart it while `engine_users` is 1; a STREAMON that takes `engine_lock` before
  `engine_users` drops sees a second user and does not start it either.
- `FrameTooLarge` (2184). The size of a buffer is checked when a top half takes it; the
  output size is read again for the bottom half, and for a buffer still held from a lost
  frame. S_FMT that has found no queue busy sets the larger size after another handle's
  REQBUFS, QBUF, STREAMON and first half, which `ioctl_lock` does not cover: the next
  half is written past the buffer's end. Two more ways lead there (`Overlap`): a handle
  that is closing is off the list S_FMT looks at before its held buffer is taken back
  (573), and two handles that open at once both find themselves first (537).
- `ReinitStopsAudio` (3246). The status thread reads `m_bACapStarted`, a trigger STOP
  clears it, the status thread enables the engine and sets it again. `m_bAudioRun` stays
  0: the next START returns early (3257), STOP does nothing (3432), and the stream gets
  silence only, from then on.
- `CaptureAfterRemove` (3148). A STREAMON that passed the registration check before
  `video_unregister_device()` takes `engine_lock`, which remove does not, and starts the
  engine after `StopDevice()`: `m_PciDeviceLost`, which would hold it back, is set after
  `DmaMemFreePool()` (3159). Until `pci_disable_device()` the card may write into memory
  that was freed. `docs/SPEC.md` has remove set the flag first.

- `ReturnedTooEarly` (2009; `MaxWaiting = 2`, one zero-copy handle). `zc_free_after` is
  computed from `zc_ev`, the events *processed*. STREAMOFF points the card away from its
  buffers while two halves wait for the thread; the first of the two counts as the half
  that frees a buffer, though its interrupt came before the register write. The buffer
  goes back while the run the card had latched fills it, against the comment at 1856.
  What the driver does get right however far the thread is behind is `LateWriteFails`:
  a frame such a run goes into is never given as good, if the gaps are true
  (`LateWritesFail`). TLC agrees on such instances, with lost run state and sleep too.

More were seen while the bounds were chosen and have no run of their own. Four of them
are cases the properties above are stated without:

- Frame numbers (1247; `NoSequenceRepeat`, two copy handles). `streaming` is set before
  `engine_lock` is taken: a handle takes a frame of the run in progress, the last user
  stops the engine, and the handle's own start sets `m_FrameSeq` to 0 (1254). Its frame
  numbers repeat, against `docs/SPEC.md:68`. `ZeroCopy`, with one handle, cannot show this.
- Missed interrupts (3676; `NoMixedFrame`, one copy handle, `late_irq`). Two halves complete
  before the handler reads the toggle, as the comment at 3583 says they can: no event, and
  the bottom half of the next frame completes the frame whose top half was taken. The
  comment at 2152 says a bottom half without its top half loses the frame.
- Gaps that are not true (`LateWriteFails`, `MaxWaiting = 2`, with `late_irq` or `no_video`).
  Two interrupts in a row lost, or events skipped during "no video", make both of the last
  two gaps three halves long, and a write one half late counts as in time.
- Silence (2627; `SilenceInGap` without `quiet`). A silence work has found what is due in the
  old stream; its delivery overruns and stops that stream; START sets `silence_frames` to 0
  without `audiolock`, which the comment at 1433 asks for, and the work goes on delivering
  into the new stream, in which no packet is missing.

The others:
The bars of the general scaler are half the difference of the heights, rounded down, and it
copies what they leave of the output (`hws_scale.c:705`): one line more than the source has
if the difference is odd. The line comes from behind the frame in the staging buffer, where
an older, larger one was. Nothing refuses an odd height, and `tests/unit/test_scale.c`, which
says that no byte past the frame is read, has even sizes only. This came out of the proof of
`ReadsInside`, as its hypothesis `FitsEvenly`; with `Jobs` a frame of 1680x945 for an output of
1680x1050 TLC shows it.
`dv_timings` is what an application set and also the cache of G_DV_TIMINGS: S_DV_TIMINGS
of timings found there returns 0 and leaves the output size as it was, though nobody ever
chose them (844, against 830). With one slot less than the events the thread may be
behind, a dropped half (3686) mixes two frames before a gap was measured.
`hws_do_reinit()` (3243) restarts the card but resets neither `video_toggle` nor
`top_done`: if the run state was lost after a top half, the new top half leaves the
toggle as the handler last saw it, and the new bottom half joins the old top half
(`card_loss`, `NoMixedFrame`, one zero-copy handle). Events skipped during "no video"
(2226) leave `zc_cur` and the marks alone while the card keeps writing: the first frame
after may join an old top half with a new bottom half (`no_video`, the same). Between
`streaming` and `engine_lock` (1247) a buffer of the starting handle may be in the
zero-copy state when the other handle's last STREAMOFF turns the engine off: `ChangeVideoSize()` finds the engine off, and
`hws_zc_stop()` leaves the buffer on its release list while the lengths change, against
the comment at 3900 (two handles, `ResizeAtRest`). Audio:
`StartAudioCapture()` resets the ring's read index but not `m_nAudioIndex`, so packets
that fill the last and the first slot are delivered in the wrong order after a
restart; a packet in the tasklet during a restart is heard in the new stream.
Video again: the first half after a start has no measured interval, so
`hws_copy_late()` cannot fail it (verdict "unmeasured", which `LateCopyFails` leaves
out); with two events waiting a cancelled zero-copy frame leaves the DMA buffers' top
half unmarked and a later frame mixes.

Rate: `min_delta` is kept when a window closes (hws_calc.h:110, hws_video.c:3585), so an
input that slows down without a pause of 200 ms has each frame counted more than once;
a window whose first interval spans a missed frame counts too few (`blind`). A card
without the rate register answers with the last measurement while nothing is captured.
`docs/SPEC.md` 4.2 lets a measurement that differs by more than 1 fps override the
register; `hws_input_timeperframe()` does not compare them. Scaling: an input 1366 wide starts `All_VideoScaler()`
in the middle of a pixel pair and swaps Cb and Cr; odd heights make it read a row past
the frame; `HD_To_800X600` takes the leftmost 800 columns and `V2560_To_800X600` the top
1200 rows where the others take the middle. `FrameMath` leaves these inputs out.

## Proofs

Constants are arbitrary sets with the assumptions in `CaptureAssumption` (owners are
handles, zero-copy handles do not decimate, bounds are positive) and
`FiniteAssumption` (finitely many buffers). Proved for all of them:

1. `TypeCorrect`: `TypeOK` is inductive. One lemma per action; the records are hidden
   behind lemmas about the helpers (`ProgramFacts`, `RetireFacts`, `ReleaseFacts`,
   `ZcStopFacts`, `FrameEndFacts`, `HalfDoneFacts`).
2. `RegistersSafe`: `zc_prog[]` is the DMA buffers or a buffer in flight. Inductive
   with `TypeOK`: `hws_zc_release()` tests `zc_prog` and every other way back writes
   both registers first, so a buffer that leaves is off the registers.
3. `OnePlaceAlways`: inductive with `TypeOK`. Every action moves a set `taken` out of
   queues and a set `back` to the application (`Moves`, `QueueMoves`); what the
   zero-copy helpers add and drop is stated once (`NextHalfPlaces`, `FrameEndPlaces`,
   `ZcStopPlaces`), and the actions follow.
4. `InflightCounts`: `inflight` is a cardinality; by `OnePlace` what is taken and what
   goes back are disjoint unions, so the count moves with the sets (`FlightCounted`).
5. `BufferStaysInUse` (`AudioPipeline_proofs`): `BufferInUse` with `BufferGuarded`:
   `running` is the ALSA state, `hw_free` and the trigger exclude each other, and between
   the two waits of `hw_free` no silence work can begin. Only `work`'s shape is needed,
   no bound and no ring size.
6. `SilenceStaysAlive`: `SilenceAlive` with `BufferGuarded` and the type of the
   workqueue; `PendingAppend` and `PendingTail` say what queueing and taking a work do.

7. `FormatTypeCorrect`, and `OpenResetsIdleFormat` (`FormatNegotiation_proofs`): if
   handles open one at a time, `DefaultWhenIdle` holds whatever else overlaps. The
   invariant: `fileindex` counts the handles from the end of `hws_open()` to the end of
   `hws_release()`, only those have buffers, and one that found itself first is alone
   until it has set the size.
8. `FramesFit`: with `Overlap = {}` no frame is written past a buffer. The invariant:
   all buffers have the output size, and while an ioctl is about to change it nobody
   has buffers. The check of S_FMT gives the second part only if no handle is between
   the list and its queue's release, and REQBUFS keeps it only if it waits: the two
   assumptions the violated run drops.
9. `StopReturnsAllAlways` (`VideoOwnership_proofs`). Every step is of one of a few kinds
   (`NextKinds`): it serves streaming handles (`Served`: buffers leave queues only of
   those, and come back), or moves one handle through its calls. The invariant
   `StopInv` says that the streaming handles are those that are on, that a handle that
   stops has nothing queued, and one past its wait nothing in flight: nobody takes a
   buffer of it any more, and the wait ended with `inflight` 0 (`InflightExact`) or
   after `StopForce` took everything back.
10. `OwnershipKept`: initial states map to initial states of `BufferOwnership`, and each
   kind of step to one of its steps or to a stutter (`ServeSimulated` for those that
   serve), from `OnePlace`, `StopInv` and the types. It holds with every fault switched
   on, for any number of handles.
11. `FrameMath_proofs`, first part: `QuartersCoverFrame` (the quarters are whole blocks, cover the
   frame with at most one block more), `RunFitsBuffer` (the longest run ends inside
   frame plus slack), `WrapIsHarmless` (the comparison of two wrapped counters answers
   as with unbounded ones, as long as they are less than half the range apart).
12. `FreedLastAlways`, `UsersFindAlways`, `NothingLeaksAlways`, `ReadersWokenAlways`
   (`DeviceLifetime_proofs`), for any number of handles and DMA buffers, from one
   invariant with a part for each question: what is held at each place of probe and
   remove (`MemInv`); the two reference counts are exactly the sum of those who hold
   one (`RefInv`); whoever runs does so before the place where remove waits for it
   (`ThreadInv`); a closing handle does not read (`HandleInv`). The four theorems
   follow from it without another look at the steps.

13. The second half of `AudioPipeline_proofs` has the other invariants of `AudioPipeline`,
   for a ring of any size and any bounds. `AudioTypeCorrect` and everything about the ring needs that the
   search for a slot finds one (`FirstFromIn`): a set of naturals below a bound has a
   least element (`LeastExists`), which follows without induction from the library's
   theorem that strict inclusion of finite sets is well-founded, applied to the intervals
   below the members.
   `NoPacketStrandedAlways`: capture runs only under a running stream and never before
   the trigger is through (`RunsUnderStream`); the work ends on an empty ring and whoever
   filled a slot goes on to queue the work.
   `SilenceInGapAlways`: what a silence work found due is no more than the time since the
   last packet (`DueInGap`), since only the audio work, which never runs together with
   it, sets the clock back.
   `CleanStartAlways`, for every `MaxStale <= StalePkts` (both 2 in the code: probe 6.20
   and `HWS_AUDIO_STALE_PKTS`): the old packets still to come, in the card or under a
   scheduled tasklet, are no more than the packets still to be skipped (`OldSkipped`), and
   between the trigger and the enable nothing moves (`IdleBefore`).
   `InOrderAlways`: the filled slots are one row of at most `N` from `m_nRDAudioIndex` to
   `m_nAudioIndex` (`InARow`), the tasklet's slot is the one behind it, the work's the
   first (`RingOrdered`). `FillKeepsRow` and `DoneKeepsRow` carry it, without the modulus
   (`AheadFacts`, `AheadNext`). Both searches of the code then hit at the first look; that
   they do is what fails after a start with unequal indexes.

14. `EngineFollows`, `ResizesAtRest` (`VideoOwnership_proofs`). `EngineInv`: `engine_users`
   is the number of handles from the end of STREAMON to the end of STREAMOFF (a
   cardinality: `UsersMove`, `UsersCount`), `engine_lock` is kept only by a forced stop and
   with the engine off, and neither the engine nor the sleep flag outlives the last user.
   `FollowInv`: while a handle is on, the engine runs, or its lock is kept by a handle that
   will decide, or the card sleeps with the flag set; and an engine that is off, with the
   lock free, has nothing in the zero-copy state. `EngineInv` holds always, `FollowInv` while
   no STREAMON is between setting `streaming` and taking `engine_lock` as another handle
   stops (`StartsApart`): the overlap that `EngineLeftOff` shows to break it. Then who
   leaves last finds nothing in flight (`LastUser`), and `ChangeVideoSize()` with the engine
   off has nothing to take back.
15. `GoodFramesLeave` (`VideoFrames_proofs`), with every fault switched on. `GoodInv`: a pair
   left in time has nothing to wait for and no register (`AwayInTime`), only buffers in
   flight carry flags and the next frame's has none (`AwayInFlight`), the bottom register is
   at the next frame's buffer only between a bottom half and its end (`BottomOf`). A buffer
   in time for both pairs is then releasable at its own frame end, so what is left on the
   release list never was good. What a whole section does to the flags is one operator each
   (`HalfSet`, `HalfWay`, `FrameWay`), proved once from the helpers.
16. `LateWritesFail`, with every fault switched on, any number of handles, and a thread as
   far behind as the fifo is long. `LateInv`: the run in progress is of the pair after the
   one the toggle shows, so an event on its way for its own pair was raised at least one
   half ago. Counting that event moves the pair's register, and the write is late: with an
   age of one half it would need a margin above one, half of the shorter of the last two
   gaps. A new run goes where its register is, and a pair with its register at a buffer
   does not count as left (`AwayInTime` of `GoodInv`). The condition `GapsTrue`, that of two
   gaps in a row one is at most two half-frame intervals, is about interrupts and not about
   the thread: it fails if interrupts are lost in both. `LateWritesFailSteady` has
   conditions on the constants only: while the card keeps its run state, the input stays and
   the handles stream for good (`Stays`), each half has its event (`Toggles`), no gap is
   longer than one half (`Spaced`), and the thread may fall behind as it likes.
   The lemma `CardWritesInFlight` is for item 18: with `NeverBehind` (below) the card writes
   no buffer that went back. In general it does, see `ReturnedTooEarly`.
17. `NumbersOnce`. `CurInv`: between the halves of a frame its zero-copy consumer holds no
   copy buffer, and a half being copied is of the frame in `zc_cur`. `FedInv`: a handle
   that was given a frame is not off, and with no user left nobody was given one and
   nothing is in flight, so `m_FrameSeq` goes back to 0 only where no number was given
   out. From `EngineInv` and `FollowInv`, so under `StartsApart` for several handles.

18. `FramesWhole`, `OverwrittenFail`: what a frame given as good holds. Ages are relative
   to the card's newest frame, so the argument follows one half from the card to the
   application. `PictureInv` has a part for each stage: `PipeInv`, interrupt and event carry
   one half at a time, in order; `HookInv`, the zero-copy registers are those of the frame
   the next event belongs to, and the run in progress is where its register was; `MarkInv`,
   a pair of the DMA buffers without `HWS_HALF_MARK` was just written; `FreshInv`, so the
   pair the thread takes next has the age `AgeOf` of the newest half; `HalfInv`, a frame
   whose bottom half is owed holds the top half of one frame, or is damaged and known to be;
   `CopyInv`, the same of the half being copied, and no overwrite of it escapes
   `hws_copy_late()` once an interval of one half was measured. Most actions are of three
   kinds (`Steady`, `Restarted`, `Suspended`, `NextPictureStep`); the thread's are split by
   what they make of the half (`HalfTaken`, `FrameDone`). The verdicts follow from `HalfInv`
   and `CopyInv` at the end of a bottom half (`NextSound`).
   The conditions: `OnTime` (no half completes between reading the toggle and the
   acknowledgement, the card keeps its run state, ages are exact up to 1, the stale-half
   knob only with copies: a half it leaves out in the middle of zero-copy keeps its cleared
   mark), `NeverBehind`, and `SkipsClean`: events skipped for want of a signal are skipped
   with no half frame and no zero-copy.
   `FramesWholeOne` and `OverwrittenFailOne` have conditions on the constants only: one
   handle, `MaxWaiting = 1`, `OnTime`, and a signal that comes and goes only without
   zero-copy; `QuietInv` shows `SkipsClean`, through sleeps, forced stops and refused sizes.
   `FramesWholeSignal` has any number of handles, copying or not, with a signal that stays.

19. `LifetimeTypeCorrect` (`DeviceLifetime_proofs`). The one type that needs more than its
   own action is `engine_users`, a natural number that STREAMOFF takes one from: `UserInv`
   says it is the number of handles between the end of STREAMON and the end of STREAMOFF,
   so whoever takes one off is counted.
20. `RateExactAlways`, `AnswerFollowsInputAlways` (`FrameMath_proofs`, second part), of
   `RateSpec`, which is what `MathSpec` does when its part is "rate". `WindowInv`: frames
   that come again within 200 ms come whole periods apart; `min_delta` is one period but
   for the jitter, or two and more; and a window that is not blind is as long as its
   frames, but for the jitter of its two ends, however many frame ends were missed or
   passed between two captures. `WindowGoes` is the code's division `(d + min / 2) / min`:
   it counts right while the jitter of the frames an interval may span stays below half a
   frame (`SpansExact`, `FewFrames`). Then a second's window is within the jitter of its
   frames, and any two of the thirteen rates are a part in 1001 apart (`PeriodsApart`), so
   the closest is the source's (`SnapExact`). `YoungIsCurrent`: a measurement younger than
   the last change is of the input there is; an older one is not used, and what the
   register says snaps to a near rate (`RegisterAnswers`). `RateAssumption` bounds the
   jitter: half a millisecond for inputs of 60 Hz, 0.3 ms for 100 Hz. 25 and 30 fps are
   excepted from the second theorem, not from the first: the model lets the register read
   one more than a whole rate (results.md saw 60 read 61), and 26 and 31 are further than
   2% from the rate, so `hws_input_timeperframe()` would answer in microseconds. TLC shows
   it with `Sources = {5}`.
21. `LinesDoubledAlways`, `ReadsInsideAlways`, `OutputWholeAlways`, `ColoursKeptAlways`
   (`FrameMath_proofs`, third part), of `RenderSpec`, what `MathSpec` does when its part is
   "render" (`MathParts`), for any set of jobs and frames of any size. The first: `LineInv`
   says that before each line the source stands at the start of line r of the field and the
   output at line 2r, also where a line begins in one quarter and ends in the next, whatever
   the quarters' lengths (`QuarterEnds`); `BothLines` is the arithmetic of a byte's column.
   The others are about every pair of sizes. Every plan `VideoScaler()` can have fits its job
   (`PlanFits`, with `TurnsFit`): two tables s and o count the rows of the source and of the
   output behind each turn of a period (`Turns`); whole periods, with the bars, are the height
   of the output, a group's bytes times the groups, with the margins, its width (`Whole`); the
   last row taken and the last group read are inside the source (`Inside`); and groups and
   margins are multiples of four bytes, each byte from one of its channel (`Coloured`). For the
   29 scalers made for a pair of sizes that is a lemma each (`FHD_To_HD_Scaler_Laid` to
   `V2560X1440_To_800X600_Scaler_Laid`, over the nine kinds of loop there are), for
   `All_VideoScaler()` it is arithmetic over any sizes (`OtherNumbers`, `OtherFits`). `RowInv`
   then says that a scaler stands before turn k of period q (`AtRow`), and `RowGoes` that each
   turn takes it to the next (`TurnAfter`). A doubled frame of the output's size ends where the output does
   (`DoubledWhole`). `OutputWholeAlways` has no condition, odd sizes included;
   `ReadsInsideAlways` needs `FitsEvenly`, which the pairs with a scaler of their own meet, see
   "Disagreements found"; `ColoursKeptAlways` rows of whole pixel pairs.
22. `MathTypeCorrect` (`FrameMath_proofs`), of `MathSpec`: `RenderTypesGo` from `LineInv` (a
   line joined of two quarters has some bytes of each) and `PlanTypes` (no margin, bar or
   group is negative), and the types in `RateInv` (a window that closes has counted a frame).

`StartsApart`, `NeverBehind`, `SkipsClean` and `GapsTrue` are conditions on a behaviour that
the code does not enforce. All are necessary: with two handles, with `MaxWaiting = 2`, with
`no_video` under zero-copy, and with `late_irq` for the last, TLC finds a counterexample of
the property. Each is satisfiable: the runs `ZeroCopy` and `FaultsAndSleep` are behaviours that
meet the first two, `ZeroCopy` the third and the last. Likewise
`OnTime`: `late_irq` and `card_loss` mix frames, and so does the knob with two handles of
which one has zero-copy. The corollaries `EngineFollowsOne`, `ResizesAtRestOne` and
`NumbersOnceOne` for a single handle, `LateWritesFailSteady`, and the three of item 18 have
no condition on a behaviour; they state what the runs check, for any number of buffers and
any geometries, the first three with all faults.

Of `AudioPipeline` only `GapFilled` (liveness) is left to TLC, and `StreamCaptures`, which
the run `ReinitStopsAudio` refutes.

Every invariant a passing run checks has a theorem. Liveness (`StopEnds`, `GapFilled`,
`ChangeAnnounced`, `RemoveReturns`) is TLC's, as TLAPS cannot do it.

## Not modelled

Within the core: an input of size 0, the interlace flag `InitVideoSys(…, 0)` clears on
resume, negative quarter lengths, a card that falls off the bus (in `DeviceLifetime`
instead), `hws_request_reinit()` from the audio start (the reinitialisation itself may
come at any time in both models), register-level detail of the address table and
register 9. In `FormatNegotiation`: S_PARM and the enumerations (they change nothing
shared), CREATE_BUFS, a queue's memory operations, zero-copy buffers (they too are filled
with `out_size`, when HDCP blanks them), frame rates as part of timings, and width and
height read apart. In `AudioPipeline`: the ALSA ring's positions and periods, a START that
finds the engine started but its enable bit gone, `m_PciDeviceLost`, a failed
`hw_params`. In `DeviceLifetime`: the fallback to a legacy interrupt, the few instructions
between the test of `m_Removed` and the access to BAR0, what the captured data is. Two
things in it follow the code to the letter and look worse than they are: the unwinding
from `err_video` wakes no readers (who opened in that instant waits for a signal), and it frees
the pool before `tasklet_kill()`, with audio that never ran. In the arithmetic: `hws_closest_interval()`, a choice among the kernel's presets,
and the branch of `MemCopyFrame()` for progressive frames, which is never called.

Not at all: picture controls (one register byte each, under the handler's lock), debugfs
and the canary (reports), the register map (constants).

Hazards no property covers: the packet ring's write index, which a start keeps (3272),
since no document promises an order for the stream after; a full `half_events` (3686) and S_DV_TIMINGS against its cache
(844, 823), where the code breaks the property one would state (see above); an active
input of size 0 (2199), about which neither code nor documents promise anything; the
register accessors against `iounmap()` (2773), whose property would restate their guard.

## Plan

Done: `VideoCapture`, `AudioPipeline`, `FormatNegotiation`, `HwsCalc`, `FrameRate`,
`FrameRender`, `DeviceLifetime`, `BufferOwnership`, with their runs and the theorems above.

To come: S_PARM, and a property for timings that lag behind the input.
