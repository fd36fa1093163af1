# TLA+ verification of libajantv2

libajantv2 is AJA's SDK for its video cards. Four of its parts decide whether
video arrives whole, in order and in time, and all four are concurrent:

- *AutoCirculate*, a kernel driver state machine that walks a ring of device frame
  buffers in step with the video reference, while user programs fill (playout) or
  empty (capture) those buffers (`src/driver/linux/ntv2driverautocirculate.c`);
- the *stream engine*, a queue of user buffers that the card's DMA engine walks by
  itself (`src/driver/ntv2stream.c` and the `dmaOps...` functions of
  `src/driver/linux/ntv2dma.c`);
- the *DMA engine* that the other transfers go through, with its cache of locked
  pages (`src/driver/linux/ntv2dma.c`);
- *AJACircularBuffer*, the ring between the producer and the consumer thread of
  every demo (`src/ajabase/common/circularbuffer.h`).

This directory models them, model-checks them with TLC and proves their central
results with TLAPS.

## 1. Inventory of the system

| Part | State it keeps | Operations | How it interacts | What is hard | What makes it correct |
|---|---|---|---|---|---|
| **AutoCirculate playout** (`linux/ntv2driverautocirculate.c`) | per channel: state, active frame, start time, counters; per frame: `validCount`, `videoTransferPending`, field flag; the output frame register | ioctls init, start(-at-time), stop, abort, pause/resume, flush, preroll, status, transfer; ISR at every VBI; P2P messages | ioctls and ISR share the channel under `_autoCirculateLock`; DMA runs outside it; the card latches the register at the next VBI | interleavings of ISR, commands, transfer and peers; field mode; errors half way through a transfer | nobody writes a frame on the air; frames are aired in order, each for its repeats; nothing queued is stranded; a stop ends |
| **AutoCirculate capture** (same file) | the same with the input register; `validCount` marks recorded frames and counts drops | the same without preroll | the client polls the buffer level, then transfers | the choice of a frame and the end of its DMA are many interrupts apart; early interrupts; pause holes | the client never reads a frame being written; pictures are delivered once and in order; drops only when full |
| Gangs, sync channels | several channels run as one; `_syncChannels` | the same commands looped; `OemAutoCirculateDropSyncFrame` | one transfer completes several channels without the lock | partial completion between two ISRs | channels stay frame-locked |
| Side data (audio, anc, timecode) | ring addresses and sizes per frame | set-up and completion around each DMA | follows the frame states | address arithmetic | audio of a frame goes with its picture |
| **Stream engine** (`driver/ntv2stream.c`, hardware half in `linux/ntv2dma.c`) | ring of user buffers with head, tail, active, next; flags linked/completed/flushed/released; stream and engine state; wait slots; the descriptor chain in memory | initialize, start, stop, flush, wait, release, buffer queue/release/status; `advance` from the DMA interrupt | commands hold `state_sema`, the interrupt does not; the engine reads the chain while it is changed | lock-free advance against flush; a chain the hardware walks; lost wake-ups | each buffer is transferred once, in order, or flushed; the hardware never has a buffer that was given back; waiters wake |
| **Linux DMA engine** (`linux/ntv2dma.c`) | semaphores, contexts, engine state, the completion bit; the list of locked page buffers with references and total size | `dmaTransfer`, interrupt, timeout, abort, enable, disable; lock, unlock, unlock all, automatic locking | used by AutoCirculate and every other transfer; page buffers are shared by the threads of a process | timeout against completion; unlocked tests; references of cached pages | memory under DMA is locked and mapped; done means done; contexts and references are exact |
| Interrupt handler (`linux/ntv2driver.c`) | wait queues, counts | dispatch, housekeeping | calls the AutoCirculate ISR | several sources in one interrupt | no source is lost |
| Serial, mailbox, MCAP | FIFOs, handshake registers | send, receive | ioctls and UART interrupt | timeouts | bytes in order |
| HDMI/genlock/VPID monitors | hardware status caches | periodic poll | kernel thread | hardware dependent | - |
| HEVC codec driver | command and stream queues | ioctls | codec firmware | firmware protocol not in `src/` | - |
| User-space SDK (`ajantv2/src`) | handles, caches | ioctl wrappers, routing, formats, discovery, nub RPC | ioctls, sockets | stream ownership between processes | wrappers keep the driver's contract |
| **AJACircularBuffer** (`ajabase/common/circularbuffer.h`) | head, tail, count, a lock per frame, a lock for the ring, two events, an abort flag | start/end produce, start/end consume, set abort flag | one producer and one consumer thread | the count, the frame and the event change under three different locks | frames in order, whole and once; no lost wake-up; an abort frees both |
| Other AJABase, ANC library | threads, processes, files; packet lists | portable utilities, codecs | used by demos and SDK | - | round trips |

`PROJECT.json` lists each with its status; its `hazards` name what is hard to
test, line by line, with the property that covers it or the reason there is none.

## 2. Modules

    AutoCircRing                the frame ring and the driver's scans of it
      AutoCircPlay              one playout channel: card, ISR, commands, client, peers
        AutoCircPlayMC          + buffer level, refinement mapping to PlayoutQueue
      AutoCircCapture           one capture channel: card, ISR, commands, polling client
        AutoCircCaptureMC       + refinement mapping to CaptureQueue
      AutoCircRingProofs        lemmas about the ring
        AutoCircPlayProofs      theorems about AutoCircPlay
        AutoCircQueueProofs     the refinement of PlayoutQueue
        AutoCircCaptureProofs   theorems about AutoCircCapture
    StreamEngine                one DMA stream: commands, interrupt, descriptor chain, waiters
      StreamEngineMC            + refinement mapping to StreamQueue
      StreamEngineProofs        types, wait events, lemmas about ring and chain
        StreamChainProofs       driver and hardware in step
    DmaTransfer                 one DMA engine: transfers, interrupt, page cache, disabling
      DmaTransferMC             + casts, symmetry
      DmaTransferProofs         engine, contexts, references, pages
    CircularBuffer              AJACircularBuffer with its locks and events, and its
                                refinement of FrameQueue
      CircularBufferProofs      the refinement, wake-ups
    PlayoutQueue, CaptureQueue, StreamQueue, FrameQueue
                                what channels, streams and circular buffers promise

The four parts meet at narrow interfaces. AutoCirculate sees `dmaTransfer` as
something that takes any time and may fail, which is all `DmaTransfer` promises
besides `DoneMeansMoved`; a stream owns its engine, which `dmaTransfer` refuses while
it streams; the circular buffer is used in user space only. So each is a model of
its own, and none assumes more of another than the other's model shows.

### AutoCirculate

**State.** `state`, `activeFrame`, `validCount[f]`, `pending[f]`
(`videoTransferPending`), `fieldFlag[f]`, `framesProcessed`, `droppedFrames` are
the fields of `INTERNAL_AUTOCIRCULATE_STRUCT` and of its frame stamps.
`outputFrame` / `inputFrame` is the card's frame register; `onAir` / `capturing`
is what the card latched from it at the last VBI *for this session*; `irq` is the
interrupt raised and not yet served. `startDue` says that the start time has
passed (a channel started at a time is `STARTING` with `startDue` false; the
code's `STARTING_AT_TIME` is never assigned). `content[f]` is a picture or
`Stale`, which stands for anything that is not a whole picture of this session.
`xferPhase` and `xferFrame` are the local state of the thread inside
`AutoCirculateTransfer_Ex`.

**Actions.** One per handler or, where the code gives up the lock, one per
section between: `Vbi` (external: the card latches the register), `Isr` with one
case per channel state, one action per command, `TransferFind` (lock held) /
`TransferBegin` (frame stamp written, DMA starts) / `TransferComplete` or
`TransferFail`, `TransferP2P`, `Message`, `P2PComplete`; in capture also `Poll`
and `TransferCheck`, since the state test is made before the lock is taken.

**Abstractions.** The driver's circular scans are "the nearest member of a set"
(`FirstFrom`, `FirstBack`), which needs no recursion. The card has one interrupt
per VBI; in interlaced standards without field mode the driver's ISR ignores the
second field's interrupt, so a "VBI" of the model with `FieldMode = FALSE` is a
whole frame. In field mode a picture of which one half failed to transfer, unreported, is `Stale`. Audio,
ancillary data, colour correction, timecode and register set-up of a frame are
left out: they do not feed back into the frame states. Error returns that leave
the state alone (illegal channel, `-EBUSY`, `-EINVAL`) are disabled actions. Those of a
peer-to-peer prepare do change it: the frame is queued all the same, pending for good if
only its bus address is missing (`ntv2driverautocirculate.c:2471`), or as if its
picture were there if the card has no aperture (2388) or the client's descriptor is bad
(2478). All these outcomes are in the runs; `PlayoutQueue` calls the frames shots whose
picture never arrives, or `Failed`. The buffer level (`Poll`, `BufferLevel`) is read in
one step, while the driver counts it frame by frame without `_autoCirculateLock` (1475-1569,
4095, 4109): a level that mixes two states of the ring is not explored.

**Assumed of the environment.** The ISR runs before the next VBI (the guard of
`Vbi`). One thread transfers per channel. In capture the client polls the buffer
level and transfers at `MinLevel` = 2, as `HasAvailableInputFrame` tells it to.
Which commands may come while a transfer (or a peer's write) is in flight is a
parameter, `Overlap` (`PeerOverlap`); the checked clients start, initialise and
flush only between their transfers. That discipline is necessary: with `flush`
in `Overlap` TLC finds a stranded frame in playout and a lost order in capture.
The playout run allows `Start` between a VBI and its interrupt; the capture run
does not (`StartOnIrq`), because then the driver records a frame that was never
captured (see the hazards).

### Stream engine

**State.** `streamState`, `engineState`, the four indices, `initCount` and the wait
slots are the fields of `struct ntv2_stream`; `flags[i]` are the booleans of a
buffer entry; `ds[i]`, `strDesc` and `desc` are the descriptor blocks, one per buffer
(a buffer takes several descriptors, built and linked together; what matters is where
the last of them leads). `hwOn`, `hwDesc`, `irq` are the engine. `cmd` is the command
that holds `state_sema` between two of its steps, `isr` where
`ntv2_stream_channel_advance` is, `overlap` how many commands have begun since it
was entered. `session` is history: how clients have used the stream since it was last
released (`fresh`, `stale` or `exposed`, see below).

**Actions.** A command is one step where the interrupt could not tell, and several
where it gives the engine lock up in between (initialize, release, flush). Flush is
one step per buffer; the loops of initialize and release, which run while the
hardware is stopped, are one step after the state has changed. The interrupt is
seven steps: entry, completion of the active buffer, move, engine state, search
(unlocked), link, signal. A wait is claim (under the semaphore), clear (after it),
and the two ways out.

**Assumed of the environment.** A frame takes longer than its handler: the interrupt
of a block is served before the next block is complete (`HwComplete`). Nothing else:
every command is enabled wherever the code accepts it.

**Excused in the properties.** Some uses of a stream the driver accepts but does not
bear. They leave the stream `Exposed`, and the properties promise nothing until it has
been released with no handler under way. A stream becomes exposed

- by going on after an Initialize over a queue in use: it flushes the buffers but leaves
  the indices where they were (`ntv2stream.c:322`), although `ntv2card.h:3464` says that
  it releases all buffers;
- by a stop of an empty queue, for which the code does not test (586);
- by a flush of a buffer in hand although no test of the flush tells so (`InHand`): in the
  chain of an engine before its first interrupt, at the `active_index` that a start goes
  by, or chosen by the handler but not linked yet. `ntv2card.h:3495` allows a flush "in the
  initialize or idle state" and says what it spares; finding 4 shows that it does not.
  A flush that took a buffer out of the chain of an engine known to run would not be excused;
- by four or more commands while one interrupt is being served (`MostOverlap` = 3): a slot
  can then be completed, released, queued and started again under one handler.

Each of these excuses is needed: without it TLC finds `TransfersOnlyQueued` or
`HardwareInStep` violated. For a client this means: release a stream before you initialise
it again, queue a buffer before you stop it, and flush it when it has been idle for
a frame.

### DMA engine

**State.** Per thread in `dmaTransfer` (or in the page cache): where it is, its
buffer, context and page buffer, whether it maps it, and, as history, whether the
hardware has transferred it (`moved`). Of the engine: `contextSemaphore`, `inUse`,
`transferSemaphore`, `state`, `transferDone`, `dmaEnable`. Of the page cache: pages
(`addr`), mapping and `refCount` of each entry, `lockTotalSize`, the automatic mode.
Entries of the cache and the page buffers inside contexts are one kind of object,
as in the code.

**Actions.** One per section under a lock, per semaphore operation or per unlocked
access; the interrupt is three steps, `dmaDisable` three. Which entry a search of
the list returns, and which is pruned, is left open: the list's order and the age of
entries are not modelled. Finding an entry and freeing it again inside
`dmaPageRootAdd` is one step. A transfer has one host buffer. The model is of the
Xilinx method; the two others have the same structure.

**Excused in the properties.** Nothing is assumed of handlers, timeouts or buffers; what
the code does not withstand is recorded by history variables, and the properties that it
breaks say so themselves:

- `slips = 0`: `dmaDisable` gives the hardware up even when it timed out and never had it
  (`ntv2dma.c:710`). From then on the semaphore is at 2 and transfers overlap.
  Contexts, references, sizes and types stay exact even so.
- `clean`: no interrupt and no handler of an earlier transfer was under way when the
  completion bit was last cleared (1665). Such a handler ends the next transfer early.
- `alone` or `premapped`: no other transfer has used the thread's page buffer, or it was
  mapped when it was cached. Otherwise one transfer unmaps what another is using (1099,
  1758). That the page buffer stays locked, and belongs to the transfer, holds without
  this excuse.

Each is needed: without it TLC finds `MappedUnderDma`, and without one of the first two
also `DoneMeansMoved` or `QuietWhenDisabled`, violated. Left out are two threads inside
`dmaSgMap` of one entry at the same time.

### Circular buffer

**State** is that of the class, with the thread that holds each lock; `p` and `c` are
where the producer and the consumer are. **Actions** are one lock or event operation
each with the accesses it protects. The timeouts of the waits (100 ms, repeated)
matter only with the abort flag set, so a timed-out wait is the action that leaves.
Condition variables may wake a thread for no reason (`Spurious`), which
`AJAEvent::WaitForSignal` reports as a signal. A thread that sees the abort flag
while it waits for a frame returns with the lock of the ring held; that is in the
model, and harmless as long as everyone is leaving.

**Assumed of the environment.** One producer and one consumer (with more they would
share `mFillIndex` and `mEmptyIndex`). A client does not start again once
it has set the flag. Frames are added before the threads start and cleared after they
have ended, as the comment of `Clear` asks.

## 3. What the runs check

| Run | Checks | Shows |
|---|---|---|
| `play` (467,820 states) | `TypeOK`, `NoWriteOnAir`, `NothingStranded`, `BufferLevelExact`, `ChargedMeansAired`, `QueueSpec` | playout is safe and implements the first-in first-out `PlayoutQueue`: shots with a repeat count, some of whose pictures arrive late or never, are aired in order, none lost or repeated except as asked |
| `playLive` (938,176) | `QueuedGetsAired`, `StopCompletes` | in field mode, every queued frame is aired or withdrawn while the channel is left running and no peer withholds a picture; a stop ends |
| `playFields` (violation) | `FieldsAlternate` | finding 1 |
| `capture` (1,056,670) | `TypeOK`, `NoReadUnderCapture`, `QueueSpec` | capture is safe and implements `CaptureQueue`, early interrupts included |
| `captureLive` (57,101) | `RecordedGetsFetched`, `DropOnlyWhenFull`, `StopCompletes` | without pauses and early interrupts, a polling client gets every picture and drops happen only when the ring is full |
| `captureFlush`, `captureStall` (violations) | `FlushEmpties`, `AvailableIsSeen` | findings 2 and 3 |
| `stream` (387,664) | `TypeOK`, `TransfersOnlyQueued`, `HardwareInStep`, `NoSpuriousError`, `QueueSpec`, `EventStays`, `QueuedGetsTransferred`, `StopIdles`, `SleepersWake` | a stream implements the first-in first-out `StreamQueue`; the hardware never has a buffer that may be given back; a queued buffer gets its turn; a stop is reached; waiters wake: all until the stream is exposed, and again after its release |
| `streamFlush` (violation) | `FlushSparesActive` | finding 4 |
| `dma` (5,349,734, up to symmetry) | `TypeOK`, `MappedUnderDma`, `DoneMeansMoved`, `QuietWhenDisabled`, `ContextsDistinct`, `RefsExact`, `TotalExact` | transfers that have the engine to themselves touch locked, mapped memory only, and done means done, through faults, timeouts, aborts and what earlier transfers left behind; a disabled engine is quiet; contexts, references and sizes are exact, always |
| `ring` (33,201) | `TypeOK`, `WakeupPending`, `QueueSpec`, `ConsumerServed`, `ProducerServed` | the circular buffer implements the bounded queue `FrameQueue`, loses no wake-up, and serves both threads until an abort |
| `ringAbort` (violation) | `AbortFrees` | finding 5 |

**Bounds.** Playout: a ring of 3 frames (2..4, or 0..2 when checking liveness).
Three is the smallest ring with a frame on the air, one committed and one being
filled at once; it starts at 2 so that the register can hold a frame outside the
ring at boot (`Registers = {0, 3}`). Capture: 4 frames, so that two recorded
frames (the polling threshold) fit beside the two the card uses. `MaxValid` stops
prerolls at 2 VBIs per frame, `Repeats` has 1 and 2, `MaxReps` caps the count of
drops on a frame at 2. Counters wrap at `CounterMod`: 1 in playout, which takes
them out of the state since no property of those runs reads them; 2 in capture.
Two pictures tell a lost or reordered picture from a repeated one; the liveness
runs, which do not look at pictures, use one.
Stream: a ring of 4 slots, so 3 buffers, one active, one next and one waiting or
given back, and 2 descriptor blocks, the least that two buffers in the chain need, so
that every third build reuses a block; two waiting threads for one slot; one interrupt
ignored while starting (`InitAdvance`; the driver uses 3). `MaxOverlap` = 1 bounds the
commands under one handler, and `Strays` = FALSE leaves an exposed stream nothing but
its release. With 3 slots, `MaxOverlap` = 4 and `Strays` = TRUE, which lets clients go on
as they like, the safety properties pass as well (14.7 million states); the proofs have
neither bound. DMA: one run with four casts (`AllCasts`), told apart by the initial
state: three threads after two contexts; two that transfer a buffer which a third
locks, unlocks and releases, while automatic mapping is switched; two that transfer
different buffers through a cache with room for one; two while `dmaDisable` waits in vain.
There is one cache entry; `MaxTotal` = 2 lets it be locked again after an unlock-all
has discarded it and before that has counted. Threads that only transfer are
interchangeable, and so are contexts; only invariants are checked there, for which
symmetry is sound. Circular buffer: 4 frames (1, 2 and 3 pass as well) and two
contents. In this run `CHECK_DEADLOCK` is off: after an abort both threads are out
for good. All runs explore their whole state
space.

**Fairness.** `Vbi` and `Isr` are weakly fair: the reference keeps running (the
card free-runs without one) and an enabled interrupt is served. `StartTimeReached`
is weakly fair: time passes. Nothing is assumed of clients, peers or DMA in
playout, so `QueuedGetsAired` excuses a frame a peer never delivers. Capture
promises something only to a client that keeps asking: `Poll` and the steps of
its transfer are weakly fair, and `TransferComplete` strongly, that is, its
transfers do not fail for ever. In a stream the DMA engine completes blocks, its
interrupt is served, a command that holds `state_sema` goes on, and threads that wait
are scheduled; clients promise nothing, so `QueuedGetsTransferred` asks that the stream
is left active and excuses the last buffer, which the engine repeats until another
follows. In the circular buffer a thread inside a call, or with a frame, goes on;
neither has to call again. `DmaTransfer` states no fairness: its runs check safety
only, since with timeouts every wait ends by itself.

**Mutants.** Each property of a passing run has a mutant in the modules
(operators whose comment begins "Mutant:"), a plausible bug of the mapped code
under which TLC finds the property violated. They are not part of the model.

### Findings

1. `playFields`: the RUNNING playback branch computes whether the next frame
   belongs to the field just shown ("only move on when next field is different",
   line 1000) into `bDropFrame`, which nothing reads. In field mode the channel can
   show two frames of one field in sequence. The generic `ntv2autocirc.c` does
   read it.
2. `captureFlush`: the capture flush starts its backward walk at the active
   frame, which is not marked until the next interrupt, and stops at once. The
   header promises that all recorded frames not yet transferred are flushed.
3. `captureStall`: the frame that was active when the channel was paused is never
   marked recorded. It is a hole behind which the buffer level does not count, so
   `HasAvailableInputFrame` can be false for ever with the ring full of pictures;
   the client never transfers again and all further pictures are dropped.
4. `streamFlush`: the header allows a flush of an initialised or idle stream, which
   removes all buffers "except a currently active idle buffer". The driver spares
   linked buffers only once `engine_state` is active or idle, which the first
   interrupt sets. In a stream initialised and stopped (a stop runs the hardware on the
   first buffer), or started and stopped, before that interrupt, the flush takes the
   buffer under transfer; it can then be released, with its memory. Two more documented
   flushes break the driver: that of an initialised stream withdraws the buffer that
   `active_index` names, and once this one is released and another queued, a start runs the
   hardware on a block that was never built; and that of an idle stream may take the
   buffer that a handler has chosen but not yet linked.
5. `ringAbort`: `WaitForEventOrAbort` looks at the abort flag only when a wait times
   out. `EndProduceNextBuffer` unlocks the frame before it sets `mNotEmptyEvent`; if
   the consumer takes that frame in between and empties the ring, the event stays set
   with nothing to take. Once the producer has stopped, `StartConsumeNextBuffer` finds
   the count 0, waits, returns at once and starts over: it never times out, never sees
   the flag and never returns. It spins at full speed meanwhile. The same can
   happen to the producer with `mNotFullEvent`.

Met while modelling and not shown by a run: the result of a stream wait is overwritten with
SUCCESS (`ntv2stream.c:794`); `StreamChannelInitialize` is documented to release all
buffers (`ntv2card.h:3464`), but marks them flushed and leaves the indices; `dmaXlnxProgram`
tests whether the engine runs on a descriptor word, where the NWL method reads the status
again (`ntv2dma.c:4273`); `dmaDisable` releases hardware it may not have acquired (710);
nothing ties the completion bit to a transfer (1665); the drop count of a frame is cleared
before it is copied to `acCurrentReps` (`ntv2driverautocirculate.c:4431`), where
`ntv2publicinterface.h:8191` says it can be read.

## 4. What is proved

### AutoCirculate

For every ring (`StartFrame <= EndFrame`), any pictures, repeats, preroll counts,
and both standards, by TLAPS:

- `TypeCorrect`: `Spec => []TypeOK`. Besides the types this says that from Start
  on the output register and the active frame lie in the ring, whatever the
  register held at boot.
- `NoTearing`: `ASSUME Disciplined PROVE Spec => []NoWriteOnAir`. `Disciplined`
  collects what the result needs of clients: no init, start or flush during their
  own transfer, no init or flush while a peer owes a frame, no `acDesiredFrame`,
  and no repeat count 0. TLC finds a torn frame when peers
  overlap an init or a flush, with `acDesiredFrame` and with repeat count 0. It
  finds none when init, start or flush overlap the client's own transfer (a single
  transferring thread then cannot queue the frame that would let playout run);
  that part keeps the inductive invariant simple, and `NothingStranded` and
  `QueueSpec` need it. `NoWriteOnAir` is not inductive: it speaks about the register and the
  latched frame, but what protects them is that the search returns an *empty* frame
  and that the ISR only commits a *queued* one. The inductive invariant `IInv` adds:
  `OnAirTracked` (between a VBI and its interrupt, and after it, where the shown
  frame is in terms of the register and `activeFrame`), `CommittedIsQueued` (a
  frame the register moved on to has repeats left until it is latched),
  `WrittenIsFree` (the frame in a transfer has none, and is neither register's
  nor active frame) and `PeersAreQueued` (a frame a peer owes is pending with
  repeats left, and never the register's while running). The proof has one lemma
  per group of actions; every lemma about a scan rests on `FirstFromNearest`.
- `ChargedWasAired`: `Spec => ChargedMeansAired`, with no discipline at all, from
  `TypeOK /\ OnAirTracked`.
- `NoneStranded`: `ASSUME Disciplined PROVE Spec => []NothingStranded`. The inductive
  invariant `QueueInv` adds that the register is at the active frame or the one after
  it (`RegisterInStep`), and that all frames between the register and the frame being
  written are queued, so that queueing that one leaves no hole (`WrittenIsNext`): the
  search returned the nearest empty frame, and no interrupt empties a frame ahead of
  the register.
- `PlayoutIsQueue` (module `AutoCircQueueProofs`): `ASSUME Disciplined, Plain PROVE
  Spec => QueueSpec`, the refinement of `PlayoutQueue` that the run `play` checks.
  `Plain` leaves out field mode, because a queue of shots does not know fields. The
  mapping reads the shots off the ring from its first queued frame on (`First`);
  their number is the cardinality of a set of positions, which is found as the least
  position of an empty frame (`LeadIsCounted`), with no induction over the ring.
  `FrameQueued` and `PictureArrives` are the steps of transfers and peers, `ShotAired`
  that of the interrupt that moves on, `QueueStarted`, `QueueDiscarded` and
  `ShotExtended` those of the commands; all other steps stutter. Besides `QueueInv`
  it needs `ShotInv`: a frame that a peer still owes keeps its repeats and is never
  the register's while the channel runs or is paused (`HeldBack`), and a transfer
  completes with a repeat count the client asked for (`RepeatChosen`).
- `LevelIsExact` (same module): `ASSUME Disciplined PROVE Spec => []BufferLevelExact`,
  from `IInv` and `QueueInv`. The sum of the repeats of a set of frames is written as the
  number of its pairs of a frame and one of its VBIs (`VbisLeft`), so that the claim
  needs no induction over the ring: it is enough that the driver's count meets every
  queued frame (`QueuedIsCounted`). The driver starts at `activeFrame`, which may be one
  behind the register; `RegisterInStep` and `CommittedIsQueued` close that gap
  (`NoGapFromCounted`), and ahead of the register `NothingStranded` does.
- Capture: `TypeCorrect` (module `AutoCircCaptureProofs`), with no discipline, and
  `NoTearing`: `Disciplined => (Spec => []NoReadUnderCapture)`. The discipline is that
  init, resume and flush are not issued in the middle of a poll and its transfer, that
  the driver picks the frame, and that the client waits for at least one recorded
  frame. Each of these is needed: TLC finds a torn picture with a resume or a flush
  in mid-transfer, with init and start together there (a frame of the session
  before is read), with `acDesiredFrame`, and with `MinLevel = 0` (the transfer then
  falls back to `startFrame`). The inductive invariant `TearingInv` says that the
  register is at the active frame or at the *free* frame after it
  (`RegisterInStep`), that the card writes only one of the two (`CardInStep`), that a
  client that was told of a picture still has a *settled* frame to fetch, one that
  holds a picture and is neither (`SomethingToFetch`), and that the frame being
  read is settled (`ReadingHeld`). The heart is that a buffer level of 1 means
  that the frame behind the active one is recorded (`LevelMeansRecorded`, from
  `FirstBackNearest`), that the search reaches the active frame last
  (`FindReturnsSettled`) and that an interrupt never unsettles a frame
  (`RunningKeeps`).
- `DropsOnlyWhenFull`: `ASSUME Disciplined, "pause" \notin Used PROVE Spec =>
  DropOnlyWhenFull`. The invariant `FullInv` says that the recorded frames are an arc
  of the ring that ends behind the active frame (`NoGapBehind`) and that the client
  reads the oldest of them (`OldestIsRead`); an occupied frame after the active one
  then means that all are occupied. Pauses have to be excluded: finding 3 is the
  hole that one leaves in the arc, and drops then happen with frames free.
- `CaptureIsQueue`: `ASSUME Disciplined, Orderly PROVE Spec => QueueSpec`, the
  refinement of `CaptureQueue` that the run `capture` checks. `Orderly` leaves out
  field mode (the result of one field may replace the failure of the other), a Start
  between a VBI and its interrupt (it takes a frame for captured that was not) and a
  pause between the state test of a transfer and its search (the transfer then fetches
  `startFrame`). The mapping gives a recorded frame the place that the number of
  recorded frames nearer ahead of the active one says (`Before`), so it neither sorts
  nor needs an induction, and the holes that pauses leave do no harm. The
  invariant `FetchInv` says that a frame is only ever marked with a picture in it
  (`MarkedIsCaptured`) and that a transfer fetches the first of the queue
  (`FetchesFirst`); an interrupt that moves on records at the end or drops
  (`IsrStep`), a flush takes the newest frames away (`FlushesNewest`), a transfer takes
  the head (`TransferStep`).
- In `AutoCircRingProofs`: on a ring of any size the scans are well defined
  (`NearestExists`, by well-founded induction on distances) and return the nearest
  member (`FirstFromNearest`, `FirstBackNearest`).

### Stream engine

For every number of buffers, descriptor blocks, owners, waiters and wait slots, any
`InitAdvance`, faults and timeouts:

- `TypeCorrect`: `Spec => []TypeOK`, and `EventsStay`: `Spec => EventStays`, with no
  assumption on clients. `EventStays` rests on the invariant that the slots of
  waiting threads are distinct and in use.
- `HardwareTransfersQueued` (`Spec => []TransfersOnlyQueued`), `DriverInStep`
  (`[]HardwareInStep`), `NoErrorWhileRunning` (`[]NoSpuriousError`), with no assumption
  on clients and no bound on commands. The three are corollaries of `ChainInv ==
  HaltedForRelease /\ (~Exposed => IInv)`. `HaltedForRelease` is what clients cannot
  undo, whatever they did: a release finds the hardware halted, so that the queue it
  leaves is clean and `IInv` holds again. `IInv`
  says of a stream that runs (`Live`): the queue is the arc of the ring from tail to
  head (`LiveQueue`), buffers up to `next` are linked or done with and those behind it
  are not linked, so that a flush from the head stops before the chain; the engine's
  block is that of `active` or, until the interrupt is served, of `next`, the block
  of `active` leads to that of `next`, which leads to itself, and the next block to be
  built is the one after that of `next` (`LiveChain`): two blocks are enough, and no
  block in use is overwritten. The rest of it is about what a late handler may find
  after its stream was released, initialised and queued to again
  (`ReleasedIsEmpty`, `InitializedIsFresh`), and about a buffer that is completed and
  released before the handler has moved on (`LeavingActive`): both count the commands
  that have begun meanwhile, which is where `MostOverlap` comes from.
- `StreamIsQueue`: `Spec => QueueSpec`, the refinement of `StreamQueue` that the run
  `stream` checks. The mapping reads the status of the
  buffers off the arc from tail to head, the position of the buffer on the air off
  the hardware's descriptor, and `void` off `Exposed`: a step of the queue keeps what it
  promises (`Keep`), or exposes it (`Forfeit`), or renews it with an empty queue
  (`Renew`). The invariant `~Exposed => TurnInv` adds the order to `IInv`: the slots
  from tail to head are queued whether the stream runs or not (`ArcIsQueue`); before
  `next` everything is settled (done or withdrawn) but the active buffer, behind it
  nothing is linked, and what the handler is about to link is the next buffer that is
  not settled (`ServedInOrder`); a handler whose stream was halted under it still sees
  that order, or a ring in which all is settled, or one just initialised (`LateTurn`);
  a flush has settled everything from where it is to the head (`FlushTurn`). A late
  handler with two or three commands under it can link the first buffer of
  the *next* session, which `StreamQueue` allows (`Follow` while not running, and a
  `Begin` that finds its buffer committed); the run, with `MaxOverlap = 1`, never gets
  there. The lemmas `FifoMarks`, `Commits` and `AirIs` say what a change of one slot's
  flags is to the queue; there is one lemma per action that the queue can see.

### DMA engine

For every number of threads, contexts, entries and buffers, any mode of automatic
locking, and hardware that may fail:

- `ContextsExclusive` (`ContextsDistinct`), `ReferencesExact` (`RefsExact`), `SizeExact`
  (`TotalExact`), with no further assumption. The first needs that a thread let in by
  the semaphore finds a free context: if it did not, the contexts would be as many as
  the other threads admitted, but the semaphore counts this one too (`ContextInv`,
  with the library's facts about cardinalities and surjections). The second counts
  the users of every entry (`RefsInv`).
- `DoneTransfersMoved` (`DoneMeansMoved`), `DisabledIsQuiet` (`QuietWhenDisabled`),
  `DmaIntoMappedMemory` (`MappedUnderDma`) and `TypeCorrect` (`TypeOK`), each `Spec => []...`
  with no further assumption: late handlers, timeouts of `dmaDisable` and buffers in
  several transfers are all in the specification. The invariants are stacked. `EngineInv`
  says in three parts what holds always, what until `dmaDisable` slips, and what of
  transfers that are `Exclusive`: the semaphore, its owners and `dmaDisable` make up
  `1 + slips` (`SemaphoreCounts`); the engine is busy only under an owner, and not while
  disabled (`BusyIsOwned`); hardware, interrupt, handler and completion bit follow one
  another (`OneAfterTheOther`, `WaitsForHw`). Then come contexts and references, then
  `PagesInv`: a page buffer in use is pinned to its buffer (`Pinned`); one that is used
  `alone` is nobody else's (`AloneInv`); entries that were mapped when they were cached stay
  mapped (`PremappedInv`); the page buffer of a context belongs to the transfer that
  has the context (`ContextPages`).

### Circular buffer

For every number of frames and every data:

- `RingIsQueue`: `Spec => QueueSpec`, the refinement of `FrameQueue`: initial states map to
  initial states and every step to a step of the queue or a stutter (`QueueStep`). The
  inductive invariant says who holds which lock (`LocksHeld`), that the head is
  `count` frames past the tail and the frames being filled and read lie just outside
  the filled ones (`CountRight`), and that what counts as filled is (`FramesFilled`).
- `WakeupsKept`: `Spec => []WakeupPending`, and `TypeCorrect`.

The invariants were model-checked on the instances of the runs before they were
proved. Assumed are only the named assumptions on the constants (`RangeAssumption`,
`PlayAssumption`, `StreamAssumption`, `DmaAssumption`, `RingAssumption`), which TLC
evaluates in the runs, and where a theorem says so its discipline.

**Only model-checked:** all liveness, which is beyond TLAPS here. Every safety invariant,
every action property and every refinement that a passing run checks is also a theorem: those
of AutoCirculate under the disciplines named above, which the instances of the runs satisfy;
those of the other parts without any.

## 5. Not modelled, and the plan

Not modelled, with the reasons, are the parts `PROJECT.json` marks so.

- *AutoCirculate*: gangs and synchronised channels, the record task list, the legacy
  `AutoCirculateTransfer` ioctl (same frame choice, older structures), frame stamp
  queries, P2P_TRANSFER as a source (for this channel an ordinary read of a captured
  frame), side data.
- *Stream engine*: status queries, times and counts, the locking and mapping of pages
  when a buffer is queued (`DmaTransfer` has that part), failures of building a block.
- *DMA engine*: the AJA and NWL methods, peer-to-peer and RDMA transfers, the semaphore
  that serialises the engines of a card (`kVRegDmaSerialize`), the second host buffer of
  a transfer, scatter lists and descriptors, and dead entries left by a process that
  ends (the same `dmaPageRootRelease`).
- *Circular buffer*: `Add`, `Clear`, and several producers or consumers.
- The tables and packet codecs of the SDK are data without control; monitors, mailbox
  and codec drivers follow hardware or firmware whose behaviour `src/` does not tell.
  Most of the repository's lines are of this kind: generated register tables, vendored
  libraries (SQLite, GLEW, JSON), demos.

What remains to be done, in this order:

1. A gang or a synchronised pair: two channel instances with the completion loop
   of a shared transfer and `OemAutoCirculateDropSyncFrame`; property: the
   channels of a gang stay on the same ring position.
2. The ownership protocol by which processes share a device
   (`CNTV2DriverInterface::AcquireStreamForApplication`).

## 6. Running

    tlc -config AutoCircPlay.cfg AutoCircPlayMC
    tlc -config AutoCircCapture.cfg AutoCircCaptureMC      (likewise its others)
    tlc -config Stream.cfg StreamEngineMC                  (and StreamFlush.cfg)
    tlc -config DmaTransfer.cfg DmaTransferMC
    tlc -config Ring.cfg CircularBuffer                    (and RingAbort.cfg)
    tlapm AutoCircRingProofs.tla                           (likewise the other
                                                            *Proofs modules)
