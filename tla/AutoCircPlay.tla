---------------------------- MODULE AutoCircPlay ----------------------------
(***************************************************************************)
(* One AutoCirculate channel in playout, as the Linux driver implements it *)
(* in src/driver/linux/ntv2driverautocirculate.c.                          *)
(*                                                                         *)
(* Four parties act on the channel's INTERNAL_AUTOCIRCULATE_STRUCT:        *)
(*   - the card: at each vertical blank it starts to show the frame named  *)
(*     by the output frame register, and raises an interrupt (Vbi);        *)
(*   - the interrupt service routine OemAutoCirculate, under               *)
(*     _autoCirculateLock (Isr and its cases);                             *)
(*   - control commands through AutoCirculateControl, under the same lock  *)
(*     (Init, Start, Stop, Abort, Pause, Resume, Flush, Preroll);          *)
(*   - one client thread in AutoCirculateTransfer_Ex, which holds the lock *)
(*     only to pick a frame: the picking, the frame stamp writes before    *)
(*     the DMA and those after it are separate steps (Transfer...);        *)
(* and, for peer-to-peer transfers, other boards that write into a frame   *)
(* buffer and then report it (Message, P2PComplete).                       *)
(***************************************************************************)
EXTENDS AutoCircRing

CONSTANTS
  Registers,     \* values the output frame register may hold at boot
  Pictures,      \* what a client can put in a frame
  Stale,         \* a frame's content that is no whole picture of this client
  Repeats,       \* acFrameRepeatCount values clients use
  PrerollCounts, \* frame counts passed to AutoCirculatePreRoll
  MaxValid,      \* a bound on a frame's validCount that limits prerolls
  CounterMod,    \* framesProcessed and droppedFrames count modulo this (2^32)
  FieldMode,     \* circulateWithFields on an interlaced standard
  Overlap,       \* commands clients issue while their own transfer is in flight
  PeerOverlap,   \* commands clients issue while a peer writes into a frame
  DesiredFrames, \* acDesiredFrame values other than NTV2_INVALID_FRAME
  StartAtTime,   \* whether clients use AutoCirculateStart with a start time
  StartOnIrq     \* whether Start may run between a VBI and its interrupt

States == {"DISABLED", "INIT", "STARTING", "RUNNING", "PAUSED", "STOPPING"}
Commands == {"init", "start", "stop", "abort", "pause", "resume", "flush", "preroll"}

\* What a peer-to-peer prepare meets: all is well, the card has no aperture, the
\* frame or its message has no bus address, the client's descriptor is bad.
Outcomes == {"ok", "noAperture", "noTarget", "copyFault"}

ASSUME PlayAssumption ==
  /\ Registers \subseteq Int /\ Registers # {}
  /\ Stale \notin Pictures
  /\ Repeats \subseteq Nat /\ PrerollCounts \subseteq Nat
  /\ MaxValid \in Nat
  /\ CounterMod \in Nat \ {0}
  /\ FieldMode \in BOOLEAN /\ StartAtTime \in BOOLEAN /\ StartOnIrq \in BOOLEAN
  /\ Overlap \subseteq Commands /\ PeerOverlap \subseteq Commands
  /\ DesiredFrames \subseteq Frames

VARIABLES
  state,         \* pAuto->state
  activeFrame,   \* pAuto->activeFrame
  outputFrame,   \* the register at pAuto->activeFrameRegister
  startDue,      \* pAuto->startTime has passed
  validCount,    \* frameStamp[f].validCount: VBIs frame f is still to be shown
  pending,       \* frameStamp[f].videoTransferPending
  fieldFlag,     \* frameStamp[f].frameFlags: 0 iff AUTOCIRCULATE_FRAME_FIELD0
  framesProcessed, droppedFrames,
  xferPhase,     \* the client thread: "idle", "found" a frame, "writing" it
  xferFrame,     \* frameNumber in AutoCirculateTransfer_Ex
  xferRepeat,    \* frameStamp[xferFrame].repeatCount
  peers,         \* frames another board is writing
  content,       \* what each frame buffer holds
  onAir,         \* the frame of this session the card is showing
  field,         \* the field being shown, 0 in progressive standards
  irq            \* a vertical interrupt is pending

driver == <<state, activeFrame, startDue, validCount, pending, fieldFlag,
            framesProcessed, droppedFrames>>
client == <<xferPhase, xferFrame, xferRepeat>>
card   == <<outputFrame, onAir, field, irq, content, peers>>
vars   == <<driver, client, card>>
-----------------------------------------------------------------------------
Bump(c) == IF c + 1 = CounterMod THEN 0 ELSE c + 1

\* The client's discipline: which commands wait for transfers to end.
MayIssue(cmd) ==
  /\ cmd \in Overlap \/ xferPhase = "idle"
  /\ cmd \in PeerOverlap \/ peers = {}

\* Mutant: offers the active frame too.
FindNextAvailActiveToo ==
  IF state = "DISABLED" \/ (state # "INIT" /\ activeFrame \notin Frames) THEN InvalidFrame
  ELSE FirstFrom(IF state = "INIT" THEN StartFrame ELSE NextFrame(activeFrame),
                 {f \in Frames : validCount[f] = 0})

\* Mutant: always looks from startFrame on.
FindNextAvailFromStart ==
  IF state = "DISABLED" \/ (state # "INIT" /\ activeFrame \notin Frames) THEN InvalidFrame
  ELSE FirstFrom(StartFrame, {f \in Frames \ {activeFrame} : validCount[f] = 0})

\* OemAutoCirculateFindNextAvailFrame, playback: from startFrame in INIT, else
\* from the frame after the active one, which itself is never offered.
FindNextAvail ==
  LET empty == {f \in Frames : validCount[f] = 0}
  IN  IF state = "DISABLED" THEN InvalidFrame
      ELSE IF state = "INIT" THEN FirstFrom(StartFrame, empty)
      ELSE IF activeFrame \notin Frames THEN InvalidFrame
      ELSE FirstFrom(NextFrame(activeFrame), empty \ {activeFrame})

\* The driver's data after module load: every channel reset and DISABLED.
Init ==
  /\ state = "DISABLED"
  /\ activeFrame = 0
  /\ outputFrame \in Registers
  /\ startDue = TRUE
  /\ validCount = [f \in Frames |-> 0]
  /\ pending = [f \in Frames |-> FALSE]
  /\ fieldFlag = [f \in Frames |-> 1]
  /\ framesProcessed = 0
  /\ droppedFrames = 0
  /\ xferPhase = "idle" /\ xferFrame = InvalidFrame /\ xferRepeat = 0
  /\ peers = {}
  /\ content = [f \in Frames |-> Stale]
  /\ onAir = InvalidFrame
  /\ field = 0
  /\ irq = FALSE
-----------------------------------------------------------------------------
(* The card. *)

\* A vertical blank: the register written before it takes effect now.  The
\* guard is the assumption that the ISR runs before the next VBI.
Vbi ==
  /\ ~irq
  /\ irq' = TRUE
  /\ onAir' = IF state \in {"DISABLED", "INIT"} THEN InvalidFrame ELSE outputFrame
  /\ field' = IF FieldMode THEN 1 - field ELSE field
  /\ UNCHANGED <<driver, client, outputFrame, content, peers>>

\* The clock passes the start time of AutoCirculateStart.
StartTimeReached ==
  /\ ~startDue
  /\ startDue' = TRUE
  /\ UNCHANGED <<state, activeFrame, validCount, pending, fieldFlag,
                 framesProcessed, droppedFrames, client, card>>
-----------------------------------------------------------------------------
(* The interrupt service routine, OemAutoCirculate. *)

IsrIdle ==
  /\ state \in {"DISABLED", "INIT"}
  /\ UNCHANGED <<driver, outputFrame>>

\* Mutant: stops only once the frame in the register has been shown out.
IsrStoppingDrains ==
  /\ state = "STOPPING"
  /\ state' = IF validCount[IntoRange(outputFrame)] = 0 THEN "DISABLED" ELSE state
  /\ UNCHANGED <<activeFrame, startDue, validCount, pending, fieldFlag,
                 framesProcessed, droppedFrames, outputFrame>>

IsrStopping ==
  /\ state = "STOPPING"
  /\ state' = "DISABLED"
  /\ UNCHANGED <<activeFrame, startDue, validCount, pending, fieldFlag,
                 framesProcessed, droppedFrames, outputFrame>>

IsrPaused ==
  /\ state = "PAUSED"
  /\ activeFrame' = IntoRange(outputFrame)
  /\ UNCHANGED <<state, startDue, validCount, pending, fieldFlag,
                 framesProcessed, droppedFrames, outputFrame>>

\* STARTING waits for the start time, uses up the repeats of the frame on air
\* unless a peer still owes it, and goes RUNNING by moving to the next frame.
IsrStarting ==
  /\ state = "STARTING"
  /\ activeFrame' = IntoRange(outputFrame)
  /\ UNCHANGED <<startDue, pending, fieldFlag, droppedFrames>>
  /\ IF ~startDue
     THEN UNCHANGED <<state, validCount, outputFrame, framesProcessed>>
     ELSE LET a     == activeFrame'
              n     == NextFrame(a)
              used  == validCount[a] > 0 /\ ~pending[a]
              go    == /\ validCount'[n] # 0 /\ ~pending[n]
                       /\ ~(FieldMode /\ field = fieldFlag[n])
              seen  == Bump(framesProcessed)
          IN  /\ validCount' = IF used THEN [validCount EXCEPT ![a] = @ - 1]
                               ELSE validCount
              /\ IF validCount'[a] # 0
                 THEN UNCHANGED <<state, outputFrame, framesProcessed>>
                 ELSE IF go
                 THEN /\ outputFrame' = n
                      /\ state' = "RUNNING"
                      /\ framesProcessed' = Bump(seen)
                 ELSE /\ framesProcessed' = seen
                      /\ UNCHANGED <<state, outputFrame>>

\* Mutant: moves on to a frame whose picture a peer still owes.
IsrRunningIgnoresPending ==
  /\ state = "RUNNING"
  /\ activeFrame' = IntoRange(outputFrame)
  /\ UNCHANGED <<state, startDue, pending, fieldFlag, droppedFrames, framesProcessed>>
  /\ LET a == activeFrame'
     IN  /\ validCount' = IF validCount[a] > 0 THEN [validCount EXCEPT ![a] = @ - 1]
                          ELSE validCount
         /\ outputFrame' = IF validCount'[a] = 0 /\ validCount'[NextFrame(a)] # 0
                           THEN NextFrame(a) ELSE outputFrame

\* RUNNING uses up one repeat of the active frame; when none is left it moves
\* the register to the next frame if that is ready, else counts a drop.  The
\* field test of this branch sets a flag nothing reads, so it has no effect.
IsrRunning ==
  /\ state = "RUNNING"
  /\ activeFrame' = IntoRange(outputFrame)
  /\ UNCHANGED <<state, startDue, pending, fieldFlag>>
  /\ LET a  == activeFrame'
         n  == NextFrame(a)
         go == validCount'[n] # 0 /\ ~pending[n]
     IN  /\ validCount' = IF validCount[a] > 0 THEN [validCount EXCEPT ![a] = @ - 1]
                          ELSE validCount
         /\ IF validCount'[a] # 0
            THEN UNCHANGED <<outputFrame, framesProcessed, droppedFrames>>
            ELSE IF go
            THEN /\ outputFrame' = n
                 /\ framesProcessed' = Bump(framesProcessed)
                 /\ UNCHANGED droppedFrames
            ELSE /\ droppedFrames' = Bump(droppedFrames)
                 /\ UNCHANGED <<outputFrame, framesProcessed>>

Isr ==
  /\ irq
  /\ irq' = FALSE
  /\ UNCHANGED <<client, onAir, field, content, peers>>
  /\ IsrIdle \/ IsrStopping \/ IsrPaused \/ IsrStarting \/ IsrRunning
-----------------------------------------------------------------------------
(* Control commands, AutoCirculateControl. *)

\* OemAutoCirculateInit of a DISABLED channel (any other state: -EBUSY), with
\* the memset of OemAutoCirculateReset, the repeat counts included.
InitChannel ==
  /\ MayIssue("init")
  /\ state = "DISABLED"
  /\ state' = "INIT"
  /\ activeFrame' = InvalidFrame
  /\ startDue' = TRUE
  /\ validCount' = [f \in Frames |-> 0]
  /\ pending' = [f \in Frames |-> FALSE]
  /\ fieldFlag' = [f \in Frames |-> 1]
  /\ framesProcessed' = 0
  /\ droppedFrames' = 0
  /\ xferRepeat' = 0
  /\ UNCHANGED <<xferPhase, xferFrame, card>>

\* Mutant: leaves the output frame register alone.
StartNoRegister ==
  /\ MayIssue("start")
  /\ state = "INIT"
  /\ state' = "STARTING"
  /\ activeFrame' = StartFrame
  /\ startDue' = TRUE
  /\ onAir' = InvalidFrame
  /\ UNCHANGED <<validCount, pending, fieldFlag, framesProcessed,
                 droppedFrames, client, outputFrame, field, irq, content, peers>>

\* OemAutoCirculateStart (outside INIT: -EINVAL).
Start ==
  /\ MayIssue("start")
  /\ StartOnIrq \/ ~irq
  /\ state = "INIT"
  /\ state' = "STARTING"
  /\ activeFrame' = StartFrame
  /\ outputFrame' = StartFrame
  /\ startDue' \in IF StartAtTime THEN BOOLEAN ELSE {TRUE}
  /\ onAir' = InvalidFrame   \* what is shown until the next VBI is not ours
  /\ UNCHANGED <<validCount, pending, fieldFlag, framesProcessed,
                 droppedFrames, client, field, irq, content, peers>>

\* The shape of the commands that change nothing but the state.
SetState(s) ==
  /\ state' = s
  /\ UNCHANGED <<activeFrame, startDue, validCount, pending, fieldFlag,
                 framesProcessed, droppedFrames, client, card>>

\* OemAutoCirculateStop: graceful, the ISR completes it.
Stop ==
  /\ MayIssue("stop")
  /\ state \in {"STARTING", "INIT", "PAUSED", "RUNNING"}
  /\ SetState("STOPPING")

\* OemAutoCirculateAbort.
Abort ==
  /\ MayIssue("abort")
  /\ state # "DISABLED"
  /\ SetState("DISABLED")

\* OemAutoCirculatePause with bPlay false.
Pause ==
  /\ MayIssue("pause")
  /\ state = "RUNNING"
  /\ SetState("PAUSED")

\* OemAutoCirculatePause with bPlay true, which can clear the drop count.
Resume ==
  /\ MayIssue("resume")
  /\ state = "PAUSED"
  /\ state' = "RUNNING"
  /\ droppedFrames' \in {droppedFrames, 0}
  /\ UNCHANGED <<activeFrame, startDue, validCount, pending, fieldFlag,
                 framesProcessed, client, card>>

\* OemAutoCirculateFlush: empties every frame except the one in the output
\* register, and in INIT that one too.  It does nothing while STARTING.
Flush ==
  /\ MayIssue("flush")
  /\ state \in {"RUNNING", "PAUSED", "INIT"}
  /\ LET kept == IF state = "INIT" THEN {} ELSE {IntoRange(outputFrame)}
     IN  /\ validCount' = [f \in Frames |-> IF f \in kept THEN validCount[f] ELSE 0]
         /\ pending' = [f \in Frames |-> f \in kept /\ pending[f]]
  /\ droppedFrames' \in {droppedFrames, 0}
  /\ UNCHANGED <<state, activeFrame, startDue, fieldFlag, framesProcessed,
                 client, card>>

\* OemAutoCirculatePreroll: lengthens the last queued frame, or the active
\* one, which also sends the channel back to STARTING.
Preroll(n) ==
  /\ MayIssue("preroll")
  /\ state \in {"STARTING", "RUNNING", "PAUSED"}
  /\ activeFrame \in Frames
  /\ FindNextAvail # InvalidFrame        \* else -EINVAL
  /\ LET last == PrevFrame(FindNextAvail)
     IN  /\ validCount[last] + n <= MaxValid
         /\ validCount' = [validCount EXCEPT ![last] = @ + n]
         /\ state' = IF last = activeFrame THEN "STARTING" ELSE state
  /\ UNCHANGED <<activeFrame, startDue, pending, fieldFlag, framesProcessed,
                 droppedFrames, client, card>>
-----------------------------------------------------------------------------
(* The client's transfer thread, AutoCirculateTransfer_Ex. *)

\* The state test and the choice of a frame; with none the call is -EBUSY.
TransferFind ==
  /\ xferPhase = "idle"
  /\ state # "DISABLED"
  /\ \E f \in DesiredFrames \cup {FindNextAvail} :
       /\ f # InvalidFrame
       /\ xferFrame' = f
  /\ xferPhase' = "found"
  /\ UNCHANGED <<driver, xferRepeat, card>>

\* OemBeginAutoCirculateTransfer_Ex and the start of the DMA.
TransferBegin ==
  /\ xferPhase = "found"
  /\ xferPhase' = "writing"
  /\ xferRepeat' \in Repeats
  /\ content' = [content EXCEPT ![xferFrame] = Stale]
  /\ IF FieldMode THEN \E b \in {0, 1} : fieldFlag' = [fieldFlag EXCEPT ![xferFrame] = b]
     ELSE UNCHANGED fieldFlag
  /\ UNCHANGED <<state, activeFrame, startDue, validCount, pending,
                 framesProcessed, droppedFrames, xferFrame,
                 outputFrame, onAir, field, irq, peers>>

\* The DMA is done: OemCompleteAutoCirculateTransfer_Ex, without the lock.  In
\* field mode there are two DMAs, and the result of the second replaces that
\* of the first, so a failed one can pass for a success.
TransferComplete ==
  /\ xferPhase = "writing"
  /\ validCount' = [validCount EXCEPT ![xferFrame] = xferRepeat]
  /\ pending' = [pending EXCEPT ![xferFrame] = FALSE]
  /\ \E p \in Pictures \cup (IF FieldMode THEN {Stale} ELSE {}) :
       content' = [content EXCEPT ![xferFrame] = p]
  /\ xferPhase' = "idle" /\ xferFrame' = InvalidFrame /\ xferRepeat' = 0
  /\ UNCHANGED <<state, activeFrame, startDue, fieldFlag, framesProcessed,
                 droppedFrames, outputFrame, onAir, field, irq, peers>>

\* Every error return between choosing a frame and completing it: refused
\* parameters, audio set-up, the DMA itself.
TransferFail ==
  /\ xferPhase \in {"found", "writing"}
  /\ xferPhase' = "idle" /\ xferFrame' = InvalidFrame /\ xferRepeat' = 0
  /\ UNCHANGED <<driver, card>>

\* Peer-to-peer prepare or target: no DMA here; the frame is queued at once
\* and pending, and the peer writes it later.  An error does not skip the
\* completion.  The client is told -EINVAL, but the frame is queued: pending for
\* good if only the bus address was missing, and else, the code never having
\* got to transferPending, as if its picture were there.
TransferP2P ==
  /\ xferPhase = "found"
  /\ \E n \in Repeats, outcome \in Outcomes :
       /\ validCount' = [validCount EXCEPT ![xferFrame] = n]
       /\ pending' = [pending EXCEPT ![xferFrame] = outcome \in {"ok", "noTarget"}]
       /\ peers' = IF outcome = "ok" THEN peers \cup {xferFrame} ELSE peers
  /\ content' = [content EXCEPT ![xferFrame] = Stale]
  /\ xferPhase' = "idle" /\ xferFrame' = InvalidFrame /\ xferRepeat' = 0
  /\ UNCHANGED <<state, activeFrame, startDue, fieldFlag, framesProcessed,
                 droppedFrames, outputFrame, onAir, field, irq>>

\* Mutant: shows the frame whatever the channel's state.
MessageAlwaysShows(f) ==
  /\ f \in peers
  /\ peers' = peers \ {f}
  /\ \E p \in Pictures : content' = [content EXCEPT ![f] = p]
  /\ pending' = [pending EXCEPT ![f] = FALSE]
  /\ outputFrame' = f
  /\ UNCHANGED <<state, activeFrame, startDue, validCount, fieldFlag,
                 framesProcessed, droppedFrames, client, onAir, field, irq>>

\* A peer finishes a target transfer with a message: OemAutoCirculateMessage,
\* from the ISR but without the lock.  On a DISABLED channel it also shows
\* the frame directly.
Message(f) ==
  /\ f \in peers
  /\ peers' = peers \ {f}
  /\ \E p \in Pictures : content' = [content EXCEPT ![f] = p]
  /\ pending' = [pending EXCEPT ![f] = FALSE]
  /\ outputFrame' = IF state = "DISABLED" THEN f ELSE outputFrame
  /\ UNCHANGED <<state, activeFrame, startDue, validCount, fieldFlag,
                 framesProcessed, droppedFrames, client, onAir, field, irq>>

\* A peer finishes a prepared transfer and the client reports it with
\* AUTOCIRCULATE_P2P_COMPLETE (refused on a DISABLED channel).
P2PComplete(f) ==
  /\ f \in peers
  /\ xferPhase = "idle"
  /\ peers' = peers \ {f}
  /\ \E p \in Pictures : content' = [content EXCEPT ![f] = p]
  /\ pending' = IF state = "DISABLED" THEN pending ELSE [pending EXCEPT ![f] = FALSE]
  /\ UNCHANGED <<state, activeFrame, startDue, validCount, fieldFlag,
                 framesProcessed, droppedFrames, client, outputFrame, onAir,
                 field, irq>>
-----------------------------------------------------------------------------
Control ==
  \/ InitChannel \/ Start \/ Stop \/ Abort \/ Pause \/ Resume \/ Flush
  \/ \E n \in PrerollCounts : Preroll(n)

Transfer ==
  \/ TransferFind \/ TransferBegin \/ TransferComplete \/ TransferFail
  \/ TransferP2P
  \/ \E f \in Frames : Message(f) \/ P2PComplete(f)

Next == Vbi \/ StartTimeReached \/ Isr \/ Control \/ Transfer

\* The video reference keeps running and its interrupts are serviced; time
\* passes.  Nothing is assumed of clients, peers or DMA.
Fairness == WF_vars(Vbi) /\ WF_vars(Isr) /\ WF_vars(StartTimeReached)

Spec == Init /\ [][Next]_vars /\ Fairness
-----------------------------------------------------------------------------
(* What the channel promises. *)

\* The discipline its safety rests on: a client starts, initialises or flushes
\* the channel only between its own transfers, initialises or flushes it only
\* when no peer owes it a frame, leaves the choice of frames to the driver and
\* asks for at least one VBI per frame.
Disciplined ==
  /\ Overlap \subseteq {"stop", "abort", "pause", "resume", "preroll"}
  /\ PeerOverlap \subseteq {"start", "stop", "abort", "pause", "resume", "preroll"}
  /\ DesiredFrames = {}
  /\ 0 \notin Repeats

Started == state \in {"STARTING", "RUNNING", "PAUSED"}

\* Frames into which somebody is writing a picture.
BeingWritten == peers \cup (IF xferPhase = "idle" THEN {} ELSE {xferFrame})

\* Every variable keeps its type (the frame stamps, the register that is
\* only ever in the ring once started, the phases of a transfer).
TypeOK ==
  /\ state \in States
  /\ activeFrame \in Int /\ outputFrame \in Int
  /\ Started => activeFrame \in Frames /\ outputFrame \in Frames
  /\ startDue \in BOOLEAN
  /\ validCount \in [Frames -> Nat]
  /\ pending \in [Frames -> BOOLEAN]
  /\ fieldFlag \in [Frames -> {0, 1}]
  /\ framesProcessed \in 0 .. CounterMod - 1
  /\ droppedFrames \in 0 .. CounterMod - 1
  /\ xferPhase \in {"idle", "found", "writing"}
  /\ xferFrame \in Frames \cup {InvalidFrame}
  /\ xferPhase # "idle" => xferFrame \in Frames
  /\ xferRepeat \in Nat
  /\ peers \subseteq Frames
  /\ content \in [Frames -> Pictures \cup {Stale}]
  /\ onAir \in Int /\ field \in {0, 1} /\ irq \in BOOLEAN

\* No tearing: once playout runs, nobody (client DMA or peer) writes into the
\* frame on the air nor into the one the next VBI will show, although
\* FindNextAvailFrame is the only place that looks at who uses a frame and
\* the DMA happens long after it released the lock.
NoWriteOnAir ==
  state \in {"RUNNING", "PAUSED"} =>
    \A f \in BeingWritten : f # outputFrame /\ f # onAir

\* No hole in the queue: the frames with repeats left follow the frame in the
\* output register without a gap (in INIT: startFrame).  The ISR stops at the
\* first empty frame, so a frame behind a hole would be aired out of order,
\* a whole lap late.
NothingStranded ==
  /\ Started =>
       \A f, g \in Frames :
         (/\ f # outputFrame
          /\ Ahead(outputFrame, f) < Ahead(outputFrame, g)
          /\ validCount[g] # 0) => validCount[f] # 0
  /\ state = "INIT" =>
       \A f, g \in Frames : (f < g /\ validCount[g] # 0) => validCount[f] # 0

\* While RUNNING the ISR charges a VBI only to the frame that was shown in it:
\* reading the register back instead of remembering the frame stays right
\* across pauses, prerolls and restarts.
ChargedMeansAired ==
  [][ \A f \in Frames :
        (Isr /\ state = "RUNNING" /\ validCount'[f] # validCount[f])
          => f = onAir ]_vars

\* "only move on when next field is different" (field mode, RUNNING).
FieldsAlternate ==
  [][ (FieldMode /\ Isr /\ state = "RUNNING" /\ outputFrame' # outputFrame)
        => fieldFlag[outputFrame'] # field ]_vars

\* A graceful stop ends: STOPPING is left by the next interrupt.
StopCompletes == state = "STOPPING" ~> state = "DISABLED"

\* Every queued frame is aired or withdrawn, whatever else is queued, as long
\* as the client leaves the channel running and no peer holds up the queue.
QueuedGetsAired ==
  \A f \in Frames :
    (state \in {"STARTING", "RUNNING"} /\ validCount[f] # 0) ~>
      (\/ onAir = f \/ validCount[f] = 0
       \/ state \notin {"STARTING", "RUNNING"}
       \/ \E g \in Frames : pending[g])
=============================================================================
