--------------------------- MODULE AutoCircCapture ---------------------------
(***************************************************************************)
(* One AutoCirculate channel in capture, as the Linux driver implements it *)
(* in src/driver/linux/ntv2driverautocirculate.c: the card writes incoming *)
(* pictures into the frame the input frame register named at the last VBI, *)
(* the ISR marks them recorded and moves the register on when the next     *)
(* frame is free, control commands run under _autoCirculateLock, and one   *)
(* client thread polls the status and transfers recorded frames to the     *)
(* host, holding the lock only while it picks a frame.                     *)
(***************************************************************************)
EXTENDS AutoCircRing, FiniteSets

CONSTANTS
  Pictures,      \* pictures the source sends
  Stale,         \* content that was not captured by this session
  MaxReps,       \* validCount of a frame with drops counts no further
  CounterMod,    \* framesProcessed and droppedFrames count modulo this (2^32)
  FieldMode,     \* circulateWithFields on an interlaced standard
  MinLevel,      \* the client transfers at this buffer level or above
  Used,          \* the commands clients issue at all
  Overlap,       \* those they issue while their transfer is in flight
  DesiredFrames, \* acDesiredFrame values other than NTV2_INVALID_FRAME
  StartAtTime,   \* whether clients use AutoCirculateStart with a start time
  ShortPeriods,  \* whether an interrupt may come early after the last one
  StartOnIrq     \* whether Start may run between a VBI and its interrupt

States == {"DISABLED", "INIT", "STARTING", "RUNNING", "PAUSED", "STOPPING"}
Commands == {"init", "start", "stop", "abort", "pause", "resume", "flush"}

ASSUME CaptureAssumption ==
  /\ Stale \notin Pictures
  /\ MaxReps \in Nat \ {0} /\ CounterMod \in Nat \ {0} /\ MinLevel \in Nat
  /\ FieldMode \in BOOLEAN /\ ShortPeriods \in BOOLEAN
  /\ StartOnIrq \in BOOLEAN /\ StartAtTime \in BOOLEAN
  /\ Used \subseteq Commands /\ Overlap \subseteq Commands
  /\ DesiredFrames \subseteq Frames

VARIABLES
  state,         \* pAuto->state
  activeFrame,   \* pAuto->activeFrame
  inputFrame,    \* the register at pAuto->activeFrameRegister
  startDue,      \* pAuto->startTime has passed
  validCount,    \* frameStamp[f].validCount: not 0 when f holds a picture
  framesProcessed, droppedFrames,
  xferPhase,     \* "idle", "polled", "checked" or "reading"
  xferFrame,     \* frameNumber in AutoCirculateTransfer_Ex
  delivered,     \* the picture the last transfer returned
  content,       \* what each frame buffer holds
  capturing,     \* the frame the card is writing for this session
  field,         \* the field coming in, 0 in progressive standards
  irq            \* a vertical interrupt is pending

driver == <<state, activeFrame, startDue, validCount, framesProcessed, droppedFrames>>
client == <<xferPhase, xferFrame, delivered>>
card   == <<inputFrame, content, capturing, field, irq>>
vars   == <<driver, client, card>>

Started == state \in {"STARTING", "RUNNING", "PAUSED"}
-----------------------------------------------------------------------------
Bump(c) == IF c + 1 = CounterMod THEN 0 ELSE c + 1

\* The client's discipline: commands outside Overlap are issued by the thread
\* that polls and transfers, hence never between a poll and its transfer.
MayIssue(cmd) ==
  cmd \in Used /\ (cmd \in Overlap \/ xferPhase = "idle")

\* Mutant: looks at the active frame first.
FindNextAvailFromActive ==
  IF state # "RUNNING" \/ activeFrame \notin Frames THEN InvalidFrame
  ELSE FirstFrom(activeFrame, {f \in Frames : validCount[f] > 0})

\* Mutant: takes the newest recorded frame first.
FindNextAvailNewest ==
  IF state # "RUNNING" \/ activeFrame \notin Frames THEN InvalidFrame
  ELSE FirstBack(PrevFrame(activeFrame), {f \in Frames : validCount[f] > 0})

\* OemAutoCirculateFindNextAvailFrame, recording: the oldest recorded frame;
\* the active frame is looked at last.
FindNextAvail ==
  IF state # "RUNNING" \/ activeFrame \notin Frames THEN InvalidFrame
  ELSE FirstFrom(NextFrame(activeFrame), {f \in Frames : validCount[f] > 0})

\* OemAutoCirculateGetBufferLevel, recording: the recorded frames behind the
\* active one, back to the first that is not recorded.
BufferLevel ==
  IF state # "RUNNING" \/ activeFrame \notin Frames THEN 0
  ELSE LET gap == FirstBack(PrevFrame(activeFrame),
                            {f \in Frames \ {activeFrame} : validCount[f] = 0})
       IN  IF gap = InvalidFrame THEN EndFrame - StartFrame
           ELSE Ahead(gap, activeFrame) - 1

Init ==
  /\ state = "DISABLED"
  /\ activeFrame = 0
  /\ startDue = TRUE
  /\ inputFrame \in {0, StartFrame}
  /\ validCount = [f \in Frames |-> 0]
  /\ framesProcessed = 0 /\ droppedFrames = 0
  /\ xferPhase = "idle" /\ xferFrame = InvalidFrame
  /\ delivered = Stale
  /\ content = [f \in Frames |-> Stale]
  /\ capturing = InvalidFrame
  /\ field = 0
  /\ irq = FALSE
-----------------------------------------------------------------------------
(* The card. *)

\* A vertical blank: a picture starts to come in, into the frame named by the
\* register.  The guard is the assumption that the ISR runs before the next VBI.
Vbi ==
  /\ ~irq
  /\ irq' = TRUE
  /\ field' = IF FieldMode THEN 1 - field ELSE field
  /\ IF Started
     THEN /\ capturing' = inputFrame
          /\ \E p \in Pictures : content' = [content EXCEPT ![inputFrame] = p]
     ELSE capturing' = InvalidFrame /\ UNCHANGED content
  /\ UNCHANGED <<driver, client, inputFrame>>
\* The clock passes the start time of AutoCirculateStart.
StartTimeReached ==
  /\ ~startDue
  /\ startDue' = TRUE
  /\ UNCHANGED <<state, activeFrame, validCount, framesProcessed, droppedFrames,
                 client, card>>
-----------------------------------------------------------------------------
(* The interrupt service routine, OemAutoCirculate. *)

IsrIdle ==
  /\ state \in {"DISABLED", "INIT"}
  /\ UNCHANGED <<driver, inputFrame>>

\* Mutant: stops only once the client has fetched every recorded frame.
IsrStoppingDrains ==
  /\ state = "STOPPING"
  /\ state' = IF \E f \in Frames : validCount[f] # 0 THEN state ELSE "DISABLED"
  /\ UNCHANGED <<activeFrame, startDue, validCount, framesProcessed, droppedFrames, inputFrame>>

IsrStopping ==
  /\ state = "STOPPING"
  /\ state' = "DISABLED"
  /\ UNCHANGED <<activeFrame, startDue, validCount, framesProcessed, droppedFrames, inputFrame>>

IsrPaused ==
  /\ state = "PAUSED"
  /\ activeFrame' = IntoRange(inputFrame)
  /\ UNCHANGED <<state, startDue, validCount, framesProcessed, droppedFrames, inputFrame>>

\* From the start time on, the first interrupt (of a first field) moves the
\* register off startFrame.
IsrStarting ==
  /\ state = "STARTING"
  /\ activeFrame' = IntoRange(inputFrame)
  /\ validCount' = IF startDue THEN [validCount EXCEPT ![activeFrame'] = 0]
                   ELSE validCount
  /\ IF startDue /\ field = 0
     THEN inputFrame' = NextFrame(activeFrame') /\ state' = "RUNNING"
     ELSE UNCHANGED <<inputFrame, state>>
  /\ UNCHANGED <<startDue, framesProcessed, droppedFrames>>

\* The frame that was active holds a picture now.
Recorded == [validCount EXCEPT ![activeFrame] = IF @ = 0 THEN 1 ELSE @]

\* Mutant: keeps one frame more than it needs free.
IsrRunningKeepsTwo ==
  /\ state = "RUNNING"
  /\ activeFrame' = IntoRange(inputFrame)
  /\ LET n == NextFrame(activeFrame')
     IN  IF Recorded[n] = 0 /\ Recorded[NextFrame(n)] = 0
         THEN /\ inputFrame' = n /\ validCount' = Recorded
              /\ UNCHANGED <<framesProcessed, droppedFrames>>
         ELSE /\ droppedFrames' = Bump(droppedFrames) /\ validCount' = Recorded
              /\ UNCHANGED <<inputFrame, framesProcessed>>
  /\ UNCHANGED <<state, startDue>>

\* The register moves on if the next frame is free.  If not, the picture now
\* coming in is going to be overwritten: a drop, charged to its frame.
IsrRunning ==
  /\ state = "RUNNING"
  /\ activeFrame' = IntoRange(inputFrame)
  /\ IF Recorded[NextFrame(activeFrame')] = 0
     THEN /\ inputFrame' = NextFrame(activeFrame')
          /\ validCount' = Recorded
          /\ framesProcessed' = Bump(framesProcessed)
          /\ UNCHANGED droppedFrames
     ELSE /\ droppedFrames' = Bump(droppedFrames)
          /\ validCount' = [Recorded EXCEPT ![activeFrame'] = IF @ < MaxReps THEN @ + 1 ELSE @]
          /\ UNCHANGED <<inputFrame, framesProcessed>>
  /\ UNCHANGED <<state, startDue>>

\* "interrupt too fast, bailing on this one": the register stays.
IsrTooFast ==
  /\ ShortPeriods
  /\ state = "RUNNING"
  /\ activeFrame' = IntoRange(inputFrame)
  /\ validCount' = Recorded
  /\ UNCHANGED <<state, startDue, inputFrame, framesProcessed, droppedFrames>>

Isr ==
  /\ irq
  /\ irq' = FALSE
  /\ UNCHANGED <<client, content, capturing, field>>
  /\ IsrIdle \/ IsrStopping \/ IsrPaused \/ IsrStarting \/ IsrRunning \/ IsrTooFast
-----------------------------------------------------------------------------
(* Control commands, AutoCirculateControl; Preroll does nothing in capture. *)

InitChannel ==
  /\ MayIssue("init")
  /\ state = "DISABLED"
  /\ state' = "INIT"
  /\ activeFrame' = InvalidFrame
  /\ startDue' = TRUE
  /\ validCount' = [f \in Frames |-> 0]
  /\ framesProcessed' = 0 /\ droppedFrames' = 0
  /\ UNCHANGED <<client, card>>

\* Mutant: leaves the input frame register alone.
StartNoRegister ==
  /\ MayIssue("start")
  /\ state = "INIT"
  /\ state' = "STARTING"
  /\ activeFrame' = StartFrame
  /\ startDue' \in IF StartAtTime THEN BOOLEAN ELSE {TRUE}
  /\ capturing' = InvalidFrame
  /\ UNCHANGED <<validCount, framesProcessed, droppedFrames, client, content,
                 inputFrame, field, irq>>

Start ==
  /\ MayIssue("start")
  /\ StartOnIrq \/ ~irq
  /\ state = "INIT"
  /\ state' = "STARTING"
  /\ activeFrame' = StartFrame
  /\ startDue' \in IF StartAtTime THEN BOOLEAN ELSE {TRUE}
  /\ inputFrame' = StartFrame
  /\ capturing' = InvalidFrame
  /\ UNCHANGED <<validCount, framesProcessed, droppedFrames, client, content, field, irq>>

SetState(s) ==
  /\ state' = s
  /\ UNCHANGED <<activeFrame, startDue, validCount, framesProcessed, droppedFrames, client, card>>

Stop == MayIssue("stop") /\ (Started \/ state = "INIT") /\ SetState("STOPPING")

Abort == MayIssue("abort") /\ state # "DISABLED" /\ SetState("DISABLED")

Pause == MayIssue("pause") /\ state = "RUNNING" /\ SetState("PAUSED")

Resume ==
  /\ MayIssue("resume")
  /\ state = "PAUSED"
  /\ state' = "RUNNING"
  /\ droppedFrames' \in {droppedFrames, 0}
  /\ UNCHANGED <<activeFrame, startDue, validCount, framesProcessed, client, card>>

\* OemAutoCirculateFlush: walks back from the frame before the one in the
\* register and stops at the first frame without a picture.
Flush ==
  /\ MayIssue("flush")
  /\ state \in {"RUNNING", "PAUSED", "INIT"}
  /\ LET from == IntoRange(inputFrame)
         stop == FirstBack(PrevFrame(from), {f \in Frames : validCount[f] = 0 \/ f = from})
         cleared == {f \in Frames \ {from} :
                       stop = from \/ Ahead(f, from) < Ahead(stop, from)}
     IN  validCount' = [f \in Frames |-> IF f \in cleared THEN 0 ELSE validCount[f]]
  /\ droppedFrames' \in {droppedFrames, 0}
  /\ UNCHANGED <<state, activeFrame, startDue, framesProcessed, client, card>>
-----------------------------------------------------------------------------
(* The client's thread: AutoCirculateGetStatus, AutoCirculateTransfer_Ex. *)

Poll ==
  /\ xferPhase = "idle"
  /\ BufferLevel >= MinLevel
  /\ xferPhase' = "polled"
  /\ UNCHANGED <<driver, xferFrame, delivered, card>>

\* The state test; the lock is taken only after it.
TransferCheck ==
  /\ xferPhase = "polled"
  /\ xferPhase' = IF state \in {"RUNNING", "STARTING"} THEN "checked" ELSE "idle"
  /\ UNCHANGED <<driver, xferFrame, delivered, card>>

\* With nothing recorded, the transfer falls back to startFrame.
TransferFind ==
  /\ xferPhase = "checked"
  /\ xferPhase' = "reading"
  /\ \E f \in DesiredFrames \cup {FindNextAvail} :
       xferFrame' = IF f = InvalidFrame THEN StartFrame ELSE f
  /\ UNCHANGED <<driver, delivered, card>>

\* The DMA is done, OemCompleteAutoCirculateTransfer_Ex: the frame is free
\* again, and the count of its drops cleared.  In field mode, when the DMA of the
\* captured field fails, the other field is transferred and its result counts.
TransferComplete ==
  /\ xferPhase = "reading"
  /\ validCount' = [validCount EXCEPT ![xferFrame] = 0]
  /\ delivered' \in {content[xferFrame]} \cup (IF FieldMode THEN {Stale} ELSE {})
  /\ xferPhase' = "idle" /\ xferFrame' = InvalidFrame
  /\ UNCHANGED <<state, activeFrame, startDue, framesProcessed, droppedFrames, card>>

\* Error returns before completion: the picture stays recorded.
TransferFail ==
  /\ xferPhase = "reading"
  /\ xferPhase' = "idle" /\ xferFrame' = InvalidFrame
  /\ UNCHANGED <<driver, delivered, card>>

\* A peer-to-peer prepare on a capture channel is an error that nevertheless
\* completes: the picture is given up.
TransferForfeit ==
  /\ xferPhase = "reading"
  /\ validCount' = [validCount EXCEPT ![xferFrame] = 0]
  /\ xferPhase' = "idle" /\ xferFrame' = InvalidFrame
  /\ UNCHANGED <<state, activeFrame, startDue, framesProcessed, droppedFrames, delivered, card>>
-----------------------------------------------------------------------------
Control ==
  InitChannel \/ Start \/ Stop \/ Abort \/ Pause \/ Resume \/ Flush

Transfer ==
  \/ Poll \/ TransferCheck \/ TransferFind \/ TransferComplete
  \/ TransferFail \/ TransferForfeit

Next == Vbi \/ StartTimeReached \/ Isr \/ Control \/ Transfer

\* The video reference runs and its interrupts are serviced; the client keeps
\* polling, and its transfers do not fail for ever.
Fairness ==
  /\ WF_vars(Vbi) /\ WF_vars(Isr) /\ WF_vars(StartTimeReached)
  /\ WF_vars(Poll) /\ WF_vars(TransferCheck) /\ WF_vars(TransferFind)
  /\ SF_vars(TransferComplete)

Spec == Init /\ [][Next]_vars /\ Fairness
-----------------------------------------------------------------------------
(* What the channel promises. *)

\* How many frames hold a picture and are not being written.
CapturedReady == Cardinality({f \in Frames : validCount[f] # 0 /\ f # activeFrame})

\* Every variable keeps its type (the frame stamps, the register that is only
\* ever in the ring once started, the phases of a transfer).
TypeOK ==
  /\ state \in States
  /\ activeFrame \in Int /\ inputFrame \in Int
  /\ Started => activeFrame \in Frames /\ inputFrame \in Frames
  /\ startDue \in BOOLEAN
  /\ validCount \in [Frames -> 0 .. MaxReps]
  /\ framesProcessed \in 0 .. CounterMod - 1
  /\ droppedFrames \in 0 .. CounterMod - 1
  /\ xferPhase \in {"idle", "polled", "checked", "reading"}
  /\ xferFrame \in Frames \cup {InvalidFrame}
  /\ xferPhase = "reading" => xferFrame \in Frames
  /\ delivered \in Pictures \cup {Stale}
  /\ content \in [Frames -> Pictures \cup {Stale}]
  /\ capturing \in Frames \cup {InvalidFrame}
  /\ field \in {0, 1} /\ irq \in BOOLEAN

\* No tearing: the frame a transfer reads is not the one the card is writing
\* nor the one it will write next, although the choice of the frame and the
\* end of its DMA are many interrupts apart.
NoReadUnderCapture ==
  (state = "RUNNING" /\ xferPhase = "reading") =>
    xferFrame # capturing /\ xferFrame # inputFrame

\* A drop is only counted when every other frame is taken: it holds a picture
\* the client has not fetched.
DropOnlyWhenFull ==
  [][ (Isr /\ droppedFrames' # droppedFrames) =>
        \A f \in Frames : validCount'[f] # 0 ]_vars

\* "flushes all recorded frames that haven't yet been transferred to the host"
FlushEmpties ==
  [][ (Flush /\ state # "INIT") =>
        \A f \in Frames : f # capturing => validCount'[f] = 0 ]_vars

\* HasAvailableInputFrame, "True if there's 2 or more captured frames that are
\* ready to transfer": such frames do not stay invisible to the client.
AvailableIsSeen ==
  (state = "RUNNING" /\ CapturedReady >= MinLevel) ~>
    (BufferLevel >= MinLevel \/ CapturedReady < MinLevel \/ state # "RUNNING")

\* A picture that is recorded is fetched in the end by a client that keeps
\* asking whether there is one, as long as the channel keeps running.
RecordedGetsFetched ==
  \A f \in Frames :
    (state = "RUNNING" /\ validCount[f] # 0) ~> (validCount[f] = 0 \/ state # "RUNNING")

\* A graceful stop ends: STOPPING is left by the next interrupt.
StopCompletes == state = "STOPPING" ~> state = "DISABLED"
=============================================================================
