------------------------ MODULE AutoCircCaptureProofs ------------------------
(***************************************************************************)
(* Theorems about AutoCircCapture, for every frame range, every number of  *)
(* pictures and drops, and early interrupts or none.                       *)
(***************************************************************************)
EXTENDS AutoCircCaptureMC, AutoCircRingProofs, FiniteSetTheorems

\* The recorded frames, as the driver's search sees them.
HeldFrames == {f \in Frames : validCount[f] > 0}

-----------------------------------------------------------------------------
(* Type correctness. *)

LEMMA InitTypes == Init => TypeOK
<1> SUFFICES ASSUME Init PROVE TypeOK
  OBVIOUS
<1>1. inputFrame \in Int /\ activeFrame \in Int
  BY RangeAssumption DEF Init
<1>2. validCount \in [Frames -> 0 .. MaxReps]
  BY CaptureAssumption DEF Init
<1>3. framesProcessed \in 0 .. CounterMod - 1 /\ droppedFrames \in 0 .. CounterMod - 1
  BY CaptureAssumption DEF Init
<1>4. content \in [Frames -> Pictures \cup {Stale}] /\ delivered \in Pictures \cup {Stale}
  BY DEF Init
<1> QED BY <1>1, <1>2, <1>3, <1>4 DEF Init, TypeOK, Started, States

\* The card and the clock keep the types.
LEMMA CardTypes == TypeOK /\ (Vbi \/ StartTimeReached) => TypeOK'
<1> SUFFICES ASSUME TypeOK, Vbi \/ StartTimeReached PROVE TypeOK'
  OBVIOUS
<1> USE DEF TypeOK, client, card, driver, Started
<1>1. CASE Vbi
  <2>1. capturing' \in Frames \cup {InvalidFrame}
    BY <1>1 DEF Vbi
  <2>2. content' \in [Frames -> Pictures \cup {Stale}]
    BY <1>1 DEF Vbi
  <2>3. field' \in {0, 1}
    BY <1>1 DEF Vbi
  <2> QED BY <1>1, <2>1, <2>2, <2>3 DEF Vbi
<1>2. CASE StartTimeReached
  BY <1>2 DEF StartTimeReached
<1> QED BY <1>1, <1>2

\* What was active is marked, within the type.
LEMMA RecordedTypes == TypeOK => Recorded \in [Frames -> 0 .. MaxReps]
<1> SUFFICES ASSUME TypeOK PROVE Recorded \in [Frames -> 0 .. MaxReps]
  OBVIOUS
<1>1. validCount \in [Frames -> 0 .. MaxReps]
  BY DEF TypeOK
<1>2. 1 \in 0 .. MaxReps
  BY CaptureAssumption
<1> QED BY <1>1, <1>2 DEF Recorded

\* The ISR keeps the types: registers it writes are frames of the ring.
LEMMA IsrTypes == TypeOK /\ Isr => TypeOK'
<1> SUFFICES ASSUME TypeOK, Isr PROVE TypeOK'
  OBVIOUS
<1> USE DEF TypeOK, Isr, client, card, driver, Started, States
<1>1. IntoRange(inputFrame) \in Frames /\ IntoRange(inputFrame) \in Int
  <2>1. IntoRange(inputFrame) \in Frames
    BY IntoRangeInRing
  <2> QED BY <2>1, RangeAssumption DEF Frames
<1>2. /\ NextFrame(IntoRange(inputFrame)) \in Frames
      /\ NextFrame(IntoRange(inputFrame)) \in Int
  <2>1. NextFrame(IntoRange(inputFrame)) \in Frames
    BY <1>1, StepsInRing
  <2> QED BY <2>1, RangeAssumption DEF Frames
<1>3. \A c \in 0 .. CounterMod - 1 : Bump(c) \in 0 .. CounterMod - 1
  BY CaptureAssumption DEF Bump
<1>4. CASE IsrIdle \/ IsrStopping
  BY <1>4 DEF IsrIdle, IsrStopping
<1>5. CASE IsrPaused
  BY <1>1, <1>5 DEF IsrPaused
<1>6. CASE IsrStarting
  <2>1. /\ activeFrame' \in Frames /\ activeFrame' \in Int
        /\ inputFrame' \in Frames /\ inputFrame' \in Int
    BY <1>1, <1>2, <1>6 DEF IsrStarting
  <2>2. validCount' \in [Frames -> 0 .. MaxReps]
    BY <1>1, <1>6, CaptureAssumption DEF IsrStarting
  <2>3. state' \in {"STARTING", "RUNNING"}
    BY <1>6 DEF IsrStarting
  <2> QED BY <1>6, <2>1, <2>2, <2>3 DEF IsrStarting
<1>7. CASE IsrRunning
  <2>1. /\ activeFrame' \in Frames /\ activeFrame' \in Int
        /\ inputFrame' \in Frames /\ inputFrame' \in Int
    BY <1>1, <1>2, <1>7 DEF IsrRunning
  <2>2. validCount' \in [Frames -> 0 .. MaxReps]
    <3>1. CASE validCount' = Recorded
      BY <3>1, RecordedTypes
    <3>2. CASE validCount' = [Recorded EXCEPT ![activeFrame'] = IF @ < MaxReps THEN @ + 1 ELSE @]
      <4> DEFINE a == activeFrame'
      <4>1. a \in Frames /\ Recorded \in [Frames -> 0 .. MaxReps]
        BY <2>1, RecordedTypes
      <4>2. Recorded[a] \in 0 .. MaxReps
        BY <4>1
      <4>3. (IF Recorded[a] < MaxReps THEN Recorded[a] + 1 ELSE Recorded[a]) \in 0 .. MaxReps
        BY <4>2, CaptureAssumption
      <4> HIDE DEF a
      <4> QED BY <3>2, <4>1, <4>3 DEF a
    <3> QED BY <1>7, <3>1, <3>2 DEF IsrRunning
  <2>3. /\ framesProcessed' \in 0 .. CounterMod - 1
        /\ droppedFrames' \in 0 .. CounterMod - 1
    BY <1>3, <1>7 DEF IsrRunning
  <2>4. UNCHANGED <<state, startDue>>
    BY <1>7 DEF IsrRunning
  <2> QED BY <2>1, <2>2, <2>3, <2>4
<1>8. CASE IsrTooFast
  BY <1>1, <1>8, RecordedTypes DEF IsrTooFast
<1> QED BY <1>4, <1>5, <1>6, <1>7, <1>8

\* Every control command keeps the types.
LEMMA ControlTypes == TypeOK /\ Control => TypeOK'
<1> SUFFICES ASSUME TypeOK, Control PROVE TypeOK'
  OBVIOUS
<1> USE CaptureAssumption DEF TypeOK, client, card, Started, States
<1>1. StartFrame \in Frames /\ StartFrame \in Int
  BY RangeAssumption DEF Frames
<1>2. CASE InitChannel
  BY <1>2 DEF InitChannel, InvalidFrame
<1>3. CASE Start
  <2>1. startDue' \in BOOLEAN
    BY <1>3 DEF Start
  <2> QED BY <1>1, <1>3, <2>1 DEF Start
<1>4. CASE Stop \/ Abort \/ Pause
  BY <1>4 DEF Stop, Abort, Pause, SetState
<1>5. CASE Resume
  BY <1>5 DEF Resume
<1>6. CASE Flush
  <2>1. PICK S : validCount' = [f \in Frames |-> IF f \in S THEN 0 ELSE validCount[f]]
    BY <1>6 DEF Flush
  <2>2. validCount' \in [Frames -> 0 .. MaxReps]
    BY <2>1
  <2> QED BY <1>6, <2>2 DEF Flush
<1> QED BY <1>2, <1>3, <1>4, <1>5, <1>6 DEF Control

\* The frame a search returns is in the ring.
LEMMA FindInRing == FindNextAvail \in Frames \cup {InvalidFrame}
<1>1. HeldFrames \in SUBSET Frames
  BY DEF HeldFrames
<1> QED BY <1>1, FirstFromNearest, StepsInRing DEF FindNextAvail, HeldFrames

\* The client's thread keeps the types.
LEMMA TransferTypes == TypeOK /\ Transfer => TypeOK'
<1> SUFFICES ASSUME TypeOK, Transfer PROVE TypeOK'
  OBVIOUS
<1> USE CaptureAssumption DEF TypeOK, driver, client, card, Started
<1>1. CASE Poll \/ TransferCheck \/ TransferFail
  BY <1>1 DEF Poll, TransferCheck, TransferFail
<1>2. CASE TransferFind
  <2>1. xferFrame' \in Frames
    BY <1>2, FindInRing, RangeAssumption DEF TransferFind, Frames
  <2> QED BY <1>2, <2>1 DEF TransferFind
<1>3. CASE TransferComplete \/ TransferForfeit
  <2>1. validCount' \in [Frames -> 0 .. MaxReps]
    BY <1>3 DEF TransferComplete, TransferForfeit
  <2>2. delivered' \in Pictures \cup {Stale}
    BY <1>3 DEF TransferComplete, TransferForfeit
  <2> QED BY <1>3, <2>1, <2>2 DEF TransferComplete, TransferForfeit
<1> QED BY <1>1, <1>2, <1>3 DEF Transfer

\* In every behaviour the frame stamps, the register, the counters and the
\* transfer have their types; a started channel's frames lie in its range.
THEOREM TypeCorrect == Spec => []TypeOK
<1>1. TypeOK /\ [Next]_vars => TypeOK'
  <2> SUFFICES ASSUME TypeOK, [Next]_vars PROVE TypeOK'
    OBVIOUS
  <2>1. CASE Next
    BY <2>1, IsrTypes, CardTypes, ControlTypes, TransferTypes DEF Next
  <2>2. CASE UNCHANGED vars
    BY <2>2 DEF TypeOK, vars, driver, client, card, Started
  <2> QED BY <2>1, <2>2
<1> QED BY <1>1, InitTypes, PTL DEF Spec
-----------------------------------------------------------------------------
(* No tearing. *)

\* The clients the guarantee is for: nothing else runs between a poll and its
\* transfer than the commands that end or hold the session, the frame is left
\* to the driver, and a transfer is only asked for when there is a picture.
Disciplined ==
  /\ Overlap \cap {"init", "resume", "flush"} = {}
  /\ DesiredFrames = {}
  /\ MinLevel >= 1

\* Frames that hold a picture and that the card is not about to write.
Settled == {f \in Frames : validCount[f] > 0 /\ f # activeFrame /\ f # inputFrame}

\* Before the first picture there is nothing to fetch and nobody fetching.
NothingBeforeRunning ==
  state \in {"INIT", "STARTING"} =>
    /\ \A f \in Frames : validCount[f] = 0
    /\ xferPhase = "idle"

\* The register is at the active frame, or at the free frame after it.
RegisterInStep ==
  Started =>
    \/ inputFrame = activeFrame
    \/ inputFrame = NextFrame(activeFrame) /\ validCount[inputFrame] = 0

\* The card writes the frame of the register until the ISR has made it active.
CardInStep ==
  Started => capturing \in {InvalidFrame, IF irq THEN inputFrame ELSE activeFrame}

\* A client that was told of a picture still has one to fetch.
SomethingToFetch ==
  (state = "RUNNING" /\ xferPhase \in {"polled", "checked"}) => Settled # {}

\* The frame being transferred stays recorded, and out of the card's way.
ReadingHeld ==
  (state = "RUNNING" /\ xferPhase = "reading") => xferFrame \in Settled

TearingInv ==
  NothingBeforeRunning /\ RegisterInStep /\ CardInStep /\ SomethingToFetch /\ ReadingHeld

\* GetStatus reports a buffer level only when the frame behind the active one
\* is recorded.
LEMMA LevelMeansRecorded ==
  ASSUME TypeOK, BufferLevel >= 1
  PROVE  /\ state = "RUNNING"
         /\ PrevFrame(activeFrame) \in HeldFrames
         /\ PrevFrame(activeFrame) # activeFrame
<1> DEFINE p == PrevFrame(activeFrame)
           gaps == {f \in Frames \ {activeFrame} : validCount[f] = 0}
           gap == FirstBack(p, gaps)
<1>1. state = "RUNNING" /\ activeFrame \in Frames
  BY DEF BufferLevel, TypeOK
<1>2. p \in Frames /\ gaps \in SUBSET Frames
  BY <1>1, StepsInRing
<1>3. BufferLevel = IF gap = InvalidFrame THEN EndFrame - StartFrame
                    ELSE Ahead(gap, activeFrame) - 1
  BY <1>1 DEF BufferLevel
<1>4. gap = InvalidFrame \/ gap \in Frames
  BY <1>2, FirstBackNearest
<1>5. StartFrame # EndFrame
  <2>1. SUFFICES ASSUME StartFrame = EndFrame PROVE FALSE
    OBVIOUS
  <2>2. CASE gap = InvalidFrame
    BY <1>3, <2>1, <2>2, RangeAssumption
  <2>3. CASE gap \in Frames
    <3>1. Ahead(gap, activeFrame) \in 0 .. 0
      BY <1>1, <2>1, <2>3, AheadIsDistance, RangeAssumption
    <3>2. gap # InvalidFrame
      BY <2>3, FramesAreNats
    <3> HIDE DEF gap
    <3> QED BY <1>3, <3>1, <3>2
  <2> QED BY <1>4, <2>2, <2>3
<1>6. p # activeFrame /\ Ahead(p, activeFrame) = 1
  BY <1>1, <1>5, BehindIsOneAway
<1>7. p \notin gaps
  <2>1. SUFFICES ASSUME p \in gaps PROVE FALSE
    OBVIOUS
  <2>2. gap = p
    BY <1>2, <2>1, FirstBackOfMember
  <2>3. p # InvalidFrame
    BY <1>2, FramesAreNats
  <2>4. BufferLevel = 0
    <3> HIDE DEF gap, p
    <3> QED BY <1>3, <1>6, <2>2, <2>3
  <2> QED BY <2>4
<1>8. validCount[p] \in Nat
  BY <1>2 DEF TypeOK
<1> QED BY <1>1, <1>2, <1>6, <1>7, <1>8 DEF HeldFrames

\* The search never returns the frame being written nor the next one, as long
\* as another frame holds a picture.
LEMMA FindReturnsSettled ==
  ASSUME TypeOK, RegisterInStep, state = "RUNNING", Settled # {}
  PROVE  FindNextAvail \in Settled
<1> DEFINE n == FirstFrom(NextFrame(activeFrame), HeldFrames)
<1>1. activeFrame \in Frames /\ HeldFrames \in SUBSET Frames
  BY DEF TypeOK, Started, HeldFrames
<1>2. FindNextAvail = n
  BY <1>1 DEF FindNextAvail, HeldFrames
<1>3. PICK f \in Settled : TRUE
  OBVIOUS
<1>4. f \in HeldFrames /\ f # activeFrame /\ f \in Frames
  BY DEF Settled, HeldFrames
<1>5. n \in HeldFrames /\ Ahead(NextFrame(activeFrame), n) <= Ahead(NextFrame(activeFrame), f)
  BY <1>1, <1>4, FirstFromNearest, StepsInRing
<1>6. n # activeFrame
  <2>1. SUFFICES ASSUME n = activeFrame PROVE FALSE
    OBVIOUS
  <2>2. Ahead(NextFrame(activeFrame), f) < Ahead(NextFrame(activeFrame), activeFrame)
    BY <1>1, <1>4, ActiveIsLast
  <2>3. /\ Ahead(NextFrame(activeFrame), f) \in Int
        /\ Ahead(NextFrame(activeFrame), activeFrame) \in Int
    BY <1>1, <1>4, StepsInRing, AheadIsDistance
  <2> QED BY <1>5, <2>1, <2>2, <2>3
<1>7. n \in Frames /\ validCount[n] > 0
  BY <1>5 DEF HeldFrames
<1>8. n # inputFrame
  <2> HIDE DEF n
  <2> QED BY <1>6, <1>7 DEF RegisterInStep, Started
<1> QED BY <1>2, <1>6, <1>7, <1>8 DEF Settled

\* The invariant is what the property needs: the frame being read is neither
\* the one in the register nor the active one, and the card writes no other.
LEMMA TearingSuffices == TypeOK /\ TearingInv => NoReadUnderCapture
<1> SUFFICES ASSUME TypeOK, CardInStep, ReadingHeld, state = "RUNNING", xferPhase = "reading"
             PROVE  xferFrame # capturing /\ xferFrame # inputFrame
  BY DEF TearingInv, NoReadUnderCapture
<1>1. xferFrame \in Frames /\ xferFrame # activeFrame /\ xferFrame # inputFrame
  BY DEF ReadingHeld, Settled
<1>2. xferFrame # InvalidFrame
  BY <1>1, FramesAreNats
<1>3. capturing \in {InvalidFrame, inputFrame, activeFrame}
  BY DEF CardInStep, Started
<1> QED BY <1>1, <1>2, <1>3

\* The card and the clock: a VBI makes the card write the register's frame.
LEMMA CardKeeps == TypeOK /\ TearingInv /\ (Vbi \/ StartTimeReached) => TearingInv'
<1> SUFFICES ASSUME TypeOK, TearingInv, Vbi \/ StartTimeReached PROVE TearingInv'
  OBVIOUS
<1> USE DEF TearingInv, Vbi, StartTimeReached, driver, client, card, Started
<1>1. NothingBeforeRunning'
  BY DEF NothingBeforeRunning
<1>2. RegisterInStep'
  BY DEF RegisterInStep
<1>3. CardInStep'
  BY DEF CardInStep
<1>4. SomethingToFetch' /\ ReadingHeld'
  BY DEF SomethingToFetch, ReadingHeld, Settled
<1> QED BY <1>1, <1>2, <1>3, <1>4

\* The ISR in RUNNING: the register only ever moves onto a frame that holds no
\* picture, so a settled frame stays settled.
LEMMA RunningKeeps ==
  ASSUME TypeOK, TearingInv, Isr, IsrRunning \/ IsrTooFast
  PROVE  /\ activeFrame' = inputFrame
         /\ inputFrame' \in {inputFrame, NextFrame(inputFrame)}
         /\ inputFrame' # inputFrame => validCount'[inputFrame'] = 0
         /\ Settled \subseteq Settled'
<1> USE DEF IsrRunning, IsrTooFast
<1>1. inputFrame \in Frames /\ activeFrame \in Frames /\ state = "RUNNING"
  BY DEF TypeOK, Started
<1>2. activeFrame' = inputFrame
  BY <1>1, IntoRangeInRing
<1>3. /\ inputFrame' \in {inputFrame, NextFrame(inputFrame)}
      /\ inputFrame' # inputFrame => inputFrame' = NextFrame(inputFrame)
                                     /\ Recorded[inputFrame'] = 0 /\ validCount' = Recorded
  BY <1>2 DEF Isr, card
<1>4. validCount \in [Frames -> 0 .. MaxReps] /\ Recorded \in [Frames -> 0 .. MaxReps]
  BY RecordedTypes DEF TypeOK
<1>5. ASSUME NEW f \in Settled PROVE f \in Settled'
  <2>1. f \in Frames /\ validCount[f] > 0 /\ f # activeFrame /\ f # inputFrame
    BY DEF Settled
  <2>2. Recorded[f] = validCount[f]
    BY <1>4, <2>1 DEF Recorded
  <2>3. validCount'[f] = Recorded[f]
    BY <1>2, <1>4, <2>1
  <2>4. f # inputFrame'
    BY <1>3, <2>1, <2>2
  <2> QED BY <1>2, <2>1, <2>2, <2>3, <2>4 DEF Settled
<1> QED BY <1>2, <1>3, <1>5

\* Every interrupt keeps the invariant.
LEMMA IsrKeeps == TypeOK /\ TearingInv /\ Isr => TearingInv'
<1> SUFFICES ASSUME TypeOK, TearingInv, Isr PROVE TearingInv'
  OBVIOUS
<1>1. UNCHANGED <<xferPhase, xferFrame, capturing>> /\ irq /\ ~irq'
  BY DEF Isr, client
<1>2. CASE IsrIdle \/ IsrStopping
  <2>1. state' \in {"DISABLED", "INIT"} /\ (state' = "INIT" => state = "INIT")
        /\ validCount' = validCount
    BY <1>2 DEF IsrIdle, IsrStopping, driver
  <2> QED BY <1>1, <2>1 DEF TearingInv, NothingBeforeRunning, RegisterInStep, CardInStep,
                            SomethingToFetch, ReadingHeld, Started
<1>3. CASE IsrPaused
  <2>1. state' = "PAUSED" /\ activeFrame' = inputFrame /\ inputFrame' = inputFrame
    BY <1>3, IntoRangeInRing DEF IsrPaused, TypeOK, Started
  <2>2. capturing' \in {InvalidFrame, activeFrame'}
    BY <1>1, <1>3, <2>1 DEF TearingInv, CardInStep, Started, IsrPaused
  <2> QED BY <1>1, <2>1, <2>2 DEF TearingInv, NothingBeforeRunning, RegisterInStep, CardInStep,
                                  SomethingToFetch, ReadingHeld, Started
<1>4. CASE IsrStarting
  <2>1. inputFrame \in Frames /\ activeFrame' = inputFrame
    BY <1>4, IntoRangeInRing DEF IsrStarting, TypeOK, Started
  <2>2. xferPhase = "idle" /\ (\A f \in Frames : validCount[f] = 0)
    BY <1>4 DEF TearingInv, NothingBeforeRunning, IsrStarting
  <2>3. \A f \in Frames : validCount'[f] = 0
    BY <1>4, <2>1, <2>2 DEF IsrStarting, TypeOK
  <2>4. /\ state' \in {"STARTING", "RUNNING"}
        /\ inputFrame' = inputFrame \/ inputFrame' = NextFrame(inputFrame)
    BY <1>4, <2>1 DEF IsrStarting
  <2>5. NextFrame(inputFrame) \in Frames
    BY <2>1, StepsInRing
  <2>6. capturing' \in {InvalidFrame, activeFrame'}
    BY <1>1, <1>4, <2>1 DEF TearingInv, CardInStep, Started, IsrStarting
  <2>7. RegisterInStep'
    BY <2>1, <2>3, <2>4, <2>5 DEF RegisterInStep
  <2> QED BY <1>1, <2>2, <2>3, <2>4, <2>6, <2>7 DEF TearingInv, NothingBeforeRunning,
                                     CardInStep, SomethingToFetch, ReadingHeld
<1>5. CASE IsrRunning \/ IsrTooFast
  <2>1. state = "RUNNING" /\ state' = "RUNNING"
    BY <1>5 DEF IsrRunning, IsrTooFast
  <2>2. /\ activeFrame' = inputFrame
        /\ inputFrame' \in {inputFrame, NextFrame(inputFrame)}
        /\ inputFrame' # inputFrame => validCount'[inputFrame'] = 0
        /\ Settled \subseteq Settled'
    BY <1>5, RunningKeeps
  <2>3. RegisterInStep'
    BY <2>2 DEF RegisterInStep
  <2>4. CardInStep'
    BY <1>1, <2>1, <2>2 DEF TearingInv, CardInStep, Started
  <2>5. SomethingToFetch' /\ ReadingHeld'
    BY <1>1, <2>1, <2>2 DEF TearingInv, SomethingToFetch, ReadingHeld
  <2> QED BY <2>1, <2>3, <2>4, <2>5 DEF TearingInv, NothingBeforeRunning
<1> QED BY <1>2, <1>3, <1>4, <1>5 DEF Isr

\* The commands: those a disciplined client may issue in mid-transfer end or
\* hold the session, and the others find no transfer.
LEMMA ControlKeeps == Disciplined /\ TypeOK /\ TearingInv /\ Control => TearingInv'
<1> SUFFICES ASSUME Disciplined, TypeOK, TearingInv, Control PROVE TearingInv'
  OBVIOUS
<1> USE DEF TearingInv, Started, client, card
<1>1. CASE InitChannel
  <2>1. xferPhase = "idle" /\ xferPhase' = "idle" /\ state' = "INIT"
        /\ (\A f \in Frames : validCount'[f] = 0)
    BY <1>1 DEF InitChannel, MayIssue, Disciplined
  <2> QED BY <2>1 DEF NothingBeforeRunning, RegisterInStep, CardInStep, SomethingToFetch, ReadingHeld
<1>2. CASE Start
  <2>1. xferPhase = "idle" /\ (\A f \in Frames : validCount[f] = 0)
    BY <1>2 DEF Start, NothingBeforeRunning
  <2>2. state' = "STARTING" /\ inputFrame' = activeFrame' /\ capturing' = InvalidFrame
        /\ validCount' = validCount /\ xferPhase' = xferPhase
    BY <1>2 DEF Start
  <2> QED BY <2>1, <2>2 DEF NothingBeforeRunning, RegisterInStep, CardInStep, SomethingToFetch, ReadingHeld
<1>3. CASE Stop \/ Abort
  <2>1. state' \in {"STOPPING", "DISABLED"}
    BY <1>3 DEF Stop, Abort, SetState
  <2> QED BY <2>1 DEF NothingBeforeRunning, RegisterInStep, CardInStep, SomethingToFetch, ReadingHeld
<1>4. CASE Pause
  BY <1>4 DEF Pause, SetState, NothingBeforeRunning, RegisterInStep, CardInStep,
              SomethingToFetch, ReadingHeld
<1>5. CASE Resume
  <2>1. xferPhase = "idle"
    BY <1>5 DEF Resume, MayIssue, Disciplined
  <2> QED BY <1>5, <2>1 DEF Resume, NothingBeforeRunning, RegisterInStep, CardInStep,
                            SomethingToFetch, ReadingHeld
<1>6. CASE Flush
  <2>1. xferPhase = "idle"
    BY <1>6 DEF Flush, MayIssue, Disciplined
  <2>2. \A f \in Frames : validCount'[f] \in {0, validCount[f]}
    <3>1. PICK S : validCount' = [f \in Frames |-> IF f \in S THEN 0 ELSE validCount[f]]
      BY <1>6 DEF Flush
    <3> QED BY <3>1
  <2>3. UNCHANGED <<state, activeFrame, inputFrame, capturing, irq, xferPhase>>
    BY <1>6 DEF Flush
  <2>4. RegisterInStep'
    BY <2>2, <2>3 DEF RegisterInStep, TypeOK
  <2> QED BY <2>1, <2>2, <2>3, <2>4 DEF NothingBeforeRunning, CardInStep, SomethingToFetch, ReadingHeld
<1> QED BY <1>1, <1>2, <1>3, <1>4, <1>5, <1>6 DEF Control

\* The client's thread: a poll that succeeds saw a settled frame, a search
\* returns one, and nothing but its own completion takes the picture away.
LEMMA TransferKeeps == Disciplined /\ TypeOK /\ TearingInv /\ Transfer => TearingInv'
<1> SUFFICES ASSUME Disciplined, TypeOK, TearingInv, Transfer PROVE TearingInv'
  OBVIOUS
<1>1. UNCHANGED <<state, activeFrame, inputFrame, capturing, irq>>
  BY DEF Transfer, Poll, TransferCheck, TransferFind, TransferComplete, TransferFail,
         TransferForfeit, driver, card
<1>2. CardInStep'
  BY <1>1 DEF TearingInv, CardInStep, Started
<1>3. CASE Poll
  <2>1. BufferLevel >= 1 /\ validCount' = validCount /\ xferPhase' = "polled"
    <3>1. BufferLevel \in Int
      BY AheadIsDistance, FirstBackNearest, StepsInRing, RangeAssumption DEF BufferLevel, TypeOK, Started
    <3>2. BufferLevel >= MinLevel /\ validCount' = validCount /\ xferPhase' = "polled"
      BY <1>3 DEF Poll, driver
    <3> HIDE DEF BufferLevel
    <3> QED BY <3>1, <3>2, CaptureAssumption DEF Disciplined
  <2>2. /\ state = "RUNNING" /\ PrevFrame(activeFrame) \in HeldFrames
        /\ PrevFrame(activeFrame) # activeFrame
    BY <2>1, LevelMeansRecorded
  <2>3. PrevFrame(activeFrame) # inputFrame
    BY <2>2 DEF TearingInv, RegisterInStep, Started, HeldFrames
  <2>4. Settled' # {}
    BY <1>1, <2>1, <2>2, <2>3 DEF Settled, HeldFrames
  <2> QED BY <1>1, <1>2, <2>1, <2>2, <2>4 DEF TearingInv, NothingBeforeRunning, RegisterInStep,
                                         SomethingToFetch, ReadingHeld, Started
<1>4. CASE TransferCheck
  <2>1. /\ xferPhase = "polled" /\ validCount' = validCount
        /\ xferPhase' = IF state \in {"RUNNING", "STARTING"} THEN "checked" ELSE "idle"
    BY <1>4 DEF TransferCheck, driver
  <2> QED BY <1>1, <1>2, <2>1 DEF TearingInv, NothingBeforeRunning, RegisterInStep,
                                  SomethingToFetch, ReadingHeld, Settled, Started
<1>5. CASE TransferFind
  <2>1. xferPhase = "checked" /\ xferPhase' = "reading" /\ validCount' = validCount
    BY <1>5 DEF TransferFind, driver
  <2>2. ASSUME state = "RUNNING" PROVE xferFrame' \in Settled
    <3>1. FindNextAvail \in Settled
      BY <2>1, <2>2, FindReturnsSettled DEF TearingInv, SomethingToFetch
    <3>2. FindNextAvail # InvalidFrame
      BY <3>1, FramesAreNats DEF Settled
    <3> QED BY <1>5, <3>1, <3>2 DEF TransferFind, Disciplined
  <2> QED BY <1>1, <1>2, <2>1, <2>2 DEF TearingInv, NothingBeforeRunning, RegisterInStep,
                                  SomethingToFetch, ReadingHeld, Settled, Started
<1>6. CASE TransferComplete \/ TransferForfeit \/ TransferFail
  <2>1. xferPhase = "reading" /\ xferPhase' = "idle"
    BY <1>6 DEF TransferComplete, TransferForfeit, TransferFail
  <2>2. \A f \in Frames : validCount'[f] \in {0, validCount[f]}
    BY <1>6 DEF TransferComplete, TransferForfeit, TransferFail, driver, TypeOK
  <2>3. RegisterInStep'
    BY <1>1, <2>2 DEF TearingInv, RegisterInStep, TypeOK, Started
  <2> QED BY <1>1, <1>2, <2>1, <2>2, <2>3 DEF TearingInv, NothingBeforeRunning,
                                            SomethingToFetch, ReadingHeld
<1> QED BY <1>3, <1>4, <1>5, <1>6 DEF Transfer

\* In every behaviour of a disciplined client the invariant holds.
LEMMA TearingHolds == ASSUME Disciplined PROVE Spec => []TearingInv
<1>1. Init => TearingInv
  BY DEF Init, TearingInv, NothingBeforeRunning, RegisterInStep, CardInStep, SomethingToFetch,
         ReadingHeld, Started
<1>2. TypeOK /\ TearingInv /\ [Next]_vars => TearingInv'
  <2> SUFFICES ASSUME TypeOK, TearingInv, [Next]_vars PROVE TearingInv'
    OBVIOUS
  <2>1. CASE Next
    BY <2>1, CardKeeps, IsrKeeps, ControlKeeps, TransferKeeps DEF Next
  <2>2. CASE UNCHANGED vars
    BY <2>2 DEF TearingInv, NothingBeforeRunning, RegisterInStep, CardInStep, SomethingToFetch,
                ReadingHeld, Settled, Started, vars, driver, client, card
  <2> QED BY <2>1, <2>2
<1> QED BY <1>1, <1>2, TypeCorrect, PTL DEF Spec

\* No tearing in capture: with a disciplined client, the frame a transfer is
\* reading while the channel runs is never the one the card writes nor the one
\* in the register, on a ring of any size.
THEOREM NoTearing == ASSUME Disciplined PROVE Spec => []NoReadUnderCapture
BY TypeCorrect, TearingHolds, TearingSuffices, PTL
-----------------------------------------------------------------------------
(* Drops only when the ring is full.                                       *)

\* The recorded frames lie without a gap behind the active one.
NoGapBehind ==
  state = "RUNNING" =>
    \A f, g \in Frames :
      (f # activeFrame /\ Ahead(f, activeFrame) < Ahead(g, activeFrame) /\ validCount[g] # 0)
        => validCount[f] # 0

\* A transfer reads the oldest of them.
OldestIsRead ==
  (state = "RUNNING" /\ xferPhase = "reading") =>
    \A g \in Frames :
      Ahead(xferFrame, activeFrame) < Ahead(g, activeFrame) => validCount[g] = 0

\* Nobody holds the session, which would leave an unmarked frame behind.
NeverHeld == state # "PAUSED"

FullInv == NoGapBehind /\ OldestIsRead /\ NeverHeld

\* A running channel marks the frame it leaves: what is recorded then follows
\* the frame in the register without a gap, and what a transfer reads is still
\* the oldest.
LEMMA MarkedWithoutGap ==
  ASSUME TypeOK, TearingInv, FullInv, state = "RUNNING"
  PROVE  /\ \A f, g \in Frames :
              (f # inputFrame /\ Ahead(f, inputFrame) < Ahead(g, inputFrame) /\ Recorded[g] # 0)
                => Recorded[f] # 0
         /\ xferPhase = "reading" =>
              \A g \in Frames :
                Ahead(xferFrame, inputFrame) < Ahead(g, inputFrame) => Recorded[g] = 0
<1> DEFINE a == activeFrame
           o == inputFrame
<1>1. /\ a \in Frames /\ o \in Frames
      /\ validCount \in [Frames -> 0 .. MaxReps]
      /\ o = a \/ (o = NextFrame(a) /\ validCount[o] = 0)
  BY DEF TypeOK, Started, TearingInv, RegisterInStep
<1>2. /\ Recorded[a] # 0
      /\ \A f \in Frames : f # a => Recorded[f] = validCount[f]
  BY <1>1, CaptureAssumption DEF Recorded
<1>3. \A f \in Frames : Ahead(f, a) \in Nat /\ Ahead(f, o) \in Nat
                         /\ (Ahead(f, a) = 0 <=> f = a) /\ (Ahead(f, o) = 0 <=> f = o)
  BY <1>1, AheadIsDistance, RangeAssumption
<1>4. \A f, g \in Frames :
        (f # a /\ Ahead(f, a) < Ahead(g, a) /\ validCount[g] # 0) => validCount[f] # 0
  BY DEF FullInv, NoGapBehind
<1>5. \A f, g \in Frames :
        Ahead(f, o) < Ahead(g, o) /\ f # o => Ahead(f, a) < Ahead(g, a)
  <2>1. CASE o = a
    BY <2>1
  <2>2. CASE o = NextFrame(a)
    <3>1. \A f \in Frames : Ahead(f, o) = IF f = o THEN 0 ELSE Ahead(f, a) + 1
      BY <1>1, <2>2, BehindNext
    <3> HIDE DEF o, a
    <3> QED BY <1>3, <3>1
  <2> QED BY <1>1, <2>1, <2>2
<1>6. ASSUME NEW f \in Frames, NEW g \in Frames, f # o,
             Ahead(f, o) < Ahead(g, o), Recorded[g] # 0
      PROVE  Recorded[f] # 0
  <2>1. Ahead(f, a) < Ahead(g, a)
    BY <1>5, <1>6
  <2>2. g # a
    BY <1>1, <1>3, <1>6, <2>1
  <2> QED BY <1>2, <1>4, <1>6, <2>1, <2>2
<1>7. ASSUME xferPhase = "reading", NEW g \in Frames, Ahead(xferFrame, o) < Ahead(g, o)
      PROVE  Recorded[g] = 0
  <2>1. xferFrame \in Frames /\ xferFrame # a /\ xferFrame # o
    BY <1>7 DEF TearingInv, ReadingHeld, Settled
  <2>2. Ahead(xferFrame, a) < Ahead(g, a)
    BY <1>5, <1>7, <2>1
  <2>3. g # a
    BY <1>1, <1>3, <2>1, <2>2
  <2> QED BY <1>2, <1>7, <2>2, <2>3 DEF FullInv, OldestIsRead
<1> QED BY <1>6, <1>7

\* Every interrupt keeps the recorded frames without a gap.
LEMMA IsrFull ==
  ASSUME TypeOK, TearingInv, FullInv, Isr
  PROVE  FullInv'
<1>1. UNCHANGED <<xferPhase, xferFrame>> /\ state # "PAUSED"
  BY DEF Isr, client, FullInv, NeverHeld
<1>2. CASE IsrIdle \/ IsrStopping
  <2>1. state' \notin {"RUNNING", "PAUSED"}
    BY <1>2 DEF IsrIdle, IsrStopping, driver
  <2> QED BY <2>1 DEF FullInv, NoGapBehind, OldestIsRead, NeverHeld
<1>3. CASE IsrStarting
  <2>1. inputFrame \in Frames /\ activeFrame' = inputFrame /\ state' # "PAUSED"
    BY <1>3, IntoRangeInRing DEF IsrStarting, TypeOK, Started
  <2>2. \A f \in Frames : validCount'[f] = 0
    BY <1>3, <2>1 DEF TearingInv, NothingBeforeRunning, IsrStarting, TypeOK
  <2> QED BY <2>1, <2>2 DEF FullInv, NoGapBehind, OldestIsRead, NeverHeld
<1>4. CASE IsrRunning \/ IsrTooFast
  <2>1. /\ state = "RUNNING" /\ state' = "RUNNING"
        /\ inputFrame \in Frames /\ activeFrame' = inputFrame
    BY <1>4, IntoRangeInRing DEF IsrRunning, IsrTooFast, TypeOK, Started
  <2>2. Recorded \in [Frames -> 0 .. MaxReps]
    BY RecordedTypes
  <2>3. \A f \in Frames : f # inputFrame => validCount'[f] = Recorded[f]
    BY <1>4, <2>1, <2>2 DEF IsrRunning, IsrTooFast
  <2>4. /\ \A f, g \in Frames :
             (f # inputFrame /\ Ahead(f, inputFrame) < Ahead(g, inputFrame) /\ Recorded[g] # 0)
                => Recorded[f] # 0
        /\ xferPhase = "reading" =>
              \A g \in Frames :
                Ahead(xferFrame, inputFrame) < Ahead(g, inputFrame) => Recorded[g] = 0
    BY <2>1, MarkedWithoutGap
  <2>5. \A f \in Frames : ~(Ahead(f, inputFrame) < Ahead(inputFrame, inputFrame))
    BY <2>1, AheadIsDistance, RangeAssumption
  <2>6. NoGapBehind'
    BY <2>1, <2>3, <2>4, <2>5 DEF NoGapBehind
  <2>7. OldestIsRead'
    <3> SUFFICES ASSUME xferPhase = "reading", NEW g \in Frames,
                        Ahead(xferFrame, inputFrame) < Ahead(g, inputFrame)
                 PROVE  validCount'[g] = 0
      BY <1>1, <2>1 DEF OldestIsRead
    <3>1. xferFrame \in Frames
      BY DEF TypeOK
    <3> QED BY <2>3, <2>4, <2>5, <3>1
  <2> QED BY <2>1, <2>6, <2>7 DEF FullInv, NeverHeld
<1> QED BY <1>1, <1>2, <1>3, <1>4 DEF Isr, IsrPaused

\* A flush goes back from the register to the first empty frame, and so takes
\* all that is recorded or nothing.
LEMMA FlushKeepsOrder ==
  ASSUME TypeOK, TearingInv, FullInv, Flush
  PROVE  NoGapBehind'
<1> DEFINE a == activeFrame
           from == inputFrame
           stop == FirstBack(PrevFrame(from), {f \in Frames : validCount[f] = 0 \/ f = from})
           cleared == {f \in Frames \ {from} :
                         stop = from \/ Ahead(f, from) < Ahead(stop, from)}
<1> SUFFICES ASSUME state = "RUNNING", NEW f \in Frames, NEW g \in Frames, f # a,
                    Ahead(f, a) < Ahead(g, a), validCount'[g] # 0
             PROVE  validCount'[f] # 0
  BY DEF NoGapBehind, Flush
<1>1. /\ a \in Frames /\ from \in Frames
      /\ from = a \/ (from = NextFrame(a) /\ validCount[from] = 0)
  BY DEF TypeOK, Started, TearingInv, RegisterInStep
<1>2. IntoRange(from) = from
  BY <1>1, IntoRangeInRing
<1>3. validCount' = [h \in Frames |-> IF h \in cleared THEN 0 ELSE validCount[h]]
  BY <1>2 DEF Flush
<1> HIDE DEF cleared
<1>4. validCount[g] # 0 /\ g \notin cleared
  BY <1>3
<1>5. validCount[f] # 0
  BY <1>4 DEF FullInv, NoGapBehind
<1>6. PrevFrame(from) \in Frames
  BY <1>1, StepsInRing
<1>7. stop \in Frames /\ (validCount[stop] = 0 \/ stop = from)
  BY <1>1, <1>6, FirstBackNearest
<1> HIDE DEF stop
<1>8. \A h \in Frames : Ahead(h, a) \in Nat /\ Ahead(h, from) \in Nat
                         /\ (Ahead(h, a) = 0 <=> h = a) /\ (Ahead(h, from) = 0 <=> h = from)
  BY <1>1, AheadIsDistance, RangeAssumption
<1>9. \A h \in Frames : Ahead(h, from) = IF from = a \/ h = from THEN Ahead(h, from)
                                          ELSE Ahead(h, a) + 1
  BY <1>1, BehindNext
<1>10. g # from
  BY <1>1, <1>4, <1>8
<1>11. ASSUME f \in cleared PROVE FALSE
  <2>1. stop # from /\ Ahead(f, from) < Ahead(stop, from) /\ f # from
    BY <1>4, <1>10, <1>11 DEF cleared
  <2>2. ~(Ahead(g, from) < Ahead(stop, from))
    BY <1>4, <1>10 DEF cleared
  <2>3. Ahead(f, a) < Ahead(stop, a)
    BY <1>1, <1>7, <1>8, <1>9, <2>1
  <2>4. stop # g /\ validCount[stop] = 0
    BY <1>4, <1>7, <2>1
  <2>5. ~(Ahead(g, a) < Ahead(stop, a))
    BY <1>7, <1>8, <1>9, <1>10, <2>1, <2>2
  <2>6. Ahead(stop, a) # Ahead(g, a)
    BY <1>1, <1>7, <2>4, SameDistance
  <2>7. stop # a
    BY <1>1, <1>7, <1>8, <2>3
  <2>8. Ahead(stop, a) < Ahead(g, a)
    BY <1>7, <1>8, <2>5, <2>6
  <2> QED BY <1>4, <1>7, <2>4, <2>7, <2>8 DEF FullInv, NoGapBehind
<1> QED BY <1>3, <1>5, <1>11

\* The commands: a session begins with nothing recorded, and a flush is only
\* given when nothing is being transferred.
LEMMA ControlFull ==
  ASSUME Disciplined, "pause" \notin Used, TypeOK, TearingInv, FullInv, Control
  PROVE  FullInv'
<1>1. CASE InitChannel \/ Start \/ Stop \/ Abort
  <2>1. state' \in {"INIT", "STARTING", "STOPPING", "DISABLED"}
    BY <1>1 DEF InitChannel, Start, Stop, Abort, SetState
  <2> QED BY <2>1 DEF FullInv, NoGapBehind, OldestIsRead, NeverHeld
<1>2. ~Pause /\ ~Resume
  BY DEF Pause, Resume, MayIssue, FullInv, NeverHeld
<1>3. CASE Flush
  <2>1. xferPhase' = "idle" /\ state' = state
    BY <1>3 DEF Flush, MayIssue, Disciplined, client
  <2>2. NoGapBehind'
    BY <1>3, FlushKeepsOrder
  <2> QED BY <2>1, <2>2 DEF FullInv, OldestIsRead, NeverHeld
<1> QED BY <1>1, <1>2, <1>3 DEF Control

\* What the search returns is the oldest recorded frame: nothing further
\* behind the active frame is recorded.
LEMMA FindsOldest ==
  ASSUME TypeOK, TearingInv, state = "RUNNING", Settled # {}, NEW g \in Frames,
         Ahead(FindNextAvail, activeFrame) < Ahead(g, activeFrame)
  PROVE  validCount[g] = 0
<1> DEFINE next == NextFrame(activeFrame)
           n == FirstFrom(next, HeldFrames)
<1>1. activeFrame \in Frames /\ HeldFrames \in SUBSET Frames /\ next \in Frames
  BY StepsInRing DEF TypeOK, Started, HeldFrames
<1>2. FindNextAvail = n
  BY <1>1 DEF FindNextAvail, HeldFrames
<1>3. HeldFrames # {}
  BY DEF HeldFrames, Settled
<1>4. n \in Frames
  BY <1>1, <1>3, FirstFromNearest
<1> HIDE DEF n
<1>5. /\ Ahead(n, activeFrame) = EndFrame - StartFrame - Ahead(next, n)
      /\ Ahead(g, activeFrame) = EndFrame - StartFrame - Ahead(next, g)
  BY <1>1, <1>4, AheadIsBehind
<1>6. Ahead(next, n) \in Int /\ Ahead(next, g) \in Int
  BY <1>1, <1>4, AheadIsDistance
<1> HIDE DEF next
<1>7. Ahead(next, g) < Ahead(next, n)
  BY <1>2, <1>5, <1>6, RangeAssumption
<1>8. g \notin HeldFrames
  BY <1>1, <1>3, <1>7, PassedOver DEF n
<1>9. validCount[g] \in Nat
  BY DEF TypeOK
<1> QED BY <1>8, <1>9 DEF HeldFrames

\* The client's thread takes the pictures from the oldest on.
LEMMA TransferFull ==
  ASSUME Disciplined, TypeOK, TearingInv, FullInv, Transfer
  PROVE  FullInv'
<1>1. UNCHANGED <<state, activeFrame>>
  BY DEF Transfer, Poll, TransferCheck, TransferFind, TransferComplete, TransferFail,
         TransferForfeit, driver
<1>2. CASE Poll \/ TransferCheck \/ TransferFail
  <2>1. validCount' = validCount /\ xferPhase' # "reading"
    BY <1>2 DEF Poll, TransferCheck, TransferFail, driver
  <2> QED BY <1>1, <2>1 DEF FullInv, NoGapBehind, OldestIsRead, NeverHeld
<1>3. CASE TransferFind
  <2>1. validCount' = validCount
    BY <1>3 DEF TransferFind, driver
  <2>2. ASSUME state = "RUNNING", NEW g \in Frames,
               Ahead(xferFrame', activeFrame) < Ahead(g, activeFrame)
        PROVE  validCount[g] = 0
    <3>1. Settled # {}
      BY <1>3, <2>2 DEF TransferFind, TearingInv, SomethingToFetch
    <3>2. FindNextAvail \in Settled
      BY <2>2, <3>1, FindReturnsSettled DEF TearingInv
    <3>3. FindNextAvail # InvalidFrame
      BY <3>2, FramesAreNats DEF Settled
    <3>4. xferFrame' = FindNextAvail
      BY <1>3, <3>3 DEF TransferFind, Disciplined
    <3> QED BY <2>2, <3>1, <3>4, FindsOldest
  <2> QED BY <1>1, <2>1, <2>2 DEF FullInv, NoGapBehind, OldestIsRead, NeverHeld
<1>4. CASE TransferComplete \/ TransferForfeit
  <2>1. xferPhase = "reading" /\ xferPhase' = "idle"
    BY <1>4 DEF TransferComplete, TransferForfeit
  <2>2. validCount' = [validCount EXCEPT ![xferFrame] = 0]
    BY <1>4 DEF TransferComplete, TransferForfeit
  <2>3. ASSUME state = "RUNNING", NEW f \in Frames, NEW g \in Frames, f # activeFrame,
               Ahead(f, activeFrame) < Ahead(g, activeFrame), validCount'[g] # 0
        PROVE  validCount'[f] # 0
    <3>1. validCount[g] # 0
      BY <2>2, <2>3 DEF TypeOK
    <3>2. validCount[f] # 0
      BY <2>3, <3>1 DEF FullInv, NoGapBehind
    <3>3. f # xferFrame
      BY <2>1, <2>3, <3>1 DEF FullInv, OldestIsRead
    <3> QED BY <2>2, <3>2, <3>3 DEF TypeOK
  <2> QED BY <1>1, <2>1, <2>3 DEF FullInv, NoGapBehind, OldestIsRead, NeverHeld
<1> QED BY <1>2, <1>3, <1>4 DEF Transfer

\* The card and the clock touch none of it.
LEMMA CardFull ==
  ASSUME FullInv, Vbi \/ StartTimeReached
  PROVE  FullInv'
<1>1. UNCHANGED <<state, activeFrame, validCount, xferPhase, xferFrame>>
  BY DEF Vbi, StartTimeReached, driver, client
<1> QED BY <1>1 DEF FullInv, NoGapBehind, OldestIsRead, NeverHeld

\* The ISR counts a drop when the frame after the one in the register is taken;
\* that frame is the furthest behind, and so every other one is taken too.
LEMMA DropWhenFull ==
  ASSUME TypeOK, TearingInv, FullInv, Isr, droppedFrames' # droppedFrames, NEW f \in Frames
  PROVE  validCount'[f] # 0
<1> DEFINE o == inputFrame
<1>1. IsrRunning
  BY DEF Isr, IsrIdle, IsrStopping, IsrPaused, IsrStarting, IsrTooFast, driver
<1>2. state = "RUNNING" /\ o \in Frames /\ activeFrame' = o
  BY <1>1, IntoRangeInRing DEF IsrRunning, TypeOK, Started
<1>3. /\ Recorded[NextFrame(o)] # 0
      /\ validCount' = [Recorded EXCEPT ![o] = IF @ < MaxReps THEN @ + 1 ELSE @]
  BY <1>1, <1>2 DEF IsrRunning
<1>4. Recorded \in [Frames -> 0 .. MaxReps]
  BY RecordedTypes
<1>5. CASE f = o
  <2>1. Recorded[o] \in 0 .. MaxReps
    BY <1>2, <1>4
  <2>2. (IF Recorded[o] < MaxReps THEN Recorded[o] + 1 ELSE Recorded[o]) # 0
    BY <2>1, CaptureAssumption
  <2> QED BY <1>2, <1>3, <1>4, <1>5, <2>2
<1>6. CASE f # o
  <2>1. NextFrame(o) \in Frames
    BY <1>2, StepsInRing
  <2>2. /\ Ahead(f, o) \in 0 .. EndFrame - StartFrame
        /\ Ahead(NextFrame(o), o) = EndFrame - StartFrame
        /\ Ahead(f, o) = EndFrame - StartFrame => f = NextFrame(o)
    BY <1>2, AheadIsDistance, BehindNext
  <2>3. f = NextFrame(o) \/ Ahead(f, o) < Ahead(NextFrame(o), o)
    BY <2>2, RangeAssumption
  <2>4. Recorded[f] # 0
    BY <1>2, <1>3, <1>6, <2>1, <2>3, MarkedWithoutGap
  <2> QED BY <1>3, <1>4, <1>6, <2>4
<1> QED BY <1>5, <1>6

\* A drop is only counted when every frame of the ring is taken, whatever its
\* size and however the interrupts fall, as long as the session is never held:
\* a pause leaves the frame the card was writing unmarked among recorded ones.
THEOREM DropsOnlyWhenFull ==
  ASSUME Disciplined, "pause" \notin Used
  PROVE  Spec => DropOnlyWhenFull
<1>1. Init => FullInv
  BY DEF Init, FullInv, NoGapBehind, OldestIsRead, NeverHeld
<1>2. TypeOK /\ TearingInv /\ FullInv /\ [Next]_vars => FullInv'
  <2> SUFFICES ASSUME TypeOK, TearingInv, FullInv, [Next]_vars PROVE FullInv'
    OBVIOUS
  <2>1. CASE Next
    BY <2>1, CardFull, IsrFull, ControlFull, TransferFull DEF Next
  <2>2. CASE UNCHANGED vars
    BY <2>2 DEF FullInv, NoGapBehind, OldestIsRead, NeverHeld, vars, driver, client
  <2> QED BY <2>1, <2>2
<1>3. TypeOK /\ TearingInv /\ FullInv /\ [Next]_vars =>
        [ (Isr /\ droppedFrames' # droppedFrames) => \A f \in Frames : validCount'[f] # 0 ]_vars
  BY DropWhenFull
<1> QED BY <1>1, <1>2, <1>3, TypeCorrect, TearingHolds, PTL DEF Spec, DropOnlyWhenFull
-----------------------------------------------------------------------------
(* Sets of frames in the order of the ring.                                *)

\* How many members of S come before frame f.
Rank(S, a, f) == Cardinality(Before(S, a, f))

\* The frames of a ring are finitely many.
LEMMA FramesAreFinite ==
  ASSUME NEW S \in SUBSET Frames
  PROVE  IsFiniteSet(S) /\ Cardinality(S) \in Nat
<1>1. IsFiniteSet(Frames)
  BY FS_Interval, RangeAssumption DEF Frames
<1> QED BY <1>1, FS_Subset, FS_CardinalityType

\* Every member has its own place: the ranks of the members are 0 to the
\* number of members less one, each once.
LEMMA Ranks ==
  ASSUME NEW a \in Frames, NEW S \in SUBSET Frames
  PROVE  /\ \A f \in S : Rank(S, a, f) \in 0 .. Cardinality(S) - 1
         /\ \A f, g \in S : Rank(S, a, f) = Rank(S, a, g) => f = g
         /\ \A f, g \in S : Rank(S, a, f) < Rank(S, a, g) <=> Ahead(a, f) < Ahead(a, g)
         /\ \A k \in 0 .. Cardinality(S) - 1 : \E f \in S : Rank(S, a, f) = k
<1> DEFINE n == Cardinality(S)
           r == [f \in S |-> Rank(S, a, f)]
<1>1. IsFiniteSet(S) /\ n \in Nat
  BY FramesAreFinite
<1>2. \A f \in S : Before(S, a, f) \in SUBSET S /\ Rank(S, a, f) \in Nat
  <2>1. \A f \in S : Before(S, a, f) \in SUBSET S /\ Before(S, a, f) \in SUBSET Frames
    BY DEF Before
  <2> QED BY <2>1, FramesAreFinite DEF Rank
<1>3. \A f \in S : Ahead(a, f) \in Int
  BY AheadIsDistance
<1>4. ASSUME NEW f \in S, NEW T \in SUBSET S, Before(S, a, f) \subseteq T, f \in T
      PROVE  Rank(S, a, f) < Cardinality(T)
  <2>1. f \notin Before(S, a, f)
    BY <1>3 DEF Before
  <2>2. IsFiniteSet(Before(S, a, f)) /\ IsFiniteSet(T) /\ Cardinality(T) \in Nat
    <3>1. Before(S, a, f) \in SUBSET Frames /\ T \in SUBSET Frames
      BY <1>2
    <3> QED BY <3>1, FramesAreFinite
  <2>3. /\ IsFiniteSet(Before(S, a, f) \cup {f})
        /\ Cardinality(Before(S, a, f) \cup {f}) = Rank(S, a, f) + 1
    BY <2>1, <2>2, FS_AddElement DEF Rank
  <2>4. Before(S, a, f) \cup {f} \in SUBSET T
    BY <1>4
  <2>5. Cardinality(Before(S, a, f) \cup {f}) <= Cardinality(T)
    BY <2>2, <2>4, FS_Subset
  <2> QED BY <1>2, <2>2, <2>3, <2>5
<1>5. \A f \in S : Rank(S, a, f) \in 0 .. n - 1
  <2> SUFFICES ASSUME NEW f \in S PROVE Rank(S, a, f) \in 0 .. n - 1
    OBVIOUS
  <2>1. Rank(S, a, f) < n
    BY <1>2, <1>4
  <2> QED BY <1>1, <1>2, <2>1
<1>6. \A f, g \in S : Ahead(a, f) < Ahead(a, g) => Rank(S, a, f) < Rank(S, a, g)
  <2> SUFFICES ASSUME NEW f \in S, NEW g \in S, Ahead(a, f) < Ahead(a, g)
               PROVE  Rank(S, a, f) < Rank(S, a, g)
    OBVIOUS
  <2>1. Before(S, a, f) \subseteq Before(S, a, g) /\ f \in Before(S, a, g)
    BY <1>3 DEF Before
  <2> QED BY <1>2, <1>4, <2>1 DEF Rank
<1>7. \A f, g \in S : Ahead(a, f) = Ahead(a, g) => f = g
  BY SameDistance
<1>8. /\ \A f, g \in S : Rank(S, a, f) = Rank(S, a, g) => f = g
      /\ \A f, g \in S : Rank(S, a, f) < Rank(S, a, g) <=> Ahead(a, f) < Ahead(a, g)
  BY <1>2, <1>3, <1>6, <1>7
<1>9. \A k \in 0 .. n - 1 : \E f \in S : Rank(S, a, f) = k
  <2>1. r \in Injection(S, 0 .. n - 1)
    <3>1. r \in [S -> 0 .. n - 1] /\ (\A f, g \in S : r[f] = r[g] => f = g)
      BY <1>5, <1>8
    <3> HIDE DEF r
    <3> QED BY <3>1 DEF Injection, IsInjective
  <2>2. IsFiniteSet(0 .. n - 1) /\ Cardinality(0 .. n - 1) = n
    BY <1>1, FS_Interval
  <2>3. r \in Surjection(S, 0 .. n - 1)
    BY <2>1, <2>2, FS_Injection
  <2>4. \A k \in 0 .. n - 1 : \E f \in S : r[f] = k
    <3> HIDE DEF r
    <3> QED BY <2>3 DEF Surjection
  <2> QED BY <2>4
<1> QED BY <1>5, <1>8, <1>9

\* InOrder lists every member once, nearest first.
LEMMA Ordered ==
  ASSUME NEW a \in Frames, NEW S \in SUBSET Frames
  PROVE  /\ Cardinality(S) \in Nat
         /\ InOrder(S, a) \in [1 .. Cardinality(S) -> S]
         /\ \A i \in 1 .. Cardinality(S) : Rank(S, a, InOrder(S, a)[i]) = i - 1
         /\ \A f \in S : /\ Rank(S, a, f) + 1 \in 1 .. Cardinality(S)
                        /\ InOrder(S, a)[Rank(S, a, f) + 1] = f
<1> DEFINE n == Cardinality(S)
           s == InOrder(S, a)
<1>1. n \in Nat
  BY FramesAreFinite
<1>2. s = [i \in 1 .. n |-> CHOOSE f \in S : Rank(S, a, f) = i - 1]
  BY DEF InOrder, Rank
<1>3. \A i \in 1 .. n : i - 1 \in 0 .. n - 1
  BY <1>1
<1>4. \A i \in 1 .. n : \E f \in S : Rank(S, a, f) = i - 1
  BY <1>3, Ranks
<1> HIDE DEF n, s
<1>5. \A i \in 1 .. n : s[i] \in S /\ Rank(S, a, s[i]) = i - 1
  BY <1>2, <1>4
<1>6. s \in [1 .. n -> S]
  BY <1>2, <1>5
<1>7. ASSUME NEW f \in S
      PROVE  Rank(S, a, f) + 1 \in 1 .. n /\ s[Rank(S, a, f) + 1] = f
  <2>1. Rank(S, a, f) \in 0 .. n - 1
    BY Ranks DEF n
  <2>2. PICK k \in 0 .. n - 1 : k = Rank(S, a, f)
    BY <2>1
  <2>3. k + 1 \in 1 .. n /\ (k + 1) - 1 = k
    BY <1>1
  <2>4. s[k + 1] \in S /\ Rank(S, a, s[k + 1]) = Rank(S, a, f)
    BY <1>5, <2>2, <2>3
  <2>5. PICK g \in S : g = s[k + 1]
    BY <2>4
  <2>6. Rank(S, a, g) = Rank(S, a, f)
    BY <2>4, <2>5
  <2>7. g = f
    BY <2>6, Ranks
  <2> QED BY <2>2, <2>3, <2>5, <2>7
<1> QED BY <1>1, <1>5, <1>6, <1>7 DEF n, s

\* There is only one such list.
LEMMA OrderedOnce ==
  ASSUME NEW a \in Frames, NEW S \in SUBSET Frames,
         NEW s, s = [i \in 1 .. Cardinality(S) |-> s[i]],
         \A i \in 1 .. Cardinality(S) : s[i] \in S /\ Rank(S, a, s[i]) = i - 1
  PROVE  s = InOrder(S, a)
<1>1. /\ InOrder(S, a) \in [1 .. Cardinality(S) -> S]
      /\ \A i \in 1 .. Cardinality(S) : Rank(S, a, InOrder(S, a)[i]) = i - 1
  BY Ordered
<1>2. \A i \in 1 .. Cardinality(S) : s[i] = InOrder(S, a)[i]
  BY <1>1, Ranks
<1> QED BY <1>1, <1>2

\* The order does not depend on the frame it is counted from, as long as that
\* frame leaves the same of two frames ahead.
LEMMA SameOrder ==
  ASSUME NEW S \in SUBSET Frames, NEW a, NEW b,
         \A f, g \in S : Ahead(a, f) < Ahead(a, g) <=> Ahead(b, f) < Ahead(b, g)
  PROVE  InOrder(S, a) = InOrder(S, b)
<1>1. \A f \in S : Before(S, a, f) = Before(S, b, f)
  BY DEF Before
<1>2. \A k : (CHOOSE f \in S : Cardinality(Before(S, a, f)) = k)
             = (CHOOSE f \in S : Cardinality(Before(S, b, f)) = k)
  BY <1>1
<1> QED BY <1>2 DEF InOrder

\* A frame behind all others comes last.
LEMMA OrderedAppend ==
  ASSUME NEW a \in Frames, NEW S \in SUBSET Frames, NEW x \in Frames \ S,
         \A f \in S : Ahead(a, f) < Ahead(a, x)
  PROVE  /\ Cardinality(S \cup {x}) = Cardinality(S) + 1
         /\ InOrder(S \cup {x}, a) =
              [i \in 1 .. Cardinality(S) + 1 |->
                 IF i = Cardinality(S) + 1 THEN x ELSE InOrder(S, a)[i]]
<1> DEFINE n == Cardinality(S)
           s == InOrder(S, a)
           T == S \cup {x}
           t == [i \in 1 .. n + 1 |-> IF i = n + 1 THEN x ELSE s[i]]
<1>1. /\ n \in Nat /\ s \in [1 .. n -> S]
      /\ \A i \in 1 .. n : Rank(S, a, s[i]) = i - 1
  BY Ordered
<1>2. T \in SUBSET Frames /\ Cardinality(T) = n + 1
  BY FramesAreFinite, FS_AddElement
<1>3. (\A i \in 1 .. n : t[i] = s[i]) /\ t[n + 1] = x
  <2> HIDE DEF s, n
  <2> QED BY <1>1
<1>4. \A f \in Frames : Ahead(a, f) \in Int
  BY AheadIsDistance
<1>5. Before(T, a, x) = S /\ (\A f \in S : Before(T, a, f) = Before(S, a, f))
  BY <1>4 DEF Before
<1>6. Rank(T, a, x) = n /\ (\A f \in S : Rank(T, a, f) = Rank(S, a, f))
  BY <1>5 DEF Rank
<1>7. ASSUME NEW i \in 1 .. n + 1 PROVE t[i] \in T /\ Rank(T, a, t[i]) = i - 1
  <2>1. CASE i = n + 1
    <3> HIDE DEF t, n
    <3> QED BY <1>1, <1>3, <1>6, <2>1
  <2>2. CASE i \in 1 .. n
    <3> HIDE DEF t, n, s
    <3> QED BY <1>1, <1>3, <1>6, <2>2
  <2> QED BY <1>1, <2>1, <2>2
<1>8. t = [i \in 1 .. Cardinality(T) |-> t[i]]
  <2> HIDE DEF n, s
  <2> QED BY <1>2
<1> HIDE DEF n, s, T, t
<1>9. \A i \in 1 .. Cardinality(T) : t[i] \in T /\ Rank(T, a, t[i]) = i - 1
  BY <1>2, <1>7
<1>10. t = InOrder(T, a)
  BY <1>2, <1>8, <1>9, OrderedOnce
<1> QED BY <1>2, <1>10 DEF t, T, s, n

\* Without its nearest member a set is listed from the second on.
LEMMA OrderedTail ==
  ASSUME NEW a \in Frames, NEW S \in SUBSET Frames, NEW x \in S,
         \A f \in S : Ahead(a, x) <= Ahead(a, f)
  PROVE  /\ Cardinality(S) > 0
         /\ InOrder(S, a)[1] = x
         /\ Cardinality(S \ {x}) = Cardinality(S) - 1
         /\ InOrder(S \ {x}, a) =
              [i \in 1 .. Cardinality(S) - 1 |-> InOrder(S, a)[i + 1]]
<1> DEFINE n == Cardinality(S)
           s == InOrder(S, a)
           T == S \ {x}
           t == [i \in 1 .. n - 1 |-> s[i + 1]]
<1>1. /\ n \in Nat /\ s \in [1 .. n -> S]
      /\ \A i \in 1 .. n : Rank(S, a, s[i]) = i - 1
      /\ \A f \in S : Rank(S, a, f) + 1 \in 1 .. n /\ s[Rank(S, a, f) + 1] = f
  BY Ordered
<1>2. IsFiniteSet(S) /\ T \in SUBSET Frames /\ Cardinality(T) = n - 1
  BY FramesAreFinite, FS_RemoveElement
<1>3. \A f \in Frames : Ahead(a, f) \in Int
  BY AheadIsDistance
<1>4. \A f \in T : Ahead(a, x) < Ahead(a, f)
  BY <1>3, SameDistance
<1>5. Before(S, a, x) = {} /\ (\A f \in T : Before(S, a, f) = Before(T, a, f) \cup {x})
  BY <1>3, <1>4 DEF Before
<1>6. Rank(S, a, x) = 0
  BY <1>5, FS_EmptySet DEF Rank
<1>7. n > 0 /\ s[1] = x
  <2> HIDE DEF n, s
  <2> QED BY <1>1, <1>6
<1>8. \A f \in T : Rank(S, a, f) = Rank(T, a, f) + 1 /\ Rank(T, a, f) \in Int
  <2> SUFFICES ASSUME NEW f \in T
               PROVE  Rank(S, a, f) = Rank(T, a, f) + 1 /\ Rank(T, a, f) \in Int
    OBVIOUS
  <2> DEFINE B == Before(T, a, f)
  <2>1. B \in SUBSET Frames /\ x \notin B
    BY DEF Before
  <2>2. IsFiniteSet(B) /\ Cardinality(B) \in Nat
    BY <2>1, FramesAreFinite
  <2>3. Cardinality(B \cup {x}) = Cardinality(B) + 1
    BY <2>1, <2>2, FS_AddElement
  <2>4. Before(S, a, f) = B \cup {x}
    BY <1>5
  <2>5. Rank(S, a, f) = Cardinality(B \cup {x}) /\ Rank(T, a, f) = Cardinality(B)
    BY <2>4 DEF Rank
  <2> HIDE DEF B
  <2> QED BY <2>2, <2>3, <2>5
<1>9. ASSUME NEW i \in 1 .. n - 1 PROVE t[i] \in T /\ Rank(T, a, t[i]) = i - 1
  <2>1. i + 1 \in 1 .. n /\ (i + 1) - 1 = i /\ i # 0 /\ i \in Int
    BY <1>1
  <2>2. t[i] = s[i + 1] /\ s[i + 1] \in S /\ Rank(S, a, s[i + 1]) = i
    BY <1>1, <2>1
  <2> HIDE DEF n, s, t
  <2>3. PICK g \in S : g = t[i]
    BY <2>2
  <2>4. Rank(S, a, g) = i
    BY <2>2, <2>3
  <2>5. g \in T
    BY <1>6, <2>1, <2>4
  <2>6. Rank(T, a, g) = i - 1
    BY <1>8, <2>1, <2>4, <2>5
  <2> QED BY <2>3, <2>5, <2>6
<1>10. t = [i \in 1 .. Cardinality(T) |-> t[i]]
  BY <1>2
<1> HIDE DEF n, s, T, t
<1>11. \A i \in 1 .. Cardinality(T) : t[i] \in T /\ Rank(T, a, t[i]) = i - 1
  BY <1>2, <1>9
<1>12. t = InOrder(T, a)
  BY <1>2, <1>10, <1>11, OrderedOnce
<1> QED BY <1>2, <1>7, <1>12 DEF t, T, s, n

\* The members before some frame are listed first.
LEMMA OrderedPrefix ==
  ASSUME NEW a \in Frames, NEW S \in SUBSET Frames, NEW T \in SUBSET S,
         \A f \in T, g \in S \ T : Ahead(a, f) < Ahead(a, g)
  PROVE  /\ Cardinality(T) \in 0 .. Cardinality(S)
         /\ InOrder(T, a) = [i \in 1 .. Cardinality(T) |-> InOrder(S, a)[i]]
<1>1. T \in SUBSET Frames
  OBVIOUS
<1> DEFINE n == Cardinality(S)
           s == InOrder(S, a)
           m == Cardinality(T)
           t == [i \in 1 .. m |-> s[i]]
<1>2. /\ n \in Nat /\ s \in [1 .. n -> S]
      /\ \A i \in 1 .. n : Rank(S, a, s[i]) = i - 1
      /\ \A f \in S : Rank(S, a, f) + 1 \in 1 .. n /\ s[Rank(S, a, f) + 1] = f
  BY Ordered
<1>3. IsFiniteSet(S) /\ m \in 0 .. n
  BY <1>1, FramesAreFinite, FS_Subset
<1>4. \A f \in Frames : Ahead(a, f) \in Int
  BY AheadIsDistance
<1>5. \A f \in T : Before(S, a, f) = Before(T, a, f)
  BY <1>1, <1>4 DEF Before
<1>6. \A f \in T : Rank(S, a, f) = Rank(T, a, f)
  BY <1>5 DEF Rank
<1>7. ASSUME NEW i \in 1 .. m PROVE t[i] \in T /\ Rank(T, a, t[i]) = i - 1
  <2>1. i - 1 \in 0 .. m - 1 /\ i \in 1 .. n /\ (i - 1) + 1 = i
    <3> HIDE DEF m, n
    <3> QED BY <1>2, <1>3
  <2>2. PICK f \in T : Rank(T, a, f) = i - 1
    BY <1>1, <2>1, Ranks
  <2>3. s[i] = f
    <3>1. s[Rank(S, a, f) + 1] = f
      BY <1>2, <2>2
    <3> HIDE DEF s
    <3> QED BY <1>6, <2>1, <2>2, <3>1
  <2> QED BY <2>2, <2>3
<1>8. t = [i \in 1 .. Cardinality(T) |-> t[i]]
  OBVIOUS
<1> HIDE DEF n, s, m, t
<1>9. t = InOrder(T, a)
  BY <1>1, <1>7, <1>8, OrderedOnce DEF m
<1> QED BY <1>3, <1>9 DEF t, s, m, n

-----------------------------------------------------------------------------
(* The refinement of CaptureQueue.                                         *)

\* What the result needs besides the discipline.  In field mode the transfer of
\* one field may replace the failure of the other.  A Start between a VBI and
\* its interrupt takes a frame for captured that was not.  A pause between the
\* state test of a transfer and its search makes it fetch startFrame.
Orderly == ~FieldMode /\ ~StartOnIrq /\ "pause" \notin Overlap

\* The ISR never marks a frame that the source has not filled.
MarkedIsCaptured ==
  /\ state \in {"RUNNING", "PAUSED"} => content[activeFrame] \in Pictures
  /\ Started /\ irq => content[inputFrame] \in Pictures

\* A transfer fetches the first frame of the queue.
FetchesFirst ==
  (state = "RUNNING" /\ xferPhase = "reading") =>
    \A g \in Ready : Ahead(activeFrame, xferFrame) <= Ahead(activeFrame, g)

\* Nothing is fetched while the session is held.
HeldIdle == state = "PAUSED" => xferPhase = "idle"

FetchInv == MarkedIsCaptured /\ FetchesFirst /\ HeldIdle

\* How an interrupt of a session moves on: the active frame is the one in the
\* register now; if it was not before, the frame left behind is ahead of all
\* others on the ring, and the order of the rest is kept.
LEMMA MovesOn ==
  ASSUME TypeOK, TearingInv, Started
  PROVE  /\ inputFrame \in Frames /\ activeFrame \in Frames
         /\ IntoRange(inputFrame) = inputFrame
         /\ Ready \in SUBSET (Frames \ {activeFrame, inputFrame})
         /\ \A f, g \in Ready : Ahead(activeFrame, f) < Ahead(activeFrame, g)
                               <=> Ahead(inputFrame, f) < Ahead(inputFrame, g)
         /\ inputFrame # activeFrame =>
              \A f \in Ready : Ahead(inputFrame, f) < Ahead(inputFrame, activeFrame)
<1> DEFINE a == activeFrame
           o == inputFrame
<1>1. o \in Frames /\ a \in Frames /\ IntoRange(o) = o
  BY IntoRangeInRing DEF TypeOK, Started
<1>2. o = a \/ (o = NextFrame(a) /\ validCount[o] = 0)
  BY DEF TearingInv, RegisterInStep
<1>3. Ready \in SUBSET (Frames \ {a, o})
  BY <1>2 DEF Ready
<1>4. CASE o = a
  BY <1>1, <1>3, <1>4
<1>5. CASE o = NextFrame(a)
  <2>1. \A f \in Ready : Ahead(o, f) = Ahead(a, f) - 1
    BY <1>1, <1>3, <1>5, AheadFromNext
  <2>2. \A f \in Ready : Ahead(o, f) < Ahead(o, a)
    BY <1>1, <1>3, <1>5, ActiveIsLast
  <2>3. \A f \in Ready : Ahead(a, f) \in Int
    BY <1>1, <1>3, AheadIsDistance
  <2>4. \A f, g \in Ready : Ahead(a, f) < Ahead(a, g) <=> Ahead(o, f) < Ahead(o, g)
    <3> HIDE DEF a, o
    <3> QED BY <2>1, <2>3
  <2> QED BY <1>1, <1>3, <2>2, <2>4
<1> QED BY <1>2, <1>4, <1>5

\* What an interrupt of a session leaves recorded: what was, and the frame it
\* moves off, if it marks that one or it was marked before.
LEMMA IsrReady ==
  ASSUME TypeOK, TearingInv, Isr, IsrRunning \/ IsrTooFast \/ IsrPaused
  PROVE  /\ activeFrame' = inputFrame
         /\ \/ Ready' = Ready
            \/ Ready' = Ready \cup {activeFrame} /\ activeFrame # inputFrame
<1> DEFINE a == activeFrame
           o == inputFrame
<1>1. Started
  BY DEF Started, IsrRunning, IsrTooFast, IsrPaused
<1>2. /\ o \in Frames /\ a \in Frames /\ IntoRange(o) = o
      /\ Ready \in SUBSET (Frames \ {a, o})
  BY <1>1, MovesOn
<1>3. activeFrame' = o
  BY <1>2 DEF IsrRunning, IsrTooFast, IsrPaused
<1>4. \A f \in Frames \ {a, o} : validCount'[f] = validCount[f]
  BY <1>2, <1>3 DEF IsrRunning, IsrTooFast, IsrPaused, Recorded, TypeOK
<1>5. \A f \in Frames : f \in Ready' <=> validCount'[f] # 0 /\ f # o
  BY <1>3 DEF Ready
<1>6. \A f \in Frames \ {a, o} : f \in Ready' <=> f \in Ready
  BY <1>4, <1>5 DEF Ready
<1>7. Ready' \in SUBSET Frames /\ o \notin Ready'
  BY <1>3 DEF Ready
<1>8. Ready' = Ready \/ (Ready' = Ready \cup {a} /\ a # o)
  <2> HIDE DEF a, o
  <2>1. CASE a \in Ready'
    BY <1>2, <1>6, <1>7, <2>1
  <2>2. CASE a \notin Ready'
    BY <1>2, <1>6, <1>7, <2>2
  <2> QED BY <2>1, <2>2
<1> QED BY <1>3, <1>8

\* The card and the clock: a VBI puts a picture into the frame in the register.
LEMMA CardFetches ==
  ASSUME TypeOK, FetchInv, Vbi \/ StartTimeReached
  PROVE  FetchInv'
<1>1. UNCHANGED <<state, activeFrame, inputFrame, validCount, xferPhase, xferFrame>>
  BY DEF Vbi, StartTimeReached, driver, client, card
<1>2. MarkedIsCaptured'
  <2>1. CASE StartTimeReached
    BY <1>1, <2>1 DEF StartTimeReached, card, FetchInv, MarkedIsCaptured, Started
  <2>2. CASE Vbi /\ Started
    <3>1. PICK p \in Pictures : content' = [content EXCEPT ![inputFrame] = p]
      BY <2>2 DEF Vbi
    <3>2. content'[inputFrame] = p /\ content'[activeFrame] \in {p, content[activeFrame]}
      BY <2>2, <3>1 DEF TypeOK
    <3> QED BY <1>1, <3>1, <3>2 DEF FetchInv, MarkedIsCaptured
  <2>3. CASE ~Started
    BY <1>1, <2>3 DEF MarkedIsCaptured, Started
  <2> QED BY <2>1, <2>2, <2>3
<1>3. FetchesFirst' /\ HeldIdle'
  BY <1>1 DEF FetchInv, FetchesFirst, HeldIdle, Ready
<1> QED BY <1>2, <1>3 DEF FetchInv

\* An interrupt makes active a frame that was filled, and adds to the queue
\* behind the one being fetched.
LEMMA IsrFetches ==
  ASSUME TypeOK, TearingInv, FetchInv, Isr
  PROVE  FetchInv'
<1>1. irq /\ ~irq' /\ UNCHANGED <<xferPhase, xferFrame, content>>
  BY DEF Isr, client
<1>2. CASE IsrIdle \/ IsrStopping
  <2>1. state' \in {"DISABLED", "INIT"}
    BY <1>2 DEF IsrIdle, IsrStopping, driver
  <2> QED BY <2>1 DEF FetchInv, MarkedIsCaptured, FetchesFirst, HeldIdle, Started
<1>3. CASE IsrStarting
  <2>1. activeFrame' = inputFrame /\ state' # "PAUSED" /\ Started
    BY <1>3, IntoRangeInRing DEF IsrStarting, TypeOK, Started
  <2>2. content'[activeFrame'] \in Pictures
    BY <1>1, <2>1 DEF FetchInv, MarkedIsCaptured
  <2>3. xferPhase = "idle"
    BY <1>3 DEF TearingInv, NothingBeforeRunning, IsrStarting
  <2> QED BY <1>1, <2>1, <2>2, <2>3 DEF FetchInv, MarkedIsCaptured, FetchesFirst, HeldIdle
<1>4. CASE IsrRunning \/ IsrTooFast \/ IsrPaused
  <2>1. Started /\ state' = state
    BY <1>4 DEF IsrRunning, IsrTooFast, IsrPaused, Started
  <2>2. /\ activeFrame' = inputFrame
        /\ \/ Ready' = Ready
           \/ Ready' = Ready \cup {activeFrame} /\ activeFrame # inputFrame
    BY <1>4, IsrReady
  <2>3. MarkedIsCaptured' /\ HeldIdle'
    BY <1>1, <2>1, <2>2 DEF FetchInv, MarkedIsCaptured, HeldIdle
  <2>4. FetchesFirst'
    <3> DEFINE a == activeFrame
               o == inputFrame
               x == xferFrame
    <3> SUFFICES ASSUME state = "RUNNING", xferPhase = "reading", NEW g \in Ready'
                 PROVE  Ahead(o, x) <= Ahead(o, g)
      BY <1>1, <2>1, <2>2 DEF FetchesFirst
    <3>1. x \in Ready
      BY DEF TearingInv, ReadingHeld, Settled, Ready
    <3>2. /\ o \in Frames /\ a \in Frames /\ Ready \in SUBSET Frames
          /\ \A f, h \in Ready : Ahead(a, f) < Ahead(a, h) <=> Ahead(o, f) < Ahead(o, h)
          /\ o # a => \A f \in Ready : Ahead(o, f) < Ahead(o, a)
      BY <2>1, MovesOn
    <3>3. \A f \in Frames : Ahead(a, f) \in Int /\ Ahead(o, f) \in Int
      BY <3>2, AheadIsDistance
    <3>4. CASE g \in Ready
      <4>1. Ahead(a, x) <= Ahead(a, g)
        BY <3>4 DEF FetchInv, FetchesFirst
      <4> HIDE DEF a, o, x
      <4> QED BY <3>1, <3>2, <3>3, <3>4, <4>1
    <3>5. CASE g \notin Ready
      <4>1. g = a /\ a # o
        BY <2>2, <3>5
      <4> HIDE DEF a, o, x
      <4> QED BY <3>1, <3>2, <3>3, <4>1
    <3> QED BY <3>4, <3>5
  <2> QED BY <2>3, <2>4 DEF FetchInv
<1> QED BY <1>2, <1>3, <1>4 DEF Isr

\* The commands find nothing being fetched, or end the session.
LEMMA ControlFetches ==
  ASSUME Disciplined, Orderly, TypeOK, TearingInv, FetchInv, Control
  PROVE  FetchInv'
<1>1. CASE InitChannel \/ Stop \/ Abort
  <2>1. state' \in {"INIT", "STOPPING", "DISABLED"}
    BY <1>1 DEF InitChannel, Stop, Abort, SetState
  <2> QED BY <2>1 DEF FetchInv, MarkedIsCaptured, FetchesFirst, HeldIdle, Started
<1>2. CASE Start
  <2>1. state' = "STARTING" /\ ~irq'
    BY <1>2 DEF Start, Orderly
  <2> QED BY <2>1 DEF FetchInv, MarkedIsCaptured, FetchesFirst, HeldIdle
<1>3. CASE Pause \/ Resume \/ Flush
  <2>1. xferPhase = "idle" /\ xferPhase' = "idle"
    BY <1>3 DEF Pause, Resume, Flush, SetState, MayIssue, Disciplined, Orderly, client
  <2>2. /\ UNCHANGED <<activeFrame, inputFrame, content, irq>>
        /\ Started' <=> Started
        /\ state' \in {"RUNNING", "PAUSED"} => state \in {"RUNNING", "PAUSED"}
    BY <1>3 DEF Pause, Resume, Flush, SetState, card, Started
  <2> QED BY <2>1, <2>2 DEF FetchInv, MarkedIsCaptured, FetchesFirst, HeldIdle
<1> QED BY <1>1, <1>2, <1>3 DEF Control

\* The search returns the first frame of the queue.
LEMMA FindsFirst ==
  ASSUME TypeOK, TearingInv, state = "RUNNING", Settled # {}
  PROVE  /\ FindNextAvail \in Ready
         /\ \A g \in Ready : Ahead(activeFrame, FindNextAvail) <= Ahead(activeFrame, g)
<1> DEFINE a == activeFrame
           x == FindNextAvail
           n == NextFrame(activeFrame)
<1>1. a \in Frames /\ n \in Frames /\ HeldFrames \in SUBSET Frames
  BY StepsInRing DEF TypeOK, Started, HeldFrames
<1>2. x \in Settled
  BY FindReturnsSettled DEF TearingInv
<1>3. x \in Ready /\ x \in Frames /\ x # a
  BY <1>2 DEF Settled, Ready
<1>4. x = FirstFrom(n, HeldFrames)
  BY <1>1 DEF FindNextAvail, HeldFrames
<1>5. Ready \in SUBSET (HeldFrames \ {a})
  BY DEF Ready, HeldFrames, TypeOK
<1>6. \A g \in HeldFrames : Ahead(n, x) <= Ahead(n, g)
  BY <1>1, <1>3, <1>4, <1>5, FirstFromNearest
<1>7. /\ Ahead(n, x) = Ahead(a, x) - 1 /\ Ahead(a, x) \in Int
      /\ \A g \in Ready : Ahead(n, g) = Ahead(a, g) - 1 /\ Ahead(a, g) \in Int
  BY <1>1, <1>3, <1>5, AheadFromNext, AheadIsDistance
<1>8. ASSUME NEW g \in Ready PROVE Ahead(a, x) <= Ahead(a, g)
  <2> HIDE DEF a, x, n
  <2> QED BY <1>5, <1>6, <1>7
<1> QED BY <1>3, <1>8

\* A transfer fetches what the search returned, while the client holds off the
\* other commands.
LEMMA TransferFetches ==
  ASSUME Disciplined, TypeOK, TearingInv, FetchInv, Transfer
  PROVE  FetchInv'
<1>1. UNCHANGED <<state, activeFrame, inputFrame, content, irq>>
  BY DEF Transfer, Poll, TransferCheck, TransferFind, TransferComplete, TransferFail,
         TransferForfeit, driver, card
<1>2. MarkedIsCaptured'
  BY <1>1 DEF FetchInv, MarkedIsCaptured, Started
<1>3. HeldIdle'
  <2>1. CASE Poll
    <3>1. BufferLevel >= 1
      <4>1. BufferLevel \in Int
        BY AheadIsDistance, FirstBackNearest, StepsInRing, RangeAssumption
           DEF BufferLevel, TypeOK, Started
      <4>2. BufferLevel >= MinLevel
        BY <2>1 DEF Poll
      <4> HIDE DEF BufferLevel
      <4> QED BY <4>1, <4>2, CaptureAssumption DEF Disciplined
    <3> QED BY <1>1, <3>1, LevelMeansRecorded DEF HeldIdle
  <2>2. CASE ~Poll
    <3>1. xferPhase # "idle"
      BY <2>2 DEF Transfer, TransferCheck, TransferFind, TransferComplete, TransferFail,
                  TransferForfeit
    <3> QED BY <1>1, <3>1 DEF FetchInv, HeldIdle
  <2> QED BY <2>1, <2>2
<1>4. FetchesFirst'
  <2>1. CASE TransferFind
    <3> SUFFICES ASSUME state = "RUNNING"
                 PROVE  \A g \in Ready' : Ahead(activeFrame, xferFrame') <= Ahead(activeFrame, g)
      BY <1>1 DEF FetchesFirst
    <3>1. Ready' = Ready
      BY <2>1 DEF TransferFind, driver, Ready
    <3>2. Settled # {}
      BY <2>1 DEF TransferFind, TearingInv, SomethingToFetch
    <3>3. FindNextAvail \in Ready /\ FindNextAvail # InvalidFrame
      BY <3>2, FindsFirst, FramesAreNats DEF Ready
    <3>4. xferFrame' = FindNextAvail
      BY <2>1, <3>3 DEF TransferFind, Disciplined
    <3> QED BY <3>1, <3>2, <3>4, FindsFirst
  <2>2. CASE ~TransferFind
    <3>1. xferPhase' # "reading"
      BY <2>2 DEF Transfer, Poll, TransferCheck, TransferComplete, TransferFail, TransferForfeit
    <3> QED BY <3>1 DEF FetchesFirst
  <2> QED BY <2>1, <2>2
<1> QED BY <1>2, <1>3, <1>4 DEF FetchInv

\* The invariant holds throughout.
LEMMA FetchHolds == ASSUME Disciplined, Orderly PROVE Spec => []FetchInv
<1>1. Init => FetchInv
  BY DEF Init, FetchInv, MarkedIsCaptured, FetchesFirst, HeldIdle, Started
<1>2. TypeOK /\ TearingInv /\ FetchInv /\ [Next]_vars => FetchInv'
  <2> SUFFICES ASSUME TypeOK, TearingInv, FetchInv, [Next]_vars PROVE FetchInv'
    OBVIOUS
  <2>1. CASE Next
    BY <2>1, CardFetches, IsrFetches, ControlFetches, TransferFetches DEF Next
  <2>2. CASE UNCHANGED vars
    BY <2>2 DEF FetchInv, MarkedIsCaptured, FetchesFirst, HeldIdle, Started, Ready, vars, driver,
                client, card
  <2> QED BY <2>1, <2>2
<1> QED BY <1>1, <1>2, TypeCorrect, TearingHolds, PTL DEF Spec

\* The pictures c of the frames of S, in the order they lie ahead of a.
Pictured(c, S, a) == [i \in 1 .. Cardinality(S) |-> c[InOrder(S, a)[i]]]

\* They are a sequence, one for each member.
LEMMA PicturesListed ==
  ASSUME NEW c, NEW a \in Frames, NEW S \in SUBSET Frames
  PROVE  /\ Cardinality(S) \in Nat
         /\ Len(Pictured(c, S, a)) = Cardinality(S)
         /\ Pictured(c, S, a) = << >> <=> S = {}
<1> DEFINE n == Cardinality(S)
           q == Pictured(c, S, a)
<1>1. IsFiniteSet(S) /\ n \in Nat
  BY FramesAreFinite
<1>2. n = 0 <=> S = {}
  BY <1>1, FS_EmptySet
<1>3. q = [i \in 1 .. n |-> q[i]]
  BY DEF Pictured
<1> HIDE DEF n, q
<1>4. Len(q) = n /\ (q = << >> <=> n = 0)
  BY <1>1, <1>3
<1> QED BY <1>1, <1>2, <1>4 DEF n, q

\* Moving on along the ring, or writing to other frames, changes none of it.
LEMMA PicturesStay ==
  ASSUME NEW c, NEW d, NEW a \in Frames, NEW b \in Frames, NEW S \in SUBSET Frames,
         \A f, g \in S : Ahead(a, f) < Ahead(a, g) <=> Ahead(b, f) < Ahead(b, g),
         \A f \in S : c[f] = d[f]
  PROVE  Pictured(c, S, a) = Pictured(d, S, b)
<1>1. InOrder(S, a) = InOrder(S, b)
  BY SameOrder
<1>2. InOrder(S, a) \in [1 .. Cardinality(S) -> S]
  BY Ordered
<1> QED BY <1>1, <1>2 DEF Pictured

\* The frame ahead of all others is the last one.
LEMMA PicturesAppend ==
  ASSUME NEW c, NEW a \in Frames, NEW S \in SUBSET Frames, NEW x \in Frames \ S,
         \A f \in S : Ahead(a, f) < Ahead(a, x)
  PROVE  Pictured(c, S \cup {x}, a) = Append(Pictured(c, S, a), c[x])
<1> DEFINE n == Cardinality(S)
           s == InOrder(S, a)
           t == InOrder(S \cup {x}, a)
           q == Pictured(c, S, a)
<1>1. n \in Nat /\ Len(q) = n
  BY PicturesListed
<1>2. /\ Cardinality(S \cup {x}) = n + 1
      /\ t = [i \in 1 .. n + 1 |-> IF i = n + 1 THEN x ELSE s[i]]
  BY OrderedAppend
<1>3. q = [i \in 1 .. n |-> c[s[i]]]
  BY DEF Pictured
<1>4. Pictured(c, S \cup {x}, a) = [i \in 1 .. n + 1 |-> c[t[i]]]
  BY <1>2 DEF Pictured
<1> HIDE DEF n, s, t, q
<1>5. Append(q, c[x]) = [i \in 1 .. n + 1 |-> IF i = n + 1 THEN c[x] ELSE q[i]]
  BY <1>1, <1>3
<1>6. \A i \in 1 .. n + 1 : c[t[i]] = IF i = n + 1 THEN c[x] ELSE q[i]
  BY <1>1, <1>2, <1>3
<1> QED BY <1>4, <1>5, <1>6 DEF q

\* Sequence q begins with x and goes on with r.
BeginsWith(q, x, r) == q # << >> /\ Head(q) = x /\ Tail(q) = r

\* The nearest frame is the first one.
LEMMA PicturesTail ==
  ASSUME NEW c, NEW a \in Frames, NEW S \in SUBSET Frames, NEW x \in S,
         \A f \in S : Ahead(a, x) <= Ahead(a, f)
  PROVE  BeginsWith(Pictured(c, S, a), c[x], Pictured(c, S \ {x}, a))
<1> DEFINE n == Cardinality(S)
           s == InOrder(S, a)
           t == InOrder(S \ {x}, a)
           q == Pictured(c, S, a)
           r == Pictured(c, S \ {x}, a)
<1>1. n \in Nat /\ Len(q) = n /\ q # << >>
  BY PicturesListed
<1>2. /\ n > 0 /\ s[1] = x /\ Cardinality(S \ {x}) = n - 1
      /\ t = [i \in 1 .. n - 1 |-> s[i + 1]]
  BY OrderedTail
<1>3. q = [i \in 1 .. n |-> c[s[i]]]
  BY DEF Pictured
<1>4. r = [i \in 1 .. n - 1 |-> c[t[i]]]
  BY <1>2 DEF Pictured
<1> HIDE DEF n, s, t, q, r
<1>5. Head(q) = q[1] /\ Tail(q) = [i \in 1 .. n - 1 |-> q[i + 1]]
  BY <1>1, <1>2, <1>3
<1>6. q[1] = c[x] /\ (\A i \in 1 .. n - 1 : q[i + 1] = c[t[i]])
  BY <1>1, <1>2, <1>3
<1>7. r = [i \in 1 .. n - 1 |-> q[i + 1]]
  BY <1>4, <1>6
<1>8. q # << >> /\ Head(q) = c[x]
  BY <1>1, <1>5, <1>6
<1>9. PICK u : u = [i \in 1 .. n - 1 |-> q[i + 1]]
  OBVIOUS
<1>10. Tail(q) = u /\ r = u
  BY <1>5, <1>7, <1>9
<1>11. BeginsWith(q, c[x], r)
  BY <1>8, <1>10 DEF BeginsWith
<1> QED BY <1>11 DEF q, r

\* The frames before some frame are the first ones.
LEMMA PicturesPrefix ==
  ASSUME NEW c, NEW a \in Frames, NEW S \in SUBSET Frames, NEW T \in SUBSET S,
         \A f \in T, g \in S \ T : Ahead(a, f) < Ahead(a, g)
  PROVE  \E n \in 0 .. Len(Pictured(c, S, a)) :
           Pictured(c, T, a) = SubSeq(Pictured(c, S, a), 1, n)
<1> DEFINE n == Cardinality(S)
           m == Cardinality(T)
           s == InOrder(S, a)
           t == InOrder(T, a)
           q == Pictured(c, S, a)
<1>1. n \in Nat /\ Len(q) = n
  BY PicturesListed
<1>2. m \in 0 .. n /\ t = [i \in 1 .. m |-> s[i]]
  BY OrderedPrefix
<1>3. q = [i \in 1 .. n |-> c[s[i]]]
  BY DEF Pictured
<1>4. Pictured(c, T, a) = [i \in 1 .. m |-> c[t[i]]]
  BY <1>2 DEF Pictured
<1> HIDE DEF n, m, s, t, q
<1>5. SubSeq(q, 1, m) = [i \in 1 .. m |-> q[i]]
  BY <1>1, <1>2, <1>3
<1>6. \A i \in 1 .. m : c[t[i]] = q[i]
  BY <1>1, <1>2, <1>3
<1> QED BY <1>1, <1>2, <1>4, <1>5, <1>6 DEF q

\* The queue, as the mapping reads it off the ring.
LEMMA RecordingIs ==
  TypeOK =>
    /\ Started => /\ Recording = Pictured(content, Ready, activeFrame)
                  /\ activeFrame \in Frames /\ Ready \in SUBSET Frames
    /\ ~Started => Recording = << >>
<1> SUFFICES ASSUME TypeOK, Started
             PROVE  /\ Recording = Pictured(content, Ready, activeFrame)
                    /\ activeFrame \in Frames /\ Ready \in SUBSET Frames
  BY DEF Recording
<1>1. activeFrame \in Frames /\ Ready \in SUBSET Frames
  BY DEF TypeOK, Ready
<1>2. InOrder(Ready, activeFrame) \in [1 .. Cardinality(Ready) -> Ready]
  BY <1>1, Ordered
<1>3. DOMAIN InOrder(Ready, activeFrame) = 1 .. Cardinality(Ready)
  BY <1>2
<1> QED BY <1>1, <1>3 DEF Recording, Pictured

\* And as it is after a step.
LEMMA RecordingNext ==
  TypeOK' =>
    /\ Started' => /\ Recording' = Pictured(content', Ready', activeFrame')
                   /\ activeFrame' \in Frames /\ Ready' \in SUBSET Frames
    /\ ~Started' => Recording' = << >>
<1> SUFFICES ASSUME TypeOK', Started'
             PROVE  /\ Recording' = Pictured(content', Ready', activeFrame')
                    /\ activeFrame' \in Frames /\ Ready' \in SUBSET Frames
  BY DEF Recording
<1>1. activeFrame' \in Frames /\ Ready' \in SUBSET Frames
  BY DEF TypeOK, Ready
<1>2. InOrder(Ready', activeFrame') \in [1 .. Cardinality(Ready') -> Ready']
  BY <1>1, Ordered
<1>3. DOMAIN InOrder(Ready', activeFrame') = 1 .. Cardinality(Ready')
  BY <1>2
<1> QED BY <1>1, <1>3 DEF Recording, Pictured

\* A channel opens with nothing recorded.
LEMMA QueueInit == ASSUME Init, TypeOK PROVE Queue!Init
<1>1. ~Started /\ state = "DISABLED" /\ delivered = Stale
  BY DEF Init, Started
<1> QED BY <1>1, RecordingIs DEF Queue!Init, Mode

\* What the queue does not see.
LEMMA StepHidden ==
  ASSUME TypeOK, TypeOK', UNCHANGED <<state, activeFrame, validCount, delivered>>,
         Started => \A f \in Ready : content'[f] = content[f]
  PROVE  UNCHANGED <<Mode, Recording, delivered>>
<1>1. Mode' = Mode /\ Started' = Started /\ Ready' = Ready
  BY DEF Mode, Started, Ready
<1>2. CASE Started
  <2>1. /\ Recording = Pictured(content, Ready, activeFrame)
        /\ Recording' = Pictured(content', Ready, activeFrame)
        /\ activeFrame \in Frames /\ Ready \in SUBSET Frames
    BY <1>1, <1>2, RecordingIs, RecordingNext
  <2> QED BY <1>1, <1>2, <2>1, PicturesStay
<1>3. CASE ~Started
  BY <1>1, <1>3, RecordingIs, RecordingNext
<1> QED BY <1>1, <1>2, <1>3

\* A picture coming in is none of the queue's until its interrupt.
LEMMA CardStep ==
  ASSUME TypeOK, TypeOK', TearingInv, Vbi \/ StartTimeReached
  PROVE  UNCHANGED <<Mode, Recording, delivered>>
<1>1. UNCHANGED <<state, activeFrame, validCount, delivered>>
  BY DEF Vbi, StartTimeReached, driver, client
<1>2. ASSUME Started, NEW f \in Ready PROVE content'[f] = content[f]
  <2>1. f \in Frames /\ f # inputFrame
    BY <1>2, MovesOn
  <2> QED BY <1>2, <2>1 DEF Vbi, StartTimeReached, card, TypeOK
<1> QED BY <1>1, <1>2, StepHidden

\* The interrupt records a picture when it moves on from its frame.
LEMMA IsrStep ==
  ASSUME TypeOK, TypeOK', TearingInv, FetchInv, Isr
  PROVE  [Queue!Next]_(Queue!vars)
<1>1. UNCHANGED <<delivered, content>>
  BY DEF Isr, client
<1>2. CASE IsrIdle \/ IsrStopping
  <2>1. Mode' = Mode /\ ~Started /\ ~Started'
    BY <1>2 DEF IsrIdle, IsrStopping, driver, Mode, Started
  <2> QED BY <1>1, <2>1, RecordingIs, RecordingNext DEF Queue!vars
<1>3. CASE IsrStarting
  <2>1. state = "STARTING" /\ state' \in {"STARTING", "RUNNING"} /\ Started /\ Started'
    BY <1>3 DEF IsrStarting, Started
  <2>2. /\ activeFrame' \in Frames
        /\ \A f \in Frames : validCount[f] = 0
    BY <2>1 DEF TypeOK, TearingInv, NothingBeforeRunning
  <2>3. \A f \in Frames : validCount'[f] = 0
    BY <1>3, <2>2 DEF IsrStarting, TypeOK
  <2>4. Ready = {} /\ Ready' = {}
    BY <2>2, <2>3 DEF Ready
  <2>5. Recording = << >> /\ Recording' = << >>
    BY <2>1, <2>4, RecordingIs, RecordingNext, PicturesListed
  <2>6. Mode = "open" /\ Mode' \in {"open", "running"}
    BY <2>1 DEF Mode
  <2> QED BY <1>1, <2>5, <2>6 DEF Queue!vars, Queue!Next, Queue!Run
<1>4. CASE IsrRunning \/ IsrTooFast \/ IsrPaused
  <2> DEFINE a == activeFrame
             o == inputFrame
  <2>1. /\ state' = state /\ Mode' = Mode /\ Started /\ Started'
        /\ Mode \in {"running", "held"} /\ state \in {"RUNNING", "PAUSED"}
    BY <1>4 DEF IsrRunning, IsrTooFast, IsrPaused, Started, Mode
  <2>2. activeFrame' = o /\ (Ready' = Ready \/ (Ready' = Ready \cup {a} /\ a # o))
    BY <1>4, IsrReady
  <2>3. /\ o \in Frames /\ a \in Frames /\ Ready \in SUBSET (Frames \ {a, o})
        /\ \A f, g \in Ready : Ahead(a, f) < Ahead(a, g) <=> Ahead(o, f) < Ahead(o, g)
        /\ o # a => \A f \in Ready : Ahead(o, f) < Ahead(o, a)
    BY <2>1, MovesOn
  <2>4. /\ Recording = Pictured(content, Ready, a)
        /\ Recording' = Pictured(content, Ready', o)
    BY <1>1, <2>1, <2>2, RecordingIs, RecordingNext
  <2>5. Pictured(content, Ready, a) = Pictured(content, Ready, o)
    <3>1. Ready \in SUBSET Frames
      BY <2>3
    <3>2. PICK c, S, b, d : c = content /\ S = Ready /\ b = a /\ d = o
      OBVIOUS
    <3>3. Pictured(c, S, b) = Pictured(c, S, d)
      BY <2>3, <3>1, <3>2, PicturesStay
    <3> QED BY <3>2, <3>3
  <2>6. CASE Ready' = Ready
    BY <1>1, <2>1, <2>4, <2>5, <2>6 DEF Queue!vars
  <2>7. CASE Ready' = Ready \cup {a} /\ a # o
    <3>1. Ready \in SUBSET Frames /\ a \in Frames \ Ready
      BY <2>3
    <3>2. Pictured(content, Ready \cup {a}, o) = Append(Pictured(content, Ready, o), content[a])
      BY <2>3, <2>7, <3>1, PicturesAppend
    <3>3. Recording' = Append(Recording, content[a])
      BY <2>4, <2>5, <2>7, <3>2
    <3>4. content[a] \in Pictures
      BY <2>1 DEF FetchInv, MarkedIsCaptured
    <3> HIDE DEF a
    <3> QED BY <1>1, <2>1, <3>3, <3>4 DEF Queue!Next, Queue!Record
  <2> QED BY <2>2, <2>6, <2>7
<1> QED BY <1>2, <1>3, <1>4 DEF Isr

\* A flush takes the newest pictures.
LEMMA FlushesNewest ==
  ASSUME TypeOK, TearingInv, Started, Flush
  PROVE  /\ Ready' \in SUBSET Ready
         /\ \A f \in Ready', g \in Ready \ Ready' :
              Ahead(activeFrame, f) < Ahead(activeFrame, g)
<1> DEFINE a == activeFrame
           o == inputFrame
           stop == FirstBack(PrevFrame(o), {f \in Frames : validCount[f] = 0 \/ f = o})
           cleared == {f \in Frames \ {o} : stop = o \/ Ahead(f, o) < Ahead(stop, o)}
<1>1. /\ o \in Frames /\ a \in Frames /\ IntoRange(o) = o
      /\ Ready \in SUBSET (Frames \ {a, o})
      /\ \A f, g \in Ready : Ahead(a, f) < Ahead(a, g) <=> Ahead(o, f) < Ahead(o, g)
  BY MovesOn
<1>2. validCount' = [f \in Frames |-> IF f \in cleared THEN 0 ELSE validCount[f]]
  BY <1>1 DEF Flush
<1>3. activeFrame' = a
  BY DEF Flush
<1>4. stop \in Frames
  <2>1. PrevFrame(o) \in Frames
    BY <1>1, StepsInRing
  <2> QED BY <1>1, <2>1, FirstBackNearest
<1>5. Ready' = {f \in Ready : f \notin cleared}
  <2> HIDE DEF cleared
  <2> QED BY <1>2, <1>3 DEF Ready
<1> SUFFICES ASSUME NEW f \in Ready, NEW g \in Ready, f \notin cleared, g \in cleared
             PROVE  Ahead(a, f) < Ahead(a, g)
  BY <1>5
<1> HIDE DEF a, o, stop
<1>6. f \in Frames \ {o} /\ g \in Frames \ {o}
  BY <1>1
<1>7. ~(Ahead(f, o) < Ahead(stop, o)) /\ Ahead(g, o) < Ahead(stop, o)
  BY <1>6 DEF cleared
<1>8. /\ Ahead(f, o) \in Int /\ Ahead(g, o) \in Int /\ Ahead(stop, o) \in Int
      /\ Ahead(o, f) \in Int /\ Ahead(o, g) \in Int
  BY <1>1, <1>4, <1>6, AheadIsDistance
<1>9. /\ Ahead(f, o) = EndFrame - StartFrame - (Ahead(o, f) - 1)
      /\ Ahead(g, o) = EndFrame - StartFrame - (Ahead(o, g) - 1)
  BY <1>1, <1>6, AheadIsBehind, AheadFromNext
<1>10. Ahead(o, f) < Ahead(o, g)
  BY <1>7, <1>8, <1>9, RangeAssumption
<1> QED BY <1>1, <1>10

\* Every command is a step of the queue.
LEMMA ControlStep ==
  ASSUME TypeOK, TypeOK', TearingInv, Control
  PROVE  [Queue!Next]_(Queue!vars)
<1>1. UNCHANGED <<delivered, content>>
  BY DEF Control, InitChannel, Start, Stop, Abort, Pause, Resume, Flush, SetState, client, card
<1>2. CASE InitChannel
  <2>1. Mode = "closed" /\ Mode' = "open" /\ ~Started /\ ~Started'
    BY <1>2 DEF InitChannel, Mode, Started
  <2> QED BY <1>1, <2>1, RecordingIs, RecordingNext DEF Queue!Next, Queue!Open
<1>3. CASE Start
  <2>1. /\ Mode' = Mode /\ ~Started /\ Started'
        /\ \A f \in Frames : validCount'[f] = 0
    BY <1>3 DEF Start, Mode, Started, TearingInv, NothingBeforeRunning
  <2>2. Ready' = {} /\ activeFrame' \in Frames
    BY <2>1 DEF Ready, TypeOK
  <2>3. Recording' = << >>
    BY <2>1, <2>2, RecordingIs, RecordingNext, PicturesListed
  <2> QED BY <1>1, <2>1, <2>3, RecordingIs, RecordingNext DEF Queue!vars
<1>4. CASE Stop \/ Abort
  <2>1. Mode' = "closed" /\ ~Started'
    BY <1>4 DEF Stop, Abort, SetState, Mode, Started
  <2>2. Mode = "closed" => ~Started
    BY DEF Mode, Started
  <2> QED BY <1>1, <2>1, <2>2, RecordingIs, RecordingNext DEF Queue!vars, Queue!Next, Queue!Close
<1>5. CASE Pause \/ Resume
  <2>1. UNCHANGED <<activeFrame, validCount>> /\ Started /\ Started'
    BY <1>5 DEF Pause, Resume, SetState, Started
  <2>2. Ready' = Ready
    BY <2>1 DEF Ready
  <2>3. Recording' = Recording
    BY <1>1, <2>1, <2>2, RecordingIs, RecordingNext
  <2>4. \/ Mode = "running" /\ Mode' = "held"
        \/ Mode = "held" /\ Mode' = "running"
    BY <1>5 DEF Pause, Resume, SetState, Mode
  <2> QED BY <1>1, <2>3, <2>4 DEF Queue!Next, Queue!Hold, Queue!Release
<1>6. CASE Flush
  <2>1. UNCHANGED <<state, activeFrame>> /\ Mode' = Mode /\ Started' = Started
    BY <1>6 DEF Flush, Mode, Started
  <2>2. CASE ~Started
    BY <1>1, <2>1, <2>2, RecordingIs, RecordingNext DEF Queue!vars
  <2>3. CASE Started
    <3>1. /\ Recording = Pictured(content, Ready, activeFrame)
          /\ Recording' = Pictured(content, Ready', activeFrame)
          /\ activeFrame \in Frames /\ Ready \in SUBSET Frames
      BY <1>1, <2>1, <2>3, RecordingIs, RecordingNext
    <3>2. \E n \in 0 .. Len(Pictured(content, Ready, activeFrame)) :
            Pictured(content, Ready', activeFrame)
              = SubSeq(Pictured(content, Ready, activeFrame), 1, n)
      <4>1. /\ Ready' \in SUBSET Ready
            /\ \A f \in Ready', g \in Ready \ Ready' :
                 Ahead(activeFrame, f) < Ahead(activeFrame, g)
        BY <1>6, <2>3, FlushesNewest
      <4> QED BY <3>1, <4>1, PicturesPrefix
    <3>3. \E n \in 0 .. Len(Recording) : Recording' = SubSeq(Recording, 1, n)
      BY <3>1, <3>2
    <3>4. Mode \in {"running", "held"}
      BY <1>6, <2>3 DEF Flush, Started, Mode
    <3> QED BY <1>1, <2>1, <3>3, <3>4 DEF Queue!Next, Queue!Discard
  <2> QED BY <2>2, <2>3
<1> QED BY <1>2, <1>3, <1>4, <1>5, <1>6 DEF Control

\* A transfer delivers the first picture, or forfeits it.
LEMMA TransferStep ==
  ASSUME Orderly, TypeOK, TypeOK', TearingInv, FetchInv, Transfer
  PROVE  [Queue!Next]_(Queue!vars)
<1>1. UNCHANGED <<state, activeFrame, content>> /\ Mode' = Mode /\ Started' = Started
  BY DEF Transfer, Poll, TransferCheck, TransferFind, TransferComplete, TransferFail,
         TransferForfeit, driver, card, Mode, Started
<1>2. CASE Poll \/ TransferCheck \/ TransferFind \/ TransferFail
  <2>1. UNCHANGED <<validCount, delivered>>
    BY <1>2 DEF Poll, TransferCheck, TransferFind, TransferFail, driver
  <2> QED BY <1>1, <2>1, StepHidden DEF Queue!vars
<1>3. CASE TransferComplete \/ TransferForfeit
  <2>1. xferPhase = "reading" /\ validCount' = [validCount EXCEPT ![xferFrame] = 0]
    BY <1>3 DEF TransferComplete, TransferForfeit
  <2>2. state = "RUNNING" \/ state \in {"DISABLED", "STOPPING"}
    BY <2>1 DEF TypeOK, States, TearingInv, NothingBeforeRunning, FetchInv, HeldIdle
  <2>3. CASE state = "RUNNING"
    <3> DEFINE a == activeFrame
               x == xferFrame
    <3>1. /\ Recording = Pictured(content, Ready, a)
          /\ Recording' = Pictured(content, Ready', a)
          /\ a \in Frames /\ Ready \in SUBSET Frames
      BY <1>1, <2>3, RecordingIs, RecordingNext DEF Started
    <3>2. x \in Ready /\ (\A g \in Ready : Ahead(a, x) <= Ahead(a, g))
      BY <2>1, <2>3 DEF TearingInv, ReadingHeld, Settled, Ready, FetchInv, FetchesFirst
    <3>3. Ready' = Ready \ {x}
      BY <1>1, <2>1 DEF Ready, TypeOK
    <3>4. PICK c, S : c = content /\ S = Ready
      OBVIOUS
    <3>5. BeginsWith(Recording, content[x], Recording')
      <4>1. BeginsWith(Pictured(c, S, a), c[x], Pictured(c, S \ {x}, a))
        BY <3>1, <3>2, <3>4, PicturesTail
      <4> QED BY <3>1, <3>3, <3>4, <4>1
    <3>6. delivered' \in {content[x], delivered}
      BY <1>3 DEF TransferComplete, TransferForfeit, Orderly
    <3>7. Mode = "running"
      BY <2>3 DEF Mode
    <3> QED BY <1>1, <3>5, <3>6, <3>7 DEF BeginsWith, Queue!Next, Queue!Deliver, Queue!Forfeit
  <2>4. CASE state \in {"DISABLED", "STOPPING"}
    <3>1. Mode = "closed" /\ ~Started /\ ~Started'
      BY <1>1, <2>4 DEF Mode, Started
    <3>2. delivered' \in Pictures \cup {Stale}
      BY DEF TypeOK
    <3> QED BY <1>1, <3>1, <3>2, RecordingIs, RecordingNext DEF Queue!Next, Queue!DeliverLate
  <2> QED BY <2>2, <2>3, <2>4
<1> QED BY <1>2, <1>3 DEF Transfer

\* A capture channel implements the first-in first-out CaptureQueue, on a ring
\* of any size, through drops, early interrupts, pauses, flushes and transfers
\* that fail: pictures reach the client once and in the order they came in.
THEOREM CaptureIsQueue == ASSUME Disciplined, Orderly PROVE Spec => QueueSpec
<1>1. Init /\ TypeOK => Queue!Init
  BY QueueInit
<1>2. TypeOK /\ TypeOK' /\ TearingInv /\ FetchInv /\ [Next]_vars => [Queue!Next]_(Queue!vars)
  <2> SUFFICES ASSUME TypeOK, TypeOK', TearingInv, FetchInv, [Next]_vars
               PROVE  [Queue!Next]_(Queue!vars)
    OBVIOUS
  <2>1. CASE Vbi \/ StartTimeReached
    BY <2>1, CardStep DEF Queue!vars
  <2>2. CASE UNCHANGED vars
    <3>1. UNCHANGED <<state, activeFrame, validCount, delivered, content>>
      BY <2>2 DEF vars, driver, client, card
    <3> QED BY <3>1, StepHidden DEF Queue!vars
  <2> QED BY <2>1, <2>2, IsrStep, ControlStep, TransferStep DEF Next
<1> QED BY <1>1, <1>2, TypeCorrect, TearingHolds, FetchHolds, PTL
        DEF Spec, QueueSpec, Queue!Spec
=============================================================================
