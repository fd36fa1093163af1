------------------------- MODULE AutoCircPlayProofs -------------------------
(***************************************************************************)
(* Theorems about AutoCircPlay, for every frame range, every number of     *)
(* pictures and repeats, and every set of overlapping commands.            *)
(***************************************************************************)
EXTENDS AutoCircPlay, AutoCircRingProofs

\* FindNextAvailFrame returns an empty frame other than the active one (in
\* INIT there is no active one), or none.
LEMMA FindNextAvailEmpty ==
  ASSUME TypeOK, FindNextAvail # InvalidFrame
  PROVE  /\ FindNextAvail \in Frames
         /\ validCount[FindNextAvail] = 0
         /\ Started => FindNextAvail # activeFrame
<1> DEFINE empty == {f \in Frames : validCount[f] = 0}
<1>1. StartFrame \in Frames
  BY RangeAssumption DEF Frames
<1>2. CASE state = "INIT"
  <2>1. FindNextAvail = FirstFrom(StartFrame, empty)
    BY <1>2 DEF FindNextAvail
  <2>2. FindNextAvail \in empty
    BY <2>1, <1>1, FirstFromNearest
  <2> QED BY <2>2, <1>2 DEF Started
<1>3. CASE state # "INIT"
  <2>1. /\ activeFrame \in Frames
        /\ FindNextAvail = FirstFrom(NextFrame(activeFrame), empty \ {activeFrame})
    BY <1>3 DEF FindNextAvail
  <2>2. FindNextAvail \in empty \ {activeFrame}
    BY <2>1, FirstFromNearest, StepsInRing
  <2> QED BY <2>2
<1> QED BY <1>2, <1>3
-----------------------------------------------------------------------------
(* Type correctness. *)

\* The ISR keeps the types: registers it writes are frames of the ring.
LEMMA IsrTypes == TypeOK /\ Isr => TypeOK'
<1> SUFFICES ASSUME TypeOK, Isr PROVE TypeOK'
  OBVIOUS
<1> USE DEF TypeOK, Isr, client, card, driver, Started, States
<1>1. IntoRange(outputFrame) \in Frames
  BY IntoRangeInRing
<1>2. NextFrame(IntoRange(outputFrame)) \in Frames
  BY <1>1, StepsInRing
<1>3. \A c \in 0 .. CounterMod - 1 : Bump(c) \in 0 .. CounterMod - 1
  BY PlayAssumption DEF Bump
<1>4. CASE IsrIdle
  BY <1>4 DEF IsrIdle
<1>5. CASE IsrStopping
  BY <1>5 DEF IsrStopping
<1>6. CASE IsrPaused
  <2>1. activeFrame' \in Frames
    BY <1>1, <1>6 DEF IsrPaused
  <2>2. activeFrame' \in Int
    BY <2>1, FramesAreNats
  <2> QED BY <1>6, <2>1, <2>2 DEF IsrPaused
<1>7. CASE IsrStarting
  <2>1. activeFrame' \in Frames /\ outputFrame' \in Frames
    BY <1>1, <1>2, <1>7 DEF IsrStarting
  <2>2. validCount' \in [Frames -> Nat]
    BY <1>1, <1>7 DEF IsrStarting
  <2>3. framesProcessed' \in 0 .. CounterMod - 1
    BY <1>3, <1>7 DEF IsrStarting
  <2>4. /\ state' \in {"STARTING", "RUNNING"}
        /\ UNCHANGED <<startDue, pending, fieldFlag, droppedFrames>>
    BY <1>7 DEF IsrStarting
  <2>5. activeFrame' \in Int /\ outputFrame' \in Int
    BY <2>1, FramesAreNats
  <2> QED BY <2>1, <2>2, <2>3, <2>4, <2>5
<1>8. CASE IsrRunning
  <2>1. activeFrame' \in Frames /\ outputFrame' \in Frames
    BY <1>1, <1>2, <1>8 DEF IsrRunning
  <2>2. validCount' \in [Frames -> Nat]
    BY <1>1, <1>8 DEF IsrRunning
  <2>3. /\ framesProcessed' \in 0 .. CounterMod - 1
        /\ droppedFrames' \in 0 .. CounterMod - 1
    BY <1>3, <1>8 DEF IsrRunning
  <2>4. UNCHANGED <<state, startDue, pending, fieldFlag>>
    BY <1>8 DEF IsrRunning
  <2>5. activeFrame' \in Int /\ outputFrame' \in Int
    BY <2>1, FramesAreNats
  <2> QED BY <2>1, <2>2, <2>3, <2>4, <2>5
<1> QED BY <1>4, <1>5, <1>6, <1>7, <1>8

\* The driver's data after module load have their types.
LEMMA InitTypes == Init => TypeOK
<1> SUFFICES ASSUME Init PROVE TypeOK
  OBVIOUS
<1>1. 0 \in 0 .. CounterMod - 1
  BY PlayAssumption
<1>2. outputFrame \in Int
  BY PlayAssumption DEF Init
<1>3. activeFrame \in Int /\ onAir \in Int
  BY DEF Init, InvalidFrame
<1> QED BY <1>1, <1>2, <1>3 DEF Init, TypeOK, Started, States

\* The card and the clock keep the types.
LEMMA CardTypes == TypeOK /\ (Vbi \/ StartTimeReached) => TypeOK'
<1> SUFFICES ASSUME TypeOK, Vbi \/ StartTimeReached PROVE TypeOK'
  OBVIOUS
<1> USE DEF TypeOK, client, card, driver, Started
<1>1. CASE Vbi
  <2>1. onAir' \in Int
    BY <1>1 DEF Vbi, InvalidFrame
  <2>2. field' \in {0, 1}
    BY <1>1 DEF Vbi
  <2> QED BY <1>1, <2>1, <2>2 DEF Vbi
<1>2. CASE StartTimeReached
  BY <1>2 DEF StartTimeReached
<1> QED BY <1>1, <1>2

\* Every control command keeps the types.
LEMMA ControlTypes == TypeOK /\ Control => TypeOK'
<1> SUFFICES ASSUME TypeOK, Control PROVE TypeOK'
  OBVIOUS
<1> USE PlayAssumption DEF TypeOK, client, card, Started, States
<1>1. StartFrame \in Frames
  BY RangeAssumption DEF Frames
<1>2. CASE InitChannel
  BY <1>2 DEF InitChannel, InvalidFrame
<1>3. CASE Start
  <2>1. StartFrame \in Int
    BY RangeAssumption
  <2>2. startDue' \in BOOLEAN
    BY <1>3 DEF Start
  <2>3. activeFrame' = StartFrame /\ outputFrame' = StartFrame /\ onAir' \in Int
    BY <1>3 DEF Start, InvalidFrame
  <2> QED BY <1>1, <1>3, <2>1, <2>2, <2>3 DEF Start
<1>4. CASE Stop \/ Abort \/ Pause
  BY <1>4 DEF Stop, Abort, Pause, SetState
<1>5. CASE Resume
  BY <1>5 DEF Resume
<1>6. CASE Flush
  BY <1>6 DEF Flush
<1>7. ASSUME NEW n \in PrerollCounts, Preroll(n) PROVE TypeOK'
  <2>1. n \in Nat
    OBVIOUS
  <2>2. PrevFrame(FindNextAvail) \in Frames
    BY <1>7, FindNextAvailEmpty, StepsInRing DEF Preroll
  <2>3. PICK last \in Frames : validCount' = [validCount EXCEPT ![last] = @ + n]
    BY <1>7, <2>2 DEF Preroll
  <2>4. validCount' \in [Frames -> Nat]
    BY <2>1, <2>3
  <2>5. state' \in States
    BY <1>7 DEF Preroll
  <2> QED BY <1>7, <2>4, <2>5 DEF Preroll
<1> QED BY <1>2, <1>3, <1>4, <1>5, <1>6, <1>7 DEF Control

\* The client's thread and the peers keep the types.
LEMMA TransferTypes == TypeOK /\ Transfer => TypeOK'
<1> SUFFICES ASSUME TypeOK, Transfer PROVE TypeOK'
  OBVIOUS
<1> USE PlayAssumption DEF TypeOK, driver, client, card, Started
<1>1. CASE TransferFind
  <2>1. xferFrame' \in Frames
    BY <1>1, FindNextAvailEmpty DEF TransferFind
  <2> QED BY <1>1, <2>1 DEF TransferFind
<1>2. CASE TransferBegin
  BY <1>2 DEF TransferBegin
<1>3. CASE TransferComplete
  BY <1>3 DEF TransferComplete
<1>4. CASE TransferFail
  BY <1>4 DEF TransferFail
<1>5. CASE TransferP2P
  BY <1>5 DEF TransferP2P
<1>6. ASSUME NEW f \in Frames, Message(f) PROVE TypeOK'
  <2>1. outputFrame' \in Int
    BY <1>6, FramesAreNats DEF Message
  <2>2. Started' => outputFrame' \in Frames
    BY <1>6 DEF Message
  <2>3. content' \in [Frames -> Pictures \cup {Stale}]
    BY <1>6 DEF Message
  <2> QED BY <1>6, <2>1, <2>2, <2>3 DEF Message
<1>7. ASSUME NEW f \in Frames, P2PComplete(f) PROVE TypeOK'
  <2>1. content' \in [Frames -> Pictures \cup {Stale}]
    BY <1>7 DEF P2PComplete
  <2>2. pending' \in [Frames -> BOOLEAN]
    BY <1>7 DEF P2PComplete
  <2> QED BY <1>7, <2>1, <2>2 DEF P2PComplete
<1> QED BY <1>1, <1>2, <1>3, <1>4, <1>5, <1>6, <1>7 DEF Transfer

\* In every behaviour the frame stamps, registers and transfer phases have
\* their types; a started channel's frames lie in its range.
THEOREM TypeCorrect == Spec => []TypeOK
<1>1. TypeOK /\ [Next]_vars => TypeOK'
  <2> SUFFICES ASSUME TypeOK, [Next]_vars PROVE TypeOK'
    OBVIOUS
  <2>1. CASE Next
    BY <2>1, IsrTypes, CardTypes, ControlTypes, TransferTypes DEF Next
  <2>2. CASE UNCHANGED vars
    BY <2>2 DEF TypeOK, vars, driver, client, card, Started
  <2> QED BY <2>1, <2>2
<1> QED BY <1>1, InitTypes, PTL DEF Spec
-----------------------------------------------------------------------------
(* No write into a frame on the air.  The inductive invariant says where   *)
(* the card, the ISR, the client and the peers stand to each other.        *)

\* The card shows the frame the ISR is about to make active (between a VBI and
\* its interrupt) or made active at the last one; a VBI it counts in RUNNING
\* is never one that came before Start wrote the register.
OnAirTracked ==
  /\ Started => /\ irq => onAir \in {InvalidFrame, outputFrame}
                /\ ~irq => onAir \in {InvalidFrame, activeFrame}
  /\ (irq /\ state \in {"RUNNING", "PAUSED"}) => onAir = outputFrame

\* A frame the register was moved on to has VBIs left to be shown.
CommittedIsQueued ==
  (Started /\ outputFrame # activeFrame) => validCount[outputFrame] # 0

\* The frame a client writes stays empty and away from both register frames.
WrittenIsFree ==
  xferPhase # "idle" =>
    /\ xferFrame \notin peers
    /\ Started => /\ validCount[xferFrame] = 0
                  /\ xferFrame # outputFrame
                  /\ xferFrame # activeFrame

\* A frame a peer owes is queued, and held back from the air until it came.
PeersAreQueued ==
  /\ \A f \in peers : pending[f] /\ validCount[f] # 0
  /\ state \in {"RUNNING", "PAUSED"} => outputFrame \notin peers /\ activeFrame \notin peers

IInv == TypeOK /\ OnAirTracked /\ CommittedIsQueued /\ WrittenIsFree /\ PeersAreQueued

\* The invariant implies that nobody writes into a frame on the air.
LEMMA InvariantSuffices == IInv => NoWriteOnAir
  BY FramesAreNats
  DEF IInv, TypeOK, OnAirTracked, WrittenIsFree, PeersAreQueued, NoWriteOnAir,
      BeingWritten, Started

\* The initial states satisfy the invariant.
LEMMA InitInvariant == Init => IInv
<1>1. Init => TypeOK
  BY InitTypes
<1> QED BY <1>1 DEF Init, IInv, OnAirTracked, CommittedIsQueued, WrittenIsFree,
                    PeersAreQueued, Started

\* A VBI shows the register's frame, which nobody writes.
LEMMA CardInvariant == IInv /\ (Vbi \/ StartTimeReached) => IInv'
<1> SUFFICES ASSUME IInv, Vbi \/ StartTimeReached PROVE IInv'
  OBVIOUS
<1>1. TypeOK'
  BY CardTypes DEF IInv
<1>2. OnAirTracked'
  BY DEF IInv, OnAirTracked, Started, Vbi, StartTimeReached, driver, card
<1>3. UNCHANGED <<state, activeFrame, outputFrame, validCount, pending, peers,
                  xferPhase, xferFrame>>
  BY DEF Vbi, StartTimeReached, driver, client, card
<1>4. CommittedIsQueued' /\ WrittenIsFree' /\ PeersAreQueued'
  BY <1>3 DEF IInv, CommittedIsQueued, WrittenIsFree, PeersAreQueued, Started
<1> QED BY <1>1, <1>2, <1>4 DEF IInv

\* The ISR moves the register only on to a queued frame whose picture has
\* arrived, and charges only the frame that was on the air.
LEMMA IsrInvariant == IInv /\ Isr => IInv'
<1> SUFFICES ASSUME IInv, Isr PROVE IInv'
  OBVIOUS
<1>1. TypeOK /\ TypeOK'
  BY IsrTypes DEF IInv
<1>2. /\ irq /\ ~irq'
      /\ UNCHANGED <<xferPhase, xferFrame, peers, onAir, pending>>
  BY DEF Isr, IsrIdle, IsrStopping, IsrPaused, IsrStarting, IsrRunning, driver, client
<1>3. CASE IsrIdle \/ IsrStopping
  BY <1>1, <1>2, <1>3
  DEF IsrIdle, IsrStopping, driver, IInv, OnAirTracked, CommittedIsQueued,
      WrittenIsFree, PeersAreQueued, Started
<1>4. ASSUME IsrPaused \/ IsrStarting \/ IsrRunning PROVE IInv'
  <2> DEFINE a == outputFrame
             n == NextFrame(outputFrame)
  <2>1. a \in Frames /\ Started /\ Started' /\ activeFrame' = a
    BY <1>1, <1>4, IntoRangeInRing
    DEF IsrPaused, IsrStarting, IsrRunning, Started, TypeOK
  <2>2. n \in Frames
    BY <2>1, StepsInRing
  <2>3. \/ validCount' = validCount
        \/ validCount' = [validCount EXCEPT ![a] = @ - 1] /\ a \notin peers
    BY <1>4, <2>1 DEF IsrPaused, IsrStarting, IsrRunning, IInv, PeersAreQueued
  <2>4. \A f \in Frames : f # a => validCount'[f] = validCount[f]
    BY <1>1, <2>1, <2>3 DEF TypeOK
  <2>5. \A f \in peers : f \in Frames /\ validCount'[f] # 0
    BY <1>1, <2>3, <2>4 DEF IInv, PeersAreQueued, TypeOK
  <2>6. \/ outputFrame' = a
        \/ outputFrame' = n /\ validCount'[n] # 0 /\ ~pending[n] /\ validCount'[a] = 0
    BY <1>4, <2>1 DEF IsrPaused, IsrStarting, IsrRunning
  <2>7. OnAirTracked'
    BY <1>2, <2>1 DEF IInv, OnAirTracked
  <2>8. CommittedIsQueued'
    BY <2>1, <2>6 DEF CommittedIsQueued
  <2>9. WrittenIsFree'
    <3> SUFFICES ASSUME xferPhase # "idle"
                 PROVE  /\ xferFrame \notin peers
                        /\ validCount'[xferFrame] = 0
                        /\ xferFrame # outputFrame'
                        /\ xferFrame # a
      BY <1>2, <2>1 DEF WrittenIsFree
    <3>1. /\ xferFrame \in Frames /\ xferFrame \notin peers
          /\ validCount[xferFrame] = 0 /\ xferFrame # a
      BY <1>1, <2>1 DEF IInv, WrittenIsFree, TypeOK
    <3> QED BY <3>1, <2>4, <2>6
  <2>10. PeersAreQueued'
    <3>1. state' \in {"RUNNING", "PAUSED"} => a \notin peers
      BY <1>4, <2>1, <2>5 DEF IsrPaused, IsrStarting, IsrRunning, IInv, PeersAreQueued
    <3>2. state' \in {"RUNNING", "PAUSED"} => outputFrame' \notin peers
      BY <3>1, <2>6 DEF IInv, PeersAreQueued
    <3> QED BY <1>2, <2>1, <2>5, <3>1, <3>2 DEF IInv, PeersAreQueued
  <2> QED BY <1>1, <2>7, <2>8, <2>9, <2>10 DEF IInv
<1> QED BY <1>3, <1>4 DEF Isr

\* Control commands respect the invariant: those that could pull the channel
\* from under a transfer are issued only when none is in flight.
LEMMA ControlInvariant ==
  ASSUME Disciplined, IInv, Control
  PROVE  IInv'
<1>1. TypeOK /\ TypeOK'
  BY ControlTypes DEF IInv
<1> USE DEF IInv, OnAirTracked, CommittedIsQueued, WrittenIsFree, PeersAreQueued, Started
<1>2. CASE InitChannel
  BY <1>1, <1>2 DEF InitChannel, MayIssue, Disciplined, card
<1>3. CASE Start
  BY <1>1, <1>3 DEF Start, MayIssue, Disciplined, client
<1>4. CASE Stop \/ Abort \/ Pause
  BY <1>1, <1>4 DEF Stop, Abort, Pause, SetState, client, card
<1>5. CASE Resume
  BY <1>1, <1>5 DEF Resume, client, card
<1>6. CASE Flush
  <2>1. xferPhase = "idle" /\ peers = {}
    BY <1>6 DEF Flush, MayIssue, Disciplined
  <2>2. Started => outputFrame \in Frames /\ IntoRange(outputFrame) = outputFrame
    BY <1>1, IntoRangeInRing DEF TypeOK
  <2>3. Started => validCount'[outputFrame] = validCount[outputFrame]
    BY <1>6, <2>2 DEF Flush
  <2> QED BY <1>1, <1>6, <2>1, <2>3 DEF Flush, client, card
<1>7. ASSUME NEW k \in PrerollCounts, Preroll(k) PROVE IInv'
  <2> DEFINE empty == {f \in Frames : validCount[f] = 0} \ {activeFrame}
  <2>1. /\ activeFrame \in Frames
        /\ FindNextAvail = FirstFrom(NextFrame(activeFrame), empty)
        /\ FindNextAvail # InvalidFrame
    BY <1>7 DEF Preroll, FindNextAvail
  <2>2. empty # {}
    BY <2>1 DEF FirstFrom
  <2>3. PrevFrame(FindNextAvail) \in Frames \ empty
    BY <2>1, <2>2, BeforeFirstFrom, FindNextAvailEmpty, StepsInRing, <1>1
  <2>4. PICK last \in Frames \ empty :
          /\ validCount' = [validCount EXCEPT ![last] = @ + k]
          /\ state' = IF last = activeFrame THEN "STARTING" ELSE state
    BY <1>7, <2>3 DEF Preroll
  <2>5. k \in Nat
    BY PlayAssumption
  <2>6. \A f \in Frames : validCount[f] # 0 => validCount'[f] # 0
    BY <1>1, <2>4, <2>5 DEF TypeOK
  <2>7. \A f \in empty : validCount'[f] = 0
    BY <1>1, <2>4 DEF TypeOK
  <2>8. /\ UNCHANGED <<activeFrame, outputFrame, pending, peers, xferPhase,
                       xferFrame, onAir, irq>>
        /\ Started /\ Started' /\ state' \in {state, "STARTING"}
    BY <1>7, <2>4 DEF Preroll, client, card
  <2>9. xferPhase # "idle" => xferFrame \in empty
    BY <1>1, <2>8 DEF TypeOK
  <2>10. CommittedIsQueued' /\ WrittenIsFree'
    BY <1>1, <2>6, <2>7, <2>8, <2>9 DEF TypeOK
  <2>11. PeersAreQueued'
    BY <1>1, <2>4, <2>6, <2>8 DEF TypeOK
  <2> QED BY <1>1, <2>8, <2>10, <2>11
<1> QED BY <1>2, <1>3, <1>4, <1>5, <1>6, <1>7 DEF Control

\* The client and the peers respect the invariant: a frame is chosen empty,
\* and so neither in a register nor owed by a peer.
LEMMA TransferInvariant ==
  ASSUME Disciplined, IInv, Transfer
  PROVE  IInv'
<1>1. TypeOK /\ TypeOK'
  BY TransferTypes DEF IInv
<1> USE DEF IInv, OnAirTracked, CommittedIsQueued, WrittenIsFree, PeersAreQueued, Started
<1>2. CASE TransferFind
  <2>1. xferFrame' = FindNextAvail /\ FindNextAvail # InvalidFrame
    BY <1>2 DEF TransferFind, Disciplined
  <2>2. validCount[xferFrame'] = 0 /\ (Started => xferFrame' # activeFrame)
    BY <1>1, <2>1, FindNextAvailEmpty
  <2> QED BY <1>1, <1>2, <2>2 DEF TransferFind, driver, card
<1>3. CASE TransferBegin
  BY <1>1, <1>3 DEF TransferBegin
<1>4. CASE TransferComplete
  <2>1. xferFrame \in Frames /\ xferFrame \notin peers
    BY <1>1, <1>4 DEF TransferComplete, TypeOK
  <2>2. \A f \in Frames : f # xferFrame =>
          validCount'[f] = validCount[f] /\ pending'[f] = pending[f]
    BY <1>1, <1>4 DEF TransferComplete, TypeOK
  <2>3. PeersAreQueued'
    BY <1>1, <1>4, <2>1, <2>2 DEF TransferComplete, TypeOK
  <2> QED BY <1>1, <1>4, <2>1, <2>2, <2>3 DEF TransferComplete, TypeOK
<1>5. CASE TransferFail
  BY <1>1, <1>5 DEF TransferFail, driver, card
<1>6. CASE TransferP2P
  <2>1. PICK n \in Repeats, outcome \in Outcomes :
          /\ validCount' = [validCount EXCEPT ![xferFrame] = n]
          /\ pending' = [pending EXCEPT ![xferFrame] = outcome \in {"ok", "noTarget"}]
          /\ peers' = IF outcome = "ok" THEN peers \cup {xferFrame} ELSE peers
    BY <1>6 DEF TransferP2P
  <2>2. n # 0
    BY DEF Disciplined
  <2>3. xferFrame \in Frames /\ xferFrame \notin peers
    BY <1>1, <1>6 DEF TransferP2P, TypeOK
  <2>4. \A f \in Frames : f # xferFrame =>
          validCount'[f] = validCount[f] /\ pending'[f] = pending[f]
    BY <1>1, <2>1 DEF TypeOK
  <2>5. \A f \in peers' : pending'[f] /\ validCount'[f] # 0
    <3> SUFFICES ASSUME NEW f \in peers' PROVE pending'[f] /\ validCount'[f] # 0
      OBVIOUS
    <3>1. CASE f = xferFrame
      <4>1. validCount'[xferFrame] = n /\ pending'[xferFrame] = (outcome \in {"ok", "noTarget"})
        BY <2>1, <2>3 DEF TypeOK
      <4>2. outcome = "ok"
        BY <2>1, <2>3, <3>1
      <4> QED BY <2>2, <3>1, <4>1, <4>2
    <3>2. CASE f # xferFrame
      <4>1. f \in peers /\ f \in Frames
        BY <2>1, <3>2 DEF TypeOK
      <4> QED BY <1>1, <2>4, <3>2, <4>1
    <3> QED BY <3>1, <3>2
  <2> QED BY <1>1, <1>6, <2>1, <2>3, <2>4, <2>5 DEF TransferP2P, TypeOK
<1>7. ASSUME NEW f \in Frames, Message(f) PROVE IInv'
  BY <1>1, <1>7 DEF Message, TypeOK, client
<1>8. ASSUME NEW f \in Frames, P2PComplete(f) PROVE IInv'
  BY <1>1, <1>8 DEF P2PComplete, TypeOK, client
<1> QED BY <1>2, <1>3, <1>4, <1>5, <1>6, <1>7, <1>8 DEF Transfer

\* Under the discipline the invariant holds in every reachable state.
LEMMA InvariantHolds == ASSUME Disciplined PROVE Spec => []IInv
<1>1. IInv /\ [Next]_vars => IInv'
  <2> SUFFICES ASSUME IInv, [Next]_vars PROVE IInv'
    OBVIOUS
  <2>1. CASE Vbi \/ StartTimeReached
    BY <2>1, CardInvariant
  <2>2. CASE Isr
    BY <2>2, IsrInvariant
  <2>3. CASE Control
    BY <2>3, ControlInvariant
  <2>4. CASE Transfer
    BY <2>4, TransferInvariant
  <2>5. CASE UNCHANGED vars
    BY <2>5 DEF IInv, TypeOK, OnAirTracked, CommittedIsQueued, WrittenIsFree,
                PeersAreQueued, Started, vars, driver, client, card
  <2> QED BY <2>1, <2>2, <2>3, <2>4, <2>5 DEF Next
<1> QED BY <1>1, InitInvariant, PTL DEF Spec

\* No tearing, for every frame range and every client that keeps the
\* discipline: while the channel is RUNNING or PAUSED no DMA and no peer writes
\* into the frame on the air or the one the next VBI shows.
THEOREM NoTearing == ASSUME Disciplined PROVE Spec => []NoWriteOnAir
  BY InvariantHolds, InvariantSuffices, PTL
-----------------------------------------------------------------------------
(* The frame charged is the frame aired: no discipline of clients needed.  *)

\* What the card shows is tracked whatever clients and peers do.
LEMMA OnAirStep ==
  ASSUME TypeOK, OnAirTracked, [Next]_vars
  PROVE  OnAirTracked'
<1> USE DEF OnAirTracked, Started
<1>1. CASE Vbi \/ StartTimeReached
  BY <1>1 DEF Vbi, StartTimeReached, driver, card
<1>2. CASE Isr
  <2>1. irq /\ ~irq' /\ onAir' = onAir
    BY <1>2 DEF Isr
  <2>2. Started => IntoRange(outputFrame) = outputFrame
    BY IntoRangeInRing DEF TypeOK
  <2>3. Started' => Started /\ activeFrame' = outputFrame
    BY <1>2, <2>2
    DEF Isr, IsrIdle, IsrStopping, IsrPaused, IsrStarting, IsrRunning, driver
  <2> QED BY <2>1, <2>3
<1>3. CASE Control
  <2>1. CASE InitChannel \/ Start
    BY <2>1 DEF InitChannel, Start
  <2>2. CASE Stop \/ Abort \/ Pause \/ Resume \/ Flush
    BY <2>2 DEF Stop, Abort, Pause, SetState, Resume, Flush, card
  <2>3. ASSUME NEW k \in PrerollCounts, Preroll(k) PROVE OnAirTracked'
    <3>1. Started /\ state' \in {state, "STARTING"} /\ UNCHANGED <<activeFrame, card>>
      BY <2>3 DEF Preroll
    <3> QED BY <3>1 DEF card
  <2> QED BY <1>3, <2>1, <2>2, <2>3 DEF Control
<1>4. CASE Transfer
  BY <1>4 DEF Transfer, TransferFind, TransferBegin, TransferComplete, TransferFail,
              TransferP2P, Message, P2PComplete, driver, card
<1>5. CASE UNCHANGED vars
  BY <1>5 DEF vars, driver, card
<1> QED BY <1>1, <1>2, <1>3, <1>4, <1>5 DEF Next

\* Whatever clients do, across pauses, prerolls and restarts, the ISR uses up a
\* repeat in RUNNING only of the frame that was shown.
THEOREM ChargedWasAired == Spec => ChargedMeansAired
<1>1. Init => OnAirTracked
  BY DEF Init, OnAirTracked, Started
<1>2. TypeOK /\ OnAirTracked /\ [Next]_vars
        => [ \A f \in Frames :
               (Isr /\ state = "RUNNING" /\ validCount'[f] # validCount[f])
                 => f = onAir ]_vars
  <2> SUFFICES ASSUME TypeOK, OnAirTracked, Isr, state = "RUNNING",
                      NEW f \in Frames, validCount'[f] # validCount[f]
               PROVE  f = onAir
    OBVIOUS
  <2>1. onAir = outputFrame /\ IntoRange(outputFrame) = outputFrame
    BY IntoRangeInRing DEF OnAirTracked, Isr, TypeOK, Started
  <2>2. IsrRunning
    BY DEF Isr, IsrIdle, IsrStopping, IsrPaused, IsrStarting
  <2>3. f = IntoRange(outputFrame)
    BY <2>2 DEF IsrRunning, TypeOK
  <2> QED BY <2>1, <2>3
<1>3. TypeOK /\ OnAirTracked /\ [Next]_vars => OnAirTracked'
  BY OnAirStep
<1> QED BY <1>1, <1>2, <1>3, TypeCorrect, PTL DEF Spec, ChargedMeansAired
-----------------------------------------------------------------------------
(* No hole in the queue.                                                   *)

\* The register is at the active frame, or went on to the next one because
\* the active one was used up; it stays used up until it is left.
RegisterInStep ==
  Started =>
    \/ outputFrame = activeFrame
    \/ outputFrame = NextFrame(activeFrame) /\ validCount[activeFrame] = 0

\* A transfer fills the first empty frame: whatever happens between the choice
\* of the frame and the end of its DMA, all frames before it are queued.
WrittenIsNext ==
  xferPhase # "idle" =>
    /\ Started => \A f \in Frames :
         (f # outputFrame /\ Ahead(outputFrame, f) < Ahead(outputFrame, xferFrame))
            => validCount[f] # 0
    /\ state = "INIT" => /\ validCount[xferFrame] = 0
                         /\ \A f \in Frames : f < xferFrame => validCount[f] # 0

QueueInv == RegisterInStep /\ WrittenIsNext /\ NothingStranded

\* A preroll lengthens the active frame only while the register is there too.
LEMMA PrerollKeepsOrder ==
  ASSUME IInv, QueueInv, NEW k \in PrerollCounts, Preroll(k)
  PROVE  \E last \in Frames :
            /\ last = PrevFrame(FindNextAvail)
            /\ validCount' = [validCount EXCEPT ![last] = @ + k]
            /\ state' = IF last = activeFrame THEN "STARTING" ELSE state
            /\ last = activeFrame => last = outputFrame
            /\ last # activeFrame => validCount[last] # 0
            /\ FindNextAvail \in Frames /\ FindNextAvail # activeFrame
            /\ validCount[FindNextAvail] = 0
<1> DEFINE empty == {f \in Frames : validCount[f] = 0} \ {activeFrame}
           found == FindNextAvail
           last == PrevFrame(found)
<1>1. /\ TypeOK /\ Started /\ activeFrame \in Frames /\ found # InvalidFrame
      /\ found = FirstFrom(NextFrame(activeFrame), empty)
  BY DEF Preroll, FindNextAvail, Started, IInv
<1>2. found \in Frames /\ validCount[found] = 0 /\ found # activeFrame
  BY <1>1, FindNextAvailEmpty
<1>3. empty # {}
  BY <1>1 DEF FirstFrom
<1>4. last \in Frames /\ NextFrame(last) = found
  BY <1>2, StepsInRing
<1>5. last \notin empty
  BY <1>1, <1>3, BeforeFirstFrom
<1>6. ASSUME last = activeFrame PROVE last = outputFrame
  <2>1. outputFrame # NextFrame(activeFrame) \/ outputFrame = activeFrame
    BY <1>1, <1>2, <1>4, <1>6 DEF IInv, CommittedIsQueued
  <2> QED BY <1>1, <1>6, <2>1 DEF QueueInv, RegisterInStep
<1>7. /\ validCount' = [validCount EXCEPT ![last] = @ + k]
      /\ state' = IF last = activeFrame THEN "STARTING" ELSE state
  BY DEF Preroll
<1> HIDE DEF last, found
<1> QED BY <1>2, <1>4, <1>5, <1>6, <1>7 DEF last, found

\* The ISR leaves a frame only when it is used up and the next one is queued.
LEMMA IsrQueue == IInv /\ QueueInv /\ Isr => QueueInv'
<1> SUFFICES ASSUME IInv, QueueInv, Isr PROVE QueueInv'
  OBVIOUS
<1>1. TypeOK /\ UNCHANGED <<xferPhase, xferFrame>>
  BY DEF IInv, Isr, client
<1>2. CASE IsrIdle \/ IsrStopping
  <2>1. /\ UNCHANGED <<validCount, outputFrame>> /\ ~Started'
        /\ state' = "INIT" => state = "INIT"
    BY <1>2 DEF IsrIdle, IsrStopping, driver, Started
  <2> QED BY <1>1, <2>1 DEF QueueInv, RegisterInStep, WrittenIsNext, NothingStranded
<1>3. ASSUME IsrPaused \/ IsrStarting \/ IsrRunning PROVE QueueInv'
  <2> DEFINE a == outputFrame
             n == NextFrame(outputFrame)
  <2>1. a \in Frames /\ Started /\ Started' /\ activeFrame' = a /\ state' # "INIT"
    BY <1>1, <1>3, IntoRangeInRing
    DEF IsrPaused, IsrStarting, IsrRunning, Started, TypeOK
  <2>2. \A f \in Frames : f # a => validCount'[f] = validCount[f]
    BY <1>1, <1>3, <2>1 DEF TypeOK, IsrPaused, IsrStarting, IsrRunning
  <2>3. outputFrame' = a \/ (outputFrame' = n /\ validCount'[a] = 0)
    BY <1>3, <2>1 DEF IsrPaused, IsrStarting, IsrRunning
  <2>4. RegisterInStep'
    BY <2>1, <2>3 DEF RegisterInStep
  <2>5. \A f, g \in Frames :
          (f # a /\ Ahead(a, f) < Ahead(a, g) /\ validCount[g] # 0) => validCount[f] # 0
    BY <2>1 DEF QueueInv, NothingStranded
  <2>6. xferPhase # "idle" => /\ xferFrame \in Frames /\ xferFrame # a
                             /\ \A f \in Frames :
                                  f # a /\ Ahead(a, f) < Ahead(a, xferFrame) => validCount[f] # 0
    BY <1>1, <2>1 DEF QueueInv, WrittenIsNext, TypeOK, IInv, WrittenIsFree
  <2>7. \A g \in Frames : Ahead(a, g) \in 0 .. EndFrame - StartFrame
    BY <2>1, AheadIsDistance
  <2>8. CASE outputFrame' = a
    <3>1. \A g \in Frames : Ahead(a, a) = 0 /\ ~(Ahead(a, g) < Ahead(a, a))
      BY <2>1, <2>7, AheadIsDistance, RangeAssumption
    <3>2. NothingStranded'
      BY <2>1, <2>2, <2>5, <2>8, <3>1 DEF NothingStranded
    <3>3. WrittenIsNext'
      BY <1>1, <2>1, <2>2, <2>6, <2>8 DEF WrittenIsNext
    <3> QED BY <2>4, <3>2, <3>3 DEF QueueInv
  <2>9. CASE outputFrame' = n /\ validCount'[a] = 0
    <3>1. \A g \in Frames : Ahead(n, g) = IF g = a THEN EndFrame - StartFrame ELSE Ahead(a, g) - 1
      BY <2>1, AheadFromNext
    <3>2. \A f, g \in Frames : (g # a /\ Ahead(n, f) < Ahead(n, g))
                                  => f # a /\ Ahead(a, f) < Ahead(a, g)
      BY <2>7, <3>1, RangeAssumption
    <3>3. NothingStranded'
      BY <2>1, <2>2, <2>5, <2>9, <3>2 DEF NothingStranded
    <3>4. WrittenIsNext'
      BY <1>1, <2>1, <2>2, <2>6, <2>9, <3>2 DEF WrittenIsNext
    <3> QED BY <2>4, <3>3, <3>4 DEF QueueInv
  <2> QED BY <2>3, <2>8, <2>9
<1> QED BY <1>2, <1>3 DEF Isr

\* Commands: a start turns the order of INIT into that of the register, a
\* flush empties what is behind it, and a preroll empties and fills nothing.
LEMMA ControlQueue ==
  ASSUME Disciplined, IInv, QueueInv, Control
  PROVE  QueueInv'
<1>1. TypeOK
  BY DEF IInv
<1>2. CASE InitChannel
  <2>1. xferPhase' = "idle" /\ ~Started' /\ \A f \in Frames : validCount'[f] = 0
    BY <1>2 DEF InitChannel, MayIssue, Disciplined, Started
  <2> QED BY <2>1 DEF QueueInv, RegisterInStep, WrittenIsNext, NothingStranded
<1>3. CASE Start
  <2>1. /\ xferPhase = "idle" /\ state = "INIT" /\ state' = "STARTING"
        /\ activeFrame' = StartFrame /\ outputFrame' = StartFrame
        /\ UNCHANGED <<xferPhase, validCount>>
    BY <1>3 DEF Start, MayIssue, Disciplined, client
  <2>2. \A f, g \in Frames : f < g /\ validCount[g] # 0 => validCount[f] # 0
    BY <2>1 DEF QueueInv, NothingStranded
  <2>3. \A f, g \in Frames : Ahead(StartFrame, f) < Ahead(StartFrame, g) => f < g
    BY AheadFromStart, RangeAssumption DEF Frames
  <2>4. NothingStranded'
    BY <2>1, <2>2, <2>3 DEF NothingStranded
  <2> QED BY <2>1, <2>4 DEF QueueInv, RegisterInStep, WrittenIsNext
<1>4. CASE Stop \/ Abort
  <2>1. ~Started' /\ state' # "INIT"
    BY <1>4 DEF Stop, Abort, SetState, Started
  <2> QED BY <2>1 DEF QueueInv, RegisterInStep, WrittenIsNext, NothingStranded
<1>5. CASE Pause \/ Resume
  <2>1. Started /\ Started' /\ state' # "INIT"
        /\ UNCHANGED <<outputFrame, activeFrame, validCount, xferPhase, xferFrame>>
    BY <1>5 DEF Pause, Resume, SetState, Started, client, card
  <2> QED BY <2>1 DEF QueueInv, RegisterInStep, WrittenIsNext, NothingStranded
<1>6. CASE Flush
  <2>1. xferPhase' = "idle" /\ UNCHANGED <<state, outputFrame, activeFrame>>
    BY <1>6 DEF Flush, MayIssue, Disciplined, client, card
  <2>2. \A f \in Frames : validCount'[f] # 0 => Started /\ f = outputFrame
    BY <1>1, <1>6, IntoRangeInRing DEF Flush, TypeOK, Started
  <2>3. Started => outputFrame \in Frames /\ activeFrame \in Frames
    BY <1>1 DEF TypeOK
  <2>4. RegisterInStep'
    <3>1. \A f \in Frames : validCount'[f] \in {0, validCount[f]}
      BY <1>6 DEF Flush
    <3> QED BY <2>1, <2>3, <3>1 DEF QueueInv, RegisterInStep, Started
  <2>5. NothingStranded'
    <3>1. Started => \A f \in Frames : ~(Ahead(outputFrame, f) < Ahead(outputFrame, outputFrame))
      BY <2>3, AheadIsDistance, RangeAssumption
    <3> QED BY <2>1, <2>2, <3>1 DEF NothingStranded, Started
  <2> QED BY <2>1, <2>4, <2>5 DEF QueueInv, WrittenIsNext
<1>7. ASSUME NEW k \in PrerollCounts, Preroll(k) PROVE QueueInv'
  <2>1. PICK last \in Frames :
            /\ validCount' = [validCount EXCEPT ![last] = @ + k]
            /\ state' = IF last = activeFrame THEN "STARTING" ELSE state
            /\ last = activeFrame => last = outputFrame
            /\ last # activeFrame => validCount[last] # 0
    BY <1>7, PrerollKeepsOrder
  <2>2. /\ Started /\ Started' /\ state' # "INIT"
        /\ UNCHANGED <<outputFrame, activeFrame, xferPhase, xferFrame>>
    BY <1>7, <2>1 DEF Preroll, Started, client, card
  <2>3. k \in Nat /\ validCount \in [Frames -> Nat] /\ outputFrame \in Frames
        /\ activeFrame \in Frames
    BY <1>1, <2>2, PlayAssumption DEF TypeOK
  <2>4. \A f \in Frames : validCount[f] # 0 => validCount'[f] # 0
    BY <2>1, <2>3
  <2>5. \A f \in Frames : f # outputFrame /\ validCount'[f] # 0 => validCount[f] # 0
    BY <2>1, <2>3
  <2>6. \A f \in Frames : ~(Ahead(outputFrame, f) < Ahead(outputFrame, outputFrame))
    BY <2>3, AheadIsDistance, RangeAssumption
  <2>7. NothingStranded'
    <3> SUFFICES ASSUME NEW f \in Frames, NEW g \in Frames, f # outputFrame,
                        Ahead(outputFrame, f) < Ahead(outputFrame, g), validCount'[g] # 0
                 PROVE  validCount'[f] # 0
      BY <2>2 DEF NothingStranded
    <3>1. validCount[g] # 0
      BY <2>5, <2>6
    <3> QED BY <2>2, <2>4, <3>1 DEF QueueInv, NothingStranded
  <2>8. WrittenIsNext'
    BY <2>2, <2>4 DEF QueueInv, WrittenIsNext
  <2>9. RegisterInStep'
    BY <2>1, <2>2, <2>3 DEF QueueInv, RegisterInStep
  <2> QED BY <2>7, <2>8, <2>9 DEF QueueInv
<1> QED BY <1>2, <1>3, <1>4, <1>5, <1>6, <1>7 DEF Control

\* FindNextAvailFrame passes over queued frames only: those between the
\* register and the frame it returns (in INIT: from startFrame on).
LEMMA FindsFirstEmpty ==
  ASSUME IInv, QueueInv, FindNextAvail # InvalidFrame
  PROVE  /\ Started => \A f \in Frames :
              (f # outputFrame /\ Ahead(outputFrame, f) < Ahead(outputFrame, FindNextAvail))
                 => validCount[f] # 0
         /\ state = "INIT" => \A f \in Frames : f < FindNextAvail => validCount[f] # 0
<1>1. TypeOK /\ FindNextAvail \in Frames /\ (Started => FindNextAvail # activeFrame)
  BY FindNextAvailEmpty DEF IInv
<1>2. ASSUME Started, NEW f \in Frames, f # outputFrame,
             Ahead(outputFrame, f) < Ahead(outputFrame, FindNextAvail)
      PROVE  validCount[f] # 0
  <2> DEFINE from == NextFrame(activeFrame)
             empty == {g \in Frames : validCount[g] = 0} \ {activeFrame}
             found == FindNextAvail
             o == outputFrame
  <2>1. activeFrame \in Frames /\ o \in Frames /\ from \in Frames
        /\ found = FirstFrom(from, empty) /\ empty # {}
    BY <1>1, <1>2, StepsInRing DEF FindNextAvail, FirstFrom, Started, TypeOK
  <2>2. /\ Ahead(o, f) \in Nat /\ Ahead(o, found) \in 0 .. EndFrame - StartFrame
        /\ Ahead(from, f) \in Nat /\ Ahead(from, found) \in Nat
    BY <1>1, <2>1, AheadIsDistance, RangeAssumption
  <2>3. f # activeFrame /\ Ahead(from, f) < Ahead(from, found)
    <3>1. CASE o = activeFrame
      <4>1. /\ Ahead(from, f) = Ahead(o, f) - 1
            /\ Ahead(from, found) = Ahead(o, found) - 1
        BY <1>1, <1>2, <2>1, <3>1, AheadFromNext
      <4> HIDE DEF from, found
      <4> QED BY <1>2, <2>2, <3>1, <4>1 DEF found
    <3>2. CASE o = from
      <4>1. Ahead(from, f) < Ahead(from, found)
        BY <1>2, <3>2
      <4>2. Ahead(from, activeFrame) = EndFrame - StartFrame
        BY <2>1, AheadFromNext
      <4>3. Ahead(from, found) \in 0 .. EndFrame - StartFrame
        BY <1>1, <2>1, AheadIsDistance
      <4> HIDE DEF from, found
      <4> QED BY <4>1, <4>2, <4>3, <2>2, RangeAssumption
    <3> QED BY <1>2, <2>1, <3>1, <3>2 DEF QueueInv, RegisterInStep
  <2>4. f \notin empty
    BY <2>1, <2>3, PassedOver
  <2> QED BY <2>3, <2>4
<1>3. ASSUME state = "INIT", NEW f \in Frames, f < FindNextAvail
      PROVE  validCount[f] # 0
  <2> DEFINE empty == {g \in Frames : validCount[g] = 0}
  <2>1. FindNextAvail = FirstFrom(StartFrame, empty) /\ empty # {}
    BY <1>3 DEF FindNextAvail, FirstFrom
  <2>2. Ahead(StartFrame, f) < Ahead(StartFrame, FindNextAvail)
    BY <1>1, <1>3, AheadFromStart, RangeAssumption DEF Frames
  <2>3. f \notin empty
    BY <1>1, <2>1, <2>2, PassedOver, AheadFromStart
  <2> QED BY <2>3
<1> QED BY <1>2, <1>3

\* The client and the peers: a frame is filled when all before it are.
LEMMA TransferQueue ==
  ASSUME Disciplined, IInv, QueueInv, Transfer
  PROVE  QueueInv'
<1>1. TypeOK /\ UNCHANGED <<state, activeFrame>>
      /\ (outputFrame' # outputFrame => state = "DISABLED")
  BY DEF IInv, Transfer, TransferFind, TransferBegin, TransferComplete, TransferFail,
         TransferP2P, Message, P2PComplete, driver, card
<1>2. CASE TransferFind
  <2>1. xferFrame' = FindNextAvail /\ FindNextAvail # InvalidFrame
        /\ UNCHANGED <<validCount, outputFrame>>
    BY <1>2 DEF TransferFind, Disciplined, driver, card
  <2>2. WrittenIsNext'
    BY <1>1, <2>1, FindsFirstEmpty, FindNextAvailEmpty DEF WrittenIsNext, Started
  <2> QED BY <1>1, <2>1, <2>2 DEF QueueInv, RegisterInStep, NothingStranded, Started
<1>3. CASE \/ TransferBegin \/ TransferFail
           \/ \E f \in Frames : Message(f) \/ P2PComplete(f)
  <2>1. validCount' = validCount /\ xferPhase' # "idle" => xferPhase # "idle" /\ xferFrame' = xferFrame
    BY <1>3 DEF TransferBegin, TransferFail, Message, P2PComplete, client
  <2>2. validCount' = validCount
    BY <1>3 DEF TransferBegin, TransferFail, Message, P2PComplete, driver
  <2> QED BY <1>1, <2>1, <2>2 DEF QueueInv, RegisterInStep, WrittenIsNext, NothingStranded, Started
<1>4. CASE TransferComplete \/ TransferP2P
  <2>1. /\ xferPhase # "idle" /\ xferFrame \in Frames /\ xferPhase' = "idle"
        /\ \A f \in Frames : f # xferFrame => validCount'[f] = validCount[f]
    BY <1>1, <1>4 DEF TransferComplete, TransferP2P, TypeOK
  <2>2. outputFrame' = outputFrame
    BY <1>4 DEF TransferComplete, TransferP2P
  <2>3. ASSUME Started
        PROVE  /\ xferFrame # outputFrame /\ xferFrame # activeFrame /\ validCount[xferFrame] = 0
               /\ outputFrame \in Frames /\ activeFrame \in Frames
    BY <1>1, <2>1, <2>3 DEF IInv, WrittenIsFree, TypeOK
  <2>4. RegisterInStep'
    BY <1>1, <2>1, <2>2, <2>3 DEF QueueInv, RegisterInStep, Started
  <2>5. ASSUME Started, NEW f \in Frames, NEW g \in Frames, f # outputFrame,
               Ahead(outputFrame, f) < Ahead(outputFrame, g), validCount'[g] # 0
        PROVE  validCount'[f] # 0
    <3>1. \A h \in Frames : f # h /\ Ahead(outputFrame, f) < Ahead(outputFrame, h) /\ validCount[h] # 0
                            => validCount[f] # 0
      BY <2>5 DEF QueueInv, NothingStranded
    <3>2. CASE f # xferFrame /\ g # xferFrame
      BY <2>1, <2>5, <3>2 DEF QueueInv, NothingStranded
    <3>3. CASE f # xferFrame /\ g = xferFrame
      BY <2>1, <2>5, <3>3 DEF QueueInv, WrittenIsNext
    <3>4. CASE f = xferFrame /\ g # xferFrame
      BY <2>1, <2>3, <2>5, <3>4 DEF QueueInv, NothingStranded
    <3>5. CASE f = xferFrame /\ g = xferFrame
      BY <2>5, <3>5
    <3> QED BY <3>2, <3>3, <3>4, <3>5
  <2>6. ASSUME state = "INIT", NEW f \in Frames, NEW g \in Frames, f < g, validCount'[g] # 0
        PROVE  validCount'[f] # 0
    <3>1. CASE f # xferFrame /\ g # xferFrame
      BY <2>1, <2>6, <3>1 DEF QueueInv, NothingStranded
    <3>2. CASE f # xferFrame /\ g = xferFrame
      BY <2>1, <2>6, <3>2 DEF QueueInv, WrittenIsNext
    <3>3. CASE f = xferFrame
      <4>1. g # xferFrame /\ validCount[g] # 0
        BY <2>1, <2>6, <3>3, RangeAssumption DEF Frames
      <4>2. validCount[xferFrame] # 0
        BY <2>1, <2>6, <3>3, <4>1 DEF QueueInv, NothingStranded
      <4> QED BY <2>1, <2>6, <4>2 DEF QueueInv, WrittenIsNext
    <3> QED BY <3>1, <3>2, <3>3
  <2>7. NothingStranded'
    BY <1>1, <2>2, <2>5, <2>6 DEF NothingStranded, Started
  <2> QED BY <2>1, <2>4, <2>7 DEF QueueInv, WrittenIsNext
<1> QED BY <1>2, <1>3, <1>4 DEF Transfer

\* Under the discipline the order of the queue holds in every reachable state.
LEMMA QueueHolds == ASSUME Disciplined PROVE Spec => []QueueInv
<1>1. Init => QueueInv
  BY DEF Init, QueueInv, RegisterInStep, WrittenIsNext, NothingStranded, Started
<1>2. IInv /\ QueueInv /\ [Next]_vars => QueueInv'
  <2> SUFFICES ASSUME IInv, QueueInv, [Next]_vars PROVE QueueInv'
    OBVIOUS
  <2>1. CASE Vbi \/ StartTimeReached
    <3>1. UNCHANGED <<state, activeFrame, outputFrame, validCount, xferPhase, xferFrame>>
      BY <2>1 DEF Vbi, StartTimeReached, driver, client, card
    <3> QED BY <3>1 DEF QueueInv, RegisterInStep, WrittenIsNext, NothingStranded, Started
  <2>2. CASE Isr
    BY <2>2, IsrQueue
  <2>3. CASE Control
    BY <2>3, ControlQueue
  <2>4. CASE Transfer
    BY <2>4, TransferQueue
  <2>5. CASE UNCHANGED vars
    <3>1. UNCHANGED <<state, activeFrame, outputFrame, validCount, xferPhase, xferFrame>>
      BY <2>5 DEF vars, driver, client, card
    <3> QED BY <3>1 DEF QueueInv, RegisterInStep, WrittenIsNext, NothingStranded, Started
  <2> QED BY <2>1, <2>2, <2>3, <2>4, <2>5 DEF Next
<1> QED BY <1>1, <1>2, InvariantHolds, PTL DEF Spec

\* No hole in the queue, for every frame range and every client that keeps the
\* discipline: the queued frames follow the one in the output register (in
\* INIT: from startFrame on) without a gap, so that the ISR, which stops at the
\* first empty frame, reaches them all in one lap.
THEOREM NoneStranded == ASSUME Disciplined PROVE Spec => []NothingStranded
  BY QueueHolds, PTL DEF QueueInv
=============================================================================
