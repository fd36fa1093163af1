------------------------ MODULE AutoCircQueueProofs ------------------------
(***************************************************************************)
(* A playout channel implements PlayoutQueue, for every frame range: ring, *)
(* register, ISR, transfer thread and peers together are a first-in        *)
(* first-out queue of shots.                                               *)
(***************************************************************************)
EXTENDS AutoCircPlayMC, AutoCircPlayProofs, FiniteSetTheorems

(* Positions on the ring, counted from a frame.                            *)

\* Every frame is the i-th ahead of any other for exactly one i.
LEMMA NthIsAhead ==
  ASSUME NEW f \in Frames
  PROVE  /\ RangeSize \in Nat \ {0}
         /\ Nth(f, 0) = f
         /\ \A i \in 0 .. RangeSize - 1 : Nth(f, i) \in Frames /\ Ahead(f, Nth(f, i)) = i
         /\ \A g \in Frames : Ahead(f, g) \in 0 .. RangeSize - 1 /\ Nth(f, Ahead(f, g)) = g
  BY RangeAssumption DEF Nth, RangeSize, Frames, Ahead

\* The i-th ahead of the next frame is the one after the i-th.
LEMMA NthOfNext ==
  ASSUME NEW f \in Frames
  PROVE  /\ \A i \in 0 .. RangeSize - 2 : Nth(NextFrame(f), i) = Nth(f, i + 1)
         /\ \A i \in 0 .. RangeSize - 2 : NextFrame(Nth(f, i)) = Nth(f, i + 1)
         /\ Nth(NextFrame(f), RangeSize - 1) = f
  BY RangeAssumption DEF Nth, RangeSize, Frames, NextFrame

\* From frame first on, and among "most" frames, the first m are queued and the
\* next is empty.
Leads(vc, first, most, m) ==
  /\ m \in 0 .. most
  /\ \A j \in 0 .. m - 1 : vc[Nth(first, j)] # 0
  /\ m < most => vc[Nth(first, m)] = 0

\* The positions Backlog counts.
Lead(vc, first, most) == {i \in 0 .. most - 1 : \A j \in 0 .. i : vc[Nth(first, j)] # 0}

\* There is such an m.
LEMMA LeadExists ==
  ASSUME NEW vc, NEW first, NEW most \in Nat
  PROVE  \E m : Leads(vc, first, most, m)
<1> DEFINE T == {j \in 0 .. most : j = most \/ vc[Nth(first, j)] = 0}
<1>1. T \subseteq Nat /\ most \in T
  OBVIOUS
<1>2. PICK m \in T : \A j \in T : ~ (<<j, m>> \in LessThan)
  <2> HIDE DEF T
  <2> QED BY <1>1, LessThanWellFounded, WFMin
<1>3. m \in 0 .. most /\ (m < most => vc[Nth(first, m)] = 0)
  OBVIOUS
<1>4. ASSUME NEW j \in 0 .. m - 1 PROVE vc[Nth(first, j)] # 0
  <2>1. j \in Nat /\ j < m /\ j \in 0 .. most
    BY <1>3
  <2>2. j \notin T
    <3>1. <<j, m>> \in LessThan
      BY <1>3, <2>1 DEF LessThan
    <3> HIDE DEF T
    <3> QED BY <1>2, <3>1
  <2> QED BY <2>1, <2>2
<1> QED BY <1>3, <1>4 DEF Leads

\* It is what Backlog counts.
LEMMA LeadIsCounted ==
  ASSUME NEW vc, NEW first, NEW most \in Nat, NEW m, Leads(vc, first, most, m)
  PROVE  Cardinality(Lead(vc, first, most)) = m
<1> DEFINE S == Lead(vc, first, most)
<1> USE DEF Lead
<1>1. m \in 0 .. most
  BY DEF Leads
<1>2. ASSUME NEW i \in 0 .. m - 1 PROVE i \in S
  BY <1>1, <1>2 DEF Leads
<1>3. ASSUME NEW i \in S PROVE i \in 0 .. m - 1
  <2>1. i \in 0 .. most - 1 /\ \A j \in 0 .. i : vc[Nth(first, j)] # 0
    OBVIOUS
  <2>2. SUFFICES ASSUME i >= m PROVE FALSE
    BY <1>1, <2>1
  <2>3. m \in 0 .. i /\ m < most
    BY <1>1, <2>1, <2>2
  <2> QED BY <2>1, <2>3 DEF Leads
<1>4. S = 0 .. m - 1
  <2> HIDE DEF S
  <2>1. S \subseteq 0 .. m - 1
    BY <1>3
  <2>2. 0 .. m - 1 \subseteq S
    BY <1>2
  <2> QED BY <2>1, <2>2
<1>5. Cardinality(0 .. m - 1) = m
  BY <1>1, FS_Interval
<1> QED BY <1>4, <1>5
-----------------------------------------------------------------------------
(* What the queue of shots needs beyond the order of the frames.           *)

\* The channels the refinement is for: the queue of shots knows no fields.
Plain == ~FieldMode

\* A frame still owed by a peer has VBIs left, and never is the one the register
\* names once the channel was running: only STARTING waits for a picture.
HeldBack ==
  /\ \A f \in Frames : pending[f] => validCount[f] # 0
  /\ state \in {"RUNNING", "PAUSED"} => ~pending[outputFrame]

\* The transfer completes with the repeats the client has asked for.
RepeatChosen == xferPhase = "writing" => xferRepeat \in Repeats

ShotInv == HeldBack /\ RepeatChosen

\* The ISR uses up no repeat of a frame that is owed, and moves on to none.
LEMMA IsrShots ==
  ASSUME IInv, ShotInv, Isr
  PROVE  ShotInv'
<1>1. TypeOK /\ UNCHANGED <<xferPhase, xferRepeat, pending>>
  BY DEF IInv, Isr, IsrIdle, IsrStopping, IsrPaused, IsrStarting, IsrRunning, driver, client
<1>2. CASE IsrIdle \/ IsrStopping
  <2>1. validCount' = validCount /\ state' \notin {"RUNNING", "PAUSED"}
    BY <1>2 DEF IsrIdle, IsrStopping, driver
  <2> QED BY <1>1, <2>1 DEF ShotInv, HeldBack, RepeatChosen
<1>3. ASSUME IsrPaused \/ IsrStarting \/ IsrRunning PROVE ShotInv'
  <2> DEFINE a == outputFrame
             n == NextFrame(outputFrame)
  <2>1. a \in Frames /\ activeFrame' = a
    BY <1>1, <1>3, IntoRangeInRing DEF IsrPaused, IsrStarting, IsrRunning, TypeOK, Started
  <2>2. \/ validCount' = validCount
        \/ ~pending[a] /\ validCount' = [validCount EXCEPT ![a] = @ - 1]
    BY <1>3, <2>1 DEF IsrPaused, IsrStarting, IsrRunning, ShotInv, HeldBack
  <2>3. \A f \in Frames : pending[f] => validCount'[f] # 0
    BY <1>1, <2>1, <2>2 DEF ShotInv, HeldBack, TypeOK
  <2>4. \/ outputFrame' = a /\ state' = state
        \/ outputFrame' = n /\ ~pending[n]
    BY <1>3, <2>1 DEF IsrPaused, IsrStarting, IsrRunning
  <2>5. state' \in {"RUNNING", "PAUSED"} => ~pending[outputFrame']
    BY <2>4 DEF ShotInv, HeldBack
  <2> QED BY <1>1, <2>3, <2>5 DEF ShotInv, HeldBack, RepeatChosen
<1> QED BY <1>2, <1>3 DEF Isr

\* Commands neither take repeats from a frame that is owed nor end the wait.
LEMMA ControlShots ==
  ASSUME Disciplined, IInv, ShotInv, Control
  PROVE  ShotInv'
<1>1. TypeOK
  BY DEF IInv
<1>2. CASE InitChannel
  BY <1>2 DEF InitChannel, MayIssue, Disciplined, ShotInv, HeldBack, RepeatChosen
<1>3. CASE Start \/ Stop \/ Abort \/ Pause \/ Resume
  <2>1. UNCHANGED <<validCount, pending, client>>
    BY <1>3 DEF Start, Stop, Abort, Pause, Resume, SetState
  <2>2. state' \in {"RUNNING", "PAUSED"} =>
          state \in {"RUNNING", "PAUSED"} /\ outputFrame' = outputFrame
    BY <1>3 DEF Start, Stop, Abort, Pause, Resume, SetState, card
  <2> QED BY <2>1, <2>2 DEF client, ShotInv, HeldBack, RepeatChosen
<1>4. CASE Flush
  <2>1. UNCHANGED <<state, outputFrame, client>>
    BY <1>4 DEF Flush, card
  <2>2. \A f \in Frames :
          pending'[f] => pending[f] /\ validCount'[f] = validCount[f]
    BY <1>4 DEF Flush
  <2>3. state \in {"RUNNING", "PAUSED"} => outputFrame \in Frames
    BY <1>1 DEF TypeOK, Started
  <2> QED BY <2>1, <2>2, <2>3 DEF client, ShotInv, HeldBack, RepeatChosen
<1>5. ASSUME NEW k \in PrerollCounts, Preroll(k) PROVE ShotInv'
  <2>1. UNCHANGED <<pending, outputFrame, client>>
        /\ state' \in {"STARTING", state}
    BY <1>5 DEF Preroll, card
  <2>2. \A f \in Frames : validCount[f] # 0 => validCount'[f] # 0
    BY <1>1, <1>5, PlayAssumption DEF Preroll, TypeOK
  <2> QED BY <2>1, <2>2 DEF client, ShotInv, HeldBack, RepeatChosen
<1> QED BY <1>2, <1>3, <1>4, <1>5 DEF Control

\* A frame is queued owed with at least one repeat, and away from the register.
LEMMA TransferShots ==
  ASSUME Disciplined, IInv, ShotInv, Transfer
  PROVE  ShotInv'
<1>1. TypeOK /\ state' = state
  BY DEF IInv, Transfer, TransferFind, TransferBegin, TransferComplete, TransferFail,
         TransferP2P, Message, P2PComplete, driver
<1>2. CASE TransferFind \/ TransferBegin \/ TransferFail
  <2>1. UNCHANGED <<validCount, pending, outputFrame>>
        /\ (xferPhase' = "writing" => xferRepeat' \in Repeats)
    BY <1>2 DEF TransferFind, TransferBegin, TransferFail, driver, card
  <2> QED BY <1>1, <2>1 DEF ShotInv, HeldBack, RepeatChosen
<1>3. CASE TransferComplete \/ TransferP2P
  <2>1. /\ xferPhase # "idle" /\ xferFrame \in Frames /\ xferPhase' = "idle"
        /\ outputFrame' = outputFrame
    BY <1>1, <1>3 DEF TransferComplete, TransferP2P, TypeOK
  <2>2. \A f \in Frames \ {xferFrame} :
          validCount'[f] = validCount[f] /\ pending'[f] = pending[f]
    BY <1>1, <1>3 DEF TransferComplete, TransferP2P, TypeOK
  <2>3. pending'[xferFrame] => validCount'[xferFrame] # 0
    BY <1>1, <1>3, <2>1 DEF TransferComplete, TransferP2P, TypeOK, Disciplined
  <2>4. state \in {"RUNNING", "PAUSED"} => outputFrame \in Frames \ {xferFrame}
    BY <1>1, <2>1 DEF IInv, WrittenIsFree, TypeOK, Started
  <2> QED BY <1>1, <2>1, <2>2, <2>3, <2>4 DEF ShotInv, HeldBack, RepeatChosen
<1>4. ASSUME NEW f \in Frames, Message(f) \/ P2PComplete(f) PROVE ShotInv'
  <2>1. UNCHANGED <<validCount, client>> /\ (state # "DISABLED" => outputFrame' = outputFrame)
    BY <1>4 DEF Message, P2PComplete
  <2>2. pending' \in {pending, [pending EXCEPT ![f] = FALSE]}
    BY <1>4 DEF Message, P2PComplete
  <2>3. \A g \in Frames : pending'[g] => pending[g]
    BY <1>1, <2>2 DEF TypeOK
  <2>4. state \in {"RUNNING", "PAUSED"} => outputFrame \in Frames
    BY <1>1 DEF TypeOK, Started
  <2> QED BY <1>1, <2>1, <2>3, <2>4 DEF client, ShotInv, HeldBack, RepeatChosen
<1> QED BY <1>2, <1>3, <1>4 DEF Transfer

\* Under the discipline all this holds in every reachable state.
LEMMA ShotsHold == ASSUME Disciplined PROVE Spec => []ShotInv
<1>1. Init => ShotInv
  BY DEF Init, ShotInv, HeldBack, RepeatChosen
<1>2. IInv /\ ShotInv /\ [Next]_vars => ShotInv'
  <2> SUFFICES ASSUME IInv, ShotInv, [Next]_vars PROVE ShotInv'
    OBVIOUS
  <2>1. CASE Vbi \/ StartTimeReached \/ UNCHANGED vars
    <3>1. UNCHANGED <<state, outputFrame, validCount, pending, client>>
      BY <2>1 DEF Vbi, StartTimeReached, driver, card, vars
    <3> QED BY <3>1 DEF client, ShotInv, HeldBack, RepeatChosen
  <2> QED BY <2>1, IsrShots, ControlShots, TransferShots DEF Next
<1> QED BY <1>1, <1>2, InvariantHolds, PTL DEF Spec
-----------------------------------------------------------------------------
(* The frames of the queue: the first so many from a frame on.             *)

Live == Started \/ state = "INIT"
First == IF state = "INIT" THEN StartFrame ELSE NextFrame(outputFrame)
Most == IF state = "INIT" THEN RangeSize ELSE RangeSize - 1

\* The queue starts in the ring, and leaves room for the frame of the register.
LEMMA FirstInRing ==
  TypeOK /\ Live => /\ First \in Frames /\ Most \in Nat
                    /\ Most \in {RangeSize - 1, RangeSize}
                    /\ Started <=> state # "INIT"
                    /\ Started => Most = RangeSize - 1
                    /\ RangeSize \in Nat \ {0}
<1> SUFFICES ASSUME TypeOK, Live PROVE
       /\ First \in Frames /\ Most \in Nat /\ Most \in {RangeSize - 1, RangeSize}
       /\ Started <=> state # "INIT"
       /\ Started => Most = RangeSize - 1
       /\ RangeSize \in Nat \ {0}
  OBVIOUS
<1>1. Started <=> state # "INIT"
  BY DEF Live, Started
<1>2. StartFrame \in Frames
  BY RangeAssumption DEF Frames
<1>3. First \in Frames
  BY <1>1, <1>2, StepsInRing DEF First, TypeOK
<1>4. RangeSize \in Nat \ {0}
  BY RangeAssumption DEF RangeSize
<1> QED BY <1>1, <1>3, <1>4 DEF Most

\* The queue of shots, given how many frames lead.
LEMMA QueuedNow ==
  ASSUME TypeOK, Live, NEW m, Leads(validCount, First, Most, m)
  PROVE  Queued = [i \in 1 .. m |-> Shot(Nth(First, i - 1))]
<1>1. Most \in Nat
  BY FirstInRing
<1>2. m \in Nat
  BY <1>1 DEF Leads
<1>3. Cardinality(Lead(validCount, First, Most)) = m
  BY <1>1, LeadIsCounted
<1>4. Backlog = [i \in 1 .. m |-> Nth(First, i - 1)]
  BY <1>3 DEF Backlog, First, Most, Lead
<1> QED BY <1>4 DEF Queued, Live

\* The same after a step.
LEMMA QueuedNext ==
  ASSUME TypeOK', Live', NEW first, first = First', NEW most \in Nat, most = Most',
         NEW m, Leads(validCount', first, most, m)
  PROVE  Queued' = [i \in 1 .. m |-> Shot(Nth(first, i - 1))']
<1>1. Cardinality(Lead(validCount', first, most)) = m
  BY LeadIsCounted
<1>2. Backlog' = [i \in 1 .. m |-> Nth(first, i - 1)]
  BY <1>1 DEF Backlog, First, Most, Lead
<1> QED BY <1>2 DEF Queued, Live

\* Each frame but that of a started channel's register has one position; those
\* with repeats left come first.
LEMMA Positions ==
  ASSUME TypeOK, QueueInv, Live, NEW m, Leads(validCount, First, Most, m)
  PROVE  /\ m \in 0 .. Most
         /\ \A j \in 0 .. Most - 1 : /\ Nth(First, j) \in Frames
                                     /\ validCount[Nth(First, j)] # 0 <=> j < m
                                     /\ Started => Nth(First, j) # outputFrame
         /\ \A i, j \in 0 .. Most - 1 : Nth(First, i) = Nth(First, j) => i = j
         /\ \A f \in Frames : (Started => f # outputFrame) =>
              \E j \in 0 .. Most - 1 : f = Nth(First, j)
<1>1. /\ First \in Frames /\ Most \in Nat /\ RangeSize \in Nat \ {0}
      /\ Most \in {RangeSize - 1, RangeSize} /\ (Started => Most = RangeSize - 1)
      /\ Started <=> state # "INIT"
  BY FirstInRing
<1>2. /\ \A j \in 0 .. RangeSize - 1 : Nth(First, j) \in Frames /\ Ahead(First, Nth(First, j)) = j
      /\ \A f \in Frames : Ahead(First, f) \in 0 .. RangeSize - 1 /\ Nth(First, Ahead(First, f)) = f
  BY <1>1, NthIsAhead
<1>3. ASSUME Started
      PROVE  /\ outputFrame \in Frames /\ First = NextFrame(outputFrame)
             /\ \A f \in Frames : f # outputFrame =>
                  /\ Ahead(First, f) = Ahead(outputFrame, f) - 1
                  /\ Ahead(First, f) \in 0 .. RangeSize - 2
             /\ Ahead(First, outputFrame) = RangeSize - 1
  <2>1. outputFrame \in Frames /\ First = NextFrame(outputFrame)
    BY <1>1, <1>3 DEF First, TypeOK
  <2>2. \A f \in Frames : Ahead(First, f) = IF f = outputFrame THEN EndFrame - StartFrame
                                                                ELSE Ahead(outputFrame, f) - 1
    BY <2>1, AheadFromNext
  <2>3. \A f \in Frames : Ahead(outputFrame, f) \in 0 .. EndFrame - StartFrame
    BY <2>1, AheadIsDistance
  <2>4. \A f \in Frames : Ahead(First, f) \in Nat
    BY <1>2
  <2>5. EndFrame - StartFrame = RangeSize - 1
    BY RangeAssumption DEF RangeSize
  <2> HIDE DEF RangeSize
  <2> QED BY <1>1, <2>1, <2>2, <2>3, <2>4, <2>5
<1>4. m \in 0 .. Most
  BY DEF Leads
<1>5. ASSUME NEW j \in 0 .. Most - 1, Started PROVE Nth(First, j) # outputFrame
  BY <1>1, <1>2, <1>3, <1>5
<1>6. ASSUME NEW j \in 0 .. Most - 1, j > m PROVE validCount[Nth(First, j)] = 0
  <2>1. m \in 0 .. Most - 1 /\ validCount[Nth(First, m)] = 0
    BY <1>1, <1>4, <1>6 DEF Leads
  <2>2. /\ Nth(First, m) \in Frames /\ Ahead(First, Nth(First, m)) = m
        /\ Nth(First, j) \in Frames /\ Ahead(First, Nth(First, j)) = j
    BY <1>1, <1>2, <2>1
  <2>3. CASE Started
    <3>1. Nth(First, m) # outputFrame /\ Nth(First, j) # outputFrame
      BY <1>5, <2>1, <2>3
    <3>2. Ahead(outputFrame, Nth(First, m)) = m + 1 /\ Ahead(outputFrame, Nth(First, j)) = j + 1
      <4>1. /\ Ahead(outputFrame, Nth(First, m)) \in Int
            /\ Ahead(outputFrame, Nth(First, j)) \in Int
        BY <1>3, <2>2, <2>3, AheadIsDistance
      <4> QED BY <1>3, <2>2, <2>3, <3>1, <4>1
    <3>3. Ahead(outputFrame, Nth(First, m)) < Ahead(outputFrame, Nth(First, j))
      BY <1>1, <1>4, <1>6, <3>2
    <3> QED BY <2>1, <2>2, <2>3, <3>1, <3>3 DEF QueueInv, NothingStranded
  <2>4. CASE state = "INIT"
    <3>1. First = StartFrame
      BY <2>4 DEF First
    <3>2. Nth(First, m) < Nth(First, j)
      <4>1. /\ Ahead(First, Nth(First, m)) = Nth(First, m) - StartFrame
            /\ Ahead(First, Nth(First, j)) = Nth(First, j) - StartFrame
        BY <2>2, <3>1, AheadFromStart
      <4>2. Nth(First, m) \in Int /\ Nth(First, j) \in Int
        BY <2>2, RangeAssumption DEF Frames
      <4> QED BY <1>1, <1>4, <1>6, <2>2, <4>1, <4>2, RangeAssumption
    <3> QED BY <2>1, <2>2, <2>4, <3>2 DEF QueueInv, NothingStranded
  <2> QED BY <2>3, <2>4 DEF Live
<1>7. ASSUME NEW j \in 0 .. Most - 1
      PROVE  Nth(First, j) \in Frames /\ (validCount[Nth(First, j)] # 0 <=> j < m)
  <2>1. Nth(First, j) \in Frames
    BY <1>1, <1>2
  <2>2. CASE j < m
    BY <1>4, <2>2, <2>1 DEF Leads
  <2>3. CASE j = m
    BY <1>4, <2>3, <2>1, <1>1 DEF Leads
  <2>4. CASE j > m
    BY <1>6, <2>4, <2>1, <1>4
  <2> QED BY <1>4, <2>2, <2>3, <2>4
<1>8. \A i, j \in 0 .. Most - 1 : Nth(First, i) = Nth(First, j) => i = j
  <2> SUFFICES ASSUME NEW i \in 0 .. Most - 1, NEW j \in 0 .. Most - 1,
                      Nth(First, i) = Nth(First, j)
               PROVE  i = j
    OBVIOUS
  <2>1. i \in 0 .. RangeSize - 1 /\ j \in 0 .. RangeSize - 1
    BY <1>1
  <2> QED BY <1>2, <2>1
<1>9. ASSUME NEW f \in Frames, Started => f # outputFrame
      PROVE  \E j \in 0 .. Most - 1 : f = Nth(First, j)
  <2>1. Ahead(First, f) \in 0 .. Most - 1
    <3>1. CASE Started
      <4>1. Ahead(First, f) \in 0 .. RangeSize - 2 /\ Most = RangeSize - 1
        BY <1>1, <1>3, <1>9, <3>1
      <4> HIDE DEF First, Most, RangeSize
      <4> QED BY <1>1, <4>1
    <3>2. CASE state = "INIT"
      BY <1>2, <3>2 DEF Most
    <3> QED BY <3>1, <3>2 DEF Live
  <2> QED BY <1>2, <2>1
<1> QED BY <1>4, <1>5, <1>7, <1>8, <1>9

\* The first empty frame is the one behind the last queued one.
LEMMA FirstEmptyIsTail ==
  ASSUME TypeOK, QueueInv, Live, NEW m, Leads(validCount, First, Most, m),
         NEW e \in Frames, validCount[e] = 0, Started => e # outputFrame,
         Started => \A f \in Frames :
            (f # outputFrame /\ Ahead(outputFrame, f) < Ahead(outputFrame, e))
               => validCount[f] # 0,
         state = "INIT" => \A f \in Frames : f < e => validCount[f] # 0
  PROVE  m < Most /\ e = Nth(First, m)
<1>1. /\ First \in Frames /\ Most \in Nat /\ Most \in {RangeSize - 1, RangeSize}
      /\ RangeSize \in Nat \ {0}
      /\ Started <=> state # "INIT"
  BY FirstInRing
<1>2. (Started => e # outputFrame) /\ validCount[e] = 0
  OBVIOUS
<1>3. PICK k \in 0 .. Most - 1 : e = Nth(First, k)
  BY <1>1, <1>2, Positions
<1>4. m \in 0 .. Most /\ ~(k < m)
  BY <1>1, <1>2, <1>3, Positions
<1>5. m \in 0 .. Most - 1
  BY <1>1, <1>4
<1>6. /\ Nth(First, m) \in Frames /\ validCount[Nth(First, m)] = 0
      /\ Started => Nth(First, m) # outputFrame
  BY <1>1, <1>5, Positions
<1>7. ASSUME m < k PROVE FALSE
  <2>1. Ahead(First, Nth(First, m)) = m /\ Ahead(First, e) = k
    <3>1. m \in 0 .. RangeSize - 1 /\ k \in 0 .. RangeSize - 1
      BY <1>1, <1>3, <1>5
    <3> QED BY <1>1, <1>3, <3>1, NthIsAhead
  <2>2. CASE Started
    <3>1. outputFrame \in Frames /\ First = NextFrame(outputFrame)
      BY <1>1, <2>2 DEF First, TypeOK
    <3>2. /\ Ahead(First, Nth(First, m)) = Ahead(outputFrame, Nth(First, m)) - 1
          /\ Ahead(First, e) = Ahead(outputFrame, e) - 1
      BY <1>1, <1>2, <1>6, <2>2, <3>1, AheadFromNext
    <3>3. Ahead(outputFrame, Nth(First, m)) \in Int /\ Ahead(outputFrame, e) \in Int
      BY <1>1, <1>6, <3>1, AheadIsDistance
    <3>4. Ahead(outputFrame, Nth(First, m)) < Ahead(outputFrame, e)
      BY <1>4, <1>7, <2>1, <3>2, <3>3
    <3> QED BY <1>6, <2>2, <3>4
  <2>3. CASE state = "INIT"
    <3>1. First = StartFrame
      BY <2>3 DEF First
    <3>2. /\ Ahead(First, Nth(First, m)) = Nth(First, m) - StartFrame
          /\ Ahead(First, e) = e - StartFrame
      BY <1>1, <1>6, <3>1, AheadFromStart
    <3>3. Nth(First, m) < e
      <4>1. Nth(First, m) \in Int /\ e \in Int
        BY <1>1, <1>6, RangeAssumption DEF Frames
      <4> QED BY <1>5, <1>7, <2>1, <3>2, <4>1, RangeAssumption
    <3> QED BY <1>6, <2>3, <3>3
  <2> QED BY <2>2, <2>3 DEF Live
<1> QED BY <1>1, <1>3, <1>4, <1>5, <1>7
\* A transfer writes that frame.
LEMMA WrittenIsTail ==
  ASSUME IInv, QueueInv, Live, xferPhase # "idle",
         NEW m, Leads(validCount, First, Most, m)
  PROVE  m < Most /\ xferFrame = Nth(First, m)
<1>1. TypeOK /\ xferFrame \in Frames /\ (Started <=> state # "INIT")
  BY FirstInRing DEF IInv, TypeOK
<1>2. (Started => xferFrame # outputFrame) /\ validCount[xferFrame] = 0
  BY <1>1 DEF IInv, WrittenIsFree, QueueInv, WrittenIsNext
<1> QED BY <1>1, <1>2, FirstEmptyIsTail DEF QueueInv, WrittenIsNext
-----------------------------------------------------------------------------
(* Each step of the driver is a step of the queue of shots, or hidden.     *)

\* The mode of the queue, now and after a step.
LEMMA ModeNow ==
  ASSUME TypeOK
  PROVE  /\ ~Live => Mode = "closed"
         /\ state = "INIT" => Mode = "loading"
         /\ state \in {"STARTING", "RUNNING"} => Mode = "playing"
         /\ state = "PAUSED" => Mode = "held"
  BY DEF Mode, Live, Started, TypeOK, States

LEMMA ModeNext ==
  ASSUME TypeOK'
  PROVE  /\ ~Live' => Mode' = "closed"
         /\ state' = "INIT" => Mode' = "loading"
         /\ state' \in {"STARTING", "RUNNING"} => Mode' = "playing"
         /\ state' = "PAUSED" => Mode' = "held"
  BY DEF Mode, Live, Started, TypeOK, States

\* A step that touches neither state, register nor frames is hidden.
LEMMA StepHidden ==
  UNCHANGED <<state, outputFrame, validCount, pending, content>>
    => UNCHANGED <<Mode, Committed, Queued>>
<1> SUFFICES ASSUME UNCHANGED <<state, outputFrame, validCount, pending, content>>
             PROVE  UNCHANGED <<Mode, Committed, Queued>>
  OBVIOUS
<1>1. Mode' = Mode
  BY DEF Mode
<1>2. Committed' = Committed
  BY DEF Committed, Shot, Started
<1>3. Backlog' = Backlog
  BY DEF Backlog
<1>4. Queued' = Queued
  BY <1>3 DEF Queued, Shot, Started
<1> QED BY <1>1, <1>2, <1>4

\* Nothing of a closed channel is seen.
LEMMA ClosedHidden ==
  ASSUME TypeOK, TypeOK', ~Live, ~Live'
  PROVE  UNCHANGED <<Mode, Committed, Queued>>
<1>1. Mode = "closed" /\ Mode' = "closed"
  BY ModeNow, ModeNext
<1>2. Committed = NoShot /\ Committed' = NoShot
  BY DEF Committed, Live
<1>3. Queued = << >> /\ Queued' = << >>
  BY DEF Queued, Live
<1> QED BY <1>1, <1>2, <1>3

\* The frame of a DMA is not in the queue, and what is put there not seen.
LEMMA BeginHidden ==
  ASSUME IInv, TypeOK', QueueInv, TransferBegin
  PROVE  UNCHANGED <<Mode, Committed, Queued>>
<1>1. TypeOK /\ xferPhase # "idle" /\ xferFrame \in Frames
      /\ UNCHANGED <<state, outputFrame, validCount, pending>>
      /\ \A f \in Frames \ {xferFrame} : content'[f] = content[f]
  BY DEF TransferBegin, IInv, TypeOK
<1>2. CASE ~Live
  BY <1>1, <1>2, ClosedHidden DEF Live, Started
<1>3. CASE Live
  <2>1. Mode' = Mode
    BY <1>1 DEF Mode
  <2>2. Committed' = Committed
    BY <1>1 DEF Committed, Shot, Started, IInv, WrittenIsFree, TypeOK
  <2>3. Most \in Nat
    BY <1>1, <1>3, FirstInRing
  <2>4. PICK m : Leads(validCount, First, Most, m)
    BY <2>3, LeadExists
  <2>5. Queued = [i \in 1 .. m |-> Shot(Nth(First, i - 1))]
    BY <1>1, <1>3, <2>4, QueuedNow
  <2>6. Backlog' = Backlog
    BY <1>1 DEF Backlog
  <2>7. m < Most /\ m \in 0 .. Most /\ xferFrame = Nth(First, m)
    BY <1>1, <1>3, <2>4, WrittenIsTail, Positions
  <2>8. \A i \in 1 .. m : Nth(First, i - 1) \in Frames \ {xferFrame}
    <3> SUFFICES ASSUME NEW i \in 1 .. m PROVE Nth(First, i - 1) \in Frames \ {xferFrame}
      OBVIOUS
    <3>1. i - 1 \in 0 .. Most - 1 /\ m \in 0 .. Most - 1 /\ i - 1 # m
      BY <2>3, <2>7
    <3> QED BY <1>1, <1>3, <2>4, <2>7, <3>1, Positions
  <2>9. Queued' = [i \in 1 .. m |-> Shot(Nth(First, i - 1))']
    <3>1. First' = First /\ Most' = Most /\ Live'
      BY <1>1, <1>3 DEF First, Most, Live, Started
    <3> QED BY <1>1, <2>3, <2>4, <3>1, QueuedNext
  <2>10. \A i \in 1 .. m : Shot(Nth(First, i - 1))' = Shot(Nth(First, i - 1))
    <3>1. First' = First
      BY <1>1 DEF First
    <3> QED BY <1>1, <2>8, <3>1 DEF Shot
  <2>11. Queued' = Queued
    BY <2>5, <2>9, <2>10
  <2> QED BY <2>1, <2>2, <2>11
<1> QED BY <1>2, <1>3

\* A function on 1 .. m is a sequence of that length: how it is extended, and
\* what is left of it.
LEMMA SequenceOf ==
  ASSUME NEW m \in Nat, NEW q, q = [i \in 1 .. m |-> q[i]]
  PROVE  /\ Len(q) = m /\ (q = << >> <=> m = 0)
         /\ \A x : Append(q, x) = [i \in 1 .. m + 1 |-> IF i = m + 1 THEN x ELSE q[i]]
         /\ m > 0 => Head(q) = q[1] /\ Tail(q) = [i \in 1 .. m - 1 |-> q[i + 1]]
<1>1. Len(q) = m
  OBVIOUS
<1>2. q = << >> <=> m = 0
  OBVIOUS
<1>3. \A x : Append(q, x) = [i \in 1 .. m + 1 |-> IF i = m + 1 THEN x ELSE q[i]]
  BY <1>1
<1>4. ASSUME m > 0 PROVE Head(q) = q[1] /\ Tail(q) = [i \in 1 .. m - 1 |-> q[i + 1]]
  BY <1>1, <1>2, <1>4
<1> QED BY <1>1, <1>2, <1>3, <1>4

\* The completion of a transfer, or of a peer-to-peer set-up, puts a shot at the
\* end of the queue, whatever happened since its frame was chosen.
LEMMA FrameQueued ==
  ASSUME Disciplined, Plain, IInv, TypeOK', QueueInv, ShotInv, Live,
         TransferComplete \/ TransferP2P
  PROVE  Queue!Enqueue
<1>1. /\ TypeOK /\ xferPhase # "idle" /\ xferFrame \in Frames
      /\ UNCHANGED <<state, outputFrame>>
      /\ \A f \in Frames \ {xferFrame} : /\ validCount'[f] = validCount[f]
                                          /\ pending'[f] = pending[f]
                                          /\ content'[f] = content[f]
  BY DEF TransferComplete, TransferP2P, IInv, TypeOK
<1>2. PICK xf : xf = xferFrame
  OBVIOUS
<1>3. PICK first : first = First
  OBVIOUS
<1>4. Most \in Nat
  BY <1>1, FirstInRing
<1>5. PICK most \in Nat : most = Most
  BY <1>4
<1>6. first = First' /\ most = Most' /\ Live'
  BY <1>1, <1>3, <1>5 DEF First, Most, Live, Started
<1>7. PICK m : Leads(validCount, First, Most, m)
  BY <1>4, LeadExists
<1>8. m \in 0 .. most - 1 /\ xf = Nth(first, m)
  BY <1>1, <1>2, <1>3, <1>5, <1>7, WrittenIsTail, Positions
<1>9. /\ \A j \in 0 .. most - 1 : /\ Nth(first, j) \in Frames
                                  /\ validCount[Nth(first, j)] # 0 <=> j < m
      /\ \A j \in 0 .. most - 1 : Nth(first, j) = xf => j = m
  BY <1>1, <1>3, <1>5, <1>7, <1>8, Positions
<1>10. PICK s \in Queue!Transferred \cup Queue!Announced \cup Queue!Failed : Shot(xf)' = s
  <2>1. CASE TransferComplete
    <3>1. PICK p \in Pictures : content'[xf] = p
      BY <1>1, <1>2, <2>1 DEF TransferComplete, Plain, TypeOK
    <3>2. /\ ~pending'[xf] /\ validCount'[xf] = xferRepeat /\ xferRepeat \in Repeats
      BY <1>1, <1>2, <2>1 DEF TransferComplete, TypeOK, ShotInv, RepeatChosen
    <3>3. Shot(xf)' = [pic |-> p, left |-> xferRepeat, arrived |-> TRUE]
      BY <3>1, <3>2 DEF Shot
    <3> QED BY <3>2, <3>3 DEF Queue!Transferred
  <2>2. CASE TransferP2P
    <3>1. PICK n \in Repeats : validCount'[xf] = n
      BY <1>1, <1>2, <2>2 DEF TransferP2P, TypeOK
    <3>2. pending'[xf] \in BOOLEAN /\ content'[xf] = Stale /\ Stale \notin Pictures
      BY <1>1, <1>2, <2>2, PlayAssumption DEF TransferP2P, TypeOK
    <3>3. Shot(xf)' = [pic |-> Stale, left |-> n, arrived |-> ~pending'[xf]]
      BY <3>1, <3>2 DEF Shot
    <3>4. CASE pending'[xf]
      BY <3>1, <3>3, <3>4 DEF Queue!Announced
    <3>5. CASE ~pending'[xf]
      BY <3>1, <3>3, <3>5 DEF Queue!Failed
    <3> QED BY <3>2, <3>4, <3>5
  <2> QED BY <2>1, <2>2
<1>11. validCount'[xf] # 0
  BY <1>10 DEF Shot, Disciplined, Queue!Transferred, Queue!Announced, Queue!Failed
<1>12. Leads(validCount', first, most, m + 1)
  <2>1. m + 1 \in 0 .. most
    BY <1>8
  <2>2. ASSUME NEW j \in 0 .. m PROVE validCount'[Nth(first, j)] # 0
    <3>1. j \in 0 .. most - 1 /\ (j = m \/ j < m)
      BY <1>8
    <3> QED BY <1>1, <1>2, <1>8, <1>9, <1>11, <3>1
  <2>3. ASSUME m + 1 < most PROVE validCount'[Nth(first, m + 1)] = 0
    <3>1. m + 1 \in 0 .. most - 1 /\ m + 1 # m /\ ~(m + 1 < m)
      BY <1>8, <2>3
    <3> QED BY <1>1, <1>2, <1>9, <3>1
  <2>4. (m + 1) - 1 = m
    BY <1>8
  <2> QED BY <2>1, <2>2, <2>3, <2>4 DEF Leads
<1>13. Queued' = [i \in 1 .. m + 1 |-> Shot(Nth(first, i - 1))']
  BY <1>6, <1>12, QueuedNext
<1>14. Queued = [i \in 1 .. m |-> Shot(Nth(first, i - 1))]
  BY <1>1, <1>3, <1>7, QueuedNow
<1>15. \A i \in 1 .. m : Shot(Nth(first, i - 1))' = Shot(Nth(first, i - 1))
  <2> SUFFICES ASSUME NEW i \in 1 .. m PROVE Shot(Nth(first, i - 1))' = Shot(Nth(first, i - 1))
    OBVIOUS
  <2>1. i - 1 \in 0 .. most - 1 /\ i - 1 # m
    BY <1>8
  <2>2. Nth(first, i - 1) \in Frames \ {xferFrame}
    BY <1>2, <1>9, <2>1
  <2> QED BY <1>1, <2>2 DEF Shot
<1>16. Queued' = Append(Queued, s)
  <2>1. m \in Nat /\ (m + 1) - 1 = m
    BY <1>8
  <2>2. Append(Queued, s) = [i \in 1 .. m + 1 |-> IF i = m + 1 THEN s ELSE Queued[i]]
    BY <1>14, <2>1, SequenceOf
  <2>3. \A i \in 1 .. m + 1 : Shot(Nth(first, i - 1))' = IF i = m + 1 THEN s ELSE Queued[i]
    BY <1>8, <1>10, <1>14, <1>15, <2>1
  <2> QED BY <1>13, <2>2, <2>3
<1>17. Mode' = Mode /\ Mode # "closed"
  <2>1. Mode # "closed"
    BY <1>1, ModeNow DEF Live, Started
  <2>2. Mode' = Mode
    BY <1>1 DEF Mode
  <2> QED BY <2>1, <2>2
<1>18. Committed' = Committed
  <2>1. Started => outputFrame \in Frames \ {xferFrame}
    BY <1>1 DEF IInv, WrittenIsFree, TypeOK
  <2> QED BY <1>1, <2>1 DEF Committed, Shot, Started
<1> QED BY <1>10, <1>16, <1>17, <1>18 DEF Queue!Enqueue

\* A peer's picture arrives at the register's frame or somewhere in the queue.
LEMMA PictureArrives ==
  ASSUME IInv, TypeOK', QueueInv, Live, NEW f \in Frames, Message(f) \/ P2PComplete(f)
  PROVE  Queue!Arrive
<1>1. /\ TypeOK /\ f \in peers /\ state # "DISABLED"
      /\ UNCHANGED <<state, outputFrame, validCount>>
      /\ pending' = [pending EXCEPT ![f] = FALSE]
  BY DEF Message, P2PComplete, IInv, Live, Started
<1>2. PICK p \in Pictures : content' = [content EXCEPT ![f] = p]
  BY DEF Message, P2PComplete
<1>3. pending[f] /\ validCount[f] # 0
  BY <1>1 DEF IInv, PeersAreQueued
<1>4. /\ ~Shot(f).arrived
      /\ Shot(f)' = Queue!Arrival(Shot(f), p)
  <2>1. ~pending'[f] /\ content'[f] = p /\ p \in Pictures /\ pending[f] = TRUE
    BY <1>1, <1>2, <1>3 DEF TypeOK
  <2>2. Shot(f) = [pic |-> Stale, left |-> validCount[f], arrived |-> FALSE]
    BY <2>1 DEF Shot
  <2>3. Shot(f)' = [pic |-> p, left |-> validCount[f], arrived |-> TRUE]
    BY <1>1, <2>1 DEF Shot
  <2>4. ~Shot(f).arrived
    BY <2>2
  <2>5. Queue!Arrival(Shot(f), p) = [pic |-> p, left |-> validCount[f], arrived |-> TRUE]
    BY <2>2 DEF Queue!Arrival
  <2> QED BY <2>3, <2>4, <2>5
<1>5. \A g \in Frames \ {f} : Shot(g)' = Shot(g)
  BY <1>1, <1>2 DEF Shot, TypeOK
<1>6. Mode' = Mode
  BY <1>1 DEF Mode
<1>7. PICK first : first = First
  OBVIOUS
<1>8. PICK most \in Nat : most = Most
  BY <1>1, FirstInRing
<1>9. first = First' /\ most = Most' /\ Live'
  BY <1>1, <1>7, <1>8 DEF First, Most, Live, Started
<1>10. PICK m : Leads(validCount, First, Most, m)
  BY <1>8, LeadExists
<1>11. m \in 0 .. most
  BY <1>8, <1>10 DEF Leads
<1>12. /\ Queued = [i \in 1 .. m |-> Shot(Nth(first, i - 1))]
       /\ Queued' = [i \in 1 .. m |-> Shot(Nth(first, i - 1))']
  <2>1. Leads(validCount', first, most, m)
    BY <1>1, <1>7, <1>8, <1>10
  <2> QED BY <1>1, <1>7, <1>9, <1>10, <2>1, QueuedNow, QueuedNext
<1>13. Len(Queued) = m
  BY <1>11, <1>12, SequenceOf
<1>14. CASE Started /\ f = outputFrame
  <2>1. \A i \in 1 .. m : Nth(first, i - 1) \in Frames \ {f}
    <3> SUFFICES ASSUME NEW i \in 1 .. m PROVE Nth(first, i - 1) \in Frames \ {f}
      OBVIOUS
    <3>1. i - 1 \in 0 .. most - 1
      BY <1>11
    <3> QED BY <1>1, <1>7, <1>8, <1>10, <1>14, <3>1, Positions
  <2>2. Queued' = Queued
    BY <1>5, <1>12, <2>1
  <2>3. Committed = Shot(f) /\ Committed' = Shot(f)'
    BY <1>1, <1>14 DEF Committed, Started
  <2> QED BY <1>4, <1>6, <2>2, <2>3 DEF Queue!Arrive
<1>15. CASE Started => f # outputFrame
  <2>1. PICK k \in 0 .. most - 1 : f = Nth(first, k) /\ k < m
    <3>1. PICK k \in 0 .. most - 1 : f = Nth(first, k)
      BY <1>1, <1>7, <1>8, <1>10, <1>15, Positions
    <3> QED BY <1>1, <1>3, <1>7, <1>8, <1>10, <3>1, Positions
  <2>2. \A i \in 1 .. m : i # k + 1 => Nth(first, i - 1) \in Frames \ {f}
    <3> SUFFICES ASSUME NEW i \in 1 .. m, i # k + 1 PROVE Nth(first, i - 1) \in Frames \ {f}
      OBVIOUS
    <3>1. i - 1 \in 0 .. most - 1 /\ i - 1 # k
      BY <1>11, <2>1
    <3> QED BY <1>1, <1>7, <1>8, <1>10, <2>1, <3>1, Positions
  <2>3. k + 1 \in 1 .. m /\ (k + 1) - 1 = k
    BY <1>11, <2>1
  <2>4. Queued[k + 1] = Shot(f) /\ Queued'[k + 1] = Shot(f)'
    BY <1>12, <2>1, <2>3
  <2>5. Queued' = [Queued EXCEPT ![k + 1] = Queue!Arrival(Queued[k + 1], p)]
    <3>1. \A i \in 1 .. m : i # k + 1 => Queued'[i] = Queued[i]
      BY <1>5, <1>12, <2>2
    <3> QED BY <1>4, <1>12, <2>3, <2>4, <3>1
  <2>6. Committed' = Committed
    <3>1. Started => outputFrame \in Frames \ {f} /\ Committed = Shot(outputFrame)
      BY <1>1, <1>15 DEF TypeOK, Committed
    <3>2. Started => Shot(outputFrame)' = Shot(outputFrame)
      BY <1>1, <1>2, <3>1 DEF Shot, TypeOK
    <3> QED BY <1>1, <3>1, <3>2 DEF Committed, Started
  <2> QED BY <1>4, <1>6, <1>13, <2>3, <2>4, <2>5, <2>6 DEF Queue!Arrive
<1> QED BY <1>14, <1>15

\* An interrupt that counts uses up a repeat of the register's frame, if there
\* is one left, and moves the register on if that was the last and the next
\* frame is ready; any other is hidden.
LEMMA TickOrHidden ==
  ASSUME Plain, IInv, ShotInv, IsrStarting \/ IsrRunning
  PROVE  \/ UNCHANGED <<state, outputFrame, validCount>>
         \/ /\ ~pending[outputFrame]
            /\ validCount' = IF validCount[outputFrame] > 0
                             THEN [validCount EXCEPT ![outputFrame] = @ - 1] ELSE validCount
            /\ outputFrame' = IF /\ validCount'[outputFrame] = 0
                                 /\ validCount'[NextFrame(outputFrame)] # 0
                                 /\ ~pending[NextFrame(outputFrame)]
                              THEN NextFrame(outputFrame) ELSE outputFrame
<1>1. TypeOK /\ outputFrame \in Frames /\ activeFrame' = outputFrame
  BY IntoRangeInRing DEF IInv, IsrStarting, IsrRunning, TypeOK, Started
<1>2. CASE IsrStarting
  <2>1. CASE ~startDue
    BY <1>2, <2>1 DEF IsrStarting
  <2>2. CASE startDue /\ pending[outputFrame]
    <3>1. validCount' = validCount /\ validCount[outputFrame] # 0
      BY <1>1, <1>2, <2>2 DEF IsrStarting, ShotInv, HeldBack
    <3> QED BY <1>1, <1>2, <2>2, <3>1 DEF IsrStarting
  <2>3. CASE startDue /\ ~pending[outputFrame]
    BY <1>1, <1>2, <2>3 DEF IsrStarting, Plain
  <2> QED BY <2>1, <2>2, <2>3
<1>3. CASE IsrRunning
  <2>1. ~pending[outputFrame]
    BY <1>3 DEF IsrRunning, ShotInv, HeldBack
  <2> QED BY <1>1, <1>3, <2>1 DEF IsrRunning
<1> QED BY <1>2, <1>3

LEMMA ShotAired ==
  ASSUME Plain, IInv, TypeOK', QueueInv, ShotInv, Isr, IsrStarting \/ IsrRunning
  PROVE  Queue!Tick \/ UNCHANGED <<Mode, Committed, Queued>>
<1>1. /\ TypeOK /\ Started /\ Live /\ Started' /\ Live' /\ outputFrame \in Frames
      /\ state \in {"STARTING", "RUNNING"} /\ state' \in {"STARTING", "RUNNING"}
      /\ state # "INIT" /\ state' # "INIT"
      /\ UNCHANGED <<pending, content>>
  BY DEF IInv, Isr, IsrStarting, IsrRunning, TypeOK, Started, Live
<1>2. PICK a \in Frames : a = outputFrame
  BY <1>1
<1>3. PICK n \in Frames : n = NextFrame(a)
  BY StepsInRing
<1>4. PICK most \in Nat : most = Most
  BY <1>1, FirstInRing
<1>5. most = RangeSize - 1 /\ RangeSize \in Nat \ {0} /\ First = n /\ most = Most'
  BY <1>1, <1>2, <1>3, <1>4, FirstInRing DEF First, Most
<1>6. PICK m : Leads(validCount, First, Most, m)
  BY <1>4, LeadExists
<1>7. /\ m \in 0 .. most
      /\ \A j \in 0 .. most - 1 : /\ Nth(n, j) \in Frames \ {a}
                                  /\ validCount[Nth(n, j)] # 0 <=> j < m
  BY <1>1, <1>2, <1>4, <1>5, <1>6, Positions
<1>8. Queued = [i \in 1 .. m |-> Shot(Nth(n, i - 1))]
  BY <1>1, <1>5, <1>6, QueuedNow
<1>9. Mode = "playing" /\ Mode' = "playing"
  BY <1>1, ModeNow, ModeNext
<1>10. CASE UNCHANGED <<state, outputFrame, validCount>>
  BY <1>1, <1>10, StepHidden
<1>11. ASSUME /\ ~pending[a]
              /\ validCount' = IF validCount[a] > 0 THEN [validCount EXCEPT ![a] = @ - 1]
                               ELSE validCount
              /\ outputFrame' = IF validCount'[a] = 0 /\ validCount'[n] # 0 /\ ~pending[n]
                                THEN n ELSE a
       PROVE  Queue!Tick
  <2>1. /\ Committed = [pic |-> Committed.pic, left |-> validCount[a], arrived |-> TRUE]
        /\ Committed = Shot(a)
    BY <1>1, <1>2, <1>11 DEF Committed, Shot
  <2>2. \A f \in Frames \ {a} : validCount'[f] = validCount[f] /\ Shot(f)' = Shot(f)
    BY <1>1, <1>11 DEF Shot, TypeOK
  <2>3. validCount'[a] = IF Committed.left > 0 THEN Committed.left - 1 ELSE 0
    <3>1. validCount[a] \in Nat /\ Committed.left = validCount[a]
      BY <1>1, <2>1 DEF TypeOK
    <3> QED BY <1>1, <1>11, <3>1 DEF TypeOK
  <2>4. Shot(a)' = Queue!Lasting(Committed, validCount'[a])
    BY <1>1, <1>11, <2>1 DEF Shot, Queue!Lasting
  <2>5. /\ Queued # << >> <=> m > 0
        /\ m > 0 => /\ Head(Queued) = Queued[1]
                    /\ Tail(Queued) = [i \in 1 .. m - 1 |-> Queued[i + 1]]
    BY <1>7, <1>8, SequenceOf
  <2>6. ASSUME m > 0
        PROVE  /\ Nth(n, 0) = n /\ n # a /\ validCount'[n] # 0
               /\ Head(Queued) = Shot(n) /\ (Head(Queued).arrived <=> ~pending[n])
    <3>1. Nth(n, 0) = n
      BY NthIsAhead
    <3>2. 0 \in 0 .. most - 1 /\ 1 \in 1 .. m
      BY <1>7, <2>6
    <3>3. n # a /\ validCount[n] # 0
      BY <1>7, <2>6, <3>1, <3>2
    <3>4. Queued[1] = Shot(n)
      BY <1>8, <3>1, <3>2
    <3>5. Shot(n).arrived <=> ~pending[n]
      BY DEF Shot
    <3> QED BY <2>2, <2>5, <2>6, <3>1, <3>3, <3>4, <3>5
  <2>7. ASSUME validCount'[a] = 0, validCount'[n] # 0 PROVE m > 0
    <3>1. n # a
      BY <2>7
    <3>2. most # 0
      BY <1>5, <1>3, <3>1, RangeAssumption DEF RangeSize, NextFrame, Frames
    <3>3. Nth(n, 0) = n /\ 0 \in 0 .. most - 1
      BY <3>2, NthIsAhead
    <3> QED BY <1>7, <2>2, <2>7, <3>1, <3>3
  <2>8. CASE validCount'[a] = 0 /\ m > 0 /\ ~pending[n]
    <3>1. outputFrame' = n
      BY <1>11, <2>6, <2>8
    <3>2. PICK first \in Frames : first = NextFrame(n)
      BY StepsInRing
    <3>3. first = First'
      BY <1>1, <3>1, <3>2 DEF First
    <3>4. \A i \in 0 .. most - 1 : Nth(first, i) = Nth(n, i + 1)
      BY <1>5, <3>2, NthOfNext
    <3>5. Nth(n, most) = a
      BY <1>3, <1>5, NthOfNext
    <3>6. Leads(validCount', first, most, m - 1)
      <4>1. m - 1 \in 0 .. most
        BY <1>7, <2>8
      <4>2. ASSUME NEW j \in 0 .. (m - 1) - 1 PROVE validCount'[Nth(first, j)] # 0
        <5>1. j \in 0 .. most - 1 /\ j + 1 \in 0 .. most - 1 /\ j + 1 < m
          BY <1>7
        <5> QED BY <1>7, <2>2, <3>4, <5>1
      <4>3. validCount'[Nth(first, m - 1)] = 0
        <5>1. m - 1 \in 0 .. most - 1 /\ (m - 1) + 1 = m
          BY <1>7, <2>8
        <5>2. Nth(first, m - 1) = Nth(n, m)
          BY <3>4, <5>1
        <5>3. CASE m = most
          BY <2>8, <3>5, <5>2, <5>3
        <5>4. CASE m # most
          <6>1. m \in 0 .. most - 1 /\ ~(m < m)
            BY <1>7, <5>4
          <6> QED BY <1>7, <2>2, <5>2, <6>1
        <5> QED BY <5>3, <5>4
      <4> QED BY <4>1, <4>2, <4>3 DEF Leads
    <3>7. Queued' = [i \in 1 .. m - 1 |-> Shot(Nth(first, i - 1))']
      BY <1>1, <1>5, <3>3, <3>6, QueuedNext
    <3>8. \A i \in 1 .. m - 1 : Shot(Nth(first, i - 1))' = Queued[i + 1]
      <4> SUFFICES ASSUME NEW i \in 1 .. m - 1 PROVE Shot(Nth(first, i - 1))' = Queued[i + 1]
        OBVIOUS
      <4>1. i - 1 \in 0 .. most - 1 /\ (i - 1) + 1 = i /\ i \in 0 .. most - 1
            /\ i + 1 \in 1 .. m /\ (i + 1) - 1 = i
        BY <1>7
      <4>2. Nth(first, i - 1) = Nth(n, i) /\ Nth(n, i) \in Frames \ {a}
        BY <1>7, <3>4, <4>1
      <4>3. Queued[i + 1] = Shot(Nth(n, i))
        BY <1>8, <4>1
      <4> QED BY <2>2, <4>2, <4>3
    <3>9. Queued' = Tail(Queued)
      BY <2>5, <2>8, <3>7, <3>8
    <3>10. Committed' = Head(Queued)
      <4>1. Committed' = Shot(n)'
        BY <1>1, <3>1 DEF Committed, Shot
      <4> QED BY <2>2, <2>6, <2>8, <4>1
    <3>11. Committed.arrived
      BY <2>1
    <3>12. /\ (IF Committed.left > 0 THEN Committed.left - 1 ELSE 0) = 0
           /\ Queued # << >> /\ Head(Queued).arrived
      BY <2>3, <2>5, <2>6, <2>8
    <3> QED BY <1>9, <3>9, <3>10, <3>11, <3>12 DEF Queue!Tick
  <2>9. CASE ~(validCount'[a] = 0 /\ m > 0 /\ ~pending[n])
    <3>1. outputFrame' = a
      BY <1>11, <2>7, <2>9
    <3>2. n = First'
      BY <1>1, <1>3, <3>1 DEF First
    <3>3. Leads(validCount', n, most, m)
      <4>1. \A j \in 0 .. m - 1 : validCount'[Nth(n, j)] # 0
        BY <1>7, <2>2
      <4>2. m < most => validCount'[Nth(n, m)] = 0
        BY <1>7, <2>2
      <4> QED BY <1>7, <4>1, <4>2 DEF Leads
    <3>4. Queued' = [i \in 1 .. m |-> Shot(Nth(n, i - 1))']
      BY <1>1, <1>5, <3>2, <3>3, QueuedNext
    <3>5. \A i \in 1 .. m : i - 1 \in 0 .. most - 1
      BY <1>7
    <3>6. Queued' = Queued
      BY <1>7, <1>8, <2>2, <3>4, <3>5
    <3>7. Committed' = Queue!Lasting(Committed, validCount'[a])
      <4>1. Committed' = Shot(a)'
        BY <1>1, <3>1 DEF Committed, Shot
      <4> QED BY <2>4, <4>1
    <3>8. ~(validCount'[a] = 0 /\ Queued # << >> /\ Head(Queued).arrived)
      BY <2>5, <2>6, <2>9
    <3> QED BY <1>9, <2>1, <2>3, <3>6, <3>7, <3>8 DEF Queue!Tick
  <2> QED BY <2>8, <2>9
<1> QED BY <1>2, <1>3, <1>10, <1>11, TickOrHidden

\* Start commits the first shot; without one, whatever startFrame holds.
LEMMA QueueStarted ==
  ASSUME IInv, TypeOK', QueueInv, ShotInv, Start
  PROVE  Queue!Start
<1>1. /\ TypeOK /\ Live /\ Live' /\ Started' /\ state = "INIT" /\ state' = "STARTING"
      /\ outputFrame' = StartFrame /\ StartFrame \in Frames
      /\ UNCHANGED <<validCount, pending, content>>
  BY RangeAssumption DEF Start, IInv, Live, Started, Frames
<1>2. PICK a \in Frames : a = StartFrame
  BY <1>1
<1>3. PICK n \in Frames : n = NextFrame(a)
  BY StepsInRing
<1>4. /\ First = a /\ Most = RangeSize /\ n = First' /\ Most' = RangeSize - 1
      /\ RangeSize \in Nat \ {0}
  BY <1>1, <1>2, <1>3, FirstInRing DEF First, Most
<1>5. PICK m : Leads(validCount, First, Most, m)
  BY <1>4, LeadExists
<1>6. /\ m \in 0 .. RangeSize
      /\ \A j \in 0 .. RangeSize - 1 : /\ Nth(a, j) \in Frames
                                       /\ validCount[Nth(a, j)] # 0 <=> j < m
  BY <1>1, <1>4, <1>5, Positions
<1>7. Queued = [i \in 1 .. m |-> Shot(Nth(a, i - 1))]
  BY <1>1, <1>4, <1>5, QueuedNow
<1>8. \A f : Shot(f)' = Shot(f)
  BY <1>1 DEF Shot
<1>9. Mode = "loading" /\ Mode' = "playing"
  BY <1>1, ModeNow, ModeNext
<1>10. Committed' = Shot(a)
  BY <1>1, <1>2 DEF Committed, Shot
<1>11. /\ Queued = << >> <=> m = 0
       /\ m > 0 => /\ Head(Queued) = Queued[1]
                   /\ Tail(Queued) = [i \in 1 .. m - 1 |-> Queued[i + 1]]
  BY <1>6, <1>7, SequenceOf
<1>12. /\ Nth(a, 0) = a
       /\ \A i \in 0 .. RangeSize - 2 : Nth(n, i) = Nth(a, i + 1)
  BY <1>3, NthIsAhead, NthOfNext
<1>13. CASE m = 0
  <2>1. validCount[a] = 0
    BY <1>4, <1>6, <1>12, <1>13
  <2>2. PICK p \in Pictures \cup {Stale} : Shot(a) = Queue!Blank(p)
    BY <1>1, <2>1 DEF Shot, Queue!Blank, ShotInv, HeldBack
  <2>3. Leads(validCount', n, RangeSize - 1, 0)
    <3>1. ASSUME 0 < RangeSize - 1 PROVE validCount'[Nth(n, 0)] = 0
      <4>1. 1 \in 0 .. RangeSize - 1 /\ 0 \in 0 .. RangeSize - 2 /\ ~(1 < m)
        BY <1>4, <1>13, <3>1
      <4>2. Nth(n, 0) = Nth(a, 1)
        BY <1>12, <4>1
      <4> QED BY <1>1, <1>6, <4>1, <4>2
    <3> QED BY <1>4, <3>1 DEF Leads
  <2>4. Queued' = [i \in 1 .. 0 |-> Shot(Nth(n, i - 1))']
    BY <1>1, <1>4, <2>3, QueuedNext
  <2>5. Queued' = << >>
    BY <2>4
  <2> QED BY <1>9, <1>10, <1>11, <1>13, <2>2, <2>5 DEF Queue!Start
<1>14. CASE m # 0
  <2>1. Leads(validCount', n, RangeSize - 1, m - 1)
    <3>1. m - 1 \in 0 .. RangeSize - 1
      BY <1>4, <1>6, <1>14
    <3>2. ASSUME NEW j \in 0 .. (m - 1) - 1 PROVE validCount'[Nth(n, j)] # 0
      <4>1. j \in 0 .. RangeSize - 2 /\ j + 1 \in 0 .. RangeSize - 1 /\ j + 1 < m
        BY <1>4, <1>6
      <4> QED BY <1>1, <1>6, <1>12, <4>1
    <3>3. ASSUME m - 1 < RangeSize - 1 PROVE validCount'[Nth(n, m - 1)] = 0
      <4>1. /\ m - 1 \in 0 .. RangeSize - 2 /\ (m - 1) + 1 = m
            /\ m \in 0 .. RangeSize - 1 /\ ~(m < m)
        BY <1>4, <1>6, <1>14, <3>3
      <4> QED BY <1>1, <1>6, <1>12, <4>1
    <3> QED BY <3>1, <3>2, <3>3 DEF Leads
  <2>2. Queued' = [i \in 1 .. m - 1 |-> Shot(Nth(n, i - 1))']
    BY <1>1, <1>4, <2>1, QueuedNext
  <2>3. \A i \in 1 .. m - 1 : Shot(Nth(n, i - 1))' = Queued[i + 1]
    <3> SUFFICES ASSUME NEW i \in 1 .. m - 1 PROVE Shot(Nth(n, i - 1))' = Queued[i + 1]
      OBVIOUS
    <3>1. /\ i - 1 \in 0 .. RangeSize - 2 /\ (i - 1) + 1 = i
          /\ i + 1 \in 1 .. m /\ (i + 1) - 1 = i
      BY <1>4, <1>6
    <3> QED BY <1>7, <1>8, <1>12, <3>1
  <2>4. Queued' = Tail(Queued) /\ m > 0
    BY <1>6, <1>11, <1>14, <2>2, <2>3
  <2>5. Head(Queued) = Shot(a)
    BY <1>7, <1>11, <1>12, <2>4, <1>6
  <2> QED BY <1>9, <1>10, <1>11, <2>4, <2>5 DEF Queue!Start
<1> QED BY <1>13, <1>14

\* A flush throws away everything behind the register's frame.
LEMMA QueueDiscarded ==
  ASSUME IInv, TypeOK', QueueInv, Flush
  PROVE  Queue!Discard
<1>1. /\ TypeOK /\ Live /\ Live' /\ UNCHANGED <<state, outputFrame, content>>
      /\ state \in {"RUNNING", "PAUSED", "INIT"}
  BY DEF Flush, IInv, Live, Started, card
<1>2. Started => outputFrame \in Frames /\ IntoRange(outputFrame) = outputFrame
  BY <1>1, IntoRangeInRing DEF TypeOK
<1>3. /\ \A f \in Frames : (Started => f # outputFrame) => validCount'[f] = 0
      /\ Started => /\ validCount'[outputFrame] = validCount[outputFrame]
                    /\ pending'[outputFrame] = pending[outputFrame]
  BY <1>1, <1>2 DEF Flush, Started, TypeOK
<1>4. PICK first : first = First
  OBVIOUS
<1>5. PICK most \in Nat : most = Most
  BY <1>1, FirstInRing
<1>6. first = First' /\ most = Most'
  BY <1>1, <1>4, <1>5 DEF First, Most
<1>7. PICK m : Leads(validCount, First, Most, m)
  BY <1>5, LeadExists
<1>8. Leads(validCount', first, most, 0)
  <2>1. ASSUME 0 < most PROVE validCount'[Nth(first, 0)] = 0
    <3>1. 0 \in 0 .. Most - 1
      BY <1>5, <2>1
    <3>2. Nth(first, 0) \in Frames /\ (Started => Nth(first, 0) # outputFrame)
      BY <1>1, <1>4, <1>7, <3>1, Positions
    <3> QED BY <1>3, <3>2
  <2> QED BY <2>1 DEF Leads
<1>9. Queued' = [i \in 1 .. 0 |-> Shot(Nth(first, i - 1))']
  BY <1>1, <1>6, <1>8, QueuedNext
<1>10. Queued' = << >>
  BY <1>9
<1>11. Mode # "closed"
  BY <1>1, ModeNow
<1>12. Mode' = Mode
  BY <1>1 DEF Mode
<1>13. Committed' = Committed
  BY <1>1, <1>3 DEF Committed, Shot, Started
<1> QED BY <1>10, <1>11, <1>12, <1>13 DEF Queue!Discard

\* A preroll lengthens the last shot, be it queued or committed.
LEMMA ShotExtended ==
  ASSUME IInv, TypeOK', QueueInv, NEW k \in PrerollCounts, Preroll(k)
  PROVE  Queue!Extend
<1>1. /\ TypeOK /\ Started /\ Live /\ Live' /\ Started' /\ outputFrame \in Frames
      /\ state # "INIT" /\ state' # "INIT" /\ state' \in {state, "STARTING"}
      /\ UNCHANGED <<outputFrame, pending, content>>
      /\ FindNextAvail # InvalidFrame /\ k \in Nat
  BY PlayAssumption DEF Preroll, IInv, Live, Started, TypeOK, card
<1>2. PICK last \in Frames :
         /\ last = PrevFrame(FindNextAvail)
         /\ validCount' = [validCount EXCEPT ![last] = @ + k]
         /\ state' = IF last = activeFrame THEN "STARTING" ELSE state
         /\ last = activeFrame => last = outputFrame
         /\ last # activeFrame => validCount[last] # 0
         /\ FindNextAvail \in Frames /\ FindNextAvail # activeFrame
         /\ validCount[FindNextAvail] = 0
  BY PrerollKeepsOrder
<1>3. FindNextAvail # outputFrame
  BY <1>1, <1>2 DEF IInv, CommittedIsQueued
<1>4. PICK o \in Frames : o = outputFrame
  BY <1>1
<1>5. PICK n \in Frames : n = NextFrame(o)
  BY StepsInRing
<1>6. PICK most \in Nat : most = Most
  BY <1>1, FirstInRing
<1>7. /\ most = RangeSize - 1 /\ First = n /\ n = First' /\ most = Most'
      /\ RangeSize \in Nat \ {0}
  BY <1>1, <1>4, <1>5, <1>6, FirstInRing DEF First, Most
<1>8. PICK m : Leads(validCount, First, Most, m)
  BY <1>6, LeadExists
<1>9. /\ m \in 0 .. most
      /\ \A j \in 0 .. most - 1 : /\ Nth(n, j) \in Frames \ {o}
                                  /\ validCount[Nth(n, j)] # 0 <=> j < m
      /\ \A i, j \in 0 .. most - 1 : Nth(n, i) = Nth(n, j) => i = j
  BY <1>1, <1>4, <1>6, <1>7, <1>8, Positions
<1>10. m < most /\ FindNextAvail = Nth(n, m)
  BY <1>1, <1>2, <1>3, <1>6, <1>7, <1>8, FindsFirstEmpty, FirstEmptyIsTail
<1>11. Queued = [i \in 1 .. m |-> Shot(Nth(n, i - 1))]
  BY <1>1, <1>7, <1>8, QueuedNow
<1>12. Len(Queued) = m /\ (Queued = << >> <=> m = 0)
  BY <1>9, <1>11, SequenceOf
<1>13. Mode \in {"playing", "held"} /\ Mode' \in {Mode, "playing"}
       /\ (state' = state => Mode' = Mode)
  BY <1>1, ModeNow, ModeNext DEF Started
<1>14. Shot(last)' = Queue!Lasting(Shot(last), Shot(last).left + k)
  BY <1>1, <1>2 DEF Shot, Queue!Lasting, TypeOK
<1>15. \A f \in Frames \ {last} : validCount'[f] = validCount[f] /\ Shot(f)' = Shot(f)
  BY <1>1, <1>2 DEF Shot, TypeOK
<1>16. Committed = Shot(o) /\ Committed' = Shot(o)'
  BY <1>1, <1>4 DEF Committed, Shot
<1>17. CASE m = 0
  <2>1. Nth(n, m) = n
    BY <1>17, NthIsAhead
  <2>2. last = o
    BY <1>2, <1>5, <1>10, <2>1, StepsInRing
  <2>3. Leads(validCount', n, most, 0)
    <3>1. ASSUME 0 < most PROVE validCount'[Nth(n, 0)] = 0
      <4>1. 0 \in 0 .. most - 1 /\ ~(0 < m)
        BY <1>17, <3>1
      <4> QED BY <1>9, <1>15, <2>2, <4>1
    <3> QED BY <3>1 DEF Leads
  <2>4. Queued' = [i \in 1 .. 0 |-> Shot(Nth(n, i - 1))']
    BY <1>1, <1>7, <2>3, QueuedNext
  <2>5. Queued' = << >> /\ Queued = << >>
    BY <1>12, <1>17, <2>4
  <2>6. Committed' = Queue!Lasting(Committed, Committed.left + k)
    BY <1>14, <1>16, <2>2
  <2> QED BY <1>13, <2>5, <2>6 DEF Queue!Extend
<1>18. CASE m # 0
  <2>1. m - 1 \in 0 .. RangeSize - 2 /\ (m - 1) + 1 = m /\ m - 1 \in 0 .. most - 1 /\ m \in 1 .. m
    BY <1>7, <1>9, <1>10, <1>18
  <2>2. last = Nth(n, m - 1)
    <3>1. Nth(n, m - 1) \in Frames /\ NextFrame(Nth(n, m - 1)) = Nth(n, m)
      BY <1>9, <2>1, NthOfNext
    <3> QED BY <1>2, <1>10, <3>1, StepsInRing
  <2>3. last # o /\ state' = state /\ validCount[last] # 0
    BY <1>2, <1>4, <1>9, <2>1, <2>2
  <2>4. \A f \in Frames : validCount'[f] # 0 <=> validCount[f] # 0
    <3>1. validCount'[last] # 0
      BY <1>1, <1>2, <2>3 DEF TypeOK
    <3> QED BY <1>15, <2>3, <3>1
  <2>5. Leads(validCount', n, most, m)
    <3>1. \A j \in 0 .. m - 1 : validCount'[Nth(n, j)] # 0
      <4>1. \A j \in 0 .. m - 1 : j \in 0 .. most - 1 /\ j < m
        BY <1>9
      <4> QED BY <1>9, <2>4, <4>1
    <3>2. validCount'[Nth(n, m)] = 0
      <4>1. m \in 0 .. most - 1 /\ ~(m < m)
        BY <1>9, <1>10
      <4> QED BY <1>9, <2>4, <4>1
    <3> QED BY <1>9, <3>1, <3>2 DEF Leads
  <2>6. Queued' = [i \in 1 .. m |-> Shot(Nth(n, i - 1))']
    BY <1>1, <1>7, <2>5, QueuedNext
  <2>7. \A i \in 1 .. m : i # m => Shot(Nth(n, i - 1))' = Queued[i]
    <3> SUFFICES ASSUME NEW i \in 1 .. m, i # m PROVE Shot(Nth(n, i - 1))' = Queued[i]
      OBVIOUS
    <3>1. i - 1 \in 0 .. most - 1 /\ i - 1 # m - 1
      BY <1>9
    <3>2. Nth(n, i - 1) \in Frames \ {last}
      BY <1>9, <2>1, <2>2, <3>1
    <3> QED BY <1>11, <1>15, <3>2
  <2>8. Queued[m] = Shot(last) /\ Queued'[m] = Shot(last)'
    BY <1>11, <2>1, <2>2, <2>6
  <2>9. Queued' = [Queued EXCEPT ![m] = Queue!Lasting(Queued[m], Queued[m].left + k)]
    BY <1>11, <1>14, <2>6, <2>7, <2>8
  <2>10. Committed' = Committed
    BY <1>4, <1>15, <1>16, <2>3
  <2> QED BY <1>12, <1>13, <1>18, <2>3, <2>9, <2>10 DEF Queue!Extend
<1> QED BY <1>17, <1>18

\* A channel that is initialised has an empty queue.
LEMMA QueueOpened ==
  ASSUME TypeOK, TypeOK', InitChannel
  PROVE  Queue!Open
<1>1. /\ ~Live /\ state' = "INIT" /\ Live' /\ ~Started'
      /\ \A f \in Frames : validCount'[f] = 0
  BY DEF InitChannel, Live, Started
<1>2. PICK first \in Frames : first = First'
  BY <1>1, RangeAssumption DEF First, Frames
<1>3. PICK most \in Nat : most = Most'
  BY <1>1, RangeAssumption DEF Most, RangeSize
<1>4. Nth(first, 0) = first
  BY NthIsAhead
<1>5. Leads(validCount', first, most, 0)
  BY <1>1, <1>4 DEF Leads
<1>6. Queued' = [i \in 1 .. 0 |-> Shot(Nth(first, i - 1))']
  BY <1>1, <1>2, <1>3, <1>5, QueuedNext
<1>7. Committed' = Queue!NoShot
  BY <1>1 DEF Committed, NoShot, Queue!NoShot, Queue!Blank
<1>8. Mode = "closed" /\ Mode' = "loading"
  BY <1>1, ModeNow, ModeNext
<1>9. Queued' = << >>
  BY <1>6
<1> QED BY <1>7, <1>8, <1>9 DEF Queue!Open

\* Stopping or aborting a live channel closes the queue.
LEMMA QueueClosed ==
  ASSUME TypeOK, TypeOK', Live, ~Live'
  PROVE  Queue!Close
<1>1. Mode # "closed" /\ Mode' = "closed"
  BY ModeNow, ModeNext DEF Live, Started
<1>2. Committed' = Queue!NoShot /\ Queued' = << >>
  BY DEF Committed, Queued, Live, NoShot, Queue!NoShot, Queue!Blank
<1> QED BY <1>1, <1>2 DEF Queue!Close

\* Pausing and resuming hold and release it.
LEMMA QueueHeld ==
  ASSUME TypeOK, TypeOK', Pause \/ Resume
  PROVE  Queue!Hold \/ Queue!Release
<1>1. /\ UNCHANGED <<outputFrame, validCount, pending, content>>
      /\ Started /\ Started' /\ state # "INIT" /\ state' # "INIT"
  BY DEF Pause, Resume, SetState, card, Started
<1>2. Committed' = Committed
  BY <1>1 DEF Committed, Shot
<1>3. Backlog' = Backlog
  BY <1>1 DEF Backlog
<1>4. Queued' = Queued
  BY <1>1, <1>3 DEF Queued, Shot
<1>5. CASE Pause
  <2>1. Mode = "playing" /\ Mode' = "held"
    BY <1>5, ModeNow, ModeNext DEF Pause, SetState
  <2> QED BY <1>2, <1>4, <2>1 DEF Queue!Hold
<1>6. CASE Resume
  <2>1. Mode = "held" /\ Mode' = "playing"
    BY <1>6, ModeNow, ModeNext DEF Resume
  <2> QED BY <1>2, <1>4, <2>1 DEF Queue!Release
<1> QED BY <1>5, <1>6
-----------------------------------------------------------------------------
(* The refinement.                                                         *)

\* A channel that was just loaded is an empty, closed queue.
LEMMA QueueInit == Init => Queue!Init
<1> SUFFICES ASSUME Init PROVE Queue!Init
  OBVIOUS
<1>1. TypeOK /\ ~Live
  BY InitTypes DEF Init, Live, Started
<1>2. Mode = "closed"
  BY <1>1, ModeNow
<1>3. Committed = Queue!NoShot /\ Queued = << >>
  BY <1>1 DEF Committed, Queued, Live, NoShot, Queue!NoShot, Queue!Blank
<1> QED BY <1>2, <1>3 DEF Queue!Init

\* Every interrupt is a tick, the end of a stop, or hidden.
LEMMA IsrStep ==
  ASSUME Plain, IInv, TypeOK', QueueInv, ShotInv, Isr
  PROVE  [Queue!Next]_Queue!vars
<1>1. TypeOK
  BY DEF IInv
<1>2. CASE IsrIdle \/ IsrPaused
  <2>1. UNCHANGED <<state, outputFrame, validCount, pending, content>>
    BY <1>2 DEF Isr, IsrIdle, IsrPaused, driver
  <2> QED BY <2>1, StepHidden DEF Queue!vars
<1>3. CASE IsrStopping
  <2>1. ~Live /\ ~Live'
    BY <1>3 DEF IsrStopping, Live, Started
  <2> QED BY <1>1, <2>1, ClosedHidden DEF Queue!vars
<1>4. CASE IsrStarting \/ IsrRunning
  <2>1. Queue!Tick \/ UNCHANGED <<Mode, Committed, Queued>>
    BY <1>4, ShotAired
  <2> QED BY <2>1 DEF Queue!Next, Queue!vars
<1> QED BY <1>2, <1>3, <1>4 DEF Isr

\* Every command opens, starts, holds, releases, extends, empties or closes the
\* queue.
LEMMA ControlStep ==
  ASSUME IInv, TypeOK', QueueInv, ShotInv, Control
  PROVE  [Queue!Next]_Queue!vars
<1>1. TypeOK
  BY DEF IInv
<1>2. CASE InitChannel
  BY <1>1, <1>2, QueueOpened DEF Queue!Next
<1>3. CASE Start
  BY <1>3, QueueStarted DEF Queue!Next
<1>4. CASE Stop \/ Abort
  <2>1. ~Live'
    BY <1>4 DEF Stop, Abort, SetState, Live, Started
  <2>2. CASE Live
    BY <1>1, <2>1, <2>2, QueueClosed DEF Queue!Next
  <2>3. CASE ~Live
    BY <1>1, <2>1, <2>3, ClosedHidden DEF Queue!vars
  <2> QED BY <2>2, <2>3
<1>5. CASE Pause \/ Resume
  BY <1>1, <1>5, QueueHeld DEF Queue!Next
<1>6. CASE Flush
  BY <1>6, QueueDiscarded DEF Queue!Next
<1>7. CASE \E k \in PrerollCounts : Preroll(k)
  BY <1>7, ShotExtended DEF Queue!Next
<1> QED BY <1>2, <1>3, <1>4, <1>5, <1>6, <1>7 DEF Control

\* Of a transfer only its completion is seen, and the pictures of peers.
LEMMA TransferStep ==
  ASSUME Disciplined, Plain, IInv, TypeOK', QueueInv, ShotInv, Transfer
  PROVE  [Queue!Next]_Queue!vars
<1>1. TypeOK /\ state' = state
  BY DEF IInv, Transfer, TransferFind, TransferBegin, TransferComplete, TransferFail,
         TransferP2P, Message, P2PComplete, driver
<1>2. CASE ~Live
  <2>1. ~Live'
    BY <1>1, <1>2 DEF Live, Started
  <2> QED BY <1>1, <1>2, <2>1, ClosedHidden DEF Queue!vars
<1>3. CASE TransferFind \/ TransferFail
  <2>1. UNCHANGED <<state, outputFrame, validCount, pending, content>>
    BY <1>3 DEF TransferFind, TransferFail, driver, card
  <2> QED BY <2>1, StepHidden DEF Queue!vars
<1>4. CASE TransferBegin
  BY <1>4, BeginHidden DEF Queue!vars
<1>5. CASE Live /\ (TransferComplete \/ TransferP2P)
  BY <1>5, FrameQueued DEF Queue!Next
<1>6. CASE Live /\ \E f \in Frames : Message(f) \/ P2PComplete(f)
  BY <1>6, PictureArrives DEF Queue!Next
<1> QED BY <1>2, <1>3, <1>4, <1>5, <1>6 DEF Transfer

\* A playout channel is a first-in first-out queue of shots, on a ring of any
\* size and for any pictures and repeats: register, ring, ISR, transfer thread
\* and peers together lose, repeat and reorder nothing.
THEOREM PlayoutIsQueue == ASSUME Disciplined, Plain PROVE Spec => QueueSpec
<1>1. Init => Queue!Init
  BY QueueInit
<1>2. IInv /\ TypeOK' /\ QueueInv /\ ShotInv /\ [Next]_vars => [Queue!Next]_Queue!vars
  <2> SUFFICES ASSUME IInv, TypeOK', QueueInv, ShotInv, [Next]_vars
               PROVE  [Queue!Next]_Queue!vars
    OBVIOUS
  <2>1. CASE Vbi \/ StartTimeReached \/ UNCHANGED vars
    <3>1. UNCHANGED <<state, outputFrame, validCount, pending, content>>
      BY <2>1 DEF Vbi, StartTimeReached, vars, driver, card
    <3> QED BY <3>1, StepHidden DEF Queue!vars
  <2> QED BY <2>1, IsrStep, ControlStep, TransferStep DEF Next
<1> QED BY <1>1, <1>2, TypeCorrect, InvariantHolds, QueueHolds, ShotsHold, PTL
        DEF Spec, QueueSpec, Queue!Spec
-----------------------------------------------------------------------------
(* The buffer level.                                                       *)

\* Where OemAutoCirculateGetBufferLevel starts to count.
CountedFrom == IF state = "INIT" THEN StartFrame ELSE activeFrame

\* The frames it counts: that one, and those behind it up to the first empty.
Counted ==
  LET run == {i \in 1 .. RangeSize - 1 :
                \A j \in 1 .. i : validCount[Nth(CountedFrom, j)] # 0}
  IN  {Nth(CountedFrom, i) : i \in run \cup {0}}

\* Between there and a queued frame none is empty, even while the register is
\* already one frame ahead of activeFrame.
LEMMA NoGapFromCounted ==
  ASSUME IInv, QueueInv, Live, NEW f \in Frames, validCount[f] # 0,
         NEW g \in Frames, Ahead(CountedFrom, g) # 0,
         Ahead(CountedFrom, g) <= Ahead(CountedFrom, f)
  PROVE  validCount[g] # 0
<1>1. CASE state = "INIT"
  <2>1. g = f \/ g < f
    BY <1>1, RangeAssumption DEF CountedFrom, Ahead, Frames
  <2> QED BY <1>1, <2>1 DEF QueueInv, NothingStranded
<1>2. CASE Started
  <2>1. CountedFrom = activeFrame /\ activeFrame \in Frames /\ outputFrame \in Frames
    BY <1>2 DEF CountedFrom, Started, IInv, TypeOK
  <2>2. g # activeFrame
    BY <2>1, RangeAssumption DEF Ahead, Frames
  <2>3. CASE outputFrame = activeFrame
    <3>1. g = f \/ Ahead(outputFrame, g) < Ahead(outputFrame, f)
      BY <2>1, <2>3, RangeAssumption DEF Ahead, Frames
    <3> QED BY <1>2, <2>2, <2>3, <3>1 DEF QueueInv, NothingStranded
  <2>4. CASE outputFrame # activeFrame
    <3>1. outputFrame = NextFrame(activeFrame) /\ validCount[activeFrame] = 0
      BY <1>2, <2>4 DEF QueueInv, RegisterInStep
    <3>2. validCount[outputFrame] # 0
      BY <1>2, <2>4 DEF IInv, CommittedIsQueued
    <3>3. f # activeFrame
      BY <3>1
    <3>4. g = f \/ Ahead(outputFrame, g) < Ahead(outputFrame, f)
      BY <2>1, <2>2, <3>1, <3>3, RangeAssumption DEF Ahead, Frames, NextFrame
    <3> QED BY <1>2, <3>2, <3>4 DEF QueueInv, NothingStranded
  <2> QED BY <2>3, <2>4
<1> QED BY <1>1, <1>2 DEF Live

\* So every queued frame is counted.
LEMMA QueuedIsCounted ==
  ASSUME IInv, QueueInv, Live
  PROVE  /\ CountedFrom \in Frames
         /\ Counted \subseteq Frames
         /\ \A f \in Frames : validCount[f] # 0 => f \in Counted
<1> DEFINE c == CountedFrom
           run == {i \in 1 .. RangeSize - 1 : \A j \in 1 .. i : validCount[Nth(c, j)] # 0}
<1>1. c \in Frames
  BY RangeAssumption DEF CountedFrom, Live, IInv, TypeOK, Frames
<1>2. Counted = {Nth(c, i) : i \in run \cup {0}}
  BY DEF Counted
<1> HIDE DEF c
<1>3. /\ RangeSize \in Nat \ {0}
      /\ \A i \in 0 .. RangeSize - 1 : Nth(c, i) \in Frames /\ Ahead(c, Nth(c, i)) = i
      /\ \A g \in Frames : Ahead(c, g) \in 0 .. RangeSize - 1 /\ Nth(c, Ahead(c, g)) = g
  BY <1>1, NthIsAhead
<1>4. Counted \subseteq Frames
  <2>1. \A i \in run \cup {0} : i \in 0 .. RangeSize - 1
    BY <1>3
  <2> QED BY <1>2, <1>3, <2>1
<1>5. ASSUME NEW f \in Frames, validCount[f] # 0 PROVE f \in Counted
  <2>1. PICK i \in 0 .. RangeSize - 1 : i = Ahead(c, f) /\ Nth(c, i) = f
    BY <1>3
  <2>2. ASSUME NEW j \in 1 .. i PROVE validCount[Nth(c, j)] # 0
    <3>1. j \in 0 .. RangeSize - 1 /\ j # 0 /\ j <= i
      BY <1>3, <2>1
    <3>2. Nth(c, j) \in Frames /\ Ahead(c, Nth(c, j)) = j
      BY <1>3, <3>1
    <3> QED BY <1>5, <2>1, <3>1, <3>2, NoGapFromCounted DEF c
  <2>3. i \in run \cup {0}
    BY <1>3, <2>1, <2>2
  <2> QED BY <1>2, <2>1, <2>3
<1> QED BY <1>1, <1>4, <1>5 DEF c

\* The buffer level a client polls is, in every reachable state of a playout
\* channel that is set up or runs, the number of VBIs all its queued frames will
\* take: no queued frame is invisible to a client that watches the level.
THEOREM LevelIsExact == ASSUME Disciplined PROVE Spec => []BufferLevelExact
<1>1. IInv /\ QueueInv => BufferLevelExact
  <2> SUFFICES ASSUME IInv, QueueInv, Live PROVE BufferLevel = Cardinality(VbisLeft(Frames))
    BY DEF BufferLevelExact, Live
  <2>1. /\ CountedFrom \in Frames /\ Counted \subseteq Frames
        /\ \A f \in Frames : validCount[f] # 0 => f \in Counted
    BY QueuedIsCounted
  <2>2. BufferLevel = Cardinality(VbisLeft(Counted))
    BY <2>1 DEF BufferLevel, Counted, CountedFrom
  <2>3. \A f \in Frames : validCount[f] = 0 => 1 .. validCount[f] = {}
    OBVIOUS
  <2>4. VbisLeft(Counted) = VbisLeft(Frames)
    BY <2>1, <2>3 DEF VbisLeft
  <2> QED BY <2>2, <2>4
<1> QED BY <1>1, InvariantHolds, QueueHolds, PTL
=============================================================================
