------------------------- MODULE StreamEngineProofs -------------------------
(***************************************************************************)
(* Types, the descriptor operations and the wait events of StreamEngine,   *)
(* for any number of buffers, descriptor blocks, owners, waiters and wait  *)
(* slots, any init_advance and whatever clients do.                      *)
(***************************************************************************)
EXTENDS StreamEngine, WellFoundedInduction, TLAPS

-----------------------------------------------------------------------------
(* The ring of buffers and the ring of descriptor blocks.                    *)

\* A slot number is a natural number, and None is no slot.
LEMMA SlotsAreNats ==
  /\ Slots \subseteq Nat /\ 0 \in Slots /\ None \notin Slots
  /\ Descs \subseteq Nat /\ 0 \in Descs
  BY StreamAssumption DEF Slots, Descs, None

\* Stepping stays in the ring, forward and back undo each other, and a step
\* moves.
LEMMA StepsInRing ==
  ASSUME NEW i \in Slots
  PROVE  /\ NextSlot(i) \in Slots /\ PrevSlot(i) \in Slots
         /\ NextSlot(PrevSlot(i)) = i /\ PrevSlot(NextSlot(i)) = i
         /\ NextSlot(i) # i
  BY StreamAssumption DEF Slots, NextSlot, PrevSlot

LEMMA BlocksInRing ==
  ASSUME NEW d \in Descs
  PROVE  NextDesc(d) \in Descs /\ NextDesc(d) # d
  BY StreamAssumption DEF Descs, NextDesc

\* The distance is a position on the ring, 0 only from a slot to itself, and
\* tells slots apart.
LEMMA AheadIsDistance ==
  ASSUME NEW a \in Slots, NEW b \in Slots
  PROVE  /\ Ahead(a, b) \in 0 .. NumBuffers - 1
         /\ Ahead(a, b) = 0 <=> a = b
         /\ \A c \in Slots : Ahead(a, b) = Ahead(a, c) => b = c
  BY StreamAssumption DEF Slots, Ahead

LessThan == {p \in Nat \X Nat : p[1] < p[2]}

\* The order of the naturals, as a set of pairs, is well-founded.
LEMMA LessThanWellFounded == IsWellFoundedOn(LessThan, Nat)
  BY NatLessThanWellFounded, Zenon DEF LessThan, OpToRel

\* A non-empty set of slots has a member nearest ahead of the active buffer.
LEMMA NearestIsMember ==
  ASSUME active \in Slots, NEW S \in SUBSET Slots, S # {}
  PROVE  /\ Nearest(S) \in S
         /\ \A j \in S : Ahead(NextSlot(active), Nearest(S)) <= Ahead(NextSlot(active), j)
<1> DEFINE A(j) == Ahead(NextSlot(active), j)
           T == {A(j) : j \in S}
<1>1. \A j \in S : A(j) \in Nat
  BY AheadIsDistance, StepsInRing, StreamAssumption
<1>2. T \subseteq Nat /\ T # {}
  BY <1>1
<1>3. PICK x \in T : \A y \in T : ~ (<<y, x>> \in LessThan)
  <2> HIDE DEF T
  <2> QED BY <1>2, LessThanWellFounded, WFMin
<1>4. PICK f \in S : x = A(f)
  OBVIOUS
<1>5. ASSUME NEW j \in S PROVE A(f) <= A(j)
  <2>1. ~ (<<A(j), x>> \in LessThan)
    BY <1>3
  <2>2. ~ (A(j) < x)
    BY <2>1, <1>1, <1>4 DEF LessThan
  <2> QED BY <2>2, <1>1, <1>4
<1>6. \E i \in S : \A j \in S : A(i) <= A(j)
  BY <1>5
<1> QED BY <1>6 DEF Nearest

-----------------------------------------------------------------------------
(* Types.                                                                    *)

\* Building and joining blocks keeps flags, indices and memory in range.
LEMMA LinkTypes ==
  ASSUME TypeOK, NEW from \in Slots, NEW to \in Slots, BufferLink(from, to)
  PROVE  /\ flags' \in [Slots -> SUBSET FlagSet]
         /\ ds' \in [Slots -> Descs]
         /\ strDesc' \in Descs
         /\ desc' \in [Descs -> [buf : Slots \cup {None}, next : Descs]]
<1> DEFINE buildFrom == engineState # "error" /\ Linkable(from) /\ ~Linked(from)
           f  == IF buildFrom THEN strDesc ELSE ds[from]
           s  == IF buildFrom THEN NextDesc(strDesc) ELSE strDesc
           buildTo == CanLink(from, to) /\ ~Linked(to) /\ to # from
           t  == IF buildTo THEN s ELSE IF to = from THEN f ELSE ds[to]
<1>1. f \in Descs /\ s \in Descs /\ t \in Descs
  BY BlocksInRing DEF TypeOK
<1>2. flags' \in [Slots -> SUBSET FlagSet]
  BY DEF BufferLink, TypeOK, FlagSet
<1>3. ds' \in [Slots -> Descs]
  BY <1>1 DEF BufferLink, TypeOK
<1>4. strDesc' \in Descs
  BY <1>1, BlocksInRing DEF BufferLink
<1>5. desc' \in [Descs -> [buf : Slots \cup {None}, next : Descs]]
  BY <1>1 DEF BufferLink, TypeOK
<1> QED BY <1>2, <1>3, <1>4, <1>5

\* The initial state is well typed.
LEMMA InitTypes == Init => TypeOK
<1> SUFFICES ASSUME Init PROVE TypeOK
  OBVIOUS
<1>1. desc \in [Descs -> [buf : Slots \cup {None}, next : Descs]]
  BY SlotsAreNats DEF Init
<1>2. cmd \in [op : Commands, at : Slots]
  BY SlotsAreNats DEF Init, Idle, Commands
<1>3. initCount \in 0 .. InitAdvance /\ overlap \in 0 .. MaxOverlap
  BY StreamAssumption DEF Init
<1>4. flags \in [Slots -> SUBSET FlagSet] /\ ds \in [Slots -> Descs]
  BY SlotsAreNats DEF Init
<1> QED BY <1>1, <1>2, <1>3, <1>4, SlotsAreNats
        DEF Init, TypeOK, States, IsrSteps, WaitSteps, Sessions

\* The actions in groups: what clients and driver do, what the engine and its
\* interrupt do, what waiters do.
ClientStep ==
  \/ \E o \in Owners : \/ ChannelInitialize(o) \/ ChannelRelease(o)
                       \/ BufferQueue(o) \/ BufferRelease(o)
  \/ ChannelStart \/ ChannelStop \/ ChannelFlush
  \/ Enable \/ Disable
  \/ InitializeFlush \/ ReleaseBuffers \/ FlushNext \/ FlushEnd

EngineStep == HwComplete \/ HwFault \/ Isr

LEMMA NextCases == Next => ClientStep \/ EngineStep \/ \E w \in Waiters : Wait(w)
  BY Zenon DEF Next, Command, CommandStep, ClientStep, EngineStep

\* A command that begins is counted against the interrupt under way.
LEMMA OverlapTypes == TypeOK /\ Overlap => overlap' \in 0 .. MaxOverlap
  BY StreamAssumption DEF TypeOK, Overlap

\* Signalling sets every event.
LEMMA SignalTypes ==
  TypeOK /\ SignalAll => /\ event' \in [Clients -> BOOLEAN]
                         /\ UNCHANGED <<inuse, wst, slot>>
  BY DEF TypeOK, SignalAll

\* Start and stop keep the types.
LEMMA RunEngineTypes ==
  ASSUME TypeOK, NEW s \in {"active", "idle"}, RunEngine(s)
  PROVE  TypeOK'
<1> DEFINE first  == "queued" \in flags[active] /\ ~Linked(active)
           linked == first => CanLink(active, active)
           ok     == linked /\ engineState # "error"
<1>1. /\ flags' \in [Slots -> SUBSET FlagSet] /\ ds' \in [Slots -> Descs]
      /\ strDesc' \in Descs
      /\ desc' \in [Descs -> [buf : Slots \cup {None}, next : Descs]]
      /\ next' \in Slots /\ initCount' \in 0 .. InitAdvance
  <2>1. CASE first
    <3>1. active \in Slots /\ BufferLink(active, active) /\ next' = active /\ initCount' = 0
      BY <2>1 DEF RunEngine, TypeOK
    <3> QED BY <3>1, LinkTypes, StreamAssumption
  <2>2. CASE ~first
    BY <2>2 DEF RunEngine, TypeOK
  <2> QED BY <2>1, <2>2
<1>2. streamState' \in States
  BY DEF RunEngine, TypeOK, States
<1>3. hwOn' \in BOOLEAN /\ hwDesc' \in Descs /\ irq' \in BOOLEAN
  BY SlotsAreNats DEF RunEngine, TypeOK, HardwareStart, hwVars
<1>4. /\ inuse' \in [Clients -> BOOLEAN] /\ event' \in [Clients -> BOOLEAN]
      /\ wst' \in [Waiters -> WaitSteps] /\ slot' \in [Waiters -> Clients \cup {None}]
  BY DEF RunEngine, TypeOK, SignalAll, waitVars
<1>5. overlap' \in 0 .. MaxOverlap
  BY OverlapTypes DEF RunEngine
<1>6. /\ UNCHANGED <<engineState, owner, head, tail, active, isr, isrNext, cmd>>
      /\ session' \in Sessions
  BY DEF RunEngine, Sessions, TypeOK
<1> QED BY <1>1, <1>2, <1>3, <1>4, <1>5, <1>6 DEF TypeOK

\* Commands keep the types.
LEMMA ClientTypes == TypeOK /\ ClientStep => TypeOK'
<1> SUFFICES ASSUME TypeOK, ClientStep PROVE TypeOK'
  OBVIOUS
<1> USE DEF bufferVars, memoryVars, hwVars, waitVars, isrVars
<1>1. ASSUME NEW o \in Owners, ChannelInitialize(o) PROVE TypeOK'
  BY <1>1, SlotsAreNats, OverlapTypes
     DEF ChannelInitialize, TypeOK, HardwareStop, SetStates, States, Commands, Sessions
<1>2. ASSUME NEW op \in {"release", "enable", "disable"}, BeginRelease(op) PROVE TypeOK'
  BY <1>2, SlotsAreNats, OverlapTypes
     DEF BeginRelease, TypeOK, HardwareStop, SetStates, States, Commands
<1>3. ASSUME NEW o \in Owners, BufferQueue(o) PROVE TypeOK'
  <2>1. flags' \in [Slots -> SUBSET FlagSet] /\ ds' \in [Slots -> Descs]
    BY <1>3, SlotsAreNats DEF BufferQueue, TypeOK, FlagSet
  <2>2. head' \in Slots
    BY <1>3, StepsInRing DEF BufferQueue, TypeOK
  <2> QED BY <1>3, <2>1, <2>2, OverlapTypes DEF BufferQueue, TypeOK, Sessions
<1>4. ASSUME NEW o \in Owners, BufferRelease(o) PROVE TypeOK'
  <2>1. flags' \in [Slots -> SUBSET FlagSet] /\ ds' \in [Slots -> Descs]
    BY <1>4, SlotsAreNats DEF BufferRelease, TypeOK, FlagSet
  <2>2. tail' \in Slots
    BY <1>4, StepsInRing DEF BufferRelease, TypeOK
  <2> QED BY <1>4, <2>1, <2>2, OverlapTypes DEF BufferRelease, TypeOK
<1>5. ChannelStart \/ ChannelStop => TypeOK'
  BY RunEngineTypes DEF ChannelStart, ChannelStop
<1>6. ASSUME ChannelFlush PROVE TypeOK'
  BY <1>6, OverlapTypes DEF ChannelFlush, TypeOK, Commands
<1>7. ASSUME InitializeFlush PROVE TypeOK'
  <2>1. flags' \in [Slots -> SUBSET FlagSet]
    BY <1>7 DEF InitializeFlush, TypeOK, FlagSet
  <2> QED BY <1>7, <2>1, SignalTypes, SlotsAreNats
          DEF InitializeFlush, TypeOK, Idle, Commands
<1>8. ASSUME ReleaseBuffers PROVE TypeOK'
  <2>1. flags' \in [Slots -> SUBSET FlagSet] /\ ds' \in [Slots -> Descs]
    BY <1>8, SlotsAreNats DEF ReleaseBuffers, TypeOK
  <2>2. streamState' \in States /\ engineState' \in States
    BY <1>8 DEF ReleaseBuffers, TypeOK, SetStates, States
  <2> QED BY <1>8, <2>1, <2>2, SignalTypes, SlotsAreNats
          DEF ReleaseBuffers, TypeOK, Idle, Commands, Sessions
<1>9. ASSUME FlushNext PROVE TypeOK'
  <2>1. cmd.at \in Slots /\ cmd.op \in Commands /\ cmd = [op |-> cmd.op, at |-> cmd.at]
    BY DEF TypeOK
  <2>2. PrevSlot(cmd.at) \in Slots
    BY <2>1, StepsInRing
  <2>3. cmd' \in [op : Commands, at : Slots]
    BY <1>9, <2>1, <2>2 DEF FlushNext
  <2>4. flags' \in [Slots -> SUBSET FlagSet]
    BY <1>9, <2>2 DEF FlushNext, TypeOK, FlagSet
  <2> QED BY <1>9, <2>3, <2>4 DEF FlushNext, TypeOK, Sessions
<1>10. ASSUME FlushEnd PROVE TypeOK'
  BY <1>10, SignalTypes, SlotsAreNats DEF FlushEnd, TypeOK, Idle, Commands
<1> QED BY <1>1, <1>2, <1>3, <1>4, <1>5, <1>6, <1>7, <1>8, <1>9, <1>10
        DEF ClientStep, ChannelRelease, Enable, Disable

\* Hardware and interrupt keep the types.
LEMMA EngineTypes == TypeOK /\ EngineStep => TypeOK'
<1> SUFFICES ASSUME TypeOK, EngineStep PROVE TypeOK'
  OBVIOUS
<1> USE DEF bufferVars, memoryVars, hwVars, waitVars, isrVars
<1>1. CASE HwComplete
  <2>1. desc[hwDesc].next \in Descs
    BY DEF TypeOK
  <2> QED BY <1>1, <2>1 DEF HwComplete, TypeOK
<1>2. CASE HwFault
  BY <1>2 DEF HwFault, TypeOK, HardwareStop, SetStates, States
<1>3. CASE IsrEnter
  <2>1. initCount' \in 0 .. InitAdvance
    BY <1>3, StreamAssumption DEF IsrEnter, TypeOK
  <2>2. isr' \in IsrSteps
    BY <1>3 DEF IsrEnter, TypeOK, IsrSteps
  <2> QED BY <1>3, <2>1, <2>2 DEF IsrEnter, TypeOK
<1>4. CASE IsrComplete
  <2>1. flags' \in [Slots -> SUBSET FlagSet]
    BY <1>4 DEF IsrComplete, TypeOK, FlagSet
  <2> QED BY <1>4, <2>1 DEF IsrComplete, TypeOK, IsrSteps, States
<1>5. CASE IsrMove
  BY <1>5 DEF IsrMove, TypeOK, IsrSteps
<1>6. CASE IsrState
  BY <1>6 DEF IsrState, TypeOK, IsrSteps, HardwareStop, States
<1>7. CASE IsrScan
  <2>1. Candidates \subseteq Slots
    BY DEF Candidates
  <2>2. isrNext' \in Slots
    BY <1>7, <2>1, NearestIsMember DEF IsrScan, TypeOK
  <2> QED BY <1>7, <2>2 DEF IsrScan, TypeOK, IsrSteps
<1>8. CASE IsrLink
  <2>1. /\ flags' \in [Slots -> SUBSET FlagSet] /\ ds' \in [Slots -> Descs]
        /\ strDesc' \in Descs
        /\ desc' \in [Descs -> [buf : Slots \cup {None}, next : Descs]]
    BY <1>8, LinkTypes DEF IsrLink, TypeOK
  <2> QED BY <1>8, <2>1 DEF IsrLink, TypeOK, IsrSteps, States
<1>9. CASE IsrSignal
  BY <1>9, SignalTypes, SlotsAreNats, StreamAssumption
     DEF IsrSignal, TypeOK, IsrSteps, Sessions
<1> QED BY <1>1, <1>2, <1>3, <1>4, <1>5, <1>6, <1>7, <1>8, <1>9 DEF EngineStep, Isr

\* Waiters keep the types.
LEMMA WaitTypes ==
  ASSUME TypeOK, NEW w \in Waiters, Wait(w)
  PROVE  TypeOK'
<1>1. /\ inuse' \in [Clients -> BOOLEAN] /\ event' \in [Clients -> BOOLEAN]
      /\ wst' \in [Waiters -> WaitSteps] /\ slot' \in [Waiters -> Clients \cup {None}]
  <2> USE DEF WaitSteps
  <2>1. CASE WaitEnter(w)
    BY <2>1 DEF WaitEnter, TypeOK
  <2>2. CASE WaitClear(w)
    BY <2>2 DEF WaitClear, TypeOK
  <2>3. CASE WaitLeave(w)
    BY <2>3 DEF WaitLeave, TypeOK
  <2> QED BY <2>1, <2>2, <2>3 DEF Wait, WaitWoken, WaitTimeout
<1>2. UnchangedButWait
  BY DEF Wait, WaitEnter, WaitClear, WaitWoken, WaitTimeout, WaitLeave
<1> QED BY <1>1, <1>2 DEF UnchangedButWait, TypeOK, bufferVars, memoryVars, hwVars, isrVars

LEMMA StepTypes == TypeOK /\ [Next]_vars => TypeOK'
<1> SUFFICES ASSUME TypeOK, [Next]_vars PROVE TypeOK'
  OBVIOUS
<1>1. CASE UNCHANGED vars
  BY <1>1 DEF vars, TypeOK, bufferVars, memoryVars, hwVars, isrVars, waitVars
<1>2. CASE Next
  BY <1>2, NextCases, ClientTypes, EngineTypes, WaitTypes
<1> QED BY <1>1, <1>2

\* Queue and ring indices, blocks, flags, handler and wait slots stay in
\* range, whatever the clients do: no index leaves the arrays of stream_buffers,
\* of descriptor blocks and of wait_events.
THEOREM TypeCorrect == Spec => []TypeOK
  BY InitTypes, StepTypes, PTL DEF Spec

-----------------------------------------------------------------------------
(* Wait events.                                                              *)

\* A waiter inside the call has an event of its own.
WaitInv ==
  /\ \A w \in Waiters : wst[w] # "out" => slot[w] \in Clients /\ inuse[slot[w]]
  /\ \A w, x \in Waiters : w # x /\ wst[w] # "out" /\ wst[x] # "out" => slot[w] # slot[x]

\* Nothing but a waiter touches what waiters have; others only set events.
LEMMA OthersOnlySignal ==
  ASSUME TypeOK, ClientStep \/ EngineStep
  PROVE  UNCHANGED <<inuse, wst, slot>> /\ \A c \in Clients : event[c] => event'[c]
<1> DEFINE Only == UNCHANGED <<inuse, wst, slot>> /\ \A c \in Clients : event[c] => event'[c]
<1>1. SignalAll \/ UNCHANGED waitVars => Only
  BY DEF SignalAll, waitVars
<1>2. ClientStep => SignalAll \/ UNCHANGED waitVars
  BY DEF ClientStep, ChannelInitialize, ChannelRelease, BeginRelease, BufferQueue,
         BufferRelease, ChannelStart, ChannelStop, RunEngine, ChannelFlush, Enable,
         Disable, InitializeFlush, ReleaseBuffers, FlushNext, FlushEnd
<1>3. EngineStep => SignalAll \/ UNCHANGED waitVars
  BY DEF EngineStep, HwComplete, HwFault, Isr, IsrEnter, IsrComplete, IsrMove, IsrState,
         IsrScan, IsrLink, IsrSignal
<1> QED BY <1>1, <1>2, <1>3

LEMMA WaitStep ==
  ASSUME TypeOK, WaitInv, [Next]_vars
  PROVE  /\ WaitInv'
         /\ \A w \in Waiters : wst[w] = "asleep" /\ event[slot[w]] /\ wst'[w] = "asleep"
                                 => event'[slot[w]]
<1>1. CASE UNCHANGED vars
  BY <1>1 DEF vars, waitVars, WaitInv
<1>2. CASE ClientStep \/ EngineStep
  BY <1>2, OthersOnlySignal DEF WaitInv
<1>3. ASSUME NEW w \in Waiters, Wait(w)
      PROVE  /\ WaitInv'
             /\ \A x \in Waiters : wst[x] = "asleep" /\ event[slot[x]] /\ wst'[x] = "asleep"
                                     => event'[slot[x]]
  <2>1. CASE WaitEnter(w)
    BY <2>1 DEF WaitEnter, WaitInv, TypeOK, WaitSteps
  <2>2. CASE WaitClear(w)
    BY <2>2 DEF WaitClear, WaitInv, TypeOK, WaitSteps
  <2>3. CASE wst[w] = "asleep" /\ WaitLeave(w)
    BY <2>3 DEF WaitLeave, WaitInv, TypeOK, WaitSteps
  <2> QED BY <1>3, <2>1, <2>2, <2>3 DEF Wait, WaitWoken, WaitTimeout
<1> QED BY <1>1, <1>2, <1>3, NextCases

\* The event of a sleeper is its own: once it is signalled, by a command or by
\* the interrupt, nobody clears it before the sleeper has left the call.
THEOREM EventsStay == Spec => EventStays
<1>1. Init => WaitInv
  BY DEF Init, WaitInv
<1>2. TypeOK /\ WaitInv /\ [Next]_vars => WaitInv'
  BY WaitStep
<1>3. Spec => []WaitInv
  BY <1>1, <1>2, TypeCorrect, PTL DEF Spec
<1>4. TypeOK /\ WaitInv /\ [Next]_vars
        => [\A w \in Waiters : wst[w] = "asleep" /\ event[slot[w]] /\ wst'[w] = "asleep"
                                 => event'[slot[w]]]_vars
  BY WaitStep
<1> QED BY <1>3, <1>4, TypeCorrect, PTL DEF Spec, EventStays

=============================================================================
