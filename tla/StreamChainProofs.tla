-------------------------- MODULE StreamChainProofs --------------------------
(***************************************************************************)
(* The hardware and the driver of StreamEngine stay in step, and the       *)
(* hardware transfers nothing but queued buffers, until the stream is      *)
(* exposed (see Sessions), and again once it has been released: for any    *)
(* number of buffers, descriptor blocks, owners, waiters and wait slots.   *)
(* Over the same time the stream implements StreamQueue.                   *)
(***************************************************************************)
EXTENDS StreamEngineProofs, StreamEngineMC

-----------------------------------------------------------------------------
(* The inductive invariant of a stream in use. *)

\* The hardware runs exactly while clients want it to.
RunsAsWanted == hwOn <=> Running

\* Commands that take several steps hold the states they began with.
CommandStates ==
  /\ cmd.op \in {"release", "enable", "disable"}
       => streamState = "released" /\ engineState \in {"released", "error"}
  /\ cmd.op = "initialize" => streamState = "initialized"
  /\ cmd.op = "flush" => streamState \in {"initialized", "active", "idle", "error"}

\* A released stream is empty; what a late handler still does there is
\* bounded by the commands that came in between.
ReleasedIsEmpty ==
  streamState \in {"released", "disabled"} =>
    /\ isr # "out" => overlap >= 1
    /\ cmd.op = "none" => /\ \A i \in Slots : flags[i] = {}
                          /\ head = 0 /\ tail = 0 /\ active = 0
                          /\ isr \in {"complete", "move"} => next = 0

\* Buffers that wait, and those a flush has reached.
FreshFlags(i) == IF i >= head THEN {}
                 ELSE IF cmd.op = "flush" /\ cmd.at <= i THEN {"queued", "flushed"}
                 ELSE {"queued"}

\* An initialised stream has buffers that wait; at most the first is linked,
\* into the first block, by a late handler.  A flush that ends found nothing.
InitializedIsFresh ==
  streamState = "initialized" /\ session = "fresh" =>
    /\ engineState \in {"initialized", "error"}
    /\ cmd.op \in {"none", "initialize", "flush"}
    /\ (cmd.op = "initialize" => head = 0)
    /\ (cmd.op = "flush" => cmd.at <= head /\ (cmd.at = 0 => head = 0))
    /\ tail = 0 /\ active = 0
    /\ \A i \in Slots \ {0} : flags[i] = FreshFlags(i)
    /\ IF head = 0 THEN flags[0] = {} ELSE flags[0] \in {{"queued"}, {"queued", "linked"}}
    /\ isr # "out" => overlap >= 2 /\ (head # 0 => overlap >= 3 /\ head = 1)
    /\ isr \in {"complete", "move"} => next = 0
    /\ ~Linked(0) => strDesc = 0
    /\ Linked(0) => /\ isr \in {"signal", "out"}
                    /\ engineState # "error" =>
                         /\ next = 0 /\ ds[0] = 0 /\ strDesc = NextDesc(0)
                         /\ desc[0] = [buf |-> 0, next |-> 0]

\* The buffer the hardware has.
Now == IF irq \/ isr \in {"complete", "move"} THEN next ELSE active

Good(i) == {"queued", "linked"} \subseteq flags[i] /\ flags[i] \cap {"completed", "flushed"} = {}

InQueue(i) == Ahead(tail, i) < Ahead(tail, head)

\* States of command, engine and handler while the hardware runs.
LiveStates ==
  /\ session = "fresh" /\ cmd.op \in {"none", "flush"}
  /\ engineState \in {"initialized", "active", "idle"}
  /\ engineState = "initialized" => active = next
  /\ isr \in {"scan", "link"} => engineState = "active"
  /\ isr \in {"state", "scan", "link"} => active = next
  /\ isr = "complete" => active # next
  /\ irq => isr = "out"

\* The queue is the arc from tail to head.  Up to next it is linked or done
\* with, and behind next nothing is linked yet.
LiveQueue ==
  /\ \A i \in Slots : "queued" \in flags[i] <=> InQueue(i)
  /\ Good(next)
  /\ (isr # "move" \/ active = next) => Good(active)
  /\ \A i \in Slots : Ahead(tail, next) < Ahead(tail, i) /\ InQueue(i)
                        => flags[i] \cap {"linked", "completed"} = {}
  /\ isr = "link" => /\ Ahead(tail, next) < Ahead(tail, isrNext) /\ InQueue(isrNext)
                     /\ "flushed" \notin flags[isrNext]

\* A completed buffer may be released and its slot be queued again before the
\* handler leaves it, but not within three commands and a start.
LeavingActive ==
  isr = "move" /\ active # next =>
    \/ {"queued", "linked"} \subseteq flags[active]
    \/ "queued" \notin flags[active] /\ overlap >= 1
         /\ (tail = NextSlot(active) \/ overlap >= 2)
    \/ overlap >= 3

\* The chain: from the block the hardware has to that of next, and round.
LiveChain ==
  /\ hwDesc = ds[Now]
  /\ desc[ds[active]].buf = active \/ Now # active
  /\ desc[ds[next]] = [buf |-> next, next |-> ds[next]]
  /\ Now # next => desc[ds[active]].next = ds[next] /\ ds[active] # ds[next]
  /\ strDesc = NextDesc(ds[next])

Live == hwOn => LiveStates /\ LiveQueue /\ LeavingActive /\ LiveChain

IInv == /\ RunsAsWanted /\ CommandStates /\ ReleasedIsEmpty /\ InitializedIsFresh
        /\ Live

\* Whatever clients did before, a release finds the hardware halted.
HaltedForRelease ==
  cmd.op \in {"release", "enable", "disable"} =>
    ~hwOn /\ streamState = "released" /\ engineState \in {"released", "error"}

ChainInv == HaltedForRelease /\ (~Exposed => IInv)

-----------------------------------------------------------------------------
(* The arc of the ring from tail to head.                                    *)

\* Queueing makes the arc one longer.
LEMMA ArcGrows ==
  ASSUME NEW t \in Slots, NEW h \in Slots, NextSlot(h) # t
  PROVE  Ahead(t, NextSlot(h)) = Ahead(t, h) + 1
  BY StreamAssumption DEF Slots, Ahead, NextSlot

\* Releasing moves every other slot one nearer.
LEMMA ArcShrinks ==
  ASSUME NEW t \in Slots, NEW i \in Slots
  PROVE  Ahead(NextSlot(t), i) = IF i = t THEN NumBuffers - 1 ELSE Ahead(t, i) - 1
  BY StreamAssumption DEF Slots, Ahead, NextSlot

\* Between a member of the arc and the head, a slot is in the arc and behind.
LEMMA ArcBehind ==
  ASSUME NEW t \in Slots, NEW h \in Slots, NEW a \in Slots, NEW i \in Slots,
         Ahead(t, a) < Ahead(t, h),
         Ahead(NextSlot(a), i) < Ahead(NextSlot(a), h)
  PROVE  Ahead(t, a) < Ahead(t, i) /\ Ahead(t, i) < Ahead(t, h)
  BY StreamAssumption DEF Slots, Ahead, NextSlot

-----------------------------------------------------------------------------
(* What commands do to a stream that runs.                                   *)

\* A command that begins during an interrupt is one of three at most.
LEMMA OverlapCounts ==
  ASSUME TypeOK, ~Exposed', Overlap
  PROVE  /\ isr = "out" => overlap' = overlap
         /\ isr # "out" => overlap < 3 /\ overlap' = overlap + 1
         /\ overlap \in Nat
  BY StreamAssumption DEF TypeOK, Exposed, MostOverlap, Overlap

\* What must not happen to a stream, if it is not to be exposed.
LEMMA QueueIsFresh ==
  ASSUME ~Exposed', NEW o \in Owners, BufferQueue(o)
  PROVE  session = "fresh" /\ session' = session
  BY DEF Exposed, BufferQueue

LEMMA RunIsFresh ==
  ASSUME ~Exposed', NEW s, RunEngine(s)
  PROVE  session = "fresh" /\ session' = session /\ active # head
  BY DEF Exposed, RunEngine

LEMMA FlushSpares ==
  ASSUME ~Exposed', FlushNext
  PROVE  /\ session' = session
         /\ \/ "flushed" \in flags[PrevSlot(cmd.at)]
            \/ /\ ~Linked(PrevSlot(cmd.at)) /\ PrevSlot(cmd.at) # active
               /\ isr = "link" => PrevSlot(cmd.at) # isrNext
  BY DEF Exposed, FlushNext, InHand, CanFlush

LEMMA SignalKeepsSession ==
  ASSUME ~Exposed', IsrSignal
  PROVE  session' = session
  BY DEF Exposed, IsrSignal

\* The buffers in the hands of the hardware are in the queue.
LEMMA LiveSlots ==
  ASSUME TypeOK, Live, hwOn
  PROVE  /\ InQueue(next) /\ (isr # "move" \/ active = next => InQueue(active))
         /\ next \in Slots /\ active \in Slots /\ head \in Slots /\ tail \in Slots
         /\ ~InQueue(head)
  BY AheadIsDistance, StreamAssumption DEF TypeOK, Live, LiveQueue, Good, InQueue

\* A new buffer goes to the free slot at the head.
LEMMA QueueKeepsLive ==
  ASSUME TypeOK, ~Exposed, ~Exposed', Live, hwOn, NEW o \in Owners, BufferQueue(o)
  PROVE  Live'
<1> USE DEF bufferVars, memoryVars, hwVars, isrVars, waitVars
<1>1. PICK h \in Slots : h = head
  BY DEF TypeOK
<1>2. /\ flags' = [flags EXCEPT ![h] = {"queued"}] /\ ds' = [ds EXCEPT ![h] = 0]
      /\ head' = NextSlot(h) /\ NextSlot(h) # tail /\ "queued" \notin flags[h]
      /\ UNCHANGED <<streamState, engineState, tail, active, next, strDesc, desc, hwOn,
                     hwDesc, irq, isr, isrNext, cmd, session>>
  BY <1>1, QueueIsFresh DEF BufferQueue
<1>3. LiveStates /\ LiveQueue /\ LeavingActive /\ LiveChain
  BY DEF Live
<1>4. h # next /\ (isr # "move" \/ active = next => h # active)
  BY <1>1, LiveSlots
<1>5. \A i \in Slots : InQueue(i)' <=> InQueue(i) \/ i = h
  <2> SUFFICES ASSUME NEW i \in Slots PROVE InQueue(i)' <=> InQueue(i) \/ i = h
    OBVIOUS
  <2>1. tail \in Slots /\ tail' = tail /\ head = h
    BY <1>1, <1>2 DEF TypeOK
  <2>2. Ahead(tail, NextSlot(h)) = Ahead(tail, h) + 1
    BY <1>2, <2>1, ArcGrows
  <2>3. Ahead(tail, i) \in Nat /\ Ahead(tail, h) \in Nat
        /\ (Ahead(tail, i) = Ahead(tail, h) <=> i = h)
    BY <2>1, AheadIsDistance, StreamAssumption
  <2>4. InQueue(i)' <=> Ahead(tail, i) < Ahead(tail, NextSlot(h))
    BY <1>2, <2>1 DEF InQueue
  <2>5. InQueue(i) <=> Ahead(tail, i) < Ahead(tail, h)
    BY <2>1 DEF InQueue
  <2> QED BY <2>2, <2>3, <2>4, <2>5
<1>6. Good(next)' /\ ((isr # "move" \/ active = next) => Good(active))'
  BY <1>2, <1>3, <1>4 DEF LiveQueue, Good, TypeOK
<1>7. LiveStates'
  BY <1>2, <1>3 DEF LiveStates
<1>8. LiveQueue'
  <2>1. \A i \in Slots : ("queued" \in flags[i] <=> InQueue(i))'
    BY <1>2, <1>3, <1>5 DEF LiveQueue, TypeOK
  <2>2. \A i \in Slots : (Ahead(tail, next) < Ahead(tail, i) /\ InQueue(i))'
                           => (flags[i] \cap {"linked", "completed"})' = {}
    BY <1>2, <1>3, <1>5 DEF LiveQueue, TypeOK
  <2>3. (isr = "link" => /\ Ahead(tail, next) < Ahead(tail, isrNext) /\ InQueue(isrNext)
                         /\ "flushed" \notin flags[isrNext])'
    BY <1>2, <1>3, <1>5 DEF LiveQueue, TypeOK
  <2> QED BY <1>6, <2>1, <2>2, <2>3 DEF LiveQueue
<1>9. LeavingActive'
  BY <1>2, <1>3, <1>4, OverlapCounts DEF LeavingActive, TypeOK, BufferQueue
<1>10. LiveChain'
  BY <1>2, <1>3, <1>4 DEF LiveChain, Now, TypeOK, LiveStates
<1> QED BY <1>7, <1>8, <1>9, <1>10 DEF Live

\* The buffer released is done with: it is neither active, unless the handler
\* is leaving it, nor next.
LEMMA ReleaseKeepsLive ==
  ASSUME TypeOK, ~Exposed, ~Exposed', Live, hwOn, NEW o \in Owners, BufferRelease(o)
  PROVE  Live'
<1> USE DEF bufferVars, memoryVars, hwVars, isrVars, waitVars
<1>1. PICK t \in Slots : t = tail
  BY DEF TypeOK
<1>2. /\ flags' = [flags EXCEPT ![t] = {}] /\ ds' = [ds EXCEPT ![t] = 0]
      /\ tail' = NextSlot(t)
      /\ "queued" \in flags[t] /\ flags[t] \cap {"completed", "flushed"} # {}
      /\ UNCHANGED <<streamState, engineState, head, active, next, strDesc, desc, hwOn,
                     hwDesc, irq, isr, isrNext, cmd, session>>
  BY <1>1 DEF BufferRelease
<1>3. LiveStates /\ LiveQueue /\ LeavingActive /\ LiveChain
  BY DEF Live
<1>4. t # next /\ (isr # "move" \/ active = next => t # active)
  BY <1>2, <1>3 DEF LiveQueue, Good
<1>5. InQueue(t)
  BY <1>1, <1>2, <1>3 DEF LiveQueue
<1>6. /\ \A i \in Slots : InQueue(i)' <=> InQueue(i) /\ i # t
      /\ \A i \in Slots \ {t} : Ahead(tail, i)' = Ahead(tail, i) - 1
      /\ \A i \in Slots : Ahead(tail, i) \in Nat
  BY <1>1, <1>2, <1>5, ArcShrinks, AheadIsDistance, StreamAssumption DEF InQueue, TypeOK
<1>7. Good(next)' /\ ((isr # "move" \/ active = next) => Good(active))'
  BY <1>2, <1>3, <1>4 DEF LiveQueue, Good, TypeOK
<1>8. LiveStates'
  BY <1>2, <1>3 DEF LiveStates
<1>9. LiveQueue'
  <2>1. \A i \in Slots : ("queued" \in flags[i] <=> InQueue(i))'
    BY <1>2, <1>3, <1>6 DEF LiveQueue, TypeOK
  <2>2. Ahead(tail, next)' = Ahead(tail, next) - 1
    BY <1>2, <1>4, <1>6 DEF TypeOK
  <2>3. ASSUME NEW i \in Slots, (Ahead(tail, next) < Ahead(tail, i))', InQueue(i)'
        PROVE  i # t /\ Ahead(tail, next) < Ahead(tail, i) /\ InQueue(i)
    BY <1>2, <1>4, <1>6, <2>2, <2>3 DEF TypeOK
  <2>4. \A i \in Slots : (Ahead(tail, next) < Ahead(tail, i) /\ InQueue(i))'
                           => (flags[i] \cap {"linked", "completed"})' = {}
    BY <1>2, <1>3, <2>3 DEF LiveQueue, TypeOK
  <2>5. ASSUME isr = "link"
        PROVE  /\ (Ahead(tail, next) < Ahead(tail, isrNext))' /\ InQueue(isrNext)'
               /\ ("flushed" \notin flags[isrNext])'
    <3>1. /\ Ahead(tail, next) < Ahead(tail, isrNext) /\ InQueue(isrNext)
          /\ "flushed" \notin flags[isrNext] /\ isrNext \in Slots
          /\ "completed" \notin flags[isrNext]
      BY <1>3, <2>5 DEF LiveQueue, TypeOK
    <3>2. isrNext # t
      BY <1>2, <3>1
    <3> QED BY <1>2, <1>4, <1>6, <2>2, <3>1, <3>2 DEF TypeOK
  <2> QED BY <1>2, <1>7, <2>1, <2>4, <2>5 DEF LiveQueue
<1>10. LeavingActive'
  BY <1>2, <1>3, <1>4, OverlapCounts DEF LeavingActive, TypeOK, BufferRelease
<1>11. LiveChain'
  BY <1>2, <1>3, <1>4 DEF LiveChain, Now, TypeOK, LiveStates
<1> QED BY <1>8, <1>9, <1>10, <1>11 DEF Live

\* A stream that runs is not started again: the active buffer is linked.
LEMMA RunningIsStarted ==
  ASSUME TypeOK, ~Exposed, ~Exposed', Live, hwOn, RunsAsWanted, NEW s \in {"active", "idle"}, RunEngine(s)
  PROVE  /\ streamState' = s /\ SignalAll
         /\ UNCHANGED <<engineState, owner, bufferVars, initCount, memoryVars, hwVars,
                        isr, isrNext, cmd, session>>
<1>1. overlap \in Nat /\ (isr # "out" => overlap < 3)
  BY OverlapCounts DEF RunEngine
<1>2. ~("queued" \in flags[active] /\ ~Linked(active))
  BY <1>1 DEF Live, LiveQueue, LeavingActive, Good, Linked
<1>3. engineState # "error" /\ streamState # "initialized"
  BY DEF Live, LiveStates, RunsAsWanted, Running
<1> QED BY <1>2, <1>3, RunIsFresh DEF RunEngine, bufferVars, memoryVars, hwVars

\* Nothing that Live is about changes, but for more commands having begun.
LEMMA LiveFrame ==
  ASSUME TypeOK, Live, hwOn,
         UNCHANGED <<engineState, bufferVars, memoryVars, hwVars, isr, isrNext, cmd, session>>,
         overlap' \in Nat, overlap' >= overlap
  PROVE  Live'
<1> USE DEF bufferVars, memoryVars, hwVars, isrVars, waitVars
<1>1. LiveStates' /\ LiveQueue' /\ LiveChain'
  BY DEF Live, LiveStates, LiveQueue, LiveChain, Now, Good, InQueue
<1>2. LeavingActive'
  BY StreamAssumption DEF Live, LeavingActive, TypeOK
<1> QED BY <1>1, <1>2 DEF Live

LEMMA RunKeepsLive ==
  ASSUME TypeOK, ~Exposed, ~Exposed', Live, hwOn, RunsAsWanted, NEW s \in {"active", "idle"}, RunEngine(s)
  PROVE  Live'
<1>1. overlap' \in Nat /\ overlap' >= overlap
  BY OverlapCounts DEF RunEngine
<1> QED BY <1>1, RunningIsStarted, LiveFrame

\* A flush begins at the head.
LEMMA FlushKeepsLive ==
  ASSUME TypeOK, ~Exposed, ~Exposed', Live, hwOn, ChannelFlush
  PROVE  Live'
<1> USE DEF bufferVars, memoryVars, hwVars, isrVars, waitVars
<1>1. /\ UNCHANGED <<engineState, bufferVars, memoryVars, hwVars, isr, isrNext, session>>
      /\ cmd' = [op |-> "flush", at |-> head]
  BY DEF ChannelFlush
<1>2. LiveStates' /\ LiveQueue' /\ LiveChain'
  BY <1>1 DEF Live, LiveStates, LiveQueue, LiveChain, Now, Good, InQueue
<1>3. LeavingActive'
  BY <1>1, OverlapCounts DEF Live, LeavingActive, ChannelFlush
<1> QED BY <1>2, <1>3 DEF Live

\* Neither the active buffer is flushed, nor the next, nor the one chosen.
LEMMA FlushNextKeepsLive ==
  ASSUME TypeOK, ~Exposed, ~Exposed', Live, hwOn, FlushNext
  PROVE  Live'
<1> USE DEF bufferVars, memoryVars, hwVars, isrVars, waitVars
<1>1. PICK p \in Slots : p = PrevSlot(cmd.at)
  BY StepsInRing DEF TypeOK
<1>2. /\ flags' = [flags EXCEPT ![p] = @ \cup {"flushed"}]
      /\ cmd.op = "flush" /\ cmd'.op = "flush"
      /\ "flushed" \in flags[p] \/ CanFlush(p)
      /\ UNCHANGED <<streamState, engineState, head, tail, active, next, ds, strDesc, desc,
                     hwOn, hwDesc, irq, isr, isrNext, overlap, session>>
  BY <1>1, FlushSpares DEF FlushNext, TypeOK
<1>3. LiveStates /\ LiveQueue /\ LeavingActive /\ LiveChain
  BY DEF Live
<1>4. /\ p # next /\ (isr # "move" \/ active = next => p # active)
      /\ isr = "link" => p # isrNext
  BY <1>1, <1>3, FlushSpares DEF LiveQueue, Good, Linked
<1>5. Good(next)' /\ ((isr # "move" \/ active = next) => Good(active))'
  BY <1>2, <1>3, <1>4 DEF LiveQueue, Good, TypeOK
<1>6. LiveStates'
  BY <1>2, <1>3 DEF LiveStates
<1>7. LiveQueue'
  <2>1. \A i \in Slots : ("queued" \in flags[i] <=> InQueue(i))'
    BY <1>2, <1>3 DEF LiveQueue, InQueue, TypeOK
  <2>2. \A i \in Slots : (Ahead(tail, next) < Ahead(tail, i) /\ InQueue(i))'
                           => (flags[i] \cap {"linked", "completed"})' = {}
    BY <1>2, <1>3 DEF LiveQueue, InQueue, TypeOK
  <2>3. isr = "link" => "flushed" \notin flags'[isrNext] /\ InQueue(isrNext)'
    BY <1>2, <1>3, <1>4 DEF LiveQueue, InQueue, TypeOK
  <2> QED BY <1>2, <1>3, <1>5, <2>1, <2>2, <2>3 DEF LiveQueue
<1>8. LeavingActive'
  BY <1>2, <1>3 DEF LeavingActive, TypeOK
<1>9. LiveChain'
  BY <1>2, <1>3 DEF LiveChain, Now
<1> QED BY <1>6, <1>7, <1>8, <1>9 DEF Live

LEMMA FlushEndKeepsLive ==
  ASSUME TypeOK, ~Exposed, ~Exposed', Live, hwOn, FlushEnd
  PROVE  Live'
<1> USE DEF bufferVars, memoryVars, hwVars, isrVars, waitVars
<1>1. /\ UNCHANGED <<engineState, bufferVars, memoryVars, hwVars, isrVars, session>>
      /\ cmd'.op = "none"
  BY DEF FlushEnd, Idle
<1> QED BY <1>1 DEF Live, LiveStates, LiveQueue, LeavingActive, LiveChain, Now, Good, InQueue

-----------------------------------------------------------------------------
(* What the hardware and the interrupt do to a stream that runs.             *)

\* The hardware goes on where the chain leads, which is next.
LEMMA CompleteBlockKeepsLive ==
  ASSUME TypeOK, Live, HwComplete
  PROVE  Live'
<1> USE DEF bufferVars, memoryVars, hwVars, isrVars, waitVars
<1>1. LiveStates /\ LiveQueue /\ LeavingActive /\ LiveChain /\ hwOn
  BY DEF Live, HwComplete
<1>2. /\ ~irq /\ isr = "out" /\ hwDesc' = desc[hwDesc].next /\ irq' = TRUE
      /\ UNCHANGED <<streamState, engineState, flags, head, tail, active, next, ds, strDesc,
                     desc, hwOn, isr, isrNext, overlap, cmd, session>>
  BY DEF HwComplete
<1>3. hwDesc' = ds[next]
  BY <1>1, <1>2 DEF LiveChain, Now
<1>4. LiveChain'
  BY <1>1, <1>2, <1>3 DEF LiveChain, Now
<1>5. LiveStates' /\ LiveQueue' /\ LeavingActive'
  BY <1>1, <1>2 DEF LiveStates, LiveQueue, LeavingActive, Good, InQueue
<1> QED BY <1>4, <1>5 DEF Live

LEMMA EnterKeepsLive ==
  ASSUME TypeOK, Live, hwOn, RunsAsWanted, IsrEnter
  PROVE  Live'
<1> USE DEF bufferVars, memoryVars, hwVars, isrVars, waitVars
<1>1. LiveStates /\ LiveQueue /\ LeavingActive /\ LiveChain
  BY DEF Live
<1>2. /\ irq /\ isr = "out" /\ irq' = FALSE
      /\ \/ UNCHANGED isr /\ engineState = "initialized"
         \/ isr' = IF active # next THEN "complete" ELSE "move"
      /\ UNCHANGED <<streamState, engineState, flags, head, tail, active, next, ds, strDesc,
                     desc, hwOn, hwDesc, isrNext, overlap, cmd, session>>
  BY DEF IsrEnter, RunsAsWanted
<1>3. LiveStates'
  BY <1>1, <1>2 DEF LiveStates
<1>4. LiveQueue' /\ LeavingActive'
  BY <1>1, <1>2 DEF LiveQueue, LeavingActive, Good, InQueue
<1>5. LiveChain'
  BY <1>1, <1>2 DEF LiveChain, LiveStates, Now
<1> QED BY <1>3, <1>4, <1>5 DEF Live

\* The buffer that the hardware has left is linked: completing it succeeds.
LEMMA CompleteKeepsLive ==
  ASSUME TypeOK, Live, hwOn, IsrComplete
  PROVE  Live'
<1> USE DEF bufferVars, memoryVars, hwVars, isrVars, waitVars
<1>1. LiveStates /\ LiveQueue /\ LeavingActive /\ LiveChain
  BY DEF Live
<1>2. isr = "complete" /\ Good(active) /\ active # next
  BY <1>1 DEF IsrComplete, LiveQueue, LiveStates
<1>3. /\ flags' = [flags EXCEPT ![active] = @ \cup {"completed"}] /\ isr' = "move"
      /\ UNCHANGED <<streamState, engineState, head, tail, active, next, ds, strDesc,
                     desc, hwOn, hwDesc, irq, isrNext, overlap, cmd, session>>
  BY <1>2 DEF IsrComplete, Good
<1>4. LiveStates'
  BY <1>1, <1>2, <1>3 DEF LiveStates
<1>5. LiveQueue'
  <2>1. \A i \in Slots : ("queued" \in flags[i] <=> InQueue(i))'
    BY <1>1, <1>3 DEF LiveQueue, InQueue, TypeOK
  <2>2. \A i \in Slots : (Ahead(tail, next) < Ahead(tail, i) /\ InQueue(i))'
                           => (flags[i] \cap {"linked", "completed"})' = {}
    BY <1>1, <1>2, <1>3 DEF LiveQueue, InQueue, TypeOK, Good
  <2>3. Good(next)'
    BY <1>1, <1>2, <1>3 DEF LiveQueue, TypeOK, Good
  <2> QED BY <1>2, <1>3, <2>1, <2>2, <2>3 DEF LiveQueue
<1>6. LeavingActive'
  BY <1>2, <1>3 DEF LeavingActive, TypeOK, Good
<1>7. LiveChain'
  BY <1>1, <1>2, <1>3 DEF LiveChain, Now
<1> QED BY <1>4, <1>5, <1>6, <1>7 DEF Live

LEMMA MoveKeepsLive ==
  ASSUME TypeOK, Live, hwOn, IsrMove
  PROVE  Live'
<1> USE DEF bufferVars, memoryVars, hwVars, isrVars, waitVars
<1>1. LiveStates /\ LiveQueue /\ LiveChain
  BY DEF Live
<1>2. /\ isr = "move" /\ active' = next /\ isr' = "state"
      /\ UNCHANGED <<streamState, engineState, flags, head, tail, next, ds, strDesc,
                     desc, hwOn, hwDesc, irq, isrNext, overlap, cmd, session>>
  BY DEF IsrMove
<1> QED BY <1>1, <1>2
        DEF Live, LiveStates, LiveQueue, LeavingActive, LiveChain, Now, Good, InQueue

LEMMA StateKeepsLive ==
  ASSUME TypeOK, Live, hwOn, RunsAsWanted, IsrState
  PROVE  Live'
<1> USE DEF bufferVars, memoryVars, hwVars, isrVars, waitVars
<1>1. LiveStates /\ LiveQueue /\ LiveChain
  BY DEF Live
<1>2. /\ isr = "state" /\ engineState' = streamState /\ streamState \in {"active", "idle"}
      /\ isr' = IF streamState = "active" THEN "scan" ELSE "signal"
      /\ UNCHANGED <<streamState, flags, head, tail, active, next, ds, strDesc,
                     desc, hwOn, hwDesc, irq, isrNext, overlap, cmd, session>>
  BY DEF IsrState, RunsAsWanted, Running
<1>3. LiveStates'
  BY <1>1, <1>2 DEF LiveStates
<1> QED BY <1>1, <1>2, <1>3
        DEF Live, LiveQueue, LeavingActive, LiveChain, Now, Good, InQueue

\* The buffer that a scan finds is queued, and behind next.
LEMMA ScanKeepsLive ==
  ASSUME TypeOK, Live, hwOn, IsrScan
  PROVE  Live'
<1> USE DEF bufferVars, memoryVars, hwVars, isrVars, waitVars
<1>1. LiveStates /\ LiveQueue /\ LiveChain
  BY DEF Live
<1>2. /\ isr = "scan" /\ active = next /\ isr' \in {"signal", "link"}
      /\ UNCHANGED <<streamState, engineState, flags, head, tail, active, next, ds, strDesc,
                     desc, hwOn, hwDesc, irq, overlap, cmd, session>>
  BY <1>1 DEF IsrScan, LiveStates
<1>3. isr' = "link" => /\ Ahead(tail, next) < Ahead(tail, isrNext') /\ InQueue(isrNext')
                       /\ "flushed" \notin flags[isrNext']
  <2>1. SUFFICES ASSUME isr' = "link"
                 PROVE  /\ Ahead(tail, next) < Ahead(tail, isrNext') /\ InQueue(isrNext')
                        /\ "flushed" \notin flags[isrNext']
    OBVIOUS
  <2>2. PICK i \in Candidates : i = isrNext'
    <3>1. Candidates \subseteq Slots /\ Candidates # {} /\ isrNext' = Nearest(Candidates)
      BY <2>1 DEF IsrScan, Candidates
    <3> QED BY <3>1, NearestIsMember DEF TypeOK
  <2>3. /\ i \in Slots /\ "flushed" \notin flags[i]
        /\ Ahead(NextSlot(active), i) < Ahead(NextSlot(active), head)
    BY <2>2 DEF Candidates
  <2>4. Ahead(tail, next) < Ahead(tail, i) /\ Ahead(tail, i) < Ahead(tail, head)
    BY <1>2, <2>3, LiveSlots, ArcBehind DEF InQueue
  <2> QED BY <2>2, <2>3, <2>4 DEF InQueue
<1>4. LiveStates'
  BY <1>1, <1>2 DEF LiveStates, IsrScan
<1>5. LiveQueue'
  BY <1>1, <1>2, <1>3 DEF LiveQueue, Good, InQueue
<1>6. LeavingActive' /\ LiveChain'
  BY <1>1, <1>2 DEF LeavingActive, LiveChain, Now
<1> QED BY <1>4, <1>5, <1>6 DEF Live

\* The link succeeds: it builds a block of its own for the new buffer, and
\* leads the block that the hardware has to it.
LEMMA LinkKeepsLive ==
  ASSUME TypeOK, Live, hwOn, IsrLink
  PROVE  Live'
<1> USE DEF bufferVars, memoryVars, hwVars, isrVars, waitVars
<1>1. LiveStates /\ LiveQueue /\ LiveChain
  BY DEF Live
<1>2. PICK n \in Slots, a \in Slots : n = isrNext /\ a = active
  BY DEF TypeOK
<1>3. /\ isr = "link" /\ engineState = "active" /\ a = next /\ Good(a) /\ ~irq
      /\ Ahead(tail, a) < Ahead(tail, n) /\ InQueue(n) /\ "flushed" \notin flags[n]
  BY <1>1, <1>2 DEF IsrLink, LiveStates, LiveQueue
<1>4. "queued" \in flags[n] /\ flags[n] \cap {"linked", "completed", "flushed"} = {} /\ n # a
  BY <1>1, <1>2, <1>3 DEF LiveQueue, TypeOK, Good
<1>5. CanLink(a, n) /\ Linked(a) /\ ~Linked(n)
  BY <1>3, <1>4 DEF CanLink, Linkable, Linked, Good
<1>6. PICK f \in Descs, t \in Descs : f = ds[a] /\ t = strDesc
  BY DEF TypeOK
<1>7. /\ flags' = [flags EXCEPT ![n] = @ \cup {"linked"}]
      /\ ds' = [ds EXCEPT ![n] = t]
      /\ strDesc' = NextDesc(t)
  BY <1>2, <1>4, <1>5, <1>6 DEF IsrLink, BufferLink, TypeOK
<1>8. t # f /\ hwDesc = f /\ desc[f] = [buf |-> a, next |-> f]
  BY <1>1, <1>2, <1>3, <1>6, BlocksInRing DEF LiveChain, Now
<1>9. desc' = [desc EXCEPT ![t] = [buf |-> n, next |-> t], ![f] = [buf |-> a, next |-> t]]
  <2>1. desc' = [d \in Descs |-> [buf  |-> IF d = t THEN n ELSE desc[d].buf,
                                  next |-> IF d = f THEN t ELSE IF d = t THEN d
                                           ELSE desc[d].next]]
    BY <1>2, <1>4, <1>5, <1>6 DEF IsrLink, BufferLink
  <2>2. \A d \in Descs : desc[d] = [buf |-> desc[d].buf, next |-> desc[d].next]
    BY DEF TypeOK
  <2>3. \A d \in Descs : desc'[d] = IF d = f THEN [buf |-> a, next |-> t]
                                    ELSE IF d = t THEN [buf |-> n, next |-> t] ELSE desc[d]
    BY <1>8, <2>1, <2>2
  <2>4. desc \in [Descs -> [buf : Slots \cup {None}, next : Descs]]
    BY DEF TypeOK
  <2> QED BY <2>1, <2>3, <2>4
<1>10. /\ next' = n /\ isr' = "signal"
       /\ UNCHANGED <<streamState, engineState, head, tail, active, hwOn, hwDesc, irq,
                      isrNext, overlap, cmd, session>>
  BY <1>2, <1>5 DEF IsrLink
<1>11. LiveStates'
  BY <1>1, <1>3, <1>10 DEF LiveStates
<1>12. LiveQueue'
  <2>1. \A i \in Slots : ("queued" \in flags[i] <=> InQueue(i))'
    BY <1>1, <1>7, <1>10 DEF LiveQueue, InQueue, TypeOK
  <2>2. Good(next)' /\ Good(active)'
    BY <1>2, <1>3, <1>4, <1>7, <1>10 DEF Good, TypeOK
  <2>3. \A i \in Slots : Ahead(tail, i) \in Nat
    BY AheadIsDistance, StreamAssumption DEF TypeOK
  <2>4. ASSUME NEW i \in Slots, (Ahead(tail, next) < Ahead(tail, i))', InQueue(i)'
        PROVE  (flags[i] \cap {"linked", "completed"})' = {}
    <3>1. Ahead(tail, n) < Ahead(tail, i) /\ InQueue(i) /\ i # n
      BY <1>10, <2>3, <2>4 DEF InQueue
    <3>2. Ahead(tail, next) < Ahead(tail, i)
      BY <1>3, <2>3, <3>1
    <3> QED BY <1>1, <1>7, <3>1, <3>2 DEF LiveQueue, TypeOK
  <2> QED BY <1>10, <2>1, <2>2, <2>4 DEF LiveQueue
<1>13. LeavingActive'
  BY <1>10 DEF LeavingActive
<1>14. LiveChain'
  <2>1. Now' = a
    BY <1>2, <1>3, <1>10 DEF Now
  <2>2. ds'[a] = f /\ ds'[n] = t
    BY <1>4, <1>6, <1>7 DEF TypeOK
  <2>3. desc'[f] = [buf |-> a, next |-> t] /\ desc'[t] = [buf |-> n, next |-> t]
    BY <1>8, <1>9 DEF TypeOK
  <2> QED BY <1>2, <1>7, <1>8, <1>10, <2>1, <2>2, <2>3 DEF LiveChain
<1> QED BY <1>11, <1>12, <1>13, <1>14 DEF Live

LEMMA SignalKeepsLive ==
  ASSUME TypeOK, ~Exposed', Live, hwOn, IsrSignal
  PROVE  Live'
<1> USE DEF bufferVars, memoryVars, hwVars, isrVars, waitVars
<1>1. LiveStates /\ LiveQueue /\ LiveChain
  BY DEF Live
<1>2. /\ isr = "signal" /\ isr' = "out"
      /\ UNCHANGED <<streamState, engineState, flags, head, tail, active, next, ds, strDesc,
                     desc, hwOn, hwDesc, irq, cmd, session>>
  BY SignalKeepsSession DEF IsrSignal
<1>3. LiveStates'
  BY <1>1, <1>2 DEF LiveStates
<1> QED BY <1>1, <1>2, <1>3
        DEF Live, LiveQueue, LeavingActive, LiveChain, Now, Good, InQueue

-----------------------------------------------------------------------------
(* A stream that does not run.                                               *)

\* A stream in use has its slot 0 linked into block 0, and starts there.
FirstLinked ==
  /\ flags[0] = {"queued", "linked"}
  /\ next = 0 /\ ds[0] = 0 /\ strDesc = NextDesc(0)
  /\ desc[0] = [buf |-> 0, next |-> 0]

\* What is known when a client starts or stops an initialised stream.
LEMMA BeforeStart ==
  ASSUME TypeOK, ~Exposed, ~Exposed', RunsAsWanted, InitializedIsFresh, ~hwOn,
         active # head, NEW s \in {"active", "idle"}, RunEngine(s)
  PROVE  /\ streamState = "initialized" /\ session = "fresh" /\ cmd.op = "none" /\ isr = "out"
         /\ tail = 0 /\ active = 0 /\ head \in Slots /\ head # 0
         /\ engineState \in {"initialized", "error"}
         /\ flags[0] \in {{"queued"}, {"queued", "linked"}}
         /\ \A i \in Slots \ {0} : flags[i] = IF i < head THEN {"queued"} ELSE {}
         /\ ~Linked(0) => strDesc = 0
         /\ Linked(0) /\ engineState # "error" => FirstLinked
<1>1. streamState = "initialized" /\ session = "fresh" /\ cmd.op = "none"
  BY RunIsFresh DEF RunEngine, Usable, Free, RunsAsWanted, Running, TypeOK, States
<1>2. overlap \in Nat /\ (isr # "out" => overlap < 3)
  BY OverlapCounts DEF RunEngine
<1>3. \A i \in Slots : head \in Nat /\ i \in Nat /\ (i >= head <=> ~(i < head))
  BY SlotsAreNats DEF TypeOK
<1> QED BY <1>1, <1>2, <1>3 DEF InitializedIsFresh, TypeOK, FirstLinked, Linked, FreshFlags

\* Linking the first buffer builds block 0.
LEMMA FirstLink ==
  ASSUME TypeOK, BufferLink(0, 0), flags[0] = {"queued"}, strDesc = 0,
         engineState # "error"
  PROVE  /\ flags' = [flags EXCEPT ![0] = {"queued", "linked"}]
         /\ ds'[0] = 0 /\ strDesc' = NextDesc(0)
         /\ desc'[0] = [buf |-> 0, next |-> 0]
<1>1. CanLink(0, 0) /\ ~Linked(0) /\ Linkable(0)
  BY DEF CanLink, Linkable, Linked
<1>2. flags' = [flags EXCEPT ![0] = {"queued", "linked"}]
  BY <1>1, SlotsAreNats DEF BufferLink, TypeOK
<1>3. ds'[0] = 0 /\ strDesc' = NextDesc(0)
  BY <1>1, SlotsAreNats DEF BufferLink
<1>4. desc'[0] = [buf |-> 0, next |-> 0]
  BY <1>1, SlotsAreNats DEF BufferLink
<1> QED BY <1>2, <1>3, <1>4

\* A link that is refused at once changes nothing.
LEMMA RefusedLink ==
  ASSUME TypeOK, NEW from \in Slots, NEW to \in Slots, BufferLink(from, to),
         engineState = "error" \/ ~Linkable(from)
  PROVE  UNCHANGED <<flags, ds, strDesc, desc>>
<1>1. ~CanLink(from, to)
  BY DEF CanLink
<1>2. flags' = flags
  BY <1>1 DEF BufferLink, TypeOK
<1>3. ds' = ds /\ strDesc' = strDesc
  BY <1>1 DEF BufferLink, TypeOK
<1>4. \A d \in Descs : desc[d] = [buf |-> desc[d].buf, next |-> desc[d].next]
  BY DEF TypeOK
<1>5. desc' = [d \in Descs |-> [buf |-> desc[d].buf, next |-> desc[d].next]]
  BY <1>1 DEF BufferLink
<1>6. desc' = desc
  BY <1>4, <1>5 DEF TypeOK
<1> QED BY <1>2, <1>3, <1>6

\* Starting an initialised stream either fails and leaves it as it was, or has
\* the hardware transfer its first buffer from block 0.
LEMMA Starts ==
  ASSUME TypeOK, ~Exposed, ~Exposed', RunsAsWanted, InitializedIsFresh, ~hwOn,
         active # head, NEW s \in {"active", "idle"}, RunEngine(s)
  PROVE  /\ UNCHANGED <<engineState, head, tail, active, isr, cmd, session>>
         /\ \/ /\ ~hwOn' /\ streamState' \in {"initialized", "error"}
               /\ UNCHANGED flags
               /\ engineState = "error"
            \/ /\ streamState' = s /\ hwOn' /\ hwDesc' = 0 /\ ~irq'
               /\ engineState = "initialized"
               /\ FirstLinked' /\ \A i \in Slots \ {0} : flags'[i] = flags[i]
<1> USE DEF hwVars
<1>1. UNCHANGED <<engineState, head, tail, active, isr, cmd, session>>
  BY RunIsFresh DEF RunEngine
<1>2. CASE engineState = "error"
  <2>1. UNCHANGED flags
    BY <1>2, BeforeStart, RefusedLink, SlotsAreNats DEF RunEngine
  <2>2. ~hwOn' /\ streamState' \in {"initialized", "error"}
    BY <1>2, BeforeStart DEF RunEngine
  <2> QED BY <1>1, <1>2, <2>1, <2>2
<1>3. CASE engineState # "error" /\ flags[0] = {"queued"}
  <2>1. /\ active = 0 /\ ~Linked(active) /\ "queued" \in flags[active]
        /\ CanLink(active, active) /\ strDesc = 0 /\ streamState = "initialized"
    BY <1>3, BeforeStart DEF Linked, CanLink, Linkable
  <2>2. BufferLink(0, 0) /\ next' = 0 /\ streamState' = s /\ HardwareStart
    BY <1>3, <2>1 DEF RunEngine
  <2>3. /\ flags' = [flags EXCEPT ![0] = {"queued", "linked"}]
        /\ ds'[0] = 0 /\ strDesc' = NextDesc(0)
        /\ desc'[0] = [buf |-> 0, next |-> 0]
    BY <1>3, <2>1, <2>2, FirstLink
  <2>4. FirstLinked'
    BY <2>2, <2>3, SlotsAreNats DEF FirstLinked, TypeOK, NextDesc
  <2> QED BY <1>1, <1>3, <2>2, <2>3, <2>4, BeforeStart, SlotsAreNats
          DEF HardwareStart, TypeOK
<1>4. CASE engineState # "error" /\ flags[0] = {"queued", "linked"}
  <2>1. active = 0 /\ Linked(active) /\ FirstLinked /\ streamState = "initialized"
    BY <1>4, BeforeStart DEF Linked
  <2>2. UNCHANGED <<flags, ds, strDesc, desc, next>> /\ streamState' = s /\ HardwareStart
    BY <1>4, <2>1 DEF RunEngine
  <2>3. FirstLinked'
    BY <2>1, <2>2 DEF FirstLinked
  <2> QED BY <1>1, <1>4, <2>2, <2>3, BeforeStart DEF HardwareStart
<1> QED BY <1>2, <1>3, <1>4, BeforeStart

\* A stream just started is live.
LEMMA StartKeepsLive ==
  ASSUME TypeOK, TypeOK', ~Exposed, ~Exposed', RunsAsWanted, InitializedIsFresh, Live,
         active # head, NEW s \in {"active", "idle"}, RunEngine(s)
  PROVE  Live'
<1>1. CASE hwOn
  BY <1>1, RunKeepsLive
<1>2. CASE ~hwOn /\ ~hwOn'
  BY <1>2 DEF Live
<1>3. CASE ~hwOn /\ hwOn'
  <2>1. /\ UNCHANGED <<engineState, head, tail, active, isr, cmd, session>>
        /\ hwDesc' = 0 /\ ~irq' /\ engineState = "initialized"
        /\ FirstLinked' /\ \A i \in Slots \ {0} : flags'[i] = flags[i]
    BY <1>3, Starts
  <2>2. /\ session = "fresh" /\ cmd.op = "none" /\ isr = "out"
        /\ tail = 0 /\ active = 0 /\ head \in Slots /\ head # 0
        /\ \A i \in Slots \ {0} : flags[i] = IF i < head THEN {"queued"} ELSE {}
    BY <1>3, BeforeStart
  <2>3. active' = 0 /\ next' = 0 /\ tail' = 0 /\ head' = head /\ isr' = "out"
    BY <2>1, <2>2 DEF FirstLinked
  <2>4. flags'[0] = {"queued", "linked"}
    BY <2>1 DEF FirstLinked
  <2>5. LiveStates'
    BY <2>1, <2>2, <2>3 DEF LiveStates
  <2>6. LiveQueue'
    <3>1. \A i \in Slots : Ahead(0, i) = i
      BY StreamAssumption DEF Ahead, Slots
    <3>2. \A i \in Slots : InQueue(i)' <=> i < head
      BY <2>2, <2>3, <3>1 DEF InQueue
    <3>3. \A i \in Slots : ("queued" \in flags[i] <=> InQueue(i))'
      BY <2>1, <2>2, <2>4, <3>2, SlotsAreNats
    <3>4. Good(next)' /\ Good(active)'
      BY <2>3, <2>4 DEF Good
    <3>5. \A i \in Slots : (Ahead(tail, next) < Ahead(tail, i))' => i # 0
      BY <2>3, <3>1, SlotsAreNats
    <3>6. \A i \in Slots \ {0} : (flags[i] \cap {"linked", "completed"})' = {}
      BY <2>1, <2>2
    <3> QED BY <2>3, <3>3, <3>4, <3>5, <3>6 DEF LiveQueue
  <2>7. LeavingActive'
    BY <2>3 DEF LeavingActive
  <2>8. LiveChain'
    <3>1. Now' = 0
      BY <2>3 DEF Now
    <3> QED BY <2>1, <2>3, <3>1 DEF LiveChain, FirstLinked
  <2> QED BY <2>5, <2>6, <2>7, <2>8 DEF Live
<1> QED BY <1>1, <1>2, <1>3

-----------------------------------------------------------------------------
(* The invariant is inductive.                                               *)

\* Start and stop of a queue that is not empty.
LEMMA StartSteps ==
  ASSUME ~Exposed, ~Exposed', ChannelStart \/ ChannelStop
  PROVE  active # head /\ \E s \in {"active", "idle"} : RunEngine(s)
  BY RunIsFresh DEF ChannelStart, ChannelStop

\* What starting does to the states.
LEMMA StartStates ==
  ASSUME TypeOK, ~Exposed, ~Exposed', RunsAsWanted, InitializedIsFresh, Live,
         ChannelStart \/ ChannelStop
  PROVE  /\ UNCHANGED <<engineState, isr, cmd, session>>
         /\ cmd.op = "none"
         /\ \/ hwOn' /\ streamState' \in {"active", "idle"}
            \/ ~hwOn' /\ ~hwOn /\ streamState' \in {"initialized", "error"}
<1>1. PICK s \in {"active", "idle"} : RunEngine(s)
  BY StartSteps
<1>2. active # head
  BY StartSteps
<1>3. CASE hwOn
  BY <1>1, <1>3, RunningIsStarted DEF RunEngine, Free, hwVars
<1>4. CASE ~hwOn
  BY <1>1, <1>2, <1>4, Starts, BeforeStart
<1> QED BY <1>3, <1>4

\* The hardware runs exactly while clients want it to.
LEMMA KeepsRunsAsWanted ==
  ASSUME TypeOK, ~Exposed, ~Exposed', IInv, ClientStep \/ EngineStep
  PROVE  RunsAsWanted'
<1> USE DEF bufferVars, memoryVars, hwVars, isrVars, waitVars
<1>1. RunsAsWanted /\ CommandStates
  BY DEF IInv
<1>2. (\E o \in Owners : ChannelInitialize(o) \/ ChannelRelease(o)) \/ Enable \/ Disable
        => RunsAsWanted'
  BY DEF ChannelInitialize, ChannelRelease, Enable, Disable, BeginRelease, HardwareStop,
         SetStates, RunsAsWanted, Running
<1>3. ReleaseBuffers => RunsAsWanted'
  BY <1>1 DEF ReleaseBuffers, SetStates, RunsAsWanted, Running, CommandStates
<1>4. ChannelStart \/ ChannelStop => RunsAsWanted'
  BY StartStates DEF IInv, RunsAsWanted, Running
<1>5. HwFault => RunsAsWanted'
  BY DEF HwFault, HardwareStop, SetStates, RunsAsWanted, Running
<1>6. IsrState => RunsAsWanted'
  BY <1>1 DEF IsrState, HardwareStop, RunsAsWanted, Running
<1>7. (\E o \in Owners : BufferQueue(o) \/ BufferRelease(o)) => RunsAsWanted'
  BY <1>1 DEF BufferQueue, BufferRelease, RunsAsWanted, Running
<1>8. ChannelFlush \/ InitializeFlush \/ FlushNext \/ FlushEnd => RunsAsWanted'
  BY <1>1 DEF ChannelFlush, InitializeFlush, FlushNext, FlushEnd, RunsAsWanted, Running
<1>9. HwComplete \/ IsrEnter \/ IsrComplete \/ IsrMove \/ IsrScan \/ IsrLink \/ IsrSignal
        => RunsAsWanted'
  BY <1>1 DEF HwComplete, IsrEnter, IsrComplete, IsrMove, IsrScan, IsrLink, IsrSignal,
              RunsAsWanted, Running
<1> QED BY <1>2, <1>3, <1>4, <1>5, <1>6, <1>7, <1>8, <1>9 DEF ClientStep, EngineStep, Isr

\* Commands of several steps find the states they left.
LEMMA KeepsCommandStates ==
  ASSUME TypeOK, ~Exposed, ~Exposed', IInv, ClientStep \/ EngineStep
  PROVE  CommandStates'
<1> USE DEF bufferVars, memoryVars, hwVars, isrVars, waitVars
<1>1. RunsAsWanted /\ CommandStates
  BY DEF IInv
<1>2. (\E o \in Owners : ChannelInitialize(o) \/ ChannelRelease(o)) \/ Enable \/ Disable
        => CommandStates'
  BY DEF ChannelInitialize, ChannelRelease, Enable, Disable, BeginRelease, SetStates,
         CommandStates
<1>3. ReleaseBuffers \/ InitializeFlush \/ FlushEnd => CommandStates'
  BY DEF ReleaseBuffers, InitializeFlush, FlushEnd, Idle, CommandStates
<1>4. ChannelStart \/ ChannelStop => CommandStates'
  BY StartStates DEF IInv, CommandStates
<1>5. HwFault => CommandStates'
  BY <1>1 DEF HwFault, SetStates, RunsAsWanted, Running, CommandStates
<1>6. ChannelFlush \/ FlushNext => CommandStates'
  <2>1. ChannelFlush => streamState' \in {"initialized", "active", "idle"} /\ cmd'.op = "flush"
    BY DEF ChannelFlush, Usable, TypeOK, States
  <2>2. FlushNext => cmd'.op = "flush"
    BY DEF FlushNext, TypeOK
  <2>3. FlushNext => CommandStates'
    BY <1>1, <2>2 DEF FlushNext, CommandStates
  <2> QED BY <2>1, <2>3 DEF CommandStates
<1>7. (\E o \in Owners : BufferQueue(o) \/ BufferRelease(o)) => CommandStates'
  BY <1>1 DEF BufferQueue, BufferRelease, CommandStates
<1>8. Isr \/ HwComplete => UNCHANGED <<streamState, cmd>>
  BY DEF Isr, HwComplete, IsrEnter, IsrComplete, IsrMove, IsrState, IsrScan, IsrLink, IsrSignal
<1>9. Isr \/ HwComplete => \/ UNCHANGED engineState \/ engineState' = "error"
                           \/ Running
  BY DEF Isr, HwComplete, IsrEnter, IsrComplete, IsrMove, IsrState, IsrScan, IsrLink, IsrSignal
<1>10. Isr \/ HwComplete => CommandStates'
  BY <1>1, <1>8, <1>9 DEF CommandStates, Running
<1> QED BY <1>2, <1>3, <1>4, <1>5, <1>6, <1>7, <1>10 DEF ClientStep, EngineStep

\* A stream is released empty, and what a late handler finds there is not
\* queued.
LEMMA KeepsReleasedIsEmpty ==
  ASSUME TypeOK, ~Exposed, ~Exposed', IInv, ClientStep \/ EngineStep
  PROVE  ReleasedIsEmpty'
<1> USE DEF bufferVars, memoryVars, hwVars, isrVars, waitVars
<1>1. RunsAsWanted /\ CommandStates /\ ReleasedIsEmpty
  BY DEF IInv
<1>2. (\E o \in Owners : ChannelRelease(o)) \/ Enable \/ Disable => ReleasedIsEmpty'
  <2>1. ASSUME NEW op \in {"release", "enable", "disable"}, BeginRelease(op)
        PROVE  ReleasedIsEmpty'
    <3>1. isr' # "out" => overlap' >= 1
      BY <2>1, OverlapCounts DEF BeginRelease
    <3>2. cmd'.op # "none"
      BY <2>1 DEF BeginRelease
    <3> QED BY <3>1, <3>2 DEF ReleasedIsEmpty
  <2> QED BY <2>1 DEF ChannelRelease, Enable, Disable
<1>3. (\E o \in Owners : ChannelInitialize(o)) => ReleasedIsEmpty'
  BY DEF ChannelInitialize, SetStates, ReleasedIsEmpty
<1>4. ReleaseBuffers => ReleasedIsEmpty'
  <2>1. SUFFICES ASSUME ReleaseBuffers PROVE ReleasedIsEmpty'
    OBVIOUS
  <2>2. streamState = "released" /\ engineState \in {"released", "error"}
    BY <1>1, <2>1 DEF ReleaseBuffers, CommandStates
  <2>3. \A i \in Slots : flags'[i] = {}
    BY <2>1, <2>2 DEF ReleaseBuffers, CanRelease
  <2> QED BY <1>1, <2>1, <2>2, <2>3 DEF ReleaseBuffers, ReleasedIsEmpty
<1>5. ChannelStart \/ ChannelStop => ReleasedIsEmpty'
  BY StartStates DEF IInv, ReleasedIsEmpty
<1>6. HwFault => ReleasedIsEmpty'
  BY DEF HwFault, SetStates, ReleasedIsEmpty
<1>7. (\E o \in Owners : BufferQueue(o) \/ BufferRelease(o)) => ReleasedIsEmpty'
  BY DEF BufferQueue, BufferRelease, Usable, ReleasedIsEmpty
<1>8. ChannelFlush => ReleasedIsEmpty'
  BY DEF ChannelFlush, Usable, ReleasedIsEmpty
<1>9. InitializeFlush \/ FlushNext \/ FlushEnd => ReleasedIsEmpty'
  BY <1>1 DEF InitializeFlush, FlushNext, FlushEnd, CommandStates, ReleasedIsEmpty
<1>10. HwComplete => ReleasedIsEmpty'
  BY <1>1 DEF HwComplete, ReleasedIsEmpty
<1>11. IsrEnter => ReleasedIsEmpty'
  BY <1>1 DEF IsrEnter, Running, ReleasedIsEmpty
<1>12. IsrComplete => ReleasedIsEmpty'
  BY <1>1 DEF IsrComplete, ReleasedIsEmpty, TypeOK
<1>13. IsrMove => ReleasedIsEmpty'
  BY <1>1 DEF IsrMove, ReleasedIsEmpty
<1>14. IsrState => ReleasedIsEmpty'
  BY <1>1 DEF IsrState, ReleasedIsEmpty
<1>15. IsrScan => ReleasedIsEmpty'
  BY <1>1 DEF IsrScan, ReleasedIsEmpty
<1>16. IsrLink => ReleasedIsEmpty'
  <2>1. SUFFICES ASSUME IsrLink, streamState \in {"released", "disabled"}
                 PROVE  ReleasedIsEmpty'
    BY DEF IsrLink, ReleasedIsEmpty
  <2>2. CASE cmd.op = "none"
    <3>1. active \in Slots /\ isrNext \in Slots /\ ~Linkable(active)
      BY <1>1, <2>1, <2>2 DEF ReleasedIsEmpty, Linkable, TypeOK
    <3>2. UNCHANGED flags
      BY <2>1, <3>1, RefusedLink DEF IsrLink
    <3> QED BY <1>1, <2>1, <3>2 DEF IsrLink, ReleasedIsEmpty
  <2>3. CASE cmd.op # "none"
    BY <1>1, <2>1, <2>3 DEF IsrLink, ReleasedIsEmpty
  <2> QED BY <2>2, <2>3
<1>17. IsrSignal => ReleasedIsEmpty'
  BY <1>1 DEF IsrSignal, ReleasedIsEmpty
<1> QED BY <1>2, <1>3, <1>4, <1>5, <1>6, <1>7, <1>8, <1>9, <1>10, <1>11, <1>12, <1>13,
           <1>14, <1>15, <1>16, <1>17 DEF ClientStep, EngineStep, Isr

\* The link of a handler that is late for an initialised stream.
LEMMA LateLink ==
  ASSUME TypeOK, InitializedIsFresh, streamState = "initialized", session = "fresh", IsrLink
  PROVE  InitializedIsFresh'
<1> USE DEF bufferVars, memoryVars, hwVars, isrVars, waitVars
<1>1. /\ engineState \in {"initialized", "error"}
      /\ cmd.op \in {"none", "initialize", "flush"}
      /\ (cmd.op = "initialize" => head = 0) /\ tail = 0 /\ active = 0
      /\ (cmd.op = "flush" => cmd.at <= head /\ (cmd.at = 0 => head = 0))
      /\ \A i \in Slots \ {0} : flags[i] = FreshFlags(i)
      /\ IF head = 0 THEN flags[0] = {} ELSE flags[0] \in {{"queued"}, {"queued", "linked"}}
      /\ overlap >= 2 /\ (head # 0 => overlap >= 3 /\ head = 1)
      /\ ~Linked(0) /\ strDesc = 0
  BY DEF InitializedIsFresh, IsrLink
<1>2. PICK n \in Slots : n = isrNext
  BY DEF TypeOK
<1>3. /\ BufferLink(0, n) /\ next' = n /\ isr' = "signal"
      /\ engineState' = IF CanLink(0, n) THEN engineState ELSE "error"
      /\ UNCHANGED <<streamState, head, tail, active, overlap, cmd, session>>
      /\ \A i \in Slots : FreshFlags(i)' = FreshFlags(i)
  BY <1>1, <1>2 DEF IsrLink, FreshFlags
<1>4. CASE engineState = "error" \/ head = 0
  <2>1. ~Linkable(0) \/ engineState = "error"
    BY <1>1, <1>4 DEF Linkable
  <2>2. UNCHANGED <<flags, ds, strDesc, desc>>
    BY <1>3, <2>1, RefusedLink, SlotsAreNats
  <2>3. engineState' = "error"
    BY <1>3, <2>1 DEF CanLink
  <2> QED BY <1>1, <1>3, <2>2, <2>3 DEF InitializedIsFresh, Linked
<1>5. CASE engineState = "initialized" /\ head # 0 /\ n = 0
  <2>1. flags[0] = {"queued"} /\ CanLink(0, n)
    BY <1>1, <1>5 DEF Linked, CanLink, Linkable
  <2>2. /\ flags' = [flags EXCEPT ![0] = {"queued", "linked"}]
        /\ ds'[0] = 0 /\ strDesc' = NextDesc(0)
        /\ desc'[0] = [buf |-> 0, next |-> 0]
    BY <1>1, <1>3, <1>5, <2>1, FirstLink
  <2>3. flags'[0] = {"queued", "linked"} /\ \A i \in Slots \ {0} : flags'[i] = flags[i]
    BY <2>2, SlotsAreNats DEF TypeOK
  <2>4. strDesc' = NextDesc(0)'
    BY <2>2 DEF NextDesc
  <2> QED BY <1>1, <1>3, <1>5, <2>1, <2>2, <2>3, <2>4 DEF InitializedIsFresh, Linked
<1>6. CASE engineState = "initialized" /\ head # 0 /\ n # 0
  <2>1. flags[0] = {"queued"} /\ head = 1 /\ flags[n] = {}
    BY <1>1, <1>6, SlotsAreNats DEF Linked, FreshFlags
  <2>2. ~CanLink(0, n) /\ Linkable(0) /\ ~Linked(0)
    BY <1>1, <2>1 DEF CanLink, Linkable
  <2>3. flags' = [flags EXCEPT ![0] = {"queued", "linked"}]
    BY <1>3, <1>6, <2>1, <2>2, SlotsAreNats DEF BufferLink, TypeOK
  <2>4. flags'[0] = {"queued", "linked"} /\ \A i \in Slots \ {0} : flags'[i] = flags[i]
    BY <2>3, SlotsAreNats DEF TypeOK
  <2> QED BY <1>1, <1>3, <2>1, <2>2, <2>4 DEF InitializedIsFresh, Linked
<1> QED BY <1>1, <1>4, <1>5, <1>6

\* A flush of an initialised stream does not reach the first buffer.
LEMMA FreshFlush ==
  ASSUME TypeOK, ~Exposed, ~Exposed', CommandStates, InitializedIsFresh, FlushNext \/ FlushEnd
  PROVE  InitializedIsFresh'
<1> USE DEF bufferVars, memoryVars, hwVars, isrVars, waitVars
<1>1. SUFFICES ASSUME streamState = "initialized", session = "fresh" PROVE InitializedIsFresh'
  BY FlushSpares DEF FlushNext, FlushEnd, InitializedIsFresh
<1>2. PICK c \in Slots, p \in Slots : c = cmd.at /\ p = PrevSlot(c)
  BY StepsInRing DEF TypeOK
<1>3. /\ engineState \in {"initialized", "error"} /\ cmd.op = "flush"
      /\ c <= head /\ (c = 0 => head = 0) /\ tail = 0 /\ active = 0 /\ head \in Slots
      /\ \A i \in Slots \ {0} : flags[i] = FreshFlags(i)
      /\ IF head = 0 THEN flags[0] = {} ELSE flags[0] \in {{"queued"}, {"queued", "linked"}}
  BY <1>1, <1>2 DEF InitializedIsFresh, FlushNext, FlushEnd, TypeOK
<1>4. c # 0 => /\ p + 1 = c /\ p < head /\ head # 0
               /\ p # 0 => flags[p] = {"queued"}
               /\ CanFlush(p) /\ "flushed" \notin flags[p]
  <2>1. SUFFICES ASSUME c # 0
                 PROVE  /\ p + 1 = c /\ p < head /\ head # 0
                        /\ p # 0 => flags[p] = {"queued"}
                        /\ CanFlush(p) /\ "flushed" \notin flags[p]
    OBVIOUS
  <2>2. p + 1 = c /\ p < head /\ head # 0 /\ p \in Nat /\ c \in Nat /\ head \in Nat
    BY <1>2, <1>3, <2>1, SlotsAreNats DEF PrevSlot
  <2>3. p # 0 => flags[p] = {"queued"}
    BY <1>2, <1>3, <2>2 DEF FreshFlags
  <2>4. "queued" \in flags[p] /\ "completed" \notin flags[p] /\ "flushed" \notin flags[p]
    BY <1>3, <2>2, <2>3
  <2> QED BY <1>3, <2>2, <2>3, <2>4 DEF CanFlush
<1>5. CASE FlushNext
  <2>1. /\ c # 0 /\ flags' = [flags EXCEPT ![p] = @ \cup {"flushed"}] /\ cmd' = [cmd EXCEPT !.at = p]
        /\ UNCHANGED <<streamState, engineState, head, tail, active, next, ds, strDesc, desc, isr,
                       overlap, session>>
    BY <1>2, <1>3, <1>5, FlushSpares DEF FlushNext
  <2>2. p # 0 /\ ~Linked(p)
    BY <1>2, <1>3, <1>4, <2>1, <1>5, FlushSpares
  <2>3. cmd'.op = "flush" /\ cmd'.at = p
    BY <1>3, <2>1 DEF TypeOK
  <2>4. ASSUME NEW i \in Slots \ {0} PROVE flags'[i] = FreshFlags(i)'
    <3>1. CASE i = p
      <4>1. flags'[i] = {"queued", "flushed"}
        BY <1>4, <2>1, <2>2, <3>1 DEF TypeOK
      <4>2. FreshFlags(i)' = {"queued", "flushed"}
        BY <1>3, <1>4, <2>1, <2>3, <3>1, SlotsAreNats DEF FreshFlags
      <4> QED BY <4>1, <4>2
    <3>2. CASE i # p
      <4>1. flags'[i] = FreshFlags(i)
        BY <1>3, <2>1, <3>2 DEF TypeOK
      <4>2. p <= i <=> c <= i
        BY <1>4, <2>1, <3>2, SlotsAreNats
      <4> QED BY <1>2, <1>3, <2>1, <2>3, <4>1, <4>2 DEF FreshFlags
    <3> QED BY <3>1, <3>2
  <2>5. flags'[0] = flags[0] /\ (Linked(0)' <=> Linked(0))
    BY <2>1, <2>2, SlotsAreNats DEF TypeOK, Linked
  <2>6. p <= head /\ NextDesc(0)' = NextDesc(0)
    BY <1>3, <1>4, <2>1, SlotsAreNats DEF NextDesc
  <2> QED BY <1>1, <1>3, <2>1, <2>2, <2>3, <2>4, <2>5, <2>6 DEF InitializedIsFresh
<1>6. CASE FlushEnd
  <2>1. c = 0
    BY <1>2, <1>3, <1>4, <1>6 DEF FlushEnd
  <2>2. /\ head = 0 /\ cmd'.op = "none"
        /\ UNCHANGED <<streamState, engineState, flags, head, tail, active, next, ds, strDesc, desc,
                       isr, overlap, session>>
    BY <1>3, <1>6, <2>1 DEF FlushEnd, Idle
  <2>3. \A i \in Slots : FreshFlags(i) = {} /\ FreshFlags(i)' = {}
    BY <2>2, SlotsAreNats DEF FreshFlags
  <2> QED BY <1>1, <1>3, <2>2, <2>3 DEF InitializedIsFresh, Linked, NextDesc
<1> QED BY <1>5, <1>6

\* A stream is initialised empty, and then only filled.
LEMMA KeepsInitializedIsFresh ==
  ASSUME TypeOK, ~Exposed, ~Exposed', IInv, ClientStep \/ EngineStep
  PROVE  InitializedIsFresh'
<1> USE DEF bufferVars, memoryVars, hwVars, isrVars, waitVars
<1>1. RunsAsWanted /\ CommandStates /\ ReleasedIsEmpty /\ InitializedIsFresh /\ Live
  BY DEF IInv
<1>2. ASSUME NEW o \in Owners, ChannelInitialize(o) PROVE InitializedIsFresh'
  <2>1. SUFFICES ASSUME streamState = "released" PROVE InitializedIsFresh'
    BY <1>2 DEF ChannelInitialize, InitializedIsFresh
  <2>2. /\ \A i \in Slots : flags[i] = {}
        /\ head = 0 /\ tail = 0 /\ active = 0
        /\ isr \in {"complete", "move"} => next = 0
        /\ isr # "out" => overlap >= 1
    BY <1>1, <1>2, <2>1 DEF ChannelInitialize, Free, ReleasedIsEmpty
  <2>3. isr # "out" => overlap' >= 2
    BY <1>2, <2>2, OverlapCounts DEF ChannelInitialize
  <2>4. /\ engineState' = "initialized" /\ strDesc' = 0 /\ cmd'.op = "initialize"
        /\ UNCHANGED <<flags, head, tail, active, next, isr>>
    BY <1>2 DEF ChannelInitialize, SetStates
  <2>5. ~Linked(0)' /\ \A i \in Slots : flags'[i] = {} /\ FreshFlags(i)' = {}
    <3>1. \A i \in Slots : flags'[i] = {} /\ i >= head'
      <4>1. \A i \in Slots : flags'[i] = {}
        BY <2>2, <2>4
      <4>2. head' = 0 /\ \A i \in Slots : i >= 0
        BY <2>2, <2>4, SlotsAreNats
      <4> QED BY <4>1, <4>2
    <3>2. ~Linked(0)'
      BY <3>1, SlotsAreNats DEF Linked
    <3> QED BY <3>1, <3>2 DEF FreshFlags
  <2> QED BY <2>2, <2>3, <2>4, <2>5, SlotsAreNats DEF InitializedIsFresh
<1>3. (\E o \in Owners : ChannelRelease(o)) \/ Enable \/ Disable \/ ReleaseBuffers
        => InitializedIsFresh'
  BY <1>1 DEF ChannelRelease, Enable, Disable, BeginRelease, ReleaseBuffers, SetStates,
         CommandStates, InitializedIsFresh
<1>4. InitializeFlush => InitializedIsFresh'
  <2>1. SUFFICES ASSUME InitializeFlush, streamState = "initialized", session = "fresh"
                 PROVE  InitializedIsFresh'
    BY DEF InitializeFlush, InitializedIsFresh
  <2>2. \A i \in Slots : flags[i] = {}
    BY <1>1, <2>1, SlotsAreNats DEF InitializeFlush, InitializedIsFresh, FreshFlags
  <2>3. UNCHANGED flags
    BY <2>1, <2>2 DEF InitializeFlush, CanFlush, TypeOK
  <2>4. head = 0 /\ head' = 0 /\ \A i \in Slots : FreshFlags(i)' = {}
    BY <1>1, <2>1, SlotsAreNats DEF InitializeFlush, InitializedIsFresh, FreshFlags
  <2> QED BY <1>1, <2>1, <2>2, <2>3, <2>4 DEF InitializeFlush, Idle, InitializedIsFresh, Linked
<1>5. ASSUME NEW o \in Owners, BufferQueue(o) PROVE InitializedIsFresh'
  <2>1. SUFFICES ASSUME streamState = "initialized", session = "fresh" PROVE InitializedIsFresh'
    BY <1>5, QueueIsFresh DEF BufferQueue, InitializedIsFresh
  <2>2. PICK h \in Slots : h = head
    BY DEF TypeOK
  <2>3. /\ flags' = [flags EXCEPT ![h] = {"queued"}] /\ ds' = [ds EXCEPT ![h] = 0]
        /\ head' = NextSlot(h) /\ NextSlot(h) # 0 /\ cmd.op = "none"
        /\ UNCHANGED <<streamState, engineState, tail, active, next, strDesc, desc, isr, cmd,
                       session>>
    BY <1>1, <1>5, <2>1, <2>2, QueueIsFresh DEF BufferQueue, InitializedIsFresh, Free
  <2>4. head' = h + 1 /\ h \in Nat
    BY <2>3, SlotsAreNats DEF NextSlot
  <2>5. /\ \A i \in Slots \ {0} : flags'[i] = IF i < head' THEN {"queued"} ELSE {}
        /\ flags'[0] \in {{"queued"}, {"queued", "linked"}}
        /\ Linked(0)' => h # 0 /\ Linked(0) /\ ds'[0] = ds[0]
        /\ Linked(0) => Linked(0)'
    <3>1. \A i \in Slots : flags'[i] = IF i = h THEN {"queued"} ELSE flags[i]
      BY <2>3 DEF TypeOK
    <3>2. /\ \A i \in Slots \ {0} : flags[i] = IF i < h THEN {"queued"} ELSE {}
          /\ IF h = 0 THEN flags[0] = {} ELSE flags[0] \in {{"queued"}, {"queued", "linked"}}
      BY <1>1, <2>1, <2>2, <2>3, SlotsAreNats DEF InitializedIsFresh, FreshFlags
    <3>3. \A i \in Slots \ {0} : flags'[i] = IF i < head' THEN {"queued"} ELSE {}
      <4>1. \A i \in Slots : i < head' <=> i < h \/ i = h
        BY <2>4, SlotsAreNats
      <4> QED BY <3>1, <3>2, <4>1
    <3>4. h # 0 => flags'[0] = flags[0] /\ ds'[0] = ds[0]
      BY <2>3, SlotsAreNats DEF TypeOK
    <3>5. h = 0 => flags'[0] = {"queued"} /\ ~Linked(0)
      BY <3>1, <3>2, SlotsAreNats DEF Linked
    <3> QED BY <3>2, <3>3, <3>4, <3>5 DEF Linked
  <2>6. isr # "out" => overlap' >= 3 /\ head' = 1
    BY <1>1, <1>5, <2>1, <2>2, <2>4, OverlapCounts DEF InitializedIsFresh, BufferQueue
  <2>7. NextDesc(0)' = NextDesc(0)
    BY DEF NextDesc
  <2>8. ~Linked(0)' => strDesc' = 0
    BY <1>1, <2>1, <2>3, <2>5 DEF InitializedIsFresh
  <2>9. Linked(0)' => /\ isr \in {"signal", "out"}
                      /\ engineState # "error" =>
                           /\ next = 0 /\ ds'[0] = 0 /\ strDesc = NextDesc(0)
                           /\ desc[0] = [buf |-> 0, next |-> 0]
    BY <1>1, <2>1, <2>5 DEF InitializedIsFresh
  <2>10. /\ engineState \in {"initialized", "error"}
         /\ tail = 0 /\ active = 0 /\ head' # 0
         /\ isr \in {"complete", "move"} => next = 0
         /\ isr # "out" => overlap >= 2
    BY <1>1, <2>1, <2>4 DEF InitializedIsFresh
  <2>11. isr # "out" => overlap' >= 2 /\ overlap' >= 3 /\ head' = 1
    BY <2>6, <1>5, <2>10, OverlapCounts DEF BufferQueue
  <2>12. \A i \in Slots \ {0} : flags'[i] = FreshFlags(i)'
    <3>1. \A i \in Slots : i >= head' <=> ~(i < head')
      BY <2>4, SlotsAreNats
    <3> QED BY <2>3, <2>5, <3>1 DEF FreshFlags
  <2> QED
    BY <2>3, <2>5, <2>7, <2>8, <2>9, <2>10, <2>11, <2>12 DEF InitializedIsFresh
<1>6. ASSUME NEW o \in Owners, BufferRelease(o) PROVE InitializedIsFresh'
  <2>1. SUFFICES ASSUME streamState = "initialized", session = "fresh" PROVE FALSE
    BY <1>6 DEF BufferRelease, InitializedIsFresh
  <2> QED BY <1>1, <1>6, <2>1 DEF BufferRelease, InitializedIsFresh
<1>7. ChannelStart \/ ChannelStop => InitializedIsFresh'
  <2>1. SUFFICES ASSUME ChannelStart \/ ChannelStop, streamState' = "initialized"
                 PROVE  InitializedIsFresh'
    BY DEF InitializedIsFresh
  <2>2. PICK s \in {"active", "idle"} : RunEngine(s)
    BY <2>1, StartSteps
  <2>3. active # head /\ ~hwOn
    BY <1>1, <2>1, StartSteps, StartStates
  <2>4. /\ UNCHANGED <<engineState, head, tail, active, isr, cmd, session, flags>>
        /\ engineState = "error"
    BY <1>1, <2>1, <2>2, <2>3, Starts
  <2>5. streamState = "initialized" /\ isr = "out" /\ session = "fresh"
    BY <1>1, <2>2, <2>3, BeforeStart
  <2>6. ~Linked(0) => strDesc' = 0
    <3>1. UNCHANGED strDesc
      BY <2>2, <2>4, RefusedLink DEF RunEngine, TypeOK
    <3> QED BY <1>1, <2>5, <3>1 DEF InitializedIsFresh
  <2>7. \A i \in Slots : FreshFlags(i)' = FreshFlags(i)
    BY <2>4 DEF FreshFlags
  <2> QED BY <1>1, <2>4, <2>5, <2>6, <2>7 DEF InitializedIsFresh, Linked
<1>8. ASSUME ChannelFlush PROVE InitializedIsFresh'
  <2>1. SUFFICES ASSUME streamState = "initialized", session = "fresh" PROVE InitializedIsFresh'
    BY <1>8 DEF ChannelFlush, InitializedIsFresh
  <2>2. /\ cmd.op = "none" /\ cmd' = [op |-> "flush", at |-> head]
        /\ UNCHANGED <<engineState, flags, head, tail, active, next, ds, strDesc, desc, isr>>
        /\ isr # "out" => overlap \in Nat /\ overlap' = overlap + 1
    BY <1>8, OverlapCounts DEF ChannelFlush, Free
  <2>3. head \in Nat /\ \A i \in Slots : FreshFlags(i)' = FreshFlags(i)
    BY <2>2, SlotsAreNats DEF FreshFlags, TypeOK
  <2> QED BY <1>1, <2>1, <2>2, <2>3 DEF InitializedIsFresh, Linked, NextDesc
<1>9. FlushNext \/ FlushEnd => InitializedIsFresh'
  BY <1>1, FreshFlush
<1>10. HwFault \/ HwComplete => InitializedIsFresh'
  BY <1>1 DEF HwFault, HwComplete, SetStates, RunsAsWanted, Running, InitializedIsFresh
<1>11. IsrEnter => InitializedIsFresh'
  BY <1>1 DEF IsrEnter, Running, InitializedIsFresh, FreshFlags, Linked, NextDesc
<1>12. ASSUME IsrComplete PROVE InitializedIsFresh'
  <2>1. SUFFICES ASSUME streamState = "initialized", session = "fresh" PROVE InitializedIsFresh'
    BY <1>12 DEF IsrComplete, InitializedIsFresh
  <2>2. ~Linked(0) /\ active = 0
    BY <1>1, <1>12, <2>1 DEF IsrComplete, InitializedIsFresh
  <2>3. UNCHANGED flags /\ engineState' = "error"
    BY <1>12, <2>2 DEF IsrComplete, Linked
  <2> QED BY <1>1, <1>12, <2>1, <2>2, <2>3 DEF IsrComplete, InitializedIsFresh, FreshFlags, Linked
<1>13. IsrMove => InitializedIsFresh'
  BY <1>1 DEF IsrMove, InitializedIsFresh, FreshFlags, Linked, NextDesc
<1>14. IsrState => InitializedIsFresh'
  BY <1>1 DEF IsrState, Running, InitializedIsFresh, FreshFlags, Linked, NextDesc
<1>15. IsrScan => InitializedIsFresh'
  BY <1>1 DEF IsrScan, InitializedIsFresh, FreshFlags, Linked, NextDesc
<1>16. IsrLink => InitializedIsFresh'
  BY <1>1, LateLink DEF IsrLink, InitializedIsFresh
<1>17. IsrSignal => InitializedIsFresh'
  BY <1>1, SignalKeepsSession DEF IsrSignal, InitializedIsFresh, FreshFlags, Linked, NextDesc
<1> QED BY <1>2, <1>3, <1>4, <1>5, <1>6, <1>7, <1>8, <1>9, <1>10, <1>11, <1>12, <1>13,
           <1>14, <1>15, <1>16, <1>17 DEF ClientStep, EngineStep, Isr

\* A stream that runs stays live until it is stopped.
LEMMA KeepsLive ==
  ASSUME TypeOK, TypeOK', ~Exposed, ~Exposed', IInv, ClientStep \/ EngineStep
  PROVE  Live'
<1> USE DEF bufferVars, memoryVars, hwVars, isrVars, waitVars
<1>1. RunsAsWanted /\ CommandStates /\ InitializedIsFresh /\ Live
  BY DEF IInv
<1>2. ChannelStart \/ ChannelStop => Live'
  BY <1>1, StartSteps, StartKeepsLive
<1>3. CASE ~hwOn /\ ~(ChannelStart \/ ChannelStop)
  <2>1. ~hwOn'
    BY <1>3 DEF ClientStep, EngineStep, Isr, ChannelInitialize, ChannelRelease, BeginRelease,
         BufferQueue, BufferRelease, ChannelFlush, Enable, Disable, HardwareStop,
         InitializeFlush, ReleaseBuffers, FlushNext, FlushEnd, HwComplete, HwFault, IsrEnter,
         IsrComplete, IsrMove, IsrState, IsrScan, IsrLink, IsrSignal
  <2> QED BY <2>1 DEF Live
<1>4. CASE hwOn
  <2>1. (\E o \in Owners : ChannelInitialize(o) \/ ChannelRelease(o))
          \/ Enable \/ Disable \/ HwFault => ~hwOn'
    BY DEF ChannelInitialize, ChannelRelease, BeginRelease, Enable, Disable, HwFault,
           HardwareStop
  <2>2. ~InitializeFlush /\ ~ReleaseBuffers
    BY <1>1, <1>4 DEF Live, LiveStates, InitializeFlush, ReleaseBuffers
  <2>3. ~hwOn' => Live'
    BY DEF Live
  <2>4. (\E o \in Owners : BufferQueue(o) \/ BufferRelease(o)) => Live'
    BY <1>1, <1>4, QueueKeepsLive, ReleaseKeepsLive
  <2>5. ChannelFlush \/ FlushNext \/ FlushEnd => Live'
    BY <1>1, <1>4, FlushKeepsLive, FlushNextKeepsLive, FlushEndKeepsLive
  <2>6. HwComplete \/ IsrEnter \/ IsrComplete \/ IsrMove => Live'
    BY <1>1, <1>4, CompleteBlockKeepsLive, EnterKeepsLive, CompleteKeepsLive, MoveKeepsLive
  <2>7. IsrState \/ IsrScan \/ IsrLink \/ IsrSignal => Live'
    BY <1>1, <1>4, StateKeepsLive, ScanKeepsLive, LinkKeepsLive, SignalKeepsLive
  <2> QED BY <1>2, <2>1, <2>2, <2>3, <2>4, <2>5, <2>6, <2>7 DEF ClientStep, EngineStep, Isr
<1> QED BY <1>2, <1>3, <1>4

\* A configured stream satisfies the invariant.
LEMMA InitInv == Init => IInv
  BY SlotsAreNats DEF Init, IInv, RunsAsWanted, Running, CommandStates, Idle, ReleasedIsEmpty,
     InitializedIsFresh, Live

LEMMA StepInv ==
  ASSUME ~Exposed, ~Exposed', TypeOK, TypeOK', IInv, [Next]_vars
  PROVE  IInv'
<1>1. CASE ClientStep \/ EngineStep
  BY <1>1, KeepsRunsAsWanted, KeepsCommandStates, KeepsReleasedIsEmpty,
     KeepsInitializedIsFresh, KeepsLive DEF IInv
<1>2. ASSUME UNCHANGED vars \/ \E w \in Waiters : Wait(w) PROVE IInv'
  <2>1. UnchangedButWait
    BY <1>2 DEF vars, Wait, WaitEnter, WaitClear, WaitWoken, WaitTimeout, WaitLeave,
                UnchangedButWait
  <2>2. UNCHANGED <<streamState, engineState, owner, flags, head, tail, active, next,
                    initCount, ds, strDesc, desc, hwOn, hwDesc, irq, isr, isrNext, overlap,
                    cmd, session>>
    BY <2>1 DEF UnchangedButWait, bufferVars, memoryVars, hwVars, isrVars
  <2>3. (RunsAsWanted /\ CommandStates /\ ReleasedIsEmpty)'
    BY <2>2 DEF IInv, RunsAsWanted, Running, CommandStates, ReleasedIsEmpty
  <2>4. InitializedIsFresh'
    BY <2>2 DEF IInv, InitializedIsFresh, FreshFlags, Linked, NextDesc
  <2>5. hwOn => Live'
    <3>1. ASSUME hwOn PROVE Live'
      <4>1. overlap' \in Nat /\ overlap' >= overlap
        BY <2>2, StreamAssumption DEF TypeOK
      <4> QED BY <2>2, <3>1, <4>1, LiveFrame DEF IInv, bufferVars, memoryVars, hwVars
    <3> QED BY <3>1
  <2>6. ~hwOn => Live'
    BY <2>2 DEF Live
  <2> QED BY <2>3, <2>4, <2>5, <2>6 DEF IInv
<1> QED BY <1>1, <1>2, NextCases

\* A release empties the ring.
LEMMA ReleaseEmpties ==
  ASSUME TypeOK, engineState \in {"released", "error"}, ReleaseBuffers
  PROVE  /\ \A i \in Slots : flags'[i] = {} /\ ~InQueue(i)'
         /\ head' = 0 /\ tail' = 0 /\ active' = 0 /\ next' = 0 /\ ~hwOn' = ~hwOn
<1>1. \A i \in Slots : flags'[i] = {}
  BY DEF ReleaseBuffers, CanRelease
<1>2. head' = 0 /\ tail' = 0 /\ active' = 0 /\ next' = 0 /\ ~hwOn' = ~hwOn
  BY DEF ReleaseBuffers, hwVars
<1>3. \A i \in Slots : ~InQueue(i)'
  BY <1>2, SlotsAreNats, AheadIsDistance, StreamAssumption DEF InQueue
<1> QED BY <1>1, <1>2, <1>3

LEMMA KeepsHalted ==
  ASSUME TypeOK, HaltedForRelease, [Next]_vars
  PROVE  HaltedForRelease'
<1> USE DEF bufferVars, memoryVars, hwVars, isrVars, waitVars
<1>1. (\E o \in Owners : ChannelInitialize(o) \/ ChannelRelease(o)) \/ Enable \/ Disable
        => HaltedForRelease'
  BY DEF ChannelInitialize, ChannelRelease, Enable, Disable, BeginRelease, HardwareStop,
         SetStates, HaltedForRelease
<1>2. ReleaseBuffers \/ InitializeFlush \/ FlushEnd => HaltedForRelease'
  BY DEF ReleaseBuffers, InitializeFlush, FlushEnd, Idle, HaltedForRelease
<1>3. (\E o \in Owners : BufferQueue(o) \/ BufferRelease(o)) \/ ChannelStart \/ ChannelStop
        => HaltedForRelease'
  BY DEF BufferQueue, BufferRelease, ChannelStart, ChannelStop, RunEngine, Free, HaltedForRelease
<1>4. ChannelFlush => HaltedForRelease'
  BY DEF ChannelFlush, HaltedForRelease
<1>5. FlushNext => HaltedForRelease'
  BY DEF FlushNext, TypeOK, HaltedForRelease
<1>6. HwComplete \/ HwFault => HaltedForRelease'
  BY DEF HwComplete, HwFault, HaltedForRelease
<1>7. Isr => HaltedForRelease'
  BY DEF Isr, IsrEnter, IsrComplete, IsrMove, IsrState, IsrScan, IsrLink, IsrSignal, Running,
         HardwareStop, HaltedForRelease
<1>8. UNCHANGED vars \/ (\E w \in Waiters : Wait(w)) => HaltedForRelease'
  BY DEF vars, Wait, WaitEnter, WaitClear, WaitWoken, WaitTimeout, WaitLeave, UnchangedButWait,
         HaltedForRelease
<1> QED BY <1>1, <1>2, <1>3, <1>4, <1>5, <1>6, <1>7, <1>8, NextCases
        DEF ClientStep, EngineStep

\* Only a release with no handler under way ends an exposure.
LEMMA ExposedStays ==
  ASSUME TypeOK, Exposed, ~Exposed', [Next]_vars
  PROVE  ReleaseBuffers /\ isr = "out"
<1> USE DEF bufferVars, memoryVars, hwVars, isrVars, waitVars
<1>1. ~ UNCHANGED <<session, overlap>>
  BY DEF Exposed
<1>2. ASSUME Overlap, session = "exposed" => session' = "exposed" PROVE FALSE
  <2>1. overlap \in Nat /\ overlap' \in {overlap, overlap + 1}
    BY <1>2, StreamAssumption DEF TypeOK, Overlap
  <2> QED BY <1>2, <2>1 DEF Exposed, MostOverlap
<1>3. (\E o \in Owners : ChannelInitialize(o) \/ ChannelRelease(o)) \/ Enable \/ Disable => FALSE
  BY <1>2 DEF ChannelInitialize, ChannelRelease, Enable, Disable, BeginRelease
<1>4. (\E o \in Owners : BufferQueue(o) \/ BufferRelease(o)) \/ ChannelStart \/ ChannelStop
        \/ ChannelFlush => FALSE
  BY <1>2 DEF BufferQueue, BufferRelease, ChannelStart, ChannelStop, RunEngine, ChannelFlush
<1>5. InitializeFlush \/ FlushEnd \/ HwComplete \/ HwFault => FALSE
  BY <1>1 DEF InitializeFlush, FlushEnd, HwComplete, HwFault
<1>6. FlushNext => FALSE
  BY DEF FlushNext, Exposed
<1>7. Isr => FALSE
  BY <1>1 DEF Isr, IsrEnter, IsrComplete, IsrMove, IsrState, IsrScan, IsrLink, IsrSignal, Exposed
<1>8. UNCHANGED vars \/ (\E w \in Waiters : Wait(w)) => FALSE
  BY <1>1 DEF vars, Wait, WaitEnter, WaitClear, WaitWoken, WaitTimeout, WaitLeave,
              UnchangedButWait
<1>9. ReleaseBuffers => isr = "out"
  BY <1>1 DEF ReleaseBuffers
<1> QED BY <1>3, <1>4, <1>5, <1>6, <1>7, <1>8, <1>9, NextCases DEF ClientStep, EngineStep

\* The stream it leaves is as a configured one.
LEMMA ReleaseRenews ==
  ASSUME TypeOK, HaltedForRelease, ReleaseBuffers, isr = "out"
  PROVE  /\ IInv' /\ ~hwOn' /\ cmd'.op = "none" /\ isr' = "out"
         /\ streamState' \in {"released", "disabled"}
         /\ \A i \in Slots : flags'[i] = {} /\ ~InQueue(i)'
         /\ head' = 0 /\ tail' = 0
<1>1. /\ ~hwOn /\ streamState = "released" /\ engineState \in {"released", "error"}
  BY DEF HaltedForRelease, ReleaseBuffers
<1>2. /\ \A i \in Slots : flags'[i] = {} /\ ~InQueue(i)'
      /\ head' = 0 /\ tail' = 0 /\ active' = 0 /\ ~hwOn'
  BY <1>1, ReleaseEmpties
<1>3. streamState' \in {"released", "disabled"} /\ cmd'.op = "none" /\ isr' = "out"
  BY <1>1 DEF ReleaseBuffers, SetStates, Idle, isrVars
<1>4. IInv'
  BY <1>2, <1>3 DEF IInv, RunsAsWanted, Running, CommandStates, ReleasedIsEmpty,
                    InitializedIsFresh, Live
<1> QED BY <1>2, <1>3, <1>4

LEMMA Invariance == Spec => []ChainInv
<1>1. Init => ChainInv
  BY InitInv DEF ChainInv, Init, Idle, HaltedForRelease
<1>2. TypeOK /\ TypeOK' /\ ChainInv /\ [Next]_vars => ChainInv'
  <2>1. SUFFICES ASSUME TypeOK, TypeOK', ChainInv, [Next]_vars, ~Exposed' PROVE IInv'
    BY KeepsHalted DEF ChainInv
  <2>2. CASE Exposed
    BY <2>1, <2>2, ExposedStays, ReleaseRenews DEF ChainInv
  <2>3. CASE ~Exposed
    BY <2>1, <2>3, StepInv DEF ChainInv
  <2> QED BY <2>2, <2>3
<1> QED BY <1>1, <1>2, TypeCorrect, PTL DEF Spec

-----------------------------------------------------------------------------
(* What follows.                                                             *)

\* Between the client that releases buffers and the hardware that walks the
\* chain without asking, no buffer is transferred that is not queued, or is
\* flushed, or complete, until the stream is exposed, and again from the next
\* release on.
THEOREM HardwareTransfersQueued == Spec => []TransfersOnlyQueued
<1>1. TypeOK /\ ChainInv => TransfersOnlyQueued
  <2>1. SUFFICES ASSUME TypeOK, Live, hwOn PROVE HwBuffer = Now /\ Good(Now) /\ Now \in Slots
    BY SlotsAreNats DEF ChainInv, IInv, TransfersOnlyQueued, Good
  <2>2. HwBuffer = Now
    BY <2>1 DEF Live, LiveChain, Now, HwBuffer
  <2>3. Good(Now)
    BY <2>1 DEF Live, LiveQueue, LiveStates, Now
  <2> QED BY <2>2, <2>3, <2>1 DEF Now, TypeOK
<1> QED BY <1>1, Invariance, TypeCorrect, PTL

\* The driver's active buffer is the one the hardware transfers, and the chain
\* leads from it to the driver's next, through every command and every late
\* interrupt, unless the stream is exposed.
THEOREM DriverInStep == Spec => []HardwareInStep
<1>1. ChainInv => HardwareInStep
  <2>1. SUFFICES ASSUME Live, hwOn
                 PROVE  HwBuffer = Now /\ desc[desc[hwDesc].next].buf = next
    BY DEF ChainInv, IInv, HardwareInStep, Now
  <2> QED BY <2>1 DEF Live, LiveChain, Now, HwBuffer
<1> QED BY <1>1, Invariance, PTL

\* While a stream runs and is not exposed, no link and no completion is refused.
THEOREM NoErrorWhileRunning == Spec => []NoSpuriousError
<1>1. ChainInv => NoSpuriousError
  BY DEF ChainInv, IInv, RunsAsWanted, Live, LiveStates, NoSpuriousError
<1> QED BY <1>1, Invariance, PTL

-----------------------------------------------------------------------------
(* Buffers have their turn in the order of the queue.                        *)

Settled(i) == flags[i] \cap {"completed", "flushed"} # {}

AllSettled == \A i \in Slots : InQueue(i) => Settled(i)

\* The slots from tail to head hold the buffers, the others nothing.
ArcIsQueue ==
  \A i \in Slots : /\ "queued" \in flags[i] <=> InQueue(i)
                   /\ flags[i] # {} => "queued" \in flags[i]

\* Before next everything is settled but the active buffer, behind it nothing
\* is linked, and the buffer about to be linked is the next that is not flushed.
ServedInOrder ==
  /\ \A i \in Slots : InQueue(i) /\ Ahead(tail, i) < Ahead(tail, next)
                        => Settled(i) \/ (i = active /\ isr # "move")
  /\ \A i \in Slots : InQueue(i) /\ Ahead(tail, next) < Ahead(tail, i)
                        => flags[i] \cap {"linked", "completed"} = {}
  /\ active # next /\ isr # "move" => Ahead(tail, active) < Ahead(tail, next)
  /\ isr = "link" => \A i \in Slots :
       Ahead(tail, next) < Ahead(tail, i) /\ Ahead(tail, i) < Ahead(tail, isrNext)
         => Settled(i)

\* What the handler needs to know, whether the stream runs or was just halted.
InTurn ==
  /\ ServedInOrder
  /\ Good(next)
  /\ isr # "move" \/ active = next => Good(active)
  /\ isr \in {"state", "scan", "link"} => active = next
  /\ isr = "complete" => active # next
  /\ isr \in {"scan", "link"} => engineState # "error"
  /\ isr = "link" => /\ Ahead(tail, next) < Ahead(tail, isrNext) /\ InQueue(isrNext)
                     /\ "flushed" \notin flags[isrNext]

Pending == cmd.op \in {"initialize", "release", "enable", "disable"}

\* A handler that is late for its stream finds it halted and as it was, or with
\* nothing left to do, or just initialised.
LateTurn ==
  ~hwOn /\ isr # "out" =>
    AllSettled \/ (streamState = "initialized" /\ session = "fresh") \/ (Pending /\ InTurn)

\* A flush has settled everything from where it is to the head.
FlushTurn ==
  cmd.op = "flush" =>
    \A i \in Slots : InQueue(i) /\ Ahead(tail, cmd.at) <= Ahead(tail, i) => Settled(i)

InitializedStates == streamState = "initialized" => engineState \in {"initialized", "error"}

TurnInv ==
  /\ ArcIsQueue
  /\ hwOn => ServedInOrder
  /\ LateTurn /\ FlushTurn /\ InitializedStates

\* A stream that runs is in turn.
LEMMA LiveIsInTurn == ASSUME Live, hwOn, ServedInOrder PROVE InTurn
  BY DEF Live, LiveStates, LiveQueue, InTurn

\* Distances are natural numbers.
LEMMA Distances == ASSUME NEW t \in Slots PROVE \A i \in Slots : Ahead(t, i) \in Nat
  BY AheadIsDistance, StreamAssumption

\* Between two members of the arc lies a part of it.
LEMMA ArcBetween ==
  ASSUME NEW t \in Slots, NEW h \in Slots, NEW a \in Slots, NEW i \in Slots, NEW n \in Slots,
         Ahead(t, a) < Ahead(t, i), Ahead(t, i) < Ahead(t, n), Ahead(t, n) < Ahead(t, h)
  PROVE  /\ Ahead(NextSlot(a), i) < Ahead(NextSlot(a), n)
         /\ Ahead(NextSlot(a), i) < Ahead(NextSlot(a), h)
  BY StreamAssumption DEF Slots, Ahead, NextSlot

\* What is linked is in the queue.
LEMMA LinkedInQueue ==
  ASSUME ArcIsQueue, NEW i \in Slots, flags[i] # {}
  PROVE  InQueue(i)
  BY DEF ArcIsQueue

-----------------------------------------------------------------------------
(* The handler keeps the order, in a stream that runs or was halted.         *)

LEMMA CompleteInTurn == ASSUME TypeOK, InTurn, IsrComplete PROVE InTurn'
<1> USE DEF bufferVars, memoryVars, hwVars, isrVars, waitVars
<1>1. isr = "complete" /\ active # next /\ Good(active) /\ Good(next) /\ ServedInOrder
  BY DEF IsrComplete, InTurn
<1>2. /\ flags' = [flags EXCEPT ![active] = @ \cup {"completed"}] /\ isr' = "move"
      /\ UNCHANGED <<engineState, head, tail, active, next, isrNext>>
  BY <1>1 DEF IsrComplete, Good
<1>3. /\ active \in Slots /\ next \in Slots
      /\ Settled(active)' /\ \A i \in Slots \ {active} : flags'[i] = flags[i]
  BY <1>2 DEF TypeOK, Settled
<1>4. Ahead(tail, active) < Ahead(tail, next) /\ \A i \in Slots : Ahead(tail, i) \in Nat
  BY <1>1, Distances DEF ServedInOrder, TypeOK
<1>5. ServedInOrder'
  BY <1>1, <1>2, <1>3, <1>4 DEF ServedInOrder, InQueue, Settled
<1>6. Good(next)'
  BY <1>1, <1>2, <1>3 DEF Good
<1> QED BY <1>1, <1>2, <1>5, <1>6 DEF InTurn

LEMMA MoveInTurn == ASSUME TypeOK, InTurn, IsrMove PROVE InTurn'
<1> USE DEF bufferVars, memoryVars, hwVars, isrVars, waitVars
<1>1. /\ isr = "move" /\ isr' = "state" /\ active' = next
      /\ UNCHANGED <<engineState, flags, head, tail, next, isrNext>>
  BY DEF IsrMove
<1>2. ServedInOrder'
  BY <1>1 DEF InTurn, ServedInOrder, InQueue, Settled
<1> QED BY <1>1, <1>2 DEF InTurn, Good

LEMMA StateInTurn == ASSUME TypeOK, InTurn, IsrState PROVE InTurn'
<1> USE DEF bufferVars, memoryVars, hwVars, isrVars, waitVars
<1>1. /\ isr = "state" /\ isr' \in {"scan", "signal"} /\ (isr' = "scan" => engineState' = "active")
      /\ UNCHANGED <<flags, head, tail, active, next, isrNext>>
  BY DEF IsrState
<1>2. ServedInOrder'
  BY <1>1 DEF InTurn, ServedInOrder, InQueue, Settled
<1> QED BY <1>1, <1>2 DEF InTurn, Good

\* Between next and what a scan finds, everything is flushed.
LEMMA ScanInTurn == ASSUME TypeOK, ArcIsQueue, InTurn, IsrScan PROVE InTurn'
<1> USE DEF bufferVars, memoryVars, hwVars, isrVars, waitVars
<1>1. /\ isr = "scan" /\ isr' \in {"link", "signal"} /\ active = next /\ engineState # "error"
      /\ UNCHANGED <<engineState, flags, head, tail, active, next>>
  BY DEF IsrScan, InTurn
<1>2. CASE isr' = "signal"
  BY <1>1, <1>2 DEF InTurn, ServedInOrder, InQueue, Settled, Good
<1>3. CASE isr' = "link"
  <2>1. PICK n \in Candidates :
          /\ n = isrNext'
          /\ \A i \in Candidates : Ahead(NextSlot(active), n) <= Ahead(NextSlot(active), i)
    <3>1. Candidates \subseteq Slots /\ Candidates # {} /\ isrNext' = Nearest(Candidates)
      BY <1>3 DEF IsrScan, Candidates
    <3> QED BY <3>1, NearestIsMember DEF TypeOK
  <2>2. /\ n \in Slots /\ "flushed" \notin flags[n]
        /\ Ahead(NextSlot(active), n) < Ahead(NextSlot(active), head)
    BY <2>1 DEF Candidates
  <2>3. tail \in Slots /\ head \in Slots /\ active \in Slots /\ InQueue(active)
    <3>1. tail \in Slots /\ head \in Slots /\ active \in Slots
      BY DEF TypeOK
    <3>2. flags[active] # {}
      BY <1>1 DEF InTurn, Good
    <3> QED BY <3>1, <3>2, LinkedInQueue
  <2>4. Ahead(tail, active) < Ahead(tail, n) /\ Ahead(tail, n) < Ahead(tail, head)
    BY <2>2, <2>3, ArcBehind DEF InQueue
  <2>5. ASSUME NEW i \in Slots, Ahead(tail, active) < Ahead(tail, i), Ahead(tail, i) < Ahead(tail, n)
        PROVE  Settled(i)
    <3>1. /\ Ahead(NextSlot(active), i) < Ahead(NextSlot(active), n)
          /\ Ahead(NextSlot(active), i) < Ahead(NextSlot(active), head)
      BY <2>2, <2>3, <2>4, <2>5, ArcBetween
    <3>2. Ahead(NextSlot(active), i) \in Nat /\ Ahead(NextSlot(active), n) \in Nat
      BY <2>2, <2>3, Distances, StepsInRing
    <3>3. i \notin Candidates
      BY <2>1, <3>1, <3>2
    <3> QED BY <3>1, <3>3 DEF Candidates, Settled
  <2>6. ServedInOrder'
    BY <1>1, <1>3, <2>1, <2>5 DEF InTurn, ServedInOrder, InQueue, Settled
  <2> QED BY <1>1, <1>3, <2>1, <2>2, <2>4, <2>6 DEF InTurn, InQueue, Good
<1> QED BY <1>1, <1>2, <1>3

\* The link is of the next buffer in the order of the queue.
LEMMA LinkInTurn ==
  ASSUME TypeOK, ArcIsQueue, InTurn, IsrLink
  PROVE  /\ InTurn'
         /\ flags' = [flags EXCEPT ![isrNext] = @ \cup {"linked"}]
         /\ flags[isrNext] = {"queued"} /\ isrNext \in Slots
<1> USE DEF bufferVars, memoryVars, hwVars, isrVars, waitVars
<1>1. PICK n \in Slots, a \in Slots : n = isrNext /\ a = active
  BY DEF TypeOK
<1>2. /\ isr = "link" /\ engineState # "error" /\ a = next /\ Good(a) /\ ServedInOrder
      /\ Ahead(tail, a) < Ahead(tail, n) /\ InQueue(n) /\ "flushed" \notin flags[n]
  BY <1>1 DEF IsrLink, InTurn
<1>3. "queued" \in flags[n] /\ flags[n] \cap {"linked", "completed", "flushed"} = {} /\ n # a
  BY <1>1, <1>2 DEF ServedInOrder, ArcIsQueue, Good
<1>4. flags[n] = {"queued"}
  BY <1>3 DEF TypeOK, FlagSet
<1>5. CanLink(a, n) /\ Linked(a) /\ ~Linked(n)
  BY <1>2, <1>3 DEF CanLink, Linkable, Linked, Good
<1>6. flags' = [flags EXCEPT ![n] = @ \cup {"linked"}]
  BY <1>1, <1>3, <1>5 DEF IsrLink, BufferLink, TypeOK
<1>7. next' = n /\ isr' = "signal" /\ UNCHANGED <<engineState, head, tail, active, isrNext>>
  BY <1>1, <1>5 DEF IsrLink
<1>8. \A i \in Slots : Ahead(tail, i) \in Nat
  BY Distances DEF TypeOK
<1>9. \A i \in Slots : flags'[i] = IF i = n THEN {"queued", "linked"} ELSE flags[i]
  BY <1>4, <1>6 DEF TypeOK
<1>10. ServedInOrder'
  <2>1. ASSUME NEW i \in Slots, InQueue(i), Ahead(tail, i) < Ahead(tail, n)
        PROVE  Settled(i) \/ i = a
    <3>1. Ahead(tail, i) = Ahead(tail, a) => i = a
      BY <1>1, AheadIsDistance DEF TypeOK
    <3>2. Ahead(tail, i) < Ahead(tail, a) => i # a
      BY <1>8
    <3> QED BY <1>1, <1>2, <1>8, <2>1, <3>1, <3>2 DEF ServedInOrder
  <2>2. \A i \in Slots : InQueue(i) /\ Ahead(tail, i) < Ahead(tail, n)
                           => Settled(i)' \/ i = a
    BY <1>8, <1>9, <2>1 DEF Settled
  <2>3. ASSUME NEW i \in Slots, InQueue(i), Ahead(tail, n) < Ahead(tail, i)
        PROVE  flags'[i] \cap {"linked", "completed"} = {}
    BY <1>1, <1>2, <1>8, <1>9, <2>3 DEF ServedInOrder
  <2> QED BY <1>1, <1>2, <1>7, <2>2, <2>3 DEF ServedInOrder, InQueue
<1>11. Good(next)' /\ Good(active)'
  BY <1>1, <1>2, <1>3, <1>7, <1>9 DEF Good
<1>12. InTurn'
  BY <1>7, <1>10, <1>11 DEF InTurn
<1> QED BY <1>1, <1>4, <1>6, <1>12

LEMMA SignalInTurn == ASSUME TypeOK, InTurn, IsrSignal PROVE InTurn'
<1> USE DEF bufferVars, memoryVars, hwVars, isrVars, waitVars
<1>1. /\ isr = "signal" /\ isr' = "out"
      /\ UNCHANGED <<engineState, flags, head, tail, active, next>>
  BY DEF IsrSignal
<1>2. ServedInOrder'
  BY <1>1 DEF InTurn, ServedInOrder, InQueue, Settled
<1> QED BY <1>1, <1>2 DEF InTurn, Good

-----------------------------------------------------------------------------
(* The order of a stream holds through every step.                           *)

\* Only what can be linked is.
LEMMA LinkGrows ==
  ASSUME TypeOK, NEW from \in Slots, NEW to \in Slots, BufferLink(from, to)
  PROVE  \A i \in Slots : \/ flags'[i] = flags[i]
                          \/ Linkable(i) /\ flags'[i] = flags[i] \cup {"linked"}
  BY DEF BufferLink, CanLink

\* The interrupt and the flush mark what is queued.
LEMMA MarksGrow ==
  ASSUME TypeOK, ArcIsQueue, \/ InitializeFlush \/ FlushNext \/ ChannelStart \/ ChannelStop
                             \/ IsrComplete \/ IsrLink
  PROVE  /\ UNCHANGED <<head, tail>>
         /\ \A i \in Slots : \/ flags'[i] = flags[i]
                             \/ "queued" \in flags[i] /\ flags[i] \subseteq flags'[i]
<1> USE DEF bufferVars, memoryVars, hwVars, isrVars, waitVars
<1>1. UNCHANGED <<head, tail>>
  BY DEF InitializeFlush, FlushNext, ChannelStart, ChannelStop, RunEngine, IsrComplete, IsrLink
<1>2. active \in Slots /\ isrNext \in Slots
  BY DEF TypeOK
<1>3. ASSUME ChannelStart \/ ChannelStop \/ IsrLink, NEW i \in Slots
      PROVE  flags'[i] = flags[i] \/ ("queued" \in flags[i] /\ flags[i] \subseteq flags'[i])
  <2>1. \/ flags' = flags \/ BufferLink(active, active) \/ BufferLink(active, isrNext)
    BY <1>3 DEF ChannelStart, ChannelStop, RunEngine, IsrLink
  <2>2. flags'[i] = flags[i] \/ (Linkable(i) /\ flags'[i] = flags[i] \cup {"linked"})
    BY <1>2, <2>1, LinkGrows
  <2> QED BY <2>2 DEF Linkable
<1>4. ASSUME InitializeFlush \/ IsrComplete, NEW i \in Slots
      PROVE  flags'[i] = flags[i] \/ ("queued" \in flags[i] /\ flags[i] \subseteq flags'[i])
  BY <1>4 DEF InitializeFlush, IsrComplete, CanFlush, TypeOK
<1>5. ASSUME FlushNext, NEW i \in Slots
      PROVE  flags'[i] = flags[i] \/ ("queued" \in flags[i] /\ flags[i] \subseteq flags'[i])
  <2>1. PrevSlot(cmd.at) \in Slots
    BY StepsInRing DEF TypeOK
  <2>2. "queued" \in flags[PrevSlot(cmd.at)]
    BY <1>5, <2>1 DEF FlushNext, CanFlush, ArcIsQueue
  <2> QED BY <1>5, <2>1, <2>2 DEF FlushNext, TypeOK
<1> QED BY <1>1, <1>3, <1>4, <1>5

\* The other steps leave the buffers alone.
LEMMA BuffersStay ==
  ASSUME \/ \E o \in Owners : ChannelInitialize(o) \/ ChannelRelease(o)
         \/ Enable \/ Disable \/ ChannelFlush \/ FlushEnd \/ HwComplete \/ HwFault
         \/ IsrEnter \/ IsrMove \/ IsrState \/ IsrScan \/ IsrSignal
  PROVE  UNCHANGED <<flags, head, tail>>
  BY DEF bufferVars, memoryVars, hwVars, isrVars, waitVars, ChannelInitialize, ChannelRelease,
         Enable, Disable, BeginRelease, ChannelFlush, FlushEnd, HwComplete, HwFault, IsrEnter,
         IsrMove, IsrState, IsrScan, IsrSignal

\* Queueing lengthens the arc by a slot, releasing shortens it by one.
LEMMA QueueMovesHead ==
  ASSUME TypeOK, ArcIsQueue, NEW o \in Owners, BufferQueue(o)
  PROVE  /\ ~InQueue(head) /\ tail' = tail /\ head' = NextSlot(head)
         /\ \A i \in Slots : InQueue(i)' <=> InQueue(i) \/ i = head
         /\ flags'[head] = {"queued"} /\ \A i \in Slots \ {head} : flags'[i] = flags[i]
         /\ QueueLength' = QueueLength + 1 /\ QueueLength + 1 <= NumBuffers - 1
<1>1. PICK h \in Slots, t \in Slots : h = head /\ t = tail
  BY DEF TypeOK
<1>2. /\ flags' = [flags EXCEPT ![h] = {"queued"}] /\ "queued" \notin flags[h]
      /\ tail' = t /\ head' = NextSlot(h) /\ NextSlot(h) # t
  BY <1>1 DEF BufferQueue
<1>3. /\ NextSlot(h) \in Slots /\ Ahead(t, NextSlot(h)) = Ahead(t, h) + 1
      /\ Ahead(t, NextSlot(h)) \in 0 .. NumBuffers - 1
      /\ \A i \in Slots : Ahead(t, i) \in Nat /\ (Ahead(t, i) = Ahead(t, h) <=> i = h)
  BY <1>1, <1>2, ArcGrows, StepsInRing, AheadIsDistance, Distances
<1>4. \A i \in Slots : /\ InQueue(i) <=> Ahead(t, i) < Ahead(t, h)
                       /\ InQueue(i)' <=> Ahead(t, i) < Ahead(t, NextSlot(h))
  BY <1>1, <1>2 DEF InQueue
<1>5. \A i \in Slots : InQueue(i)' <=> InQueue(i) \/ i = h
  BY <1>3, <1>4
<1>6. flags'[h] = {"queued"} /\ \A i \in Slots \ {h} : flags'[i] = flags[i]
  BY <1>2 DEF TypeOK
<1>7. QueueLength' = QueueLength + 1 /\ QueueLength + 1 <= NumBuffers - 1
  BY <1>1, <1>2, <1>3 DEF QueueLength
<1> QED BY <1>1, <1>2, <1>5, <1>6, <1>7 DEF ArcIsQueue

LEMMA ReleaseMovesTail ==
  ASSUME TypeOK, ArcIsQueue, NEW o \in Owners, BufferRelease(o)
  PROVE  /\ InQueue(tail) /\ Settled(tail) /\ tail' = NextSlot(tail) /\ head' = head
         /\ \A i \in Slots : InQueue(i)' <=> InQueue(i) /\ i # tail
         /\ \A i \in Slots \ {tail} : Ahead(tail, i)' = Ahead(tail, i) - 1
         /\ flags'[tail] = {} /\ \A i \in Slots \ {tail} : flags'[i] = flags[i]
<1>1. PICK h \in Slots, t \in Slots : h = head /\ t = tail
  BY DEF TypeOK
<1>2. /\ flags' = [flags EXCEPT ![t] = {}] /\ "queued" \in flags[t]
      /\ tail' = NextSlot(t) /\ head' = h /\ Settled(t)
  BY <1>1 DEF BufferRelease, Settled
<1>3. InQueue(t)
  BY <1>2 DEF ArcIsQueue
<1>4. \A i \in Slots : /\ Ahead(t, i) \in 0 .. NumBuffers - 1
                       /\ Ahead(NextSlot(t), i) = IF i = t THEN NumBuffers - 1
                                                  ELSE Ahead(t, i) - 1
  BY ArcShrinks, AheadIsDistance
<1>5. \A i \in Slots : /\ InQueue(i) <=> Ahead(t, i) < Ahead(t, h)
                       /\ InQueue(i)' <=> Ahead(NextSlot(t), i) < Ahead(NextSlot(t), h)
  BY <1>1, <1>2 DEF InQueue
<1>6. h # t
  BY <1>3, <1>4, <1>5
<1>7. \A i \in Slots : InQueue(i)' <=> InQueue(i) /\ i # t
  BY <1>4, <1>5, <1>6, StreamAssumption
<1>8. flags'[t] = {} /\ \A i \in Slots \ {t} : flags'[i] = flags[i]
  BY <1>2 DEF TypeOK
<1>9. \A i \in Slots \ {t} : Ahead(tail, i)' = Ahead(tail, i) - 1
  BY <1>1, <1>2, <1>4
<1> QED BY <1>1, <1>2, <1>3, <1>7, <1>8, <1>9

LEMMA KeepsArc ==
  ASSUME TypeOK, TypeOK', IInv, ArcIsQueue, ClientStep \/ EngineStep
  PROVE  ArcIsQueue'
<1>1. ASSUME NEW o \in Owners, BufferQueue(o) PROVE ArcIsQueue'
  BY <1>1, QueueMovesHead DEF ArcIsQueue, TypeOK
<1>2. ASSUME NEW o \in Owners, BufferRelease(o) PROVE ArcIsQueue'
  BY <1>2, ReleaseMovesTail DEF ArcIsQueue, TypeOK
<1>3. ReleaseBuffers => ArcIsQueue'
  BY ReleaseEmpties DEF ArcIsQueue, IInv, CommandStates, ReleaseBuffers
<1>4. ASSUME UNCHANGED <<head, tail>>,
             \A i \in Slots : \/ flags'[i] = flags[i]
                              \/ "queued" \in flags[i] /\ flags[i] \subseteq flags'[i]
      PROVE  ArcIsQueue'
  BY <1>4 DEF ArcIsQueue, InQueue
<1> QED BY <1>1, <1>2, <1>3, <1>4, MarksGrow, BuffersStay DEF ClientStep, EngineStep, Isr

\* Marks settle more, and what they say of the order stays.
LEMMA OrderFrame ==
  ASSUME ServedInOrder, UNCHANGED <<head, tail, active, next, isr, isrNext>>,
         \A i \in Slots : \/ flags'[i] = flags[i]
                          \/ flags'[i] = flags[i] \cup {"flushed"}
  PROVE  ServedInOrder'
<1>1. \A i \in Slots : /\ InQueue(i)' <=> InQueue(i)
                       /\ Settled(i) => Settled(i)'
                       /\ flags'[i] \cap {"linked", "completed"}
                            = flags[i] \cap {"linked", "completed"}
  BY DEF InQueue, Settled
<1> QED BY <1>1 DEF ServedInOrder

LEMMA QueueKeepsOrder ==
  ASSUME TypeOK, ArcIsQueue, InTurn, NEW o \in Owners, BufferQueue(o)
  PROVE  ServedInOrder'
<1>1. UNCHANGED <<active, next, isr, isrNext, tail>>
  BY DEF BufferQueue
<1>2. PICK h \in Slots, t \in Slots, n \in Slots : h = head /\ t = tail /\ n = next
  BY DEF TypeOK
<1>3. /\ \A i \in Slots : InQueue(i)' <=> InQueue(i) \/ i = h
      /\ flags'[h] = {"queued"} /\ \A i \in Slots \ {h} : flags'[i] = flags[i]
  BY <1>2, QueueMovesHead
<1>4. /\ \A i \in Slots : InQueue(i) <=> Ahead(t, i) < Ahead(t, h)
      /\ \A i \in Slots : Ahead(t, i) \in Nat
  BY <1>2, Distances DEF InQueue
<1>5. InQueue(n)
  BY <1>2, LinkedInQueue DEF InTurn, Good
<1>6. \A i \in Slots \ {h} : Settled(i)' <=> Settled(i)
  BY <1>3 DEF Settled
<1>7. \A i \in Slots : Ahead(t, i) < Ahead(t, n) => i # h
  BY <1>4, <1>5
<1>8. isr = "link" => \A i \in Slots : Ahead(t, i) < Ahead(t, isrNext) => i # h
  <2>1. isr = "link" => isrNext \in Slots /\ InQueue(isrNext)
    BY DEF TypeOK, InTurn
  <2> QED BY <1>4, <2>1
<1> QED BY <1>1, <1>2, <1>3, <1>6, <1>7, <1>8 DEF InTurn, ServedInOrder

LEMMA ReleaseKeepsOrder ==
  ASSUME TypeOK, ArcIsQueue, InTurn, NEW o \in Owners, BufferRelease(o)
  PROVE  ServedInOrder'
<1>1. UNCHANGED <<active, next, isr, isrNext>>
  BY DEF BufferRelease
<1>2. PICK t \in Slots, n \in Slots, a \in Slots, m \in Slots, h \in Slots :
        t = tail /\ n = next /\ a = active /\ m = isrNext /\ h = head
  BY DEF TypeOK
<1>3. PICK u \in Slots : u = NextSlot(t)
  BY StepsInRing
<1>4. /\ Settled(t) /\ \A i \in Slots : InQueue(i)' <=> InQueue(i) /\ i # t
      /\ tail' = u /\ head' = h
      /\ \A i \in Slots \ {t} : flags'[i] = flags[i]
  BY <1>2, <1>3, ReleaseMovesTail
<1>5. \A i \in Slots : /\ Ahead(t, i) \in Nat /\ Ahead(u, i) \in Nat
                       /\ i # t => Ahead(u, i) = Ahead(t, i) - 1
                       /\ InQueue(i)' <=> Ahead(u, i) < Ahead(u, h)
  BY <1>2, <1>3, <1>4, Distances, ArcShrinks DEF InQueue
<1>6. \A i \in Slots \ {t} : Settled(i)' <=> Settled(i)
  BY <1>4 DEF Settled
<1>7. n # t /\ (isr # "move" => a # t)
  BY <1>2, <1>4 DEF InTurn, Good, Settled
<1>8. isr = "link" => InQueue(m)' /\ m # t
  <2>1. isr = "link" => InQueue(m) /\ ~Settled(m)
    <3>1. isr = "link" => /\ Ahead(t, n) < Ahead(t, m) /\ InQueue(m)
                          /\ flags[m] \cap {"linked", "completed"} = {}
                          /\ "flushed" \notin flags[m]
      BY <1>2 DEF InTurn, ServedInOrder
    <3> QED BY <3>1 DEF Settled
  <2> QED BY <1>4, <2>1
<1>9. \A i \in Slots : InQueue(i)' /\ Ahead(u, i) < Ahead(u, n)
                         => Settled(i)' \/ (i = a /\ isr # "move")
  BY <1>2, <1>4, <1>5, <1>6, <1>7 DEF InTurn, ServedInOrder
<1>10. \A i \in Slots : InQueue(i)' /\ Ahead(u, n) < Ahead(u, i)
                          => flags'[i] \cap {"linked", "completed"} = {}
  BY <1>2, <1>4, <1>5, <1>7 DEF InTurn, ServedInOrder
<1>11. a # n /\ isr # "move" => Ahead(u, a) < Ahead(u, n)
  BY <1>2, <1>5, <1>7 DEF InTurn, ServedInOrder
<1>12. isr = "link" => \A i \in Slots :
         Ahead(u, n) < Ahead(u, i) /\ Ahead(u, i) < Ahead(u, m) => Settled(i)'
  <2>1. SUFFICES ASSUME isr = "link", NEW i \in Slots,
                        Ahead(u, n) < Ahead(u, i), Ahead(u, i) < Ahead(u, m)
                 PROVE  Settled(i)'
    OBVIOUS
  <2>2. InQueue(i)'
    BY <1>5, <1>8, <2>1
  <2>3. i # t /\ Ahead(t, n) < Ahead(t, i) /\ Ahead(t, i) < Ahead(t, m)
    BY <1>4, <1>5, <1>7, <1>8, <2>1, <2>2
  <2> QED BY <1>2, <1>6, <2>1, <2>3 DEF InTurn, ServedInOrder
<1> QED BY <1>1, <1>2, <1>4, <1>9, <1>10, <1>11, <1>12 DEF ServedInOrder

\* A stream that runs serves its buffers in order.
LEMMA KeepsOrder ==
  ASSUME TypeOK, TypeOK', ~Exposed, ~Exposed', IInv, TurnInv, ClientStep \/ EngineStep, hwOn'
  PROVE  ServedInOrder'
<1> USE DEF bufferVars, memoryVars, hwVars, isrVars, waitVars
<1>1. RunsAsWanted /\ CommandStates /\ InitializedIsFresh /\ Live /\ ArcIsQueue
  BY DEF IInv, TurnInv
<1>2. CASE ~hwOn
  <2>1. ChannelStart \/ ChannelStop
    BY <1>2 DEF ClientStep, EngineStep, Isr, ChannelInitialize, ChannelRelease, BeginRelease,
         BufferQueue, BufferRelease, ChannelFlush, Enable, Disable, HardwareStop,
         InitializeFlush, ReleaseBuffers, FlushNext, FlushEnd, HwComplete, HwFault, IsrEnter,
         IsrComplete, IsrMove, IsrState, IsrScan, IsrLink, IsrSignal
  <2>2. PICK s \in {"active", "idle"} : active # head /\ RunEngine(s)
    BY <2>1, StartSteps
  <2>3. /\ tail = 0 /\ active = 0 /\ isr = "out" /\ engineState = "initialized"
        /\ UNCHANGED <<engineState, head, tail, active, isr>>
        /\ next' = 0 /\ \A i \in Slots \ {0} : flags'[i] = flags[i]
    BY <1>1, <1>2, <2>2, Starts, BeforeStart DEF FirstLinked
  <2>4. \A i \in Slots \ {0} : flags[i] = IF i < head THEN {"queued"} ELSE {}
    BY <1>1, <1>2, <2>2, BeforeStart
  <2>5. \A i \in Slots : Ahead(0, i) \in Nat /\ Ahead(0, 0) = 0 /\ (Ahead(0, i) = 0 <=> i = 0)
    BY SlotsAreNats, Distances, AheadIsDistance
  <2>6. ServedInOrder'
    BY <2>3, <2>4, <2>5 DEF ServedInOrder
  <2> QED BY <2>3, <2>6
<1>3. CASE hwOn
  <2>1. InTurn /\ ServedInOrder
    BY <1>1, <1>3, LiveIsInTurn DEF TurnInv
  <2>2. ASSUME NEW o \in Owners, BufferQueue(o) PROVE ServedInOrder'
    BY <1>1, <2>1, <2>2, QueueKeepsOrder DEF BufferQueue
  <2>3. ASSUME NEW o \in Owners, BufferRelease(o) PROVE ServedInOrder'
    BY <1>1, <2>1, <2>3, ReleaseKeepsOrder DEF BufferRelease
  <2>4. ASSUME ChannelStart \/ ChannelStop PROVE ServedInOrder'
    <3>1. PICK s \in {"active", "idle"} : RunEngine(s)
      BY <2>4, StartSteps
    <3>2. UNCHANGED <<engineState, bufferVars, isr, isrNext>>
      BY <1>1, <1>3, <3>1, RunningIsStarted
    <3> QED BY <2>1, <3>2, OrderFrame
  <2>5. ASSUME FlushNext PROVE ServedInOrder'
    <3>1. UNCHANGED <<engineState, head, tail, active, next, isr, isrNext>>
      BY <2>5 DEF FlushNext
    <3>2. \A i \in Slots : flags'[i] = flags[i] \/ flags'[i] = flags[i] \cup {"flushed"}
      BY <2>5 DEF FlushNext, TypeOK
    <3> QED BY <2>1, <3>1, <3>2, OrderFrame
  <2>6. ASSUME ChannelFlush \/ FlushEnd \/ HwComplete PROVE ServedInOrder'
    <3>1. UNCHANGED <<engineState, bufferVars, isr, isrNext>>
      BY <2>6 DEF ChannelFlush, FlushEnd, HwComplete
    <3> QED BY <2>1, <3>1, OrderFrame
  <2>7. ASSUME IsrEnter PROVE ServedInOrder'
    <3>1. /\ UNCHANGED <<engineState, bufferVars, isrNext>>
          /\ isr = "out" /\ isr' \in {"out", "complete", "move"}
          /\ isr' = "move" => active = next
      BY <2>7 DEF IsrEnter
    <3>2. Ahead(tail, active) = Ahead(tail, next) => active = next
      BY AheadIsDistance DEF TypeOK
    <3>3. \A i \in Slots : Ahead(tail, i) \in Nat
      BY Distances DEF TypeOK
    <3>4. next \in Slots
      BY DEF TypeOK
    <3> QED BY <2>1, <3>1, <3>2, <3>3, <3>4 DEF ServedInOrder, InQueue, Settled
  <2>8. IsrComplete => ServedInOrder'
    BY <2>1, CompleteInTurn DEF InTurn
  <2>9. IsrMove => ServedInOrder'
    BY <2>1, MoveInTurn DEF InTurn
  <2>10. IsrState => ServedInOrder'
    BY <2>1, StateInTurn DEF InTurn
  <2>11. IsrScan => ServedInOrder'
    BY <1>1, <2>1, ScanInTurn DEF InTurn
  <2>12. IsrLink => ServedInOrder'
    BY <1>1, <1>3, <2>1, LinkInTurn DEF InTurn
  <2>13. IsrSignal => ServedInOrder'
    BY <2>1, SignalInTurn DEF InTurn
  <2>14. /\ ~InitializeFlush /\ ~ReleaseBuffers /\ ~HwFault /\ ~Enable /\ ~Disable
         /\ \A o \in Owners : ~ChannelInitialize(o) /\ ~ChannelRelease(o)
    BY <1>1, <1>3 DEF Live, LiveStates, InitializeFlush, ReleaseBuffers, HwFault, Enable,
       Disable, ChannelInitialize, ChannelRelease, BeginRelease, HardwareStop
  <2> QED
    BY <2>2, <2>3, <2>4, <2>5, <2>6, <2>7, <2>8, <2>9, <2>10, <2>11, <2>12, <2>13, <2>14
       DEF ClientStep, EngineStep, Isr
<1> QED BY <1>2, <1>3

\* What has settled stays so, until the ring is emptied.
LEMMA SettledStays ==
  ASSUME TypeOK, ArcIsQueue, ClientStep \/ EngineStep,
         \A o \in Owners : ~BufferQueue(o)
  PROVE  \A i \in Slots : InQueue(i)' => InQueue(i) /\ (Settled(i) => Settled(i)')
<1>1. ASSUME NEW o \in Owners, BufferRelease(o), NEW i \in Slots, InQueue(i)'
      PROVE  InQueue(i) /\ (Settled(i) => Settled(i)')
  BY <1>1, ReleaseMovesTail DEF Settled, TypeOK
<1>2. ASSUME ReleaseBuffers, NEW i \in Slots PROVE ~InQueue(i)'
  <2>1. head' = 0 /\ tail' = 0
    BY <1>2 DEF ReleaseBuffers
  <2> QED BY <2>1, SlotsAreNats, AheadIsDistance, StreamAssumption DEF InQueue
<1>3. ASSUME UNCHANGED <<head, tail>>,
             \A i \in Slots : \/ flags'[i] = flags[i]
                              \/ "queued" \in flags[i] /\ flags[i] \subseteq flags'[i]
      PROVE  \A i \in Slots : InQueue(i)' => InQueue(i) /\ (Settled(i) => Settled(i)')
  <2>1. \A i \in Slots : InQueue(i)' <=> InQueue(i)
    BY <1>3 DEF InQueue
  <2>2. \A i \in Slots : Settled(i) => Settled(i)'
    BY <1>3 DEF Settled
  <2> QED BY <2>1, <2>2
<1> QED BY <1>1, <1>2, <1>3, MarksGrow, BuffersStay DEF ClientStep, EngineStep, Isr

\* A late handler.
LEMMA KeepsLateTurn ==
  ASSUME TypeOK, TypeOK', ~Exposed, ~Exposed', IInv, TurnInv, ClientStep \/ EngineStep
  PROVE  LateTurn'
<1> USE DEF bufferVars, memoryVars, hwVars, isrVars, waitVars
<1>1. /\ RunsAsWanted /\ CommandStates /\ ReleasedIsEmpty /\ InitializedIsFresh /\ Live
      /\ ArcIsQueue /\ LateTurn /\ FlushTurn /\ InitializedStates
      /\ hwOn => InTurn
  BY LiveIsInTurn DEF IInv, TurnInv
<1>2. SUFFICES ASSUME ~hwOn', isr' # "out" PROVE LateTurn'
  BY DEF LateTurn
<1> DEFINE Begins == (\E o \in Owners : ChannelInitialize(o) \/ ChannelRelease(o))
                       \/ Enable \/ Disable
<1>3. ASSUME Begins PROVE LateTurn'
  <2>1. /\ UNCHANGED <<bufferVars, isr, isrNext>> /\ Pending' /\ engineState' # "error"
        /\ cmd.op = "none"
    BY <1>3 DEF ChannelInitialize, ChannelRelease, Enable, Disable, BeginRelease, SetStates,
                Pending, Free
  <2>2. InTurn => InTurn'
    BY <2>1 DEF InTurn, ServedInOrder, InQueue, Settled, Good
  <2>3. AllSettled => AllSettled'
    BY <2>1 DEF AllSettled, InQueue, Settled
  <2>4. CASE hwOn
    BY <1>1, <2>1, <2>2, <2>4 DEF LateTurn
  <2>5. CASE ~hwOn
    <3>1. isr # "out" /\ ~Pending
      BY <1>2, <2>1 DEF Pending
    <3>2. ASSUME streamState = "initialized" /\ session = "fresh" PROVE AllSettled
      <4>1. head # 0 => overlap >= 3
        BY <1>1, <3>1, <3>2 DEF InitializedIsFresh
      <4>2. Overlap
        BY <1>3 DEF ChannelInitialize, ChannelRelease, Enable, Disable, BeginRelease
      <4>3. head = 0 /\ tail = 0
        BY <1>1, <3>1, <3>2, <4>1, <4>2, OverlapCounts DEF InitializedIsFresh
      <4> QED BY <4>3, SlotsAreNats, AheadIsDistance, StreamAssumption DEF AllSettled, InQueue
    <3>3. AllSettled
      BY <1>1, <2>5, <3>1, <3>2 DEF LateTurn
    <3> QED BY <2>3, <3>3 DEF LateTurn
  <2> QED BY <2>4, <2>5
<1>4. ASSUME ReleaseBuffers PROVE LateTurn'
  BY <1>1, <1>4, ReleaseEmpties DEF CommandStates, ReleaseBuffers, LateTurn, AllSettled
<1>5. ASSUME InitializeFlush PROVE LateTurn'
  <2>1. engineState \in {"initialized", "error"}
    BY <1>1, <1>5 DEF CommandStates, InitializeFlush, InitializedStates
  <2>2. UNCHANGED <<head, tail>>
    BY <1>5 DEF InitializeFlush
  <2>3. ASSUME NEW i \in Slots, InQueue(i) PROVE Settled(i)'
    <3>1. "queued" \in flags[i]
      BY <1>1, <2>3 DEF ArcIsQueue
    <3>2. flags'[i] = IF "completed" \notin flags[i] THEN flags[i] \cup {"flushed"} ELSE flags[i]
      BY <1>5, <2>1, <3>1 DEF InitializeFlush, CanFlush
    <3> QED BY <3>2 DEF Settled
  <2> QED BY <2>2, <2>3 DEF LateTurn, AllSettled, InQueue
<1>6. ASSUME NEW o \in Owners, BufferQueue(o) PROVE LateTurn'
  BY <1>1, <1>2, <1>6, QueueIsFresh DEF BufferQueue, Usable, RunsAsWanted, Running, LateTurn,
     TypeOK, States
<1>7. ASSUME ChannelStart \/ ChannelStop PROVE FALSE
  <2>1. PICK s \in {"active", "idle"} : active # head /\ RunEngine(s)
    BY <1>7, StartSteps
  <2>2. ~hwOn
    BY <1>1, <1>2, <1>7, StartStates
  <2>3. isr = "out" /\ isr' = isr
    BY <1>1, <2>1, <2>2, BeforeStart DEF RunEngine
  <2> QED BY <1>2, <2>3
<1>8. ASSUME ChannelFlush \/ FlushNext \/ FlushEnd PROVE LateTurn'
  <2>1. ~hwOn /\ isr # "out" /\ UNCHANGED <<streamState, session, head, tail>> /\ ~Pending
    BY <1>2, <1>8, FlushSpares DEF ChannelFlush, FlushNext, FlushEnd, Free, Pending
  <2>2. CASE AllSettled
    <3>1. \A o \in Owners : ~BufferQueue(o)
      <4>1. head \in Slots /\ head' = head
        BY <2>1 DEF TypeOK
      <4> QED BY <4>1, StepsInRing DEF BufferQueue
    <3>2. \A i \in Slots : InQueue(i)' => InQueue(i) /\ (Settled(i) => Settled(i)')
      BY <1>1, <3>1, SettledStays
    <3> QED BY <2>2, <3>2 DEF AllSettled, LateTurn
  <2>3. CASE streamState = "initialized" /\ session = "fresh"
    BY <2>1, <2>3 DEF LateTurn
  <2> QED BY <1>1, <2>1, <2>2, <2>3 DEF LateTurn
<1>10. ASSUME HwComplete \/ HwFault \/ IsrEnter PROVE FALSE
  BY <1>1, <1>2, <1>10 DEF HwComplete, HwFault, IsrEnter, RunsAsWanted, Running
<1>11. ASSUME IsrComplete \/ IsrMove \/ IsrState \/ IsrScan \/ IsrLink \/ IsrSignal
       PROVE  LateTurn'
  <2>1. /\ isr # "out" /\ ~hwOn /\ UNCHANGED <<streamState, session, cmd>>
    BY <1>1, <1>2, <1>11, SignalKeepsSession
       DEF IsrComplete, IsrMove, IsrState, IsrScan, IsrLink, IsrSignal, RunsAsWanted, Running
  <2>2. CASE AllSettled
    <3>1. \A o \in Owners : ~BufferQueue(o)
      BY <1>11 DEF IsrComplete, IsrMove, IsrState, IsrScan, IsrLink, IsrSignal, BufferQueue
    <3>2. \A i \in Slots : InQueue(i)' => InQueue(i) /\ (Settled(i) => Settled(i)')
      BY <1>1, <3>1, SettledStays
    <3> QED BY <2>2, <3>2 DEF AllSettled, LateTurn
  <2>3. CASE streamState = "initialized" /\ session = "fresh"
    BY <2>1, <2>3 DEF LateTurn
  <2>4. CASE Pending /\ InTurn
    <3>1. InTurn'
      BY <1>1, <1>11, <2>4, CompleteInTurn, MoveInTurn, StateInTurn, ScanInTurn, LinkInTurn,
         SignalInTurn
    <3> QED BY <2>1, <2>4, <3>1 DEF LateTurn, Pending
  <2> QED BY <1>1, <2>1, <2>2, <2>3, <2>4 DEF LateTurn
<1>12. ASSUME NEW o \in Owners, BufferRelease(o) PROVE LateTurn'
  <2>1. /\ streamState = "initialized" /\ cmd.op = "none" /\ isr # "out" /\ ~hwOn
        /\ UNCHANGED <<streamState, session>>
    BY <1>1, <1>2, <1>12 DEF BufferRelease, Usable, Free, RunsAsWanted, Running, TypeOK, States
  <2>2. CASE AllSettled
    <3>1. \A p \in Owners : ~BufferQueue(p)
      <4>1. tail \in Slots /\ tail' = NextSlot(tail)
        BY <1>12 DEF BufferRelease, TypeOK
      <4> QED BY <4>1, StepsInRing DEF BufferQueue
    <3>2. \A i \in Slots : InQueue(i)' => InQueue(i) /\ (Settled(i) => Settled(i)')
      BY <1>1, <3>1, SettledStays
    <3> QED BY <2>2, <3>2 DEF AllSettled, LateTurn
  <2>3. CASE streamState = "initialized" /\ session = "fresh"
    BY <2>1, <2>3 DEF LateTurn
  <2> QED BY <1>1, <2>1, <2>2, <2>3 DEF LateTurn, Pending
<1> HIDE DEF Begins
<1> QED
  BY <1>3, <1>4, <1>5, <1>6, <1>7, <1>8, <1>10, <1>11, <1>12
     DEF ClientStep, EngineStep, Isr, Begins

\* A flush comes from the head, one slot at a time.
LEMMA FlushMoves ==
  ASSUME TypeOK, ArcIsQueue, FlushNext
  PROVE  LET prev == PrevSlot(cmd.at)
         IN  /\ prev \in Slots /\ cmd'.at = prev /\ InQueue(prev)
             /\ flags' = [flags EXCEPT ![prev] = @ \cup {"flushed"}]
             /\ \A i \in Slots : Ahead(tail, prev) <= Ahead(tail, i)
                                   => i = prev \/ Ahead(tail, cmd.at) <= Ahead(tail, i)
<1>1. PICK p \in Slots, c \in Slots, t \in Slots : p = PrevSlot(cmd.at) /\ c = cmd.at /\ t = tail
  BY StepsInRing DEF TypeOK
<1>2. /\ c # t /\ flags' = [flags EXCEPT ![p] = @ \cup {"flushed"}] /\ "queued" \in flags[p]
  BY <1>1 DEF FlushNext, CanFlush, ArcIsQueue
<1>3. InQueue(p)
  BY <1>2 DEF ArcIsQueue
<1>4. cmd'.at = p
  BY <1>1 DEF FlushNext, TypeOK
<1>5. Ahead(t, c) = Ahead(t, p) + 1
  BY <1>1, <1>2, StreamAssumption DEF Slots, Ahead, PrevSlot
<1>6. \A i \in Slots : Ahead(t, i) \in Nat /\ (Ahead(t, i) = Ahead(t, p) <=> i = p)
  BY AheadIsDistance, Distances
<1> QED BY <1>1, <1>2, <1>3, <1>4, <1>5, <1>6

LEMMA KeepsFlushTurn ==
  ASSUME TypeOK, ArcIsQueue, FlushTurn, ClientStep \/ EngineStep
  PROVE  FlushTurn'
<1> USE DEF bufferVars, memoryVars, hwVars, isrVars, waitVars
<1>1. SUFFICES ASSUME cmd'.op = "flush" PROVE FlushTurn'
  BY DEF FlushTurn
<1>2. ASSUME ChannelFlush PROVE FlushTurn'
  <2>1. cmd'.at = head /\ UNCHANGED <<flags, head, tail>>
    BY <1>2 DEF ChannelFlush
  <2>2. \A i \in Slots : InQueue(i)' => ~(Ahead(tail', cmd'.at) <= Ahead(tail', i))
    BY <2>1, Distances DEF InQueue, TypeOK
  <2> QED BY <2>2 DEF FlushTurn
<1>3. ASSUME FlushNext PROVE FlushTurn'
  <2>1. PICK p \in Slots : p = PrevSlot(cmd.at)
    BY StepsInRing DEF TypeOK
  <2>2. /\ cmd.op = "flush" /\ cmd'.at = p
        /\ flags' = [flags EXCEPT ![p] = @ \cup {"flushed"}]
        /\ \A i \in Slots : Ahead(tail, p) <= Ahead(tail, i)
                              => i = p \/ Ahead(tail, cmd.at) <= Ahead(tail, i)
        /\ UNCHANGED <<head, tail>>
    BY <1>3, <2>1, FlushMoves DEF FlushNext
  <2>3. \A i \in Slots : flags'[i] = IF i = p THEN flags[i] \cup {"flushed"} ELSE flags[i]
    BY <2>2 DEF TypeOK
  <2> QED BY <2>2, <2>3 DEF FlushTurn, InQueue, Settled
<1>4. ASSUME HwComplete \/ HwFault \/ Isr PROVE FlushTurn'
  <2>1. UNCHANGED <<cmd, head, tail>> /\ cmd.op = "flush"
    BY <1>1, <1>4 DEF HwComplete, HwFault, Isr, IsrEnter, IsrComplete, IsrMove, IsrState, IsrScan,
                      IsrLink, IsrSignal
  <2>2. \A o \in Owners : ~BufferQueue(o)
    <3>1. head' = head /\ head \in Slots
      BY <2>1 DEF TypeOK
    <3> QED BY <3>1, StepsInRing DEF BufferQueue
  <2>3. \A i \in Slots : InQueue(i)' => InQueue(i) /\ (Settled(i) => Settled(i)')
    BY <2>2, SettledStays
  <2> QED BY <2>1, <2>3 DEF FlushTurn
<1>5. ASSUME NEW o \in Owners, ChannelInitialize(o) \/ ChannelRelease(o) \/ Enable \/ Disable
      PROVE  FALSE
  BY <1>1, <1>5 DEF ChannelInitialize, ChannelRelease, Enable, Disable, BeginRelease
<1>6. ASSUME NEW o \in Owners, BufferQueue(o) \/ BufferRelease(o)
      PROVE  FALSE
  BY <1>1, <1>6 DEF BufferQueue, BufferRelease, Free
<1>7. ASSUME ChannelStart \/ ChannelStop \/ InitializeFlush \/ ReleaseBuffers \/ FlushEnd
               \/ Enable \/ Disable
       PROVE  FALSE
  BY <1>1, <1>7 DEF ChannelStart, ChannelStop, RunEngine, Free, InitializeFlush, ReleaseBuffers,
     FlushEnd, Idle, Enable, Disable, BeginRelease
<1> QED BY <1>2, <1>3, <1>4, <1>5, <1>6, <1>7 DEF ClientStep, EngineStep

\* An initialised stream waits for its first interrupt.
LEMMA KeepsInitializedStates ==
  ASSUME TypeOK, ~Exposed, ~Exposed', IInv, TurnInv, ClientStep \/ EngineStep
  PROVE  InitializedStates'
<1> USE DEF bufferVars, memoryVars, hwVars, isrVars, waitVars
<1>1. RunsAsWanted /\ CommandStates /\ InitializedIsFresh /\ Live /\ InitializedStates
  BY DEF IInv, TurnInv
<1>2. SUFFICES ASSUME streamState' = "initialized" PROVE InitializedStates'
  BY DEF InitializedStates
<1>3. (\E o \in Owners : ChannelInitialize(o)) => InitializedStates'
  BY DEF ChannelInitialize, SetStates, InitializedStates
<1>4. ChannelStart \/ ChannelStop => InitializedStates'
  <2>1. SUFFICES ASSUME ChannelStart \/ ChannelStop PROVE InitializedStates'
    OBVIOUS
  <2>2. PICK s \in {"active", "idle"} : active # head /\ RunEngine(s)
    BY <2>1, StartSteps
  <2>3. engineState' = engineState /\ ~hwOn
    BY <1>1, <1>2, <2>1, StartStates
  <2> QED BY <1>1, <2>2, <2>3, BeforeStart DEF InitializedStates
<1>5. ASSUME streamState = "initialized", engineState' \in {engineState, "error"}
      PROVE  InitializedStates'
  BY <1>1, <1>5 DEF InitializedStates
<1>6. (\E o \in Owners : ChannelRelease(o)) \/ Enable \/ Disable \/ ReleaseBuffers \/ HwFault
        => streamState' # "initialized"
  BY <1>1 DEF ChannelRelease, Enable, Disable, BeginRelease, ReleaseBuffers, HwFault, SetStates,
         CommandStates
<1>7. (\E o \in Owners : BufferQueue(o) \/ BufferRelease(o)) \/ ChannelFlush \/ InitializeFlush
        \/ FlushNext \/ FlushEnd \/ HwComplete \/ Isr
        => streamState = "initialized" /\ engineState' \in {engineState, "error"}
  BY <1>2 DEF BufferQueue, BufferRelease, ChannelFlush, InitializeFlush, FlushNext, FlushEnd,
     HwComplete, Isr, IsrEnter, IsrComplete, IsrMove, IsrState, IsrScan, IsrLink, IsrSignal, Running
<1> QED BY <1>2, <1>3, <1>4, <1>5, <1>6, <1>7 DEF ClientStep, EngineStep

LEMMA TurnStep ==
  ASSUME ~Exposed, ~Exposed', TypeOK, TypeOK', IInv, IInv', TurnInv, [Next]_vars
  PROVE  TurnInv'
<1>1. CASE ClientStep \/ EngineStep
  BY <1>1, KeepsArc, KeepsOrder, KeepsLateTurn, KeepsFlushTurn, KeepsInitializedStates DEF TurnInv
<1>2. ASSUME UNCHANGED vars \/ \E w \in Waiters : Wait(w) PROVE TurnInv'
  <2>1. UnchangedButWait
    BY <1>2 DEF vars, Wait, WaitEnter, WaitClear, WaitWoken, WaitTimeout, WaitLeave,
                UnchangedButWait
  <2>2. UNCHANGED <<streamState, engineState, flags, head, tail, active, next, hwOn, isr, isrNext,
                    cmd, session>>
    BY <2>1 DEF UnchangedButWait, bufferVars, memoryVars, hwVars, isrVars
  <2>3. /\ ServedInOrder' = ServedInOrder /\ InTurn' = InTurn /\ AllSettled' = AllSettled
        /\ ArcIsQueue' = ArcIsQueue
    BY <2>2 DEF ServedInOrder, InTurn, AllSettled, ArcIsQueue, InQueue, Settled, Good
  <2>4. \A i \in Slots : (InQueue(i)' <=> InQueue(i)) /\ (Settled(i)' <=> Settled(i))
    BY <2>2 DEF InQueue, Settled
  <2> QED BY <2>2, <2>3, <2>4 DEF TurnInv, LateTurn, FlushTurn, InitializedStates, Pending
<1> QED BY <1>1, <1>2, NextCases

LEMMA TurnHolds == Spec => [](~Exposed => TurnInv)
<1>1. Init /\ TypeOK => TurnInv
  <2> SUFFICES ASSUME Init PROVE TurnInv
    OBVIOUS
  <2>1. \A i \in Slots : flags[i] = {} /\ ~InQueue(i)
    BY SlotsAreNats, AheadIsDistance, StreamAssumption DEF Init, InQueue
  <2> QED BY <2>1 DEF Init, Idle, TurnInv, ArcIsQueue, LateTurn, FlushTurn, InitializedStates
<1>2. TypeOK /\ TypeOK' /\ ChainInv /\ ChainInv' /\ (~Exposed => TurnInv) /\ [Next]_vars
        => (~Exposed => TurnInv)'
  <2>1. SUFFICES ASSUME TypeOK, TypeOK', ChainInv, ChainInv', ~Exposed => TurnInv, [Next]_vars,
                        ~Exposed'
                 PROVE  TurnInv'
    OBVIOUS
  <2>2. CASE Exposed
    BY <2>1, <2>2, ExposedStays, ReleaseRenews
       DEF ChainInv, TurnInv, ArcIsQueue, LateTurn, FlushTurn, InitializedStates
  <2>3. CASE ~Exposed
    BY <2>1, <2>3, TurnStep DEF ChainInv
  <2> QED BY <2>2, <2>3
<1> QED BY <1>1, <1>2, TypeCorrect, Invariance, PTL DEF Spec

-----------------------------------------------------------------------------
(* The refinement of StreamQueue.                                            *)

\* Places in the queue and slots of the ring.
LEMMA PlacesAndSlots ==
  ASSUME NEW t \in Slots
  PROVE  /\ \A i \in Slots : SlotAt(t, Ahead(t, i) + 1) = i
         /\ \A k \in 1 .. NumBuffers : SlotAt(t, k) \in Slots /\ Ahead(t, SlotAt(t, k)) = k - 1
         /\ \A k \in 1 .. NumBuffers - 1 : SlotAt(NextSlot(t), k) = SlotAt(t, k + 1)
  BY StreamAssumption DEF Slots, Ahead, SlotAt, NextSlot

\* The place of every buffer, and the buffer in every place.
FifoListed ==
  /\ QueueLength \in 0 .. NumBuffers - 1
  /\ Fifo = [k \in 1 .. QueueLength |-> StatusOf(flags[SlotAt(tail, k)])]
  /\ Fifo \in Seq({"waiting", "committed", "done", "flushed"}) /\ Len(Fifo) = QueueLength
  /\ DOMAIN Fifo = 1 .. QueueLength
  /\ \A i \in Slots : InQueue(i) => /\ Position(i) \in 1 .. QueueLength
                                    /\ Fifo[Position(i)] = StatusOf(flags[i])
  /\ \A k \in 1 .. QueueLength : /\ SlotAt(tail, k) \in Slots /\ InQueue(SlotAt(tail, k))
                                 /\ Position(SlotAt(tail, k)) = k

LEMMA FifoIs == TypeOK => FifoListed
<1> SUFFICES ASSUME TypeOK PROVE FifoListed
  OBVIOUS
<1>1. tail \in Slots /\ head \in Slots
  BY DEF TypeOK
<1>2. QueueLength \in 0 .. NumBuffers - 1
  BY <1>1, AheadIsDistance DEF QueueLength
<1>3. Fifo = [k \in 1 .. QueueLength |-> StatusOf(flags[SlotAt(tail, k)])]
  BY DEF Fifo
<1>4. \A f : StatusOf(f) \in {"waiting", "committed", "done", "flushed"}
  BY DEF StatusOf
<1>5. Fifo \in [1 .. QueueLength -> {"waiting", "committed", "done", "flushed"}]
  BY <1>3, <1>4
<1>6. /\ Fifo \in Seq({"waiting", "committed", "done", "flushed"}) /\ Len(Fifo) = QueueLength
      /\ DOMAIN Fifo = 1 .. QueueLength
  BY <1>2, <1>5, StreamAssumption
<1>7. ASSUME NEW i \in Slots, InQueue(i)
      PROVE  Position(i) \in 1 .. QueueLength /\ Fifo[Position(i)] = StatusOf(flags[i])
  <2>1. Ahead(tail, i) \in Nat /\ Ahead(tail, i) < QueueLength
    BY <1>1, <1>7, Distances DEF InQueue, QueueLength
  <2>2. Position(i) \in 1 .. QueueLength /\ SlotAt(tail, Position(i)) = i
    BY <1>1, <1>2, <2>1, PlacesAndSlots DEF Position
  <2> QED BY <1>3, <2>2
<1>8. ASSUME NEW k \in 1 .. QueueLength
      PROVE  /\ SlotAt(tail, k) \in Slots /\ InQueue(SlotAt(tail, k))
             /\ Position(SlotAt(tail, k)) = k
  <2>1. k \in 1 .. NumBuffers
    BY <1>2, StreamAssumption
  <2>2. SlotAt(tail, k) \in Slots /\ Ahead(tail, SlotAt(tail, k)) = k - 1
    BY <1>1, <2>1, PlacesAndSlots
  <2> QED BY <1>2, <2>2 DEF InQueue, Position, QueueLength
<1> QED BY <1>2, <1>3, <1>6, <1>7, <1>8 DEF FifoListed

LEMMA FifoNext == TypeOK' => FifoListed'
  BY FifoIs, PTL

\* Flags that mean the same leave the queue as it is.
LEMMA FifoStays ==
  ASSUME TypeOK, TypeOK', UNCHANGED <<head, tail>>,
         \A i \in Slots : InQueue(i) => StatusOf(flags'[i]) = StatusOf(flags[i])
  PROVE  Fifo' = Fifo
<1>1. FifoListed /\ FifoListed' /\ QueueLength' = QueueLength
  BY FifoIs, FifoNext DEF QueueLength
<1>2. \A k \in 1 .. QueueLength :
        StatusOf(flags'[SlotAt(tail, k)]) = StatusOf(flags[SlotAt(tail, k)])
  BY <1>1 DEF FifoListed
<1>3. /\ Fifo = [k \in 1 .. QueueLength |-> StatusOf(flags[SlotAt(tail, k)])]
      /\ Fifo' = [k \in 1 .. QueueLength |-> StatusOf(flags'[SlotAt(tail, k)])]
  BY <1>1 DEF FifoListed
<1> QED BY <1>2, <1>3

\* A mark on one buffer is a change of one place.
LEMMA FifoMarks ==
  ASSUME TypeOK, TypeOK', UNCHANGED <<head, tail>>, NEW x \in Slots, InQueue(x),
         \A i \in Slots \ {x} : InQueue(i) => StatusOf(flags'[i]) = StatusOf(flags[i])
  PROVE  /\ Fifo' = [Fifo EXCEPT ![Position(x)] = StatusOf(flags'[x])]
         /\ Position(x) \in DOMAIN Fifo /\ Fifo[Position(x)] = StatusOf(flags[x])
<1>1. FifoListed /\ FifoListed' /\ QueueLength' = QueueLength
  BY FifoIs, FifoNext DEF QueueLength
<1>2. PICK p \in 1 .. QueueLength : p = Position(x)
  BY <1>1 DEF FifoListed
<1>3. SlotAt(tail, p) = x
  BY <1>2, PlacesAndSlots DEF Position, TypeOK
<1>4. \A k \in 1 .. QueueLength \ {p} :
        StatusOf(flags'[SlotAt(tail, k)]) = StatusOf(flags[SlotAt(tail, k)])
  <2>1. SUFFICES ASSUME NEW k \in 1 .. QueueLength, k # p
                 PROVE  StatusOf(flags'[SlotAt(tail, k)]) = StatusOf(flags[SlotAt(tail, k)])
    OBVIOUS
  <2>2. SlotAt(tail, k) \in Slots /\ InQueue(SlotAt(tail, k)) /\ SlotAt(tail, k) # x
    BY <1>1, <1>2, <2>1 DEF FifoListed
  <2> QED BY <2>2
<1>5. /\ Fifo = [k \in 1 .. QueueLength |-> StatusOf(flags[SlotAt(tail, k)])]
      /\ Fifo' = [k \in 1 .. QueueLength |-> StatusOf(flags'[SlotAt(tail, k)])]
  BY <1>1 DEF FifoListed
<1>6. Fifo' = [Fifo EXCEPT ![p] = StatusOf(flags'[x])]
  BY <1>3, <1>4, <1>5
<1> QED BY <1>1, <1>2, <1>6 DEF FifoListed

\* The places with a status are those of the buffers that have it.
LEMMA Places ==
  ASSUME TypeOK, NEW s
  PROVE  /\ \A i \in Slots : InQueue(i) /\ StatusOf(flags[i]) = s
                               => Position(i) \in StreamFifo!Where(s)
         /\ \A k \in StreamFifo!Where(s) :
              \E i \in Slots : InQueue(i) /\ StatusOf(flags[i]) = s /\ k = Position(i)
<1>1. FifoListed
  BY FifoIs
<1>2. \A i \in Slots : InQueue(i) /\ StatusOf(flags[i]) = s => Position(i) \in StreamFifo!Where(s)
  BY <1>1 DEF FifoListed, StreamFifo!Where
<1>3. ASSUME NEW k \in StreamFifo!Where(s)
      PROVE  \E i \in Slots : InQueue(i) /\ StatusOf(flags[i]) = s /\ k = Position(i)
  <2>1. k \in 1 .. QueueLength /\ Fifo[k] = s
    BY <1>1 DEF FifoListed, StreamFifo!Where
  <2>2. PICK i \in Slots : i = SlotAt(tail, k) /\ InQueue(i) /\ k = Position(i)
    BY <1>1, <2>1 DEF FifoListed
  <2>3. Fifo[k] = StatusOf(flags[i])
    BY <1>1, <2>2 DEF FifoListed
  <2> QED BY <2>1, <2>2, <2>3
<1> QED BY <1>2, <1>3

\* Linking the oldest waiting buffer commits it.
LEMMA Commits ==
  ASSUME TypeOK, TypeOK', UNCHANGED <<head, tail>>, NEW x \in Slots, InQueue(x),
         flags[x] = {"queued"}, flags'[x] = {"queued", "linked"},
         \A i \in Slots \ {x} : flags'[i] = flags[i],
         \A i \in Slots : InQueue(i) /\ Ahead(tail, i) < Ahead(tail, x)
                            => StatusOf(flags[i]) # "waiting"
  PROVE  StreamFifo!Commit
<1>1. /\ Fifo' = [Fifo EXCEPT ![Position(x)] = "committed"]
      /\ Position(x) \in DOMAIN Fifo /\ Fifo[Position(x)] = "waiting"
  BY FifoMarks DEF StatusOf
<1>2. Position(x) \in StreamFifo!Where("waiting")
  BY <1>1 DEF StreamFifo!Where
<1>3. ASSUME NEW j \in StreamFifo!Where("waiting") PROVE Position(x) <= j
  <2>1. PICK i \in Slots : InQueue(i) /\ StatusOf(flags[i]) = "waiting" /\ j = Position(i)
    BY Places
  <2>2. Ahead(tail, i) \in Nat /\ Ahead(tail, x) \in Nat
    BY Distances DEF TypeOK
  <2>3. ~(Ahead(tail, i) < Ahead(tail, x))
    BY <2>1
  <2> QED BY <2>1, <2>2, <2>3 DEF Position
<1> QED BY <1>1, <1>2, <1>3 DEF StreamFifo!Commit

\* The hardware has the buffer the driver takes it to have.
LEMMA AirIs ==
  TypeOK /\ Live /\ hwOn =>
    Air = Position(Now) /\ InQueue(Now) /\ Now \in Slots /\ Good(Now) /\ HwBuffer = Now
<1> SUFFICES ASSUME TypeOK, Live, hwOn
             PROVE  /\ Air = Position(Now) /\ InQueue(Now) /\ Now \in Slots /\ Good(Now)
                    /\ HwBuffer = Now
  OBVIOUS
<1>1. LiveStates /\ LiveQueue /\ LiveChain
  BY DEF Live
<1>2. Good(Now) /\ Now \in Slots /\ InQueue(Now)
  BY <1>1, LiveSlots DEF LiveQueue, Now
<1>3. HwBuffer = Now
  BY <1>1 DEF LiveChain, Now, HwBuffer
<1> QED BY <1>2, <1>3 DEF Air

LEMMA AirNext ==
  TypeOK' /\ Live' /\ hwOn' => Air' = Position(Now)' /\ Now' \in Slots
<1>1. TypeOK /\ Live /\ hwOn => Air = Position(Now) /\ Now \in Slots
  BY AirIs
<1>2. (TypeOK /\ Live /\ hwOn => Air = Position(Now) /\ Now \in Slots)'
  BY <1>1, PTL
<1> QED BY <1>2

\* The place on the air is one of the queue, or none.
LEMMA AirInQueue ==
  ASSUME TypeOK, Live, ArcIsQueue
  PROVE  Air \in 0 .. QueueLength
<1>1. FifoListed
  BY FifoIs
<1>2. CASE hwOn
  BY <1>1, <1>2, AirIs DEF FifoListed
<1>3. CASE ~hwOn /\ Linked(next)
  <2>1. next \in Slots /\ flags[next] # {}
    BY <1>3 DEF Linked, TypeOK
  <2>2. Position(next) \in 1 .. QueueLength
    BY <1>1, <2>1, LinkedInQueue DEF FifoListed
  <2> QED BY <1>1, <1>3, <2>2 DEF Air, FifoListed
<1>4. CASE ~hwOn /\ ~Linked(next)
  BY <1>1, <1>4 DEF Air, FifoListed
<1> QED BY <1>2, <1>3, <1>4

\* It stays with the chain while the hardware runs, and else with next.
LEMMA AirStays ==
  ASSUME hwOn' = hwOn, tail' = tail,
         IF hwOn THEN UNCHANGED <<desc, hwDesc>>
         ELSE \/ /\ next' = next /\ (Linked(next)' <=> Linked(next))
                 /\ isr \in {"complete", "move"} <=> isr' \in {"complete", "move"}
              \/ {isr, isr'} \cap {"complete", "move"} = {}
  PROVE  Air' = Air
<1>1. CASE hwOn
  BY <1>1 DEF Air, HwBuffer, Position
<1>2. CASE ~hwOn
  BY <1>2 DEF Air, Position
<1> QED BY <1>1, <1>2

LEMMA Stutters ==
  ASSUME Fifo' = Fifo, Air' = Air, hwOn' = hwOn
  PROVE  [StreamFifo!Promise]_<<Fifo, Air, hwOn>>
  OBVIOUS

\* A halt.
LEMMA Halts ==
  ASSUME TypeOK, TypeOK', Live, ArcIsQueue, ~hwOn',
         UNCHANGED <<flags, head, tail, next, isr>>
  PROVE  [StreamFifo!Promise]_<<Fifo, Air, hwOn>>
<1>1. Fifo' = Fifo
  BY FifoStays
<1>2. CASE hwOn
  <2>1. Air \in Nat
    BY <1>2, AirInQueue
  <2>2. Air' = IF isr \in {"complete", "move"} /\ Linked(next) THEN Position(next) ELSE 0
    BY DEF Air, Position, Linked
  <2>3. isr \in {"complete", "move"} => Air = Position(next)
    BY <1>2, AirIs DEF Now
  <2>4. Air' \in 0 .. Air
    BY <2>1, <2>2, <2>3
  <2> QED BY <1>1, <2>4 DEF StreamFifo!Promise, StreamFifo!Halt
<1>3. CASE ~hwOn
  <2>1. hwOn' = hwOn
    BY <1>3 DEF TypeOK
  <2>2. Air' = Air
    BY <1>3, <2>1, AirStays DEF Linked
  <2> QED BY <1>1, <2>1, <2>2, Stutters
<1> QED BY <1>2, <1>3

-----------------------------------------------------------------------------
(* The steps of clients. *)

\* Clients initialise, release, enable and disable: the hardware halts.
LEMMA BeginStep ==
  ASSUME TypeOK, TypeOK', Live, ArcIsQueue,
         (\E o \in Owners : ChannelInitialize(o) \/ ChannelRelease(o)) \/ Enable \/ Disable
  PROVE  [StreamFifo!Promise]_<<Fifo, Air, hwOn>>
<1>1. ~hwOn' /\ UNCHANGED <<flags, head, tail, next, isr>>
  BY DEF ChannelInitialize, ChannelRelease, Enable, Disable, BeginRelease, HardwareStop, bufferVars
<1> QED BY <1>1, Halts

\* Initialising withdraws everything that is not done.
LEMMA InitializeFlushStep ==
  ASSUME TypeOK, TypeOK', IInv, TurnInv, InitializeFlush
  PROVE  [StreamFifo!Promise]_<<Fifo, Air, hwOn>>
<1> USE DEF bufferVars, memoryVars, hwVars, isrVars
<1>1. streamState = "initialized" /\ ~hwOn /\ engineState \in {"initialized", "error"}
  BY DEF IInv, CommandStates, RunsAsWanted, Running, TurnInv, InitializedStates, InitializeFlush
<1>2. UNCHANGED <<head, tail, next, isr, hwOn>>
  BY DEF InitializeFlush
<1>3. \A i \in Slots : flags'[i] = IF "queued" \in flags[i] /\ "completed" \notin flags[i]
                                   THEN flags[i] \cup {"flushed"} ELSE flags[i]
  BY <1>1 DEF InitializeFlush, CanFlush
<1>4. Linked(next)' <=> Linked(next)
  BY <1>2, <1>3 DEF Linked, TypeOK
<1>5. Air' = Air
  BY <1>1, <1>2, <1>4, AirStays
<1>6. FifoListed /\ FifoListed' /\ QueueLength' = QueueLength
  BY <1>2, FifoIs, FifoNext DEF QueueLength
<1>7. ASSUME NEW k \in 1 .. QueueLength
      PROVE  Fifo'[k] = IF Fifo[k] = "done" THEN "done" ELSE "flushed"
  <2>1. PICK i \in Slots : i = SlotAt(tail, k) /\ InQueue(i)
    BY <1>6 DEF FifoListed
  <2>2. Fifo[k] = StatusOf(flags[i]) /\ Fifo'[k] = StatusOf(flags'[i])
    BY <1>2, <1>6, <2>1 DEF FifoListed
  <2>3. "queued" \in flags[i]
    BY <2>1 DEF TurnInv, ArcIsQueue
  <2>4. CASE "completed" \in flags[i]
    BY <1>3, <2>2, <2>4 DEF StatusOf
  <2>5. CASE "completed" \notin flags[i]
    <3>1. flags'[i] = flags[i] \cup {"flushed"}
      BY <1>3, <2>3, <2>5
    <3>2. StatusOf(flags'[i]) = "flushed" /\ StatusOf(flags[i]) # "done"
      BY <2>5, <3>1 DEF StatusOf
    <3> QED BY <2>2, <3>2
  <2> QED BY <2>4, <2>5
<1>8. Fifo' = [k \in DOMAIN Fifo |-> IF Fifo[k] = "done" THEN "done" ELSE "flushed"]
  BY <1>6, <1>7 DEF FifoListed
<1> QED BY <1>1, <1>2, <1>5, <1>8 DEF StreamFifo!Promise, StreamFifo!WithdrawAll

\* A release takes everything back.
LEMMA EmptiedFifo ==
  ASSUME TypeOK, TypeOK', HaltedForRelease, ReleaseBuffers
  PROVE  ~hwOn /\ hwOn' = FALSE /\ Fifo' = << >> /\ Air' = 0
<1>1. ~hwOn /\ hwOn' = FALSE /\ engineState \in {"released", "error"}
  BY DEF HaltedForRelease, ReleaseBuffers, hwVars, TypeOK
<1>2. head' = 0 /\ tail' = 0 /\ next' = 0 /\ \A i \in Slots : flags'[i] = {}
  BY <1>1, ReleaseEmpties
<1>3. QueueLength' = 0
  BY <1>2, SlotsAreNats, AheadIsDistance DEF QueueLength
<1>4. Fifo' = << >>
  <2>1. Len(Fifo') = 0 /\ Fifo' \in Seq({"waiting", "committed", "done", "flushed"})
    BY <1>3, FifoNext DEF FifoListed
  <2> QED BY <2>1
<1>5. Air' = 0
  BY <1>1, <1>2, SlotsAreNats DEF Air, Linked
<1> QED BY <1>1, <1>4, <1>5

LEMMA ReleaseBuffersStep ==
  ASSUME TypeOK, TypeOK', HaltedForRelease, ReleaseBuffers
  PROVE  [StreamFifo!Promise]_<<Fifo, Air, hwOn>>
<1>1. ~hwOn /\ hwOn' = FALSE /\ Fifo' = << >> /\ Air' = 0
  BY EmptiedFifo
<1>2. hwOn' = hwOn
  BY <1>1 DEF TypeOK
<1> QED BY <1>1, <1>2 DEF StreamFifo!Promise, StreamFifo!Clear

\* A stream just initialised has nothing in the hands of the hardware.
LEMMA FreshHasNone ==
  InitializedIsFresh /\ streamState = "initialized" /\ session = "fresh" /\ ~hwOn => Air = 0
  BY SlotsAreNats DEF InitializedIsFresh, Air, Linked

LEMMA FreshHasNoneNext ==
  (InitializedIsFresh /\ streamState = "initialized" /\ session = "fresh" /\ ~hwOn => Air = 0)'
  BY FreshHasNone, PTL

LEMMA QueueStep ==
  ASSUME TypeOK, TypeOK', ~Exposed, ~Exposed', IInv, IInv', TurnInv, NEW o \in Owners, BufferQueue(o)
  PROVE  [StreamFifo!Promise]_<<Fifo, Air, hwOn>>
<1> USE DEF memoryVars, hwVars
<1>1. PICK h \in Slots, t \in Slots, n \in Nat : h = head /\ t = tail /\ n = QueueLength
  BY FifoIs DEF TypeOK, FifoListed
<1>2. /\ UNCHANGED <<hwOn, hwDesc, desc, isr, next, streamState, session>> /\ tail' = t
      /\ ~InQueue(h) /\ flags'[h] = {"queued"} /\ \A i \in Slots \ {h} : flags'[i] = flags[i]
      /\ QueueLength' = n + 1 /\ n + 1 <= NumBuffers - 1
  BY <1>1, QueueMovesHead, QueueIsFresh DEF BufferQueue, TurnInv
<1>3. Air' = Air
  <2>1. CASE hwOn
    BY <1>1, <1>2, <2>1, AirStays
  <2>2. CASE ~hwOn
    <3>1. streamState = "initialized" /\ session = "fresh"
      BY <2>2, QueueIsFresh DEF BufferQueue, Usable, IInv, RunsAsWanted, Running, TypeOK, States
    <3>2. Air = 0
      BY <2>2, <3>1, FreshHasNone DEF IInv
    <3>3. Air' = 0
      BY <1>2, <2>2, <3>1, FreshHasNoneNext DEF IInv
    <3> QED BY <3>2, <3>3
  <2> QED BY <2>1, <2>2
<1>4. FifoListed /\ FifoListed'
  BY FifoIs, FifoNext
<1>5. ASSUME NEW k \in 1 .. n PROVE Fifo'[k] = Fifo[k]
  <2>1. PICK i \in Slots : i = SlotAt(t, k) /\ InQueue(i)
    BY <1>1, <1>4 DEF FifoListed
  <2>2. i # h
    BY <1>2, <2>1
  <2> QED BY <1>1, <1>2, <1>4, <2>1, <2>2 DEF FifoListed
<1>6. SlotAt(t, n + 1) = h
  BY <1>1, PlacesAndSlots DEF QueueLength
<1>7. Fifo'[n + 1] = "waiting"
  BY <1>2, <1>4, <1>6 DEF FifoListed, StatusOf
<1>8. Fifo' = Append(Fifo, "waiting")
  <2>1. /\ Fifo \in Seq({"waiting", "committed", "done", "flushed"}) /\ Len(Fifo) = n
        /\ Fifo' = [k \in 1 .. n + 1 |-> Fifo'[k]]
    BY <1>1, <1>2, <1>4 DEF FifoListed
  <2>2. PICK f, g : f = Fifo /\ g = Fifo'
    OBVIOUS
  <2>3. g = Append(f, "waiting")
    BY <1>5, <1>7, <2>1, <2>2
  <2> QED BY <2>2, <2>3
<1>9. Len(Fifo) < NumBuffers - 1
  BY <1>1, <1>2, <1>4, StreamAssumption DEF FifoListed
<1> QED BY <1>2, <1>3, <1>8, <1>9 DEF StreamFifo!Promise, StreamFifo!Queue

\* What goes back to the client is done with, and not on the air.
LEMMA ReleaseStep ==
  ASSUME TypeOK, TypeOK', IInv, TurnInv, NEW o \in Owners, BufferRelease(o)
  PROVE  [StreamFifo!Promise]_<<Fifo, Air, hwOn>>
<1> USE DEF memoryVars, hwVars
<1>1. PICK t \in Slots, n \in Nat : t = tail /\ n = QueueLength
  BY FifoIs DEF TypeOK, FifoListed
<1>2. /\ UNCHANGED <<head, hwOn, hwDesc, desc, isr, next, streamState, session>>
      /\ InQueue(t) /\ Settled(t) /\ tail' = NextSlot(t)
      /\ \A i \in Slots : InQueue(i)' <=> InQueue(i) /\ i # t
      /\ \A i \in Slots \ {t} : Position(i)' = Position(i) - 1
      /\ flags'[t] = {} /\ \A i \in Slots \ {t} : flags'[i] = flags[i]
  <2>1. /\ InQueue(t) /\ Settled(t) /\ tail' = NextSlot(t)
        /\ \A i \in Slots : InQueue(i)' <=> InQueue(i) /\ i # t
        /\ \A i \in Slots \ {t} : Ahead(tail, i)' = Ahead(tail, i) - 1
        /\ flags'[t] = {} /\ \A i \in Slots \ {t} : flags'[i] = flags[i]
    BY <1>1, ReleaseMovesTail DEF TurnInv
  <2>2. \A i \in Slots : Ahead(tail, i) \in Nat
    BY Distances DEF TypeOK
  <2>3. \A i \in Slots \ {t} : Position(i)' = Position(i) - 1
    BY <2>1, <2>2 DEF Position
  <2> QED BY <2>1, <2>3 DEF BufferRelease
<1>3. FifoListed /\ FifoListed'
  BY FifoIs, FifoNext
<1>4. Position(t) = 1 /\ SlotAt(t, 1) = t
  BY <1>1, StreamAssumption DEF Position, Ahead, SlotAt, Slots
<1>5. n >= 1 /\ Fifo[1] = StatusOf(flags[t])
  BY <1>1, <1>2, <1>3, <1>4 DEF FifoListed
<1>6. Fifo[1] \in {"done", "flushed"}
  BY <1>2, <1>5 DEF Settled, StatusOf
<1>7. QueueLength' = n - 1
  <2>1. head \in Slots /\ head # t
    BY <1>1, <1>2, <1>4, <1>5, StreamAssumption DEF TypeOK, QueueLength, Ahead, Slots
  <2> QED BY <1>1, <1>2, <2>1, ArcShrinks DEF QueueLength
<1>8. ASSUME NEW k \in 1 .. n - 1 PROVE Fifo'[k] = Fifo[k + 1]
  <2>1. k + 1 \in 1 .. n /\ k \in 1 .. NumBuffers - 1
    <3>1. n \in 0 .. NumBuffers - 1
      BY <1>1, <1>3 DEF FifoListed
    <3> QED BY <3>1, StreamAssumption
  <2>2. PICK i \in Slots : i = SlotAt(t, k + 1) /\ InQueue(i) /\ Position(i) = k + 1
    BY <1>1, <1>3, <2>1 DEF FifoListed
  <2>3. SlotAt(NextSlot(t), k) = i /\ i # t
    BY <1>4, <2>1, <2>2, PlacesAndSlots
  <2>4. Fifo'[k] = StatusOf(flags'[i])
    BY <1>2, <1>3, <1>7, <2>3 DEF FifoListed
  <2>5. Fifo[k + 1] = StatusOf(flags[i])
    BY <1>1, <1>3, <2>1, <2>2 DEF FifoListed
  <2> QED BY <1>2, <2>3, <2>4, <2>5
<1>9. Fifo # << >> /\ Head(Fifo) = Fifo[1] /\ Fifo' = Tail(Fifo)
  <2>1. /\ Fifo \in Seq({"waiting", "committed", "done", "flushed"}) /\ Len(Fifo) = n
        /\ Fifo' = [k \in 1 .. n - 1 |-> Fifo'[k]]
    BY <1>1, <1>3, <1>7 DEF FifoListed
  <2>2. PICK f, g : f = Fifo /\ g = Fifo'
    OBVIOUS
  <2>3. g = Tail(f)
    BY <1>5, <1>8, <2>1, <2>2
  <2>4. f # << >> /\ Head(f) = f[1]
    BY <1>5, <2>1, <2>2
  <2> QED BY <2>2, <2>3, <2>4
<1>10. (hwOn => Air # 1) /\ Air' = IF Air > 0 THEN Air - 1 ELSE 0
  <2>1. CASE hwOn
    <3>1. PICK w \in Slots : w = HwBuffer /\ Good(w) /\ InQueue(w) /\ Air = Position(w)
      BY <2>1, AirIs DEF IInv
    <3>2. w # t
      BY <1>2, <3>1 DEF Good, Settled
    <3>3. Air' = Position(w)' /\ Position(w)' = Position(w) - 1
      BY <1>2, <2>1, <3>1, <3>2 DEF Air, HwBuffer
    <3>4. Position(w) \in Nat /\ Position(w) >= 1 /\ Position(w)' \in Nat /\ Position(w)' >= 1
      BY <3>1, <3>3, Distances DEF Position, TypeOK
    <3> QED BY <3>1, <3>3, <3>4
  <2>2. CASE ~hwOn
    <3>1. PICK x \in Slots : x = next
      BY DEF TypeOK
    <3>2. CASE isr \in {"complete", "move"} /\ Linked(x) /\ x # t
      <4>1. Air = Position(x) /\ Air' = Position(x)'
        BY <1>2, <2>2, <3>1, <3>2 DEF Air, Linked
      <4>2. Position(x) \in Nat /\ Position(x) >= 1
        BY Distances DEF Position, TypeOK
      <4> QED BY <1>2, <2>2, <3>2, <4>1, <4>2
    <3>3. CASE isr \in {"complete", "move"} /\ Linked(x) /\ x = t
      <4>1. Air = 1 /\ Air' = 0
        BY <1>2, <1>4, <2>2, <3>1, <3>3 DEF Air, Linked
      <4> QED BY <2>2, <4>1
    <3>4. CASE ~(isr \in {"complete", "move"} /\ Linked(x))
      <4>1. ~Linked(x)' \/ isr' \notin {"complete", "move"}
        BY <1>2, <3>4 DEF Linked
      <4>2. Air = 0 /\ Air' = 0
        BY <1>2, <2>2, <3>1, <3>4, <4>1 DEF Air, Linked
      <4> QED BY <2>2, <4>2
    <3> QED BY <3>2, <3>3, <3>4
  <2> QED BY <2>1, <2>2
<1> QED BY <1>2, <1>6, <1>9, <1>10 DEF StreamFifo!Promise, StreamFifo!Release

\* The first start has the hardware transfer the first buffer.
LEMMA StartStep ==
  ASSUME TypeOK, TypeOK', ~Exposed, ~Exposed', IInv, IInv', TurnInv, ChannelStart \/ ChannelStop
  PROVE  [StreamFifo!Promise]_<<Fifo, Air, hwOn>>
<1>1. PICK s \in {"active", "idle"} : active # head /\ RunEngine(s)
  BY StartSteps
<1>2. RunsAsWanted /\ InitializedIsFresh /\ Live /\ Live' /\ ArcIsQueue
  BY DEF IInv, TurnInv
<1>3. CASE hwOn
  <2>1. UNCHANGED <<flags, head, tail, hwOn, desc, hwDesc>>
    <3>1. UNCHANGED <<bufferVars, memoryVars, hwVars>>
      BY <1>1, <1>2, <1>3, RunningIsStarted
    <3> QED BY <3>1 DEF bufferVars, memoryVars, hwVars
  <2>2. Fifo' = Fifo
    BY <2>1, FifoStays
  <2>3. Air' = Air
    BY <1>3, <2>1, AirStays
  <2> QED BY <2>1, <2>2, <2>3, Stutters
<1>4. CASE ~hwOn /\ ~hwOn'
  <2>1. UNCHANGED <<flags, head, tail, isr>> /\ isr = "out"
    BY <1>1, <1>2, <1>4, Starts, BeforeStart
  <2>2. hwOn' = hwOn
    BY <1>4 DEF TypeOK
  <2>3. Fifo' = Fifo
    BY <2>1, FifoStays
  <2>4. Air' = Air
    BY <1>4, <2>1, <2>2, AirStays
  <2> QED BY <2>2, <2>3, <2>4, Stutters
<1>5. CASE ~hwOn /\ hwOn'
  <2>1. /\ UNCHANGED <<head, tail, active, isr>> /\ ~irq' /\ next' = 0
        /\ flags'[0] = {"queued", "linked"} /\ \A i \in Slots \ {0} : flags'[i] = flags[i]
    BY <1>1, <1>2, <1>5, Starts DEF FirstLinked
  <2>2. /\ isr = "out" /\ tail = 0 /\ active = 0 /\ head \in Slots /\ head # 0
        /\ flags[0] \in {{"queued"}, {"queued", "linked"}}
        /\ \A i \in Slots \ {0} : flags[i] = IF i < head THEN {"queued"} ELSE {}
    BY <1>1, <1>2, <1>5, BeforeStart
  <2>3. 0 \in Slots /\ \A i \in Slots : Ahead(0, i) = i
    BY StreamAssumption DEF Slots, Ahead
  <2>4. InQueue(0) /\ InQueue(0)'
    BY <2>1, <2>2, <2>3, SlotsAreNats DEF InQueue
  <2>5. FifoListed'
    BY FifoNext
  <2>6. Air' = 1
    <3>1. Now' = 0 /\ Position(0)' = 1
      BY <2>1, <2>2, <2>3 DEF Now, Position
    <3> QED BY <1>2, <1>5, <3>1, AirNext
  <2>7. Fifo'[1] = "committed" /\ 1 \in DOMAIN Fifo'
    <3>1. Position(0)' = 1
      BY <2>1, <2>2, <2>3 DEF Position
    <3>2. StatusOf(flags'[0]) = "committed"
      BY <2>1 DEF StatusOf
    <3> QED BY <2>3, <2>4, <2>5, <3>1, <3>2 DEF FifoListed
  <2>8. ASSUME NEW k \in DOMAIN Fifo', k # 1 PROVE Fifo'[k] # "committed" /\ 1 <= k
    <3>1. k \in 1 .. QueueLength'
      BY <2>5, <2>8 DEF FifoListed
    <3>2. PICK i \in Slots : i = SlotAt(0, k) /\ InQueue(i)' /\ Position(i)' = k
      BY <2>1, <2>2, <2>5, <3>1 DEF FifoListed
    <3>3. i # 0
      BY <2>1, <2>2, <2>3, <2>8, <3>2 DEF Position
    <3>4. Fifo'[k] = StatusOf(flags'[i])
      BY <2>5, <3>2 DEF FifoListed
    <3>5. "linked" \notin flags'[i] /\ k \in Nat /\ k >= 1
      BY <2>1, <2>2, <2>5, <3>1, <3>3 DEF FifoListed
    <3> QED BY <3>4, <3>5 DEF StatusOf
  <2>9. StreamFifo!Where("committed")' = {Air'}
    BY <2>6, <2>7, <2>8 DEF StreamFifo!Where
  <2>10. StreamFifo!Commit \/ UNCHANGED Fifo
    <3>1. CASE flags[0] = {"queued"}
      <4>1. \A i \in Slots : ~(Ahead(tail, i) < Ahead(tail, 0))
        BY <2>2, <2>3, SlotsAreNats
      <4> QED BY <2>1, <2>3, <2>4, <3>1, <4>1, Commits
    <3>2. CASE flags[0] = {"queued", "linked"}
      BY <2>1, <3>2, FifoStays
    <3> QED BY <2>2, <3>1, <3>2
  <2>11. \A i \in StreamFifo!Where("waiting") : Air' <= i
    <3>1. DOMAIN Fifo = 1 .. QueueLength /\ QueueLength \in Nat
      BY FifoIs DEF FifoListed
    <3> QED BY <2>6, <3>1 DEF StreamFifo!Where
  <2>12. hwOn' = TRUE
    BY <1>5 DEF TypeOK
  <2> QED BY <1>5, <2>9, <2>10, <2>11, <2>12 DEF StreamFifo!Promise, StreamFifo!Begin
<1> QED BY <1>3, <1>4, <1>5

\* A flush withdraws the newest buffer that waits.
LEMMA FlushStep ==
  ASSUME TypeOK, TypeOK', ~Exposed, ~Exposed', IInv, TurnInv, ChannelFlush \/ FlushNext \/ FlushEnd
  PROVE  [StreamFifo!Promise]_<<Fifo, Air, hwOn>>
<1> USE DEF bufferVars, memoryVars, hwVars, isrVars
<1>1. ArcIsQueue /\ FlushTurn /\ Live /\ CommandStates /\ RunsAsWanted
  BY DEF IInv, TurnInv
<1>2. CASE ChannelFlush \/ FlushEnd
  <2>1. UNCHANGED <<flags, head, tail, next, isr, hwOn, desc, hwDesc>>
    BY <1>2 DEF ChannelFlush, FlushEnd
  <2>2. Fifo' = Fifo
    BY <2>1, FifoStays
  <2>3. Air' = Air
    BY <2>1, AirStays DEF Linked
  <2> QED BY <2>1, <2>2, <2>3, Stutters
<1>3. CASE FlushNext
  <2>1. PICK p \in Slots : p = PrevSlot(cmd.at)
    BY StepsInRing DEF TypeOK
  <2>2. /\ cmd.op = "flush" /\ cmd.at \in Slots
        /\ "flushed" \in flags[p] \/ CanFlush(p)
        /\ InQueue(p) /\ flags' = [flags EXCEPT ![p] = @ \cup {"flushed"}]
        /\ \A i \in Slots : Ahead(tail, p) <= Ahead(tail, i)
                              => i = p \/ Ahead(tail, cmd.at) <= Ahead(tail, i)
        /\ UNCHANGED <<head, tail, next, isr, hwOn, desc, hwDesc>>
    BY <1>1, <1>3, <2>1, FlushMoves DEF FlushNext, TypeOK
  <2>3. \A i \in Slots : flags'[i] = IF i = p THEN flags[i] \cup {"flushed"} ELSE flags[i]
    BY <2>2 DEF TypeOK
  <2>4. Air' = Air
    <3>1. PICK x \in Slots : x = next
      BY DEF TypeOK
    <3>2. "linked" \in flags'[x] <=> "linked" \in flags[x]
      <4>1. flags'[x] = flags[x] \/ flags'[x] = flags[x] \cup {"flushed"}
        BY <2>3
      <4>2. CASE flags'[x] = flags[x]
        BY <4>2
      <4>3. CASE flags'[x] = flags[x] \cup {"flushed"}
        BY <4>3
      <4> QED BY <4>1, <4>2, <4>3
    <3>3. Linked(next)' <=> Linked(next)
      BY <2>2, <3>1, <3>2 DEF Linked
    <3> QED BY <2>2, <3>3, AirStays
  <2>5. \A i \in Slots : InQueue(i) /\ Ahead(tail, cmd.at) <= Ahead(tail, i) => Settled(i)
    BY <1>1, <2>2 DEF FlushTurn
  <2>6. CASE Settled(p)
    <3>1. StatusOf(flags'[p]) = StatusOf(flags[p])
      <4>1. flags'[p] = flags[p] \cup {"flushed"}
        BY <2>3
      <4> QED BY <2>6, <4>1 DEF StatusOf, Settled
    <3>2. Fifo' = Fifo
      BY <2>2, <2>3, <3>1, FifoStays
    <3> QED BY <2>2, <2>4, <3>2, Stutters
  <2>7. CASE ~Settled(p) /\ ~Linked(p)
    <3>1. StatusOf(flags[p]) = "waiting" /\ StatusOf(flags'[p]) = "flushed"
      <4>1. flags'[p] = flags[p] \cup {"flushed"}
        BY <2>3
      <4> QED BY <2>7, <4>1 DEF StatusOf, Settled, Linked
    <3>2. /\ Fifo' = [Fifo EXCEPT ![Position(p)] = "flushed"]
          /\ Position(p) \in DOMAIN Fifo /\ Fifo[Position(p)] = "waiting"
      BY <2>2, <2>3, <3>1, FifoMarks
    <3>3. ASSUME NEW j \in StreamFifo!Where("waiting") PROVE j <= Position(p)
      <4>1. PICK i \in Slots : InQueue(i) /\ StatusOf(flags[i]) = "waiting" /\ j = Position(i)
        BY Places
      <4>2. Ahead(tail, i) \in Nat /\ Ahead(tail, p) \in Nat
        BY Distances DEF TypeOK
      <4>3. ~Settled(i)
        BY <4>1 DEF Settled, StatusOf
      <4>4. Ahead(tail, i) <= Ahead(tail, p)
        BY <2>2, <2>5, <4>1, <4>2, <4>3
      <4> QED BY <4>1, <4>2, <4>4 DEF Position
    <3>4. StreamFifo!Withdraw
      BY <2>2, <2>4, <3>2, <3>3 DEF StreamFifo!Withdraw, StreamFifo!Where
    <3> QED BY <3>4 DEF StreamFifo!Promise
  <2>8. CASE ~Settled(p) /\ Linked(p)
    BY <1>3, <2>1, <2>8, FlushSpares DEF Settled
  <2> QED BY <2>6, <2>7, <2>8
<1> QED BY <1>2, <1>3

-----------------------------------------------------------------------------
(* The steps of the hardware and of the interrupt handler. *)

\* The hardware goes on to next, or over active once more.
LEMMA AdvanceStep ==
  ASSUME TypeOK, TypeOK', IInv, IInv', TurnInv, HwComplete
  PROVE  [StreamFifo!Promise]_<<Fifo, Air, hwOn>>
<1> USE DEF bufferVars, memoryVars, hwVars, isrVars
<1>1. /\ hwOn /\ hwOn' = hwOn /\ ~irq /\ irq' = TRUE /\ isr = "out"
      /\ UNCHANGED <<flags, head, tail, active, next, isr>>
  BY DEF HwComplete
<1>2. Live /\ Live' /\ ServedInOrder
  BY <1>1 DEF IInv, TurnInv
<1>3. Fifo' = Fifo
  BY <1>1, FifoStays
<1>4. Now = active /\ Now' = next
  BY <1>1 DEF Now
<1>5. Air = Position(active)
  BY <1>1, <1>2, <1>4, AirIs
<1>6. Air' = Position(next)
  <2>1. Air' = Position(Now)'
    BY <1>1, <1>2, AirNext
  <2>2. Position(Now)' = Position(next)
    BY <1>1, <1>4 DEF Position
  <2> QED BY <2>1, <2>2
<1>7. CASE active = next
  BY <1>1, <1>3, <1>5, <1>6, <1>7, Stutters
<1>8. CASE active # next
  <2>1. Air' > Air
    <3>1. Ahead(tail, active) < Ahead(tail, next)
      BY <1>1, <1>2, <1>8 DEF ServedInOrder
    <3>2. Ahead(tail, active) \in Nat /\ Ahead(tail, next) \in Nat
      BY Distances DEF TypeOK
    <3> QED BY <1>5, <1>6, <3>1, <3>2 DEF Position
  <2>2. next \in Slots /\ InQueue(next) /\ Good(next)
    BY <1>1, <1>2, LiveSlots DEF Live, LiveQueue
  <2>3. StatusOf(flags[next]) = "committed"
    BY <2>2 DEF Good, StatusOf
  <2>4. Position(next) \in StreamFifo!Where("committed")
    BY <2>2, <2>3, Places
  <2>5. StreamFifo!Advance
    BY <1>1, <1>3, <1>6, <2>1, <2>4 DEF StreamFifo!Advance
  <2> QED BY <2>5 DEF StreamFifo!Promise
<1> QED BY <1>7, <1>8

LEMMA FaultStep ==
  ASSUME TypeOK, TypeOK', IInv, TurnInv, HwFault
  PROVE  [StreamFifo!Promise]_<<Fifo, Air, hwOn>>
<1>1. ~hwOn' /\ UNCHANGED <<flags, head, tail, next, isr>>
  BY DEF HwFault, HardwareStop, bufferVars, isrVars
<1>2. Live /\ ArcIsQueue
  BY DEF IInv, TurnInv
<1> QED BY <1>1, <1>2, Halts

\* Steps of the handler that the queue does not see.
LEMMA QuietStep ==
  ASSUME TypeOK, TypeOK', IInv, IsrEnter \/ IsrState \/ IsrScan \/ IsrSignal
  PROVE  [StreamFifo!Promise]_<<Fifo, Air, hwOn>>
<1> USE DEF bufferVars, memoryVars, hwVars, isrVars
<1>1. UNCHANGED <<flags, head, tail, next, desc, hwDesc>>
  BY DEF IsrEnter, IsrState, IsrScan, IsrSignal, HardwareStop
<1>2. Fifo' = Fifo
  BY <1>1, FifoStays
<1>3. hwOn' = hwOn
  BY DEF IsrEnter, IsrState, IsrScan, IsrSignal, HardwareStop, IInv, RunsAsWanted, Running, TypeOK
<1>4. ~hwOn => \/ isr' = isr
               \/ {isr, isr'} \cap {"complete", "move"} = {}
  BY DEF IsrEnter, IsrState, IsrScan, IsrSignal, IInv, RunsAsWanted
<1>5. Air' = Air
  <2>1. Linked(next)' <=> Linked(next)
    BY <1>1 DEF Linked
  <2> QED BY <1>1, <1>3, <1>4, <2>1, AirStays
<1> QED BY <1>2, <1>3, <1>5, Stutters

\* A handler that is late forgets where the hardware was.
LEMMA MoveStep ==
  ASSUME TypeOK, TypeOK', IInv, TurnInv, IsrMove
  PROVE  [StreamFifo!Promise]_<<Fifo, Air, hwOn>>
<1> USE DEF bufferVars, memoryVars, hwVars, isrVars
<1>1. isr' = "state" /\ UNCHANGED <<flags, head, tail, hwOn, desc, hwDesc>>
  BY DEF IsrMove
<1>2. Fifo' = Fifo
  BY <1>1, FifoStays
<1>3. CASE hwOn
  BY <1>1, <1>2, <1>3, AirStays, Stutters
<1>4. CASE ~hwOn
  <2>1. Air' = 0
    BY <1>1, <1>4 DEF Air
  <2>2. Air \in 0 .. QueueLength /\ QueueLength \in Nat
    BY AirInQueue, FifoIs DEF IInv, TurnInv, FifoListed
  <2>3. hwOn' = FALSE
    BY <1>1, <1>4 DEF TypeOK
  <2>4. StreamFifo!Halt
    BY <1>2, <2>1, <2>2, <2>3 DEF StreamFifo!Halt
  <2> QED BY <2>4 DEF StreamFifo!Promise
<1> QED BY <1>3, <1>4

\* The buffer the handler completes is one the hardware has left.
LEMMA CompleteStep ==
  ASSUME TypeOK, TypeOK', IInv, TurnInv, IsrComplete
  PROVE  [StreamFifo!Promise]_<<Fifo, Air, hwOn>>
<1> USE DEF bufferVars, memoryVars, hwVars, isrVars
<1>1. PICK a \in Slots, n \in Slots : a = active /\ n = next
  BY DEF TypeOK
<1>2. /\ isr = "complete" /\ isr' = "move"
      /\ UNCHANGED <<head, tail, next, hwOn, desc, hwDesc>>
      /\ \A i \in Slots \ {a} : flags'[i] = flags[i]
      /\ \/ flags' = flags
         \/ /\ {"queued", "linked"} \subseteq flags[a] /\ "flushed" \notin flags[a]
            /\ flags'[a] = flags[a] \cup {"completed"}
  BY <1>1 DEF IsrComplete, TypeOK
<1>3. Air' = Air
  <2>1. "linked" \in flags'[n] <=> "linked" \in flags[n]
    <3>1. CASE flags'[n] = flags[n]
      BY <3>1
    <3>2. CASE flags'[n] = flags[n] \cup {"completed"}
      BY <3>2
    <3> QED BY <1>2, <3>1, <3>2
  <2>2. Linked(next)' <=> Linked(next)
    BY <1>1, <1>2, <2>1 DEF Linked
  <2> QED BY <1>2, <2>2, AirStays
<1>4. CASE ~Good(a)
  <2>1. \A i \in Slots : StatusOf(flags'[i]) = StatusOf(flags[i])
    <3>1. CASE flags' = flags
      BY <3>1
    <3>2. CASE "completed" \in flags[a] /\ flags'[a] = flags[a] \cup {"completed"}
      <4>1. StatusOf(flags'[a]) = StatusOf(flags[a])
        BY <3>2 DEF StatusOf
      <4> QED BY <1>2, <4>1
    <3> QED BY <1>2, <1>4, <3>1, <3>2 DEF Good
  <2>2. Fifo' = Fifo
    BY <1>2, <2>1, FifoStays
  <2> QED BY <1>2, <1>3, <2>2, Stutters
<1>5. CASE Good(a) /\ flags' = flags
  BY <1>2, <1>3, <1>5, FifoStays, Stutters
<1>6. CASE Good(a) /\ flags'[a] = flags[a] \cup {"completed"}
  <2>1. InQueue(a)
    BY <1>6, LinkedInQueue DEF TurnInv, Good
  <2>2. InTurn
    <3>1. CASE hwOn
      BY <3>1, LiveIsInTurn DEF IInv, TurnInv
    <3>2. CASE ~hwOn
      <4>1. ~AllSettled
        BY <1>6, <2>1 DEF AllSettled, Settled, Good
      <4>2. ~(streamState = "initialized" /\ session = "fresh")
        BY <1>1, <1>2, <1>6 DEF IInv, InitializedIsFresh, Good, Linked
      <4> QED BY <1>2, <3>2, <4>1, <4>2 DEF TurnInv, LateTurn
    <3> QED BY <3>1, <3>2
  <2>3. Good(n) /\ Ahead(tail, a) < Ahead(tail, n)
    BY <1>1, <1>2, <2>2 DEF InTurn, ServedInOrder
  <2>4. Air = Position(n)
    <3>1. CASE hwOn
      <4>1. Now = n
        BY <1>1, <1>2 DEF Now
      <4> QED BY <3>1, <4>1, AirIs DEF IInv
    <3>2. CASE ~hwOn
      BY <1>1, <1>2, <2>3, <3>2 DEF Air, Good, Linked
    <3> QED BY <3>1, <3>2
  <2>5. Position(a) < Air
    <3>1. Ahead(tail, a) \in Nat /\ Ahead(tail, n) \in Nat
      BY Distances DEF TypeOK
    <3> QED BY <2>3, <2>4, <3>1 DEF Position
  <2>6. StatusOf(flags[a]) = "committed" /\ StatusOf(flags'[a]) = "done"
    BY <1>6 DEF StatusOf, Good
  <2>7. Fifo' = [Fifo EXCEPT ![Position(a)] = "done"]
    BY <1>2, <2>1, <2>6, FifoMarks
  <2>8. Position(a) \in StreamFifo!Where("committed")
    BY <2>1, <2>6, Places
  <2>9. StreamFifo!Done
    BY <1>2, <1>3, <2>5, <2>7, <2>8 DEF StreamFifo!Done
  <2> QED BY <2>9 DEF StreamFifo!Promise
<1> QED BY <1>2, <1>4, <1>5, <1>6

\* While a buffer is about to be linked, only the active one is.
LEMMA OnlyActive ==
  ASSUME TypeOK, ArcIsQueue, InTurn, isr = "link"
  PROVE  /\ InQueue(active) /\ StatusOf(flags[active]) = "committed"
         /\ \A i \in Slots : InQueue(i) /\ StatusOf(flags[i]) = "committed" => i = active
<1>1. Good(active) /\ active = next /\ active \in Slots /\ ServedInOrder
  BY DEF InTurn, TypeOK
<1>2. InQueue(active)
  BY <1>1, LinkedInQueue DEF Good
<1>3. StatusOf(flags[active]) = "committed"
  BY <1>1 DEF Good, StatusOf
<1>4. ASSUME NEW i \in Slots, InQueue(i), StatusOf(flags[i]) = "committed" PROVE i = active
  <2>1. ~Settled(i) /\ "linked" \in flags[i]
    BY <1>4 DEF StatusOf, Settled
  <2>2. /\ Ahead(tail, i) \in Nat /\ Ahead(tail, active) \in Nat
        /\ (Ahead(tail, i) = Ahead(tail, active) <=> i = active)
    BY <1>1, Distances, AheadIsDistance DEF TypeOK
  <2>3. ~(Ahead(tail, active) < Ahead(tail, i))
    BY <1>1, <1>4, <2>1 DEF ServedInOrder
  <2>4. Ahead(tail, i) < Ahead(tail, active) => i = active
    BY <1>1, <1>4, <2>1 DEF ServedInOrder
  <2> QED BY <2>2, <2>3, <2>4
<1> QED BY <1>2, <1>3, <1>4

\* The handler commits the buffer to follow, one at a time.
LEMMA LinkCommits ==
  ASSUME TypeOK, TypeOK', ArcIsQueue, InTurn, IsrLink
  PROVE  /\ StreamFifo!Commit
         /\ StreamFifo!Where("committed") = {Position(active)}
<1>1. PICK n \in Slots : n = isrNext
  BY DEF TypeOK
<1>2. /\ isr = "link" /\ UNCHANGED <<head, tail>>
  BY DEF IsrLink
<1>3. /\ flags' = [flags EXCEPT ![n] = @ \cup {"linked"}] /\ flags[n] = {"queued"}
  BY <1>1, LinkInTurn
<1>4. flags'[n] = {"queued", "linked"} /\ \A i \in Slots \ {n} : flags'[i] = flags[i]
  BY <1>3 DEF TypeOK
<1>5. InQueue(n) /\ ServedInOrder /\ active = next /\ Good(next) /\ next \in Slots
  BY <1>1, <1>2 DEF InTurn, TypeOK
<1>6. ASSUME NEW i \in Slots, InQueue(i), Ahead(tail, i) < Ahead(tail, n)
      PROVE  StatusOf(flags[i]) # "waiting"
  <2>1. /\ Ahead(tail, i) \in Nat /\ Ahead(tail, next) \in Nat
        /\ (Ahead(tail, i) = Ahead(tail, next) <=> i = next)
    BY <1>5, Distances, AheadIsDistance DEF TypeOK
  <2>2. Settled(i) \/ i = next
    BY <1>1, <1>2, <1>5, <1>6, <2>1 DEF ServedInOrder
  <2> QED BY <1>5, <2>2 DEF Settled, Good, StatusOf
<1>7. StreamFifo!Commit
  BY <1>2, <1>3, <1>4, <1>5, <1>6, Commits
<1>8. StreamFifo!Where("committed") = {Position(active)}
  <2>1. active \in Slots /\ Position(active) \in StreamFifo!Where("committed")
    BY <1>2, OnlyActive, Places DEF TypeOK
  <2>2. ASSUME NEW k \in StreamFifo!Where("committed") PROVE k = Position(active)
    <3>1. PICK i \in Slots : InQueue(i) /\ StatusOf(flags[i]) = "committed" /\ k = Position(i)
      BY Places
    <3> QED BY <1>2, <3>1, OnlyActive
  <2> QED BY <2>1, <2>2
<1> QED BY <1>7, <1>8

LEMMA LinkStep ==
  ASSUME TypeOK, TypeOK', IInv, IInv', TurnInv, IsrLink
  PROVE  [StreamFifo!Promise]_<<Fifo, Air, hwOn>>
<1> USE DEF bufferVars, memoryVars, hwVars, isrVars
<1>1. /\ isr = "link" /\ isr' = "signal" /\ BufferLink(active, isrNext)
      /\ UNCHANGED <<head, tail, active, hwOn, irq>>
  BY DEF IsrLink
<1>2. ArcIsQueue /\ Live /\ Live' /\ InitializedIsFresh
  BY DEF IInv, TurnInv
<1>3. \A i \in Slots : \/ flags'[i] = flags[i]
                       \/ Linkable(i) /\ flags'[i] = flags[i] \cup {"linked"}
  BY <1>1, LinkGrows DEF TypeOK
<1>4. CASE hwOn
  <2>1. StreamFifo!Commit /\ StreamFifo!Where("committed") = {Position(active)}
    BY <1>2, <1>4, LiveIsInTurn, LinkCommits DEF TurnInv
  <2>2. ~irq
    BY <1>1, <1>2, <1>4 DEF Live, LiveStates
  <2>3. Now = active /\ Now' = active
    BY <1>1, <2>2 DEF Now
  <2>4. Air = Position(active)
    BY <1>2, <1>4, <2>3, AirIs
  <2>5. Air' = Position(active)
    <3>1. hwOn' /\ Position(Now)' = Position(active)
      BY <1>1, <1>4, <2>3 DEF Position
    <3> QED BY <1>2, <3>1, AirNext
  <2>6. StreamFifo!Follow
    BY <1>1, <1>4, <2>1, <2>4, <2>5 DEF StreamFifo!Follow
  <2> QED BY <2>6 DEF StreamFifo!Promise
<1>5. CASE ~hwOn
  <2>1. Air' = Air
    BY <1>1, <1>5 DEF Air
  <2>2. CASE AllSettled
    <3>1. ASSUME NEW i \in Slots, flags'[i] # flags[i] PROVE FALSE
      BY <1>2, <1>3, <2>2, <3>1 DEF AllSettled, ArcIsQueue, Linkable, Settled
    <3>2. Fifo' = Fifo
      BY <1>1, <3>1, FifoStays
    <3> QED BY <1>1, <2>1, <3>2, Stutters
  <2>3. CASE streamState = "initialized" /\ session = "fresh"
    <3>1. /\ tail = 0 /\ head \in {0, 1} /\ ~Linked(0)
          /\ \A i \in Slots \ {0} : flags[i] = IF i < head THEN {"queued"} ELSE {}
          /\ flags[0] \in {{}, {"queued"}, {"queued", "linked"}}
      BY <1>1, <1>2, <2>3, SlotsAreNats DEF InitializedIsFresh, FreshFlags, TypeOK
    <3>2. \A i \in Slots \ {0} : flags[i] = {} /\ ~Linkable(i)
      <4>1. SUFFICES ASSUME NEW i \in Slots, i # 0 PROVE flags[i] = {} /\ ~Linkable(i)
        OBVIOUS
      <4>2. ~(i < head)
        BY <3>1, <4>1, SlotsAreNats
      <4>3. flags[i] = {}
        BY <3>1, <4>1, <4>2
      <4> QED BY <4>3 DEF Linkable
    <3>3. \A i \in Slots \ {0} : flags'[i] = flags[i]
      BY <1>3, <3>2
    <3>4. 0 \in Slots /\ flags[0] \in {{}, {"queued"}}
      BY <3>1, SlotsAreNats DEF Linked
    <3>5. CASE flags'[0] = flags[0]
      <4>1. Fifo' = Fifo
        BY <1>1, <3>3, <3>5, FifoStays
      <4> QED BY <1>1, <2>1, <4>1, Stutters
    <3>6. CASE flags'[0] # flags[0]
      <4>1. flags[0] = {"queued"} /\ flags'[0] = {"queued", "linked"}
        BY <1>3, <3>4, <3>6 DEF Linkable
      <4>2. InQueue(0)
        BY <1>2, <3>4, <4>1, LinkedInQueue
      <4>3. \A i \in Slots : ~(Ahead(tail, i) < Ahead(tail, 0))
        BY <3>1, StreamAssumption DEF Ahead, Slots
      <4>4. StreamFifo!Commit
        BY <1>1, <3>3, <3>4, <4>1, <4>2, <4>3, Commits
      <4>5. \A i \in Slots : StatusOf(flags[i]) # "committed"
        BY <3>2, <4>1 DEF StatusOf
      <4>6. StreamFifo!Where("committed") = {}
        BY <4>5, Places
      <4>7. StreamFifo!Follow
        BY <1>1, <1>5, <2>1, <4>4, <4>6 DEF StreamFifo!Follow
      <4> QED BY <4>7 DEF StreamFifo!Promise
    <3> QED BY <3>5, <3>6
  <2>4. CASE InTurn
    <3>1. StreamFifo!Commit /\ StreamFifo!Where("committed") = {Position(active)}
      BY <1>2, <2>4, LinkCommits
    <3>2. StreamFifo!Follow
      BY <1>1, <1>5, <2>1, <3>1 DEF StreamFifo!Follow
    <3> QED BY <3>2 DEF StreamFifo!Promise
  <2>5. AllSettled \/ (streamState = "initialized" /\ session = "fresh") \/ InTurn
    BY <1>1, <1>5 DEF TurnInv, LateTurn
  <2> QED BY <2>2, <2>3, <2>4, <2>5
<1> QED BY <1>4, <1>5

\* Waiters do not touch the queue.
LEMMA WaitersStep ==
  ASSUME TypeOK, TypeOK', UNCHANGED vars \/ \E w \in Waiters : Wait(w)
  PROVE  [StreamFifo!Promise]_<<Fifo, Air, hwOn>>
<1>1. UnchangedButWait
  BY DEF vars, Wait, WaitEnter, WaitClear, WaitWoken, WaitTimeout, WaitLeave, UnchangedButWait
<1>2. UNCHANGED <<flags, head, tail, next, isr, hwOn, desc, hwDesc>>
  BY <1>1 DEF UnchangedButWait, bufferVars, memoryVars, hwVars, isrVars
<1>3. Fifo' = Fifo
  BY <1>2, FifoStays
<1>4. Air' = Air
  BY <1>2, AirStays DEF Linked
<1> QED BY <1>2, <1>3, <1>4, Stutters

LEMMA FifoStep ==
  ASSUME ~Exposed, ~Exposed', TypeOK, TypeOK', IInv, IInv', TurnInv, [Next]_vars
  PROVE  [StreamFifo!Promise]_<<Fifo, Air, hwOn>>
<1>1. Live /\ ArcIsQueue
  BY DEF IInv, TurnInv
<1>2. CASE ClientStep
  <2>1. (\E o \in Owners : ChannelInitialize(o) \/ ChannelRelease(o)) \/ Enable \/ Disable
          => [StreamFifo!Promise]_<<Fifo, Air, hwOn>>
    BY <1>1, BeginStep
  <2>2. (\E o \in Owners : BufferQueue(o)) => [StreamFifo!Promise]_<<Fifo, Air, hwOn>>
    BY QueueStep
  <2>3. (\E o \in Owners : BufferRelease(o)) => [StreamFifo!Promise]_<<Fifo, Air, hwOn>>
    BY ReleaseStep
  <2>4. ChannelStart \/ ChannelStop => [StreamFifo!Promise]_<<Fifo, Air, hwOn>>
    BY StartStep
  <2>5. ChannelFlush \/ FlushNext \/ FlushEnd => [StreamFifo!Promise]_<<Fifo, Air, hwOn>>
    BY FlushStep
  <2>6. InitializeFlush => [StreamFifo!Promise]_<<Fifo, Air, hwOn>>
    BY InitializeFlushStep
  <2>7. ReleaseBuffers => [StreamFifo!Promise]_<<Fifo, Air, hwOn>>
    BY ReleaseBuffersStep DEF IInv, CommandStates, RunsAsWanted, Running, HaltedForRelease
  <2> QED BY <1>2, <2>1, <2>2, <2>3, <2>4, <2>5, <2>6, <2>7 DEF ClientStep
<1>3. CASE EngineStep
  BY <1>3, AdvanceStep, FaultStep, QuietStep, MoveStep, CompleteStep, LinkStep
     DEF EngineStep, Isr
<1>4. CASE UNCHANGED vars \/ \E w \in Waiters : Wait(w)
  BY <1>4, WaitersStep
<1> QED BY <1>2, <1>3, <1>4, NextCases

LEMMA FifoInit == ASSUME Init, TypeOK PROVE StreamFifo!Init
<1>1. QueueLength = 0
  BY SlotsAreNats, AheadIsDistance DEF Init, QueueLength
<1>2. Fifo = << >>
  <2>1. Len(Fifo) = 0 /\ Fifo \in Seq({"waiting", "committed", "done", "flushed"})
    BY <1>1, FifoIs DEF FifoListed
  <2> QED BY <2>1
<1>3. Air = 0
  BY DEF Init, Air
<1> QED BY <1>2, <1>3 DEF Init, Exposed, MostOverlap, StreamFifo!Init

\* The stream is a first-in first-out queue: however commands, interrupt and
\* hardware interleave, every buffer has its turn in the order it was queued or
\* is withdrawn from the newest back, the hardware is given the oldest buffer
\* that waits, at most one ahead of the buffer it transfers, none is done
\* before the hardware has left it, and none goes back while it is on the air.
\* Only while the stream is exposed may anything happen.
THEOREM StreamIsQueue == Spec => QueueSpec
<1>1. TypeOK /\ Init => StreamFifo!Init
  BY FifoInit
<1>2. TypeOK /\ TypeOK' /\ ChainInv /\ ChainInv' /\ (~Exposed => TurnInv) /\ [Next]_vars
        => [StreamFifo!Next]_(StreamFifo!vars)
  <2>1. SUFFICES ASSUME TypeOK, TypeOK', ChainInv, ChainInv', ~Exposed => TurnInv, [Next]_vars
                 PROVE  [StreamFifo!Next]_(StreamFifo!vars)
    OBVIOUS
  <2>2. Exposed \in BOOLEAN /\ Exposed' \in BOOLEAN
    BY DEF Exposed
  <2>3. CASE Exposed'
    BY <2>2, <2>3 DEF StreamFifo!Next, StreamFifo!Forfeit
  <2>4. CASE Exposed /\ ~Exposed'
    <3>1. Fifo' = << >> /\ Air' = 0 /\ hwOn' = FALSE
      BY <2>1, <2>4, ExposedStays, EmptiedFifo DEF ChainInv
    <3> QED BY <2>2, <2>4, <3>1 DEF StreamFifo!Next, StreamFifo!Renew
  <2>5. CASE ~Exposed /\ ~Exposed'
    <3>1. [StreamFifo!Promise]_<<Fifo, Air, hwOn>>
      BY <2>1, <2>5, FifoStep DEF ChainInv
    <3> QED BY <2>2, <2>5, <3>1 DEF StreamFifo!Next, StreamFifo!Keep, StreamFifo!vars
  <2> QED BY <2>3, <2>4, <2>5
<1> QED BY <1>1, <1>2, TypeCorrect, Invariance, TurnHolds, PTL DEF Spec, QueueSpec, StreamFifo!Spec

=============================================================================
