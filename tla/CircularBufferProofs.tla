------------------------ MODULE CircularBufferProofs ------------------------
(***************************************************************************)
(* What CircularBuffer guarantees for every number of frames, whatever     *)
(* they are filled with: that it implements the queue of FrameQueue, and   *)
(* that no wake-up is lost.                                                *)
(***************************************************************************)
EXTENDS CircularBuffer, SequenceTheorems, TLAPS

USE RingAssumption

\* A thread between taking the ring and giving it up has it, and a frame that
\* is filled or read is locked by who does.
LocksHeld ==
  /\ p \in {"frame", "clear"} => dataLock = "producer"
  /\ c \in {"frame", "clear"} => dataLock = "consumer"
  /\ Filling => locks[fillIndex] = "producer"
  /\ Reading => locks[emptyIndex] = "consumer"

\* The head is count frames past the tail.  The frame being filled is the last
\* of those; the one being read is the one before the first, and not a last.
CountRight ==
  /\ tail + count \in {head, head + NumFrames}
  /\ p = "frame" => count < NumFrames
  /\ c = "frame" => count > 0
  /\ Filling => head = Succ(fillIndex) /\ count > 0
  /\ Reading => tail = Succ(emptyIndex) /\ count < NumFrames

\* What counts as filled is, and so is what is read.
FramesFilled ==
  /\ \A i \in 1 .. Filled : frames[FrameAt(i)] \in Data
  /\ Reading => frames[emptyIndex] \in Data

IInv == TypeOK /\ LocksHeld /\ CountRight /\ FramesFilled

-----------------------------------------------------------------------------
(* Arithmetic of the ring *)

LEMMA SuccInRing ==
  ASSUME NEW i \in Index
  PROVE  /\ Succ(i) \in Index
         /\ \A j \in Index : Succ(i) = Succ(j) => i = j
BY DEF Index, Succ

LEMMA FrameAtInRing ==
  ASSUME tail \in Index, NEW i \in 1 .. NumFrames
  PROVE  FrameAt(i) \in Index
BY DEF Index, FrameAt

\* The frame after the last that counts is the head.
LEMMA FrameAtHead ==
  ASSUME tail \in Index, head \in Index, count \in 0 .. NumFrames - 1,
         tail + count \in {head, head + NumFrames}
  PROVE  FrameAt(count + 1) = head
BY DEF Index, FrameAt

\* The last that counts is the one before the head.
LEMMA FrameAtLast ==
  ASSUME tail \in Index, head \in Index, count \in 1 .. NumFrames,
         tail + count \in {head, head + NumFrames},
         NEW i \in Index, head = Succ(i)
  PROVE  FrameAt(count) = i
BY DEF Index, FrameAt, Succ

LEMMA FrameAtInjective ==
  ASSUME tail \in Index, NEW i \in 1 .. NumFrames, NEW j \in 1 .. NumFrames,
         FrameAt(i) = FrameAt(j)
  PROVE  i = j
BY DEF Index, FrameAt

-----------------------------------------------------------------------------
(* Each step of the producer keeps the invariant *)

\* A frame's index after the tail has moved on by one.
LEMMA FrameAtNext ==
  ASSUME tail \in Index, tail' = Succ(tail), NEW i \in 1 .. NumFrames - 1
  PROVE  FrameAt(i)' = FrameAt(i + 1)
BY DEF Index, FrameAt, Succ

\* The events keep their type.
LEMMA EventsTyped ==
  ASSUME TypeOK, Next
  PROVE  notFull' \in BOOLEAN /\ notEmpty' \in BOOLEAN
BY Zenon DEF TypeOK, Next, Produce, Consume, StartProduce, ProduceLock, ProduceWoken,
     ProduceSpurious, ProduceFrame, ProduceClear, EndProduce, ProduceSignal, ProduceAbort,
     StartConsume, ConsumeLock, ConsumeWoken, ConsumeSpurious, ConsumeFrame, ConsumeClear,
     EndConsume, ConsumeSignal, ConsumeAbort, SetAbort, eventVars

LEMMA ProducerWaits ==
  ASSUME IInv, StartProduce \/ ProduceLock \/ ProduceWoken \/ ProduceSpurious
               \/ ProduceSignal \/ ProduceAbort
  PROVE  IInv'
<1> USE DEF IInv, producerVars, consumerVars, lockVars, eventVars
<1>1. /\ UNCHANGED <<head, tail, count, fillIndex, emptyIndex, locks, frames, c, abort>>
      /\ p \notin {"clear", "work"} /\ p' \in Places \ {"clear", "work"}
      /\ p' = "frame" => count < NumFrames /\ dataLock' = "producer"
      /\ dataLock' = dataLock \/ (dataLock = Nobody /\ dataLock' = "producer")
  <2> USE DEF TypeOK, Places
  <2>1. CASE StartProduce    BY <2>1 DEF StartProduce
  <2>2. CASE ProduceLock     BY <2>2 DEF ProduceLock
  <2>3. CASE ProduceWoken    BY <2>3 DEF ProduceWoken
  <2>4. CASE ProduceSpurious BY <2>4 DEF ProduceSpurious
  <2>5. CASE ProduceSignal   BY <2>5 DEF ProduceSignal
  <2>6. CASE ProduceAbort    BY <2>6 DEF ProduceAbort
  <2> QED BY <2>1, <2>2, <2>3, <2>4, <2>5, <2>6
<1>2. ~Filling /\ ~Filling' /\ Reading' = Reading
  BY <1>1 DEF Filling, Reading
<1>3. Next
  BY DEF Next, Produce
<1>4. TypeOK'
  BY <1>1, <1>3, EventsTyped DEF TypeOK, Threads, Index
<1>5. LocksHeld'
  BY <1>1, <1>2 DEF LocksHeld, Threads, Nobody, Places
<1>6. CountRight'
  BY <1>1, <1>2 DEF CountRight, Places, Succ
<1>7. FramesFilled'
  BY <1>1, <1>2 DEF FramesFilled, Filled, FrameAt
<1> QED BY <1>4, <1>5, <1>6, <1>7

LEMMA ProduceFrameKeeps ==
  ASSUME IInv, ProduceFrame
  PROVE  IInv'
<1> USE DEF IInv, ProduceFrame, consumerVars, eventVars
<1>1. /\ Filling' /\ ~Filling /\ Reading' = Reading
      /\ Filled' = Filled /\ Filled = count /\ count < NumFrames
  BY DEF Filling, Reading, Filled, TypeOK, CountRight
<1>2. TypeOK'
  BY <1>1, SuccInRing DEF TypeOK, Threads, Places, Index
<1>3. Reading => emptyIndex # head
  BY DEF LocksHeld, Nobody
<1>4. LocksHeld'
  BY <1>1, <1>3 DEF LocksHeld, TypeOK
<1>5. CountRight'
  <2>1. (tail + count \in {head, head + NumFrames})'
    BY <1>1 DEF CountRight, TypeOK, Index, Succ
  <2>2. Reading => count + 1 < NumFrames
    BY <1>1, <1>3 DEF CountRight, TypeOK, Index, Succ
  <2> QED BY <1>1, <2>1, <2>2 DEF CountRight, TypeOK, LocksHeld, Succ
<1>6. FramesFilled'
  <2>1. ASSUME NEW i \in 1 .. Filled
        PROVE  FrameAt(i) # head /\ FrameAt(i) \in Index
    <3>1. FrameAt(count + 1) = head
      BY <1>1, FrameAtHead DEF CountRight, TypeOK
    <3>2. count \in 0 .. NumFrames
      BY DEF TypeOK
    <3> QED BY <1>1, <3>1, <3>2, FrameAtInjective, FrameAtInRing DEF TypeOK
  <2>2. ASSUME NEW i \in 1 .. Filled
        PROVE  FrameAt(i)' = FrameAt(i)
    BY DEF FrameAt
  <2> QED BY <1>1, <1>3, <2>1, <2>2 DEF FramesFilled, TypeOK
<1> QED BY <1>2, <1>4, <1>5, <1>6

LEMMA ProduceClearKeeps ==
  ASSUME IInv, ProduceClear
  PROVE  IInv'
<1> USE DEF IInv, ProduceClear, consumerVars
<1>1. Filling' /\ Filling /\ Reading' = Reading /\ Filled' = Filled
  BY DEF Filling, Reading, Filled
<1>2. TypeOK'
  BY DEF TypeOK, Places
<1>3. LocksHeld'
  BY <1>1 DEF LocksHeld
<1>4. CountRight'
  BY <1>1 DEF CountRight, Succ
<1>5. FramesFilled'
  BY <1>1 DEF FramesFilled, FrameAt
<1> QED BY <1>2, <1>3, <1>4, <1>5

LEMMA EndProduceKeeps ==
  ASSUME IInv, NEW d \in Data, EndProduce(d)
  PROVE  IInv'
<1> USE DEF IInv, EndProduce, consumerVars, eventVars
<1>1. /\ ~Filling' /\ Filling /\ Reading' = Reading
      /\ Filled' = count /\ Filled = count - 1 /\ count \in 1 .. NumFrames
  BY DEF Filling, Reading, Filled, TypeOK, CountRight
<1>2. TypeOK'
  BY DEF TypeOK, Places, Threads
<1>3. Reading => emptyIndex # fillIndex
  BY <1>1 DEF LocksHeld
<1>4. LocksHeld'
  BY <1>1, <1>3 DEF LocksHeld, TypeOK
<1>5. CountRight'
  BY <1>1 DEF CountRight, Succ
<1>6. FramesFilled'
  <2>1. ASSUME NEW i \in 1 .. count
        PROVE  frames'[FrameAt(i)] \in Data
    <3>1. FrameAt(i) \in Index
      BY <1>1, FrameAtInRing DEF TypeOK
    <3>2. CASE i = count
      BY <1>1, <3>1, <3>2, FrameAtLast DEF TypeOK, CountRight
    <3>3. CASE i # count
      BY <1>1, <3>1, <3>3 DEF TypeOK, FramesFilled
    <3> QED BY <3>2, <3>3
  <2>2. ASSUME NEW i \in 1 .. count
        PROVE  FrameAt(i)' = FrameAt(i)
    BY DEF FrameAt
  <2> QED BY <1>1, <1>3, <2>1, <2>2 DEF FramesFilled, TypeOK
<1> QED BY <1>2, <1>4, <1>5, <1>6

-----------------------------------------------------------------------------
(* Each step of the consumer keeps the invariant *)

LEMMA ConsumerWaits ==
  ASSUME IInv, StartConsume \/ ConsumeLock \/ ConsumeWoken \/ ConsumeSpurious
               \/ ConsumeSignal \/ ConsumeAbort
  PROVE  IInv'
<1> USE DEF IInv, producerVars, lockVars, eventVars
<1>1. /\ UNCHANGED <<head, tail, count, fillIndex, emptyIndex, locks, frames, p, abort>>
      /\ c \notin {"clear", "work"} /\ c' \in Places \ {"clear", "work"}
      /\ c' = "frame" => count > 0 /\ dataLock' = "consumer"
      /\ dataLock' = dataLock \/ (dataLock = Nobody /\ dataLock' = "consumer")
  <2> USE DEF TypeOK, Places
  <2>1. CASE StartConsume   BY <2>1 DEF StartConsume
  <2>2. CASE ConsumeLock    BY <2>2 DEF ConsumeLock
  <2>3. CASE ConsumeWoken   BY <2>3 DEF ConsumeWoken
  <2>4. CASE ConsumeSpurious BY <2>4 DEF ConsumeSpurious
  <2>5. CASE ConsumeSignal  BY <2>5 DEF ConsumeSignal
  <2>6. CASE ConsumeAbort   BY <2>6 DEF ConsumeAbort
  <2> QED BY <2>1, <2>2, <2>3, <2>4, <2>5, <2>6
<1>2. ~Reading /\ ~Reading' /\ Filling' = Filling /\ Filled' = Filled
  BY <1>1 DEF Filling, Reading, Filled
<1>3. Next
  BY DEF Next, Consume
<1>4. TypeOK'
  BY <1>1, <1>3, EventsTyped DEF TypeOK, Threads, Index
<1>5. LocksHeld'
  BY <1>1, <1>2 DEF LocksHeld, Threads, Nobody, Places
<1>6. CountRight'
  BY <1>1, <1>2 DEF CountRight, Places, Succ
<1>7. FramesFilled'
  BY <1>1, <1>2 DEF FramesFilled, FrameAt
<1> QED BY <1>4, <1>5, <1>6, <1>7

\* The frame taken is not the one being filled, so that another is left to count.
LEMMA TakesFilled ==
  ASSUME IInv, ConsumeFrame
  PROVE  /\ count \in 1 .. NumFrames
         /\ Filling => tail # fillIndex /\ count > 1
         /\ Filled \in 1 .. NumFrames /\ FrameAt(1) = tail
<1> USE DEF IInv, ConsumeFrame
<1>1. count \in 1 .. NumFrames
  BY DEF TypeOK, CountRight
<1>2. Filling => tail # fillIndex
  BY DEF LocksHeld, Nobody
<1>3. Filling => count > 1
  BY <1>1, <1>2 DEF CountRight, TypeOK, Index, Succ
<1>4. FrameAt(1) = tail
  BY DEF FrameAt, TypeOK, Index
<1> QED BY <1>1, <1>2, <1>3, <1>4 DEF Filled

LEMMA ConsumeFrameKeeps ==
  ASSUME IInv, ConsumeFrame
  PROVE  IInv'
<1> USE DEF IInv, ConsumeFrame, producerVars, eventVars
<1>1. /\ Reading' /\ ~Reading /\ Filling' = Filling /\ Filled' = Filled - 1
      /\ count \in 1 .. NumFrames /\ Filled \in 1 .. NumFrames
      /\ Filling => tail # fillIndex /\ count > 1
      /\ FrameAt(1) = tail
  BY TakesFilled DEF Filling, Reading, Filled
<1>2. TypeOK'
  <2>1. count' \in 0 .. NumFrames
    BY <1>1
  <2>2. tail' \in Index /\ emptyIndex' \in Index
    BY SuccInRing DEF TypeOK
  <2>3. locks' \in [Index -> Threads \cup {Nobody}] /\ c' \in Places
    BY DEF TypeOK, Threads, Places
  <2> QED BY <2>1, <2>2, <2>3 DEF TypeOK
<1>3. LocksHeld'
  BY <1>1 DEF LocksHeld, TypeOK
<1>4. CountRight'
  <2>1. (tail + count \in {head, head + NumFrames})'
    BY <1>1 DEF CountRight, TypeOK, Index, Succ
  <2> QED BY <1>1, <2>1 DEF CountRight, TypeOK, LocksHeld, Succ
<1>5. FramesFilled'
  <2>1. ASSUME NEW i \in 1 .. Filled - 1
        PROVE  /\ FrameAt(i)' = FrameAt(i + 1)
               /\ i + 1 \in 1 .. Filled
    BY <1>1, FrameAtNext DEF TypeOK
  <2>2. frames[tail] \in Data
    BY <1>1 DEF FramesFilled
  <2> QED BY <1>1, <2>1, <2>2 DEF FramesFilled, TypeOK
<1> QED BY <1>2, <1>3, <1>4, <1>5

LEMMA ConsumeClearKeeps ==
  ASSUME IInv, ConsumeClear
  PROVE  IInv'
<1> USE DEF IInv, ConsumeClear, producerVars
<1>1. Reading' /\ Reading /\ Filling' = Filling /\ Filled' = Filled
  BY DEF Filling, Reading, Filled
<1>2. TypeOK'
  BY DEF TypeOK, Places
<1>3. LocksHeld'
  BY <1>1 DEF LocksHeld
<1>4. CountRight'
  BY <1>1 DEF CountRight, Succ
<1>5. FramesFilled'
  BY <1>1 DEF FramesFilled, FrameAt
<1> QED BY <1>2, <1>3, <1>4, <1>5

LEMMA EndConsumeKeeps ==
  ASSUME IInv, EndConsume
  PROVE  IInv'
<1> USE DEF IInv, EndConsume, producerVars, eventVars
<1>1. ~Reading' /\ Reading /\ Filling' = Filling /\ Filled' = Filled
  BY DEF Filling, Reading, Filled
<1>2. TypeOK'
  BY DEF TypeOK, Places, Threads, Nobody
<1>3. LocksHeld'
  BY <1>1 DEF LocksHeld, TypeOK
<1>4. CountRight'
  BY <1>1 DEF CountRight, Succ
<1>5. FramesFilled'
  BY <1>1 DEF FramesFilled, FrameAt
<1> QED BY <1>2, <1>3, <1>4, <1>5

LEMMA InvInit == Init => IInv
<1> SUFFICES ASSUME Init PROVE IInv
  OBVIOUS
<1>1. /\ abort \in BOOLEAN /\ notFull \in BOOLEAN /\ notEmpty \in BOOLEAN
      /\ ~Filling /\ ~Reading
  BY Zenon DEF Init, Filling, Reading
<1>2. TypeOK
  BY <1>1 DEF Init, TypeOK, Threads, Places, Index
<1>3. LocksHeld /\ CountRight
  BY <1>1 DEF Init, LocksHeld, CountRight, Index
<1>4. FramesFilled
  BY <1>1 DEF Init, FramesFilled, Filled
<1> QED BY <1>2, <1>3, <1>4 DEF IInv

LEMMA InvStep == IInv /\ [Next]_vars => IInv'
<1> SUFFICES ASSUME IInv, [Next]_vars PROVE IInv'
  OBVIOUS
<1>1. CASE StartProduce \/ ProduceLock \/ ProduceWoken \/ ProduceSpurious
           \/ ProduceSignal \/ ProduceAbort
  BY <1>1, ProducerWaits
<1>2. CASE ProduceFrame
  BY <1>2, ProduceFrameKeeps
<1>3. CASE ProduceClear
  BY <1>3, ProduceClearKeeps
<1>4. CASE \E d \in Data : EndProduce(d)
  BY <1>4, EndProduceKeeps
<1>5. CASE StartConsume \/ ConsumeLock \/ ConsumeWoken \/ ConsumeSpurious
           \/ ConsumeSignal \/ ConsumeAbort
  BY <1>5, ConsumerWaits
<1>6. CASE ConsumeFrame
  BY <1>6, ConsumeFrameKeeps
<1>7. CASE ConsumeClear
  BY <1>7, ConsumeClearKeeps
<1>8. CASE EndConsume
  BY <1>8, EndConsumeKeeps
<1>9. CASE SetAbort \/ UNCHANGED vars
  <2> USE DEF IInv, producerVars, consumerVars, lockVars, eventVars
  <2>1. UNCHANGED <<producerVars, consumerVars, count, lockVars, eventVars, frames>>
    BY <1>9 DEF SetAbort, vars
  <2>2. abort' \in BOOLEAN
    <3>1. CASE SetAbort
      BY <3>1, Zenon DEF SetAbort
    <3>2. CASE UNCHANGED vars
      <4>1. abort' = abort
        BY <3>2 DEF vars
      <4> QED BY <4>1, Zenon DEF TypeOK
    <3> QED BY <1>9, <3>1, <3>2
  <2>3. TypeOK'
    BY <2>1, <2>2 DEF TypeOK
  <2>4. LocksHeld' /\ CountRight' /\ FramesFilled'
    BY <2>1 DEF LocksHeld, CountRight, FramesFilled, Filling, Reading, Filled, FrameAt, Succ
  <2> QED BY <2>3, <2>4
<1> QED BY <1>1, <1>2, <1>3, <1>4, <1>5, <1>6, <1>7, <1>8, <1>9 DEF Next, Produce, Consume

-----------------------------------------------------------------------------
(* The ring implements the queue *)

Fifo  == [i \in 1 .. Filled |-> frames[FrameAt(i)]]
Reads == IF Reading THEN frames[emptyIndex] ELSE Torn

LEMMA FifoIsSeq ==
  ASSUME IInv
  PROVE  Fifo \in Seq(Data) /\ Len(Fifo) = Filled /\ Filled \in 0 .. NumFrames
<1>1. Filled \in 0 .. NumFrames
  BY DEF IInv, TypeOK, CountRight, Filled
<1> QED BY <1>1 DEF Fifo, IInv, FramesFilled

\* What neither fills a frame nor takes or gives back one is a stuttering step.
LEMMA StepHidden ==
  ASSUME IInv,
         \/ StartProduce \/ ProduceLock \/ ProduceWoken \/ ProduceSpurious
         \/ ProduceClear \/ ProduceSignal \/ ProduceAbort
         \/ StartConsume \/ ConsumeLock \/ ConsumeWoken \/ ConsumeSpurious
         \/ ConsumeClear \/ ConsumeSignal \/ ConsumeAbort
         \/ SetAbort \/ UNCHANGED vars
  PROVE  Fifo' = Fifo /\ Reads' = Reads
<1> USE DEF producerVars, consumerVars, lockVars, eventVars, Filling, Reading
<1>1. UNCHANGED <<tail, count, emptyIndex, frames, Filling, Reading>>
  <2>1. CASE StartProduce    BY <2>1 DEF StartProduce
  <2>2. CASE ProduceLock     BY <2>2 DEF ProduceLock
  <2>3. CASE ProduceWoken    BY <2>3 DEF ProduceWoken
  <2>4. CASE ProduceSpurious BY <2>4 DEF ProduceSpurious
  <2>5. CASE ProduceClear    BY <2>5 DEF ProduceClear
  <2>6. CASE ProduceSignal   BY <2>6 DEF ProduceSignal
  <2>7. CASE ProduceAbort    BY <2>7 DEF ProduceAbort
  <2>8. CASE StartConsume    BY <2>8 DEF StartConsume
  <2>9. CASE ConsumeLock     BY <2>9 DEF ConsumeLock
  <2>10. CASE ConsumeWoken    BY <2>10 DEF ConsumeWoken
  <2>11. CASE ConsumeSpurious BY <2>11 DEF ConsumeSpurious
  <2>12. CASE ConsumeClear    BY <2>12 DEF ConsumeClear
  <2>13. CASE ConsumeSignal   BY <2>13 DEF ConsumeSignal
  <2>14. CASE ConsumeAbort    BY <2>14 DEF ConsumeAbort
  <2>15. CASE SetAbort        BY <2>15 DEF SetAbort
  <2>16. CASE UNCHANGED vars  BY <2>16 DEF vars
  <2> QED BY <2>1, <2>2, <2>3, <2>4, <2>5, <2>6, <2>7, <2>8, <2>9, <2>10, <2>11, <2>12,
             <2>13, <2>14, <2>15, <2>16
<1> QED BY <1>1 DEF Fifo, Reads, Filled, FrameAt

\* The frame that is to be filled is neither of those that are nor the one read.
LEMMA FrameHidden ==
  ASSUME IInv, ProduceFrame
  PROVE  Fifo' = Fifo /\ Reads' = Reads
<1> USE DEF IInv, ProduceFrame, consumerVars
<1>1. /\ Reading' = Reading /\ UNCHANGED emptyIndex
      /\ Filled' = Filled /\ Filled = count /\ count \in 0 .. NumFrames - 1
  BY DEF Filling, Reading, Filled, TypeOK, CountRight
<1>2. Reading => emptyIndex # head
  BY DEF LocksHeld, Nobody
<1>3. ASSUME NEW i \in 1 .. Filled
      PROVE  frames'[FrameAt(i)'] = frames[FrameAt(i)]
  <2>1. FrameAt(count + 1) = head
    BY <1>1, FrameAtHead DEF CountRight, TypeOK
  <2>2. FrameAt(i) # head
    BY <1>1, <2>1, FrameAtInjective DEF TypeOK
  <2>3. FrameAt(i)' = FrameAt(i)
    BY DEF FrameAt
  <2> QED BY <1>1, <2>2, <2>3, FrameAtInRing DEF TypeOK
<1> QED BY <1>1, <1>2, <1>3 DEF Fifo, Reads, TypeOK

\* A frame that has been filled joins the others at the end.
LEMMA FramePut ==
  ASSUME IInv, NEW d \in Data, EndProduce(d)
  PROVE  /\ Len(Fifo) + (IF Reads = Torn THEN 0 ELSE 1) < NumFrames
         /\ Fifo' = Append(Fifo, d) /\ Reads' = Reads
<1> USE DEF IInv, EndProduce, consumerVars
<1>1. /\ Reading' = Reading /\ UNCHANGED emptyIndex
      /\ Filled' = count /\ Filled = count - 1 /\ count \in 1 .. NumFrames
  BY DEF Filling, Reading, Filled, TypeOK, CountRight
<1>2. Reading => emptyIndex # fillIndex
  BY <1>1 DEF LocksHeld, Filling
<1>3. Reads' = Reads
  BY <1>1, <1>2 DEF Reads, TypeOK
<1>4. Len(Fifo) + (IF Reads = Torn THEN 0 ELSE 1) < NumFrames
  BY <1>1, FifoIsSeq DEF Reads, CountRight
<1>5. FrameAt(count) = fillIndex
  BY <1>1, FrameAtLast DEF TypeOK, CountRight, Filling
<1>6. ASSUME NEW i \in 1 .. count
      PROVE  Fifo'[i] = Append(Fifo, d)[i]
  <2>1. FrameAt(i)' = FrameAt(i)
    BY DEF FrameAt
  <2>2. Fifo'[i] = frames'[FrameAt(i)]
    BY <1>1, <2>1 DEF Fifo
  <2>3. CASE i = count
    BY <1>1, <1>5, <2>2, <2>3, FifoIsSeq DEF TypeOK
  <2>4. CASE i # count
    <3>1. FrameAt(i) # fillIndex
      BY <1>1, <1>5, <2>4, FrameAtInjective DEF TypeOK
    <3>2. frames'[FrameAt(i)] = Fifo[i]
      BY <1>1, <2>4, <3>1, FrameAtInRing DEF TypeOK, Fifo
    <3> QED BY <1>1, <2>2, <2>4, <3>2, FifoIsSeq
  <2> QED BY <2>3, <2>4
<1>7. Fifo' \in Seq(Data) /\ Len(Fifo') = count
  <2>1. IInv'
    BY EndProduceKeeps
  <2> QED BY <1>1, <2>1 DEF FramesFilled, Fifo
<1>8. Append(Fifo, d) \in Seq(Data) /\ Len(Append(Fifo, d)) = count
  BY <1>1, FifoIsSeq
<1>9. Fifo' = Append(Fifo, d)
  BY <1>6, <1>7, <1>8, SeqEqual
<1> QED BY <1>3, <1>4, <1>9

\* The frame taken is the first.
LEMMA FrameTaken ==
  ASSUME IInv, ConsumeFrame
  PROVE  Reads = Torn /\ Fifo # << >> /\ Reads' = Head(Fifo) /\ Fifo' = Tail(Fifo)
<1> USE DEF IInv, ConsumeFrame, producerVars
<1>1. /\ Reading' /\ ~Reading /\ Filled' = Filled - 1 /\ UNCHANGED frames
      /\ emptyIndex' = tail /\ FrameAt(1) = tail
      /\ Filled \in 1 .. NumFrames
  BY TakesFilled DEF Filling, Reading, Filled
<1>2. Reads = Torn /\ Fifo # << >> /\ Reads' = Head(Fifo)
  BY <1>1, FifoIsSeq DEF Reads, Fifo
<1>3. ASSUME NEW i \in 1 .. Filled - 1
      PROVE  Fifo'[i] = Tail(Fifo)[i]
  <2>1. FrameAt(i)' = FrameAt(i + 1)
    BY <1>1, FrameAtNext DEF TypeOK
  <2>2. Fifo'[i] = frames[FrameAt(i + 1)]
    BY <1>1, <2>1 DEF Fifo
  <2>3. Fifo[i + 1] = frames[FrameAt(i + 1)]
    BY <1>1 DEF Fifo
  <2> QED BY <1>1, <1>2, <2>2, <2>3, FifoIsSeq
<1>4. Fifo' \in Seq(Data) /\ Len(Fifo') = Filled - 1
  <2>1. IInv'
    BY ConsumeFrameKeeps
  <2> QED BY <1>1, <2>1 DEF FramesFilled, Fifo
<1>5. Tail(Fifo) \in Seq(Data) /\ Len(Tail(Fifo)) = Filled - 1
  BY <1>1, <1>2, FifoIsSeq
<1>6. Fifo' = Tail(Fifo)
  BY <1>3, <1>4, <1>5, SeqEqual
<1> QED BY <1>2, <1>6

LEMMA FrameGivenBack ==
  ASSUME IInv, EndConsume
  PROVE  Reads # Torn /\ Reads' = Torn /\ Fifo' = Fifo
<1> USE DEF IInv, EndConsume, producerVars
<1>1. /\ ~Reading' /\ Reading /\ Filled' = Filled /\ UNCHANGED <<tail, frames>>
  BY DEF Filling, Reading, Filled
<1> QED BY <1>1 DEF Reads, Fifo, FrameAt, FramesFilled

LEMMA QueueInit == Init => Queue!Init
<1> SUFFICES ASSUME Init PROVE Queue!Init
  OBVIOUS
<1>1. ~Filling /\ ~Reading
  BY Zenon DEF Init, Filling, Reading
<1>2. Filled = 0
  <2>1. count = 0
    BY Zenon DEF Init
  <2>2. Filled = count - 0
    BY <1>1, Zenon DEF Filled
  <2> QED BY <2>1, <2>2
<1> QED BY <1>1, <1>2 DEF Queue!Init

LEMMA QueueStep == IInv /\ [Next]_vars => [Queue!Next]_Queue!vars
<1> SUFFICES ASSUME IInv, [Next]_vars PROVE [Queue!Next]_Queue!vars
  OBVIOUS
<1> USE DEF Fifo, Reads
<1>1. CASE ProduceFrame
  BY <1>1, FrameHidden DEF Queue!vars
<1>2. CASE \E d \in Data : EndProduce(d)
  BY <1>2, FramePut DEF Queue!Next, Queue!Put
<1>3. CASE ConsumeFrame
  BY <1>3, FrameTaken DEF Queue!Next, Queue!Take
<1>4. CASE EndConsume
  BY <1>4, FrameGivenBack DEF Queue!Next, Queue!GiveBack
<1>5. CASE \/ StartProduce \/ ProduceLock \/ ProduceWoken \/ ProduceSpurious
           \/ ProduceClear \/ ProduceSignal \/ ProduceAbort
           \/ StartConsume \/ ConsumeLock \/ ConsumeWoken \/ ConsumeSpurious
           \/ ConsumeClear \/ ConsumeSignal \/ ConsumeAbort
           \/ SetAbort \/ UNCHANGED vars
  BY <1>5, StepHidden DEF Queue!vars
<1> QED BY <1>1, <1>2, <1>3, <1>4, <1>5 DEF Next, Produce, Consume

LEMMA WakeupStep == IInv /\ WakeupPending /\ [Next]_vars => WakeupPending'
<1> SUFFICES ASSUME IInv, WakeupPending, [Next]_vars PROVE WakeupPending'
  OBVIOUS
<1> USE DEF WakeupPending, producerVars, consumerVars, lockVars, eventVars
<1>1. CASE StartProduce    BY <1>1 DEF StartProduce
<1>2. CASE ProduceLock     BY <1>2 DEF ProduceLock
<1>3. CASE ProduceWoken    BY <1>3 DEF ProduceWoken
<1>4. CASE ProduceSpurious BY <1>4 DEF ProduceSpurious
<1>5. CASE ProduceFrame    BY <1>5 DEF ProduceFrame, IInv, LocksHeld
<1>6. CASE ProduceClear    BY <1>6 DEF ProduceClear
<1>7. CASE \E d \in Data : EndProduce(d)
  BY <1>7 DEF EndProduce
<1>8. CASE ProduceSignal   BY <1>8 DEF ProduceSignal
<1>9. CASE ProduceAbort    BY <1>9 DEF ProduceAbort
<1>10. CASE StartConsume    BY <1>10 DEF StartConsume
<1>11. CASE ConsumeLock     BY <1>11 DEF ConsumeLock
<1>12. CASE ConsumeWoken    BY <1>12 DEF ConsumeWoken
<1>13. CASE ConsumeSpurious BY <1>13 DEF ConsumeSpurious
<1>14. CASE ConsumeFrame    BY <1>14 DEF ConsumeFrame
<1>15. CASE ConsumeClear    BY <1>15 DEF ConsumeClear
<1>16. CASE EndConsume      BY <1>16 DEF EndConsume
<1>17. CASE ConsumeSignal   BY <1>17 DEF ConsumeSignal
<1>18. CASE ConsumeAbort    BY <1>18 DEF ConsumeAbort
<1>19. CASE SetAbort        BY <1>19 DEF SetAbort
<1>20. CASE UNCHANGED vars  BY <1>20 DEF vars
<1> QED BY <1>1, <1>2, <1>3, <1>4, <1>5, <1>6, <1>7, <1>8, <1>9, <1>10, <1>11, <1>12, <1>13,
           <1>14, <1>15, <1>16, <1>17, <1>18, <1>19, <1>20 DEF Next, Produce, Consume

LEMMA InvAlways == Spec => []IInv
BY InvInit, InvStep, PTL DEF Spec

\* Indices stay in the ring and the count within its size, though the producer
\* and the consumer each look at the count long before they change it.
THEOREM TypeCorrect == Spec => []TypeOK
<1>1. IInv => TypeOK
  BY DEF IInv
<1> QED BY <1>1, InvAlways, PTL

\* A thread that waits while it could go on is always about to be told, or has
\* been: events are set and cleared outside the lock that the count is under.
THEOREM WakeupsKept == Spec => []WakeupPending
<1>1. Init => WakeupPending
  BY Zenon DEF Init, WakeupPending
<1>2. IInv /\ WakeupPending /\ [Next]_vars => WakeupPending'
  BY WakeupStep
<1> QED BY <1>1, <1>2, InvAlways, PTL DEF Spec

\* Frames reach the consumer in order, each once and whole, whatever the number
\* of frames, and whenever the threads are told to leave.
THEOREM RingIsQueue == Spec => QueueSpec
<1>1. Init => Queue!Init
  BY QueueInit
<1>2. IInv /\ [Next]_vars => [Queue!Next]_Queue!vars
  BY QueueStep
<1> QED BY <1>1, <1>2, InvAlways, PTL DEF Spec, QueueSpec, Queue!Spec

=============================================================================
