--------------------------- MODULE CircularBuffer ---------------------------
(***************************************************************************)
(* AJACircularBuffer, src/ajabase/common/circularbuffer.h: the ring of     *)
(* frames between one producer and one consumer thread, with the AJALocks  *)
(* and AJAEvents it is made of and the flag that asks both to leave.       *)
(*                                                                         *)
(* One step of a thread is one lock operation with what it protects, or    *)
(* one event operation, told apart by p and c.  Every wait has a timeout;  *)
(* one that passes matters only if the abort flag is set by then.          *)
(***************************************************************************)
EXTENDS Integers, Sequences

CONSTANTS
  NumFrames,   \* mFrames.size(), what Add was called for
  Data,        \* what a frame may be filled with
  Torn,        \* the content of a frame that nobody has filled
  Spurious     \* whether a condition variable may wake a thread for no reason

ASSUME RingAssumption ==
  NumFrames \in Nat \ {0} /\ Torn \notin Data /\ Spurious \in BOOLEAN

VARIABLES
  head, tail, count,        \* mHead, mTail, mCircBufferCount
  fillIndex, emptyIndex,    \* mFillIndex, mEmptyIndex
  dataLock,                 \* mDataBufferLock: the thread that has it
  locks,                    \* mLocks: the thread that has each
  notFull, notEmpty,        \* the events
  frames,                   \* mFrames
  abort,                    \* *mAbortFlag
  p, c                      \* where the producer and the consumer are

producerVars == <<p, head, fillIndex>>
consumerVars == <<c, tail, emptyIndex>>
lockVars     == <<dataLock, locks>>
eventVars    == <<notFull, notEmpty>>
vars == <<producerVars, consumerVars, count, lockVars, eventVars, frames, abort>>

Index   == 0 .. NumFrames - 1
Threads == {"producer", "consumer"}
Nobody  == "nobody"
Places  == {"out", "lock", "wait", "frame", "clear", "work", "signal"}

\* Mutant of Succ: wraps one frame late.
SuccLate(i) == IF i = NumFrames THEN 0 ELSE i + 1

\* The frame after frame i.
Succ(i) == IF i = NumFrames - 1 THEN 0 ELSE i + 1

TypeOK ==
  /\ head \in Index /\ tail \in Index /\ count \in 0 .. NumFrames
  /\ fillIndex \in Index /\ emptyIndex \in Index
  /\ dataLock \in Threads \cup {Nobody} /\ locks \in [Index -> Threads \cup {Nobody}]
  /\ notFull \in BOOLEAN /\ notEmpty \in BOOLEAN
  /\ frames \in [Index -> Data \cup {Torn}]
  /\ abort \in BOOLEAN
  /\ p \in Places /\ c \in Places

Init ==
  /\ head = 0 /\ tail = 0 /\ count = 0
  /\ fillIndex = 0 /\ emptyIndex = 0
  /\ dataLock = Nobody /\ locks = [i \in Index |-> Nobody]
  /\ notFull = FALSE /\ notEmpty = FALSE
  /\ frames = [i \in Index |-> Torn]
  /\ abort = FALSE
  /\ p = "out" /\ c = "out"

-----------------------------------------------------------------------------
(* StartProduceNextBuffer *)

\* Clients do not call again once they have seen the flag.
StartProduce ==
  /\ p = "out" /\ ~abort
  /\ p' = "lock"
  /\ UNCHANGED <<head, fillIndex, consumerVars, count, lockVars, eventVars, frames, abort>>

\* The lock is given up again if the ring is full.
ProduceLock ==
  /\ p = "lock" /\ dataLock = Nobody
  /\ IF count = NumFrames THEN p' = "wait" /\ UNCHANGED dataLock
                          ELSE p' = "frame" /\ dataLock' = "producer"
  /\ UNCHANGED <<head, fillIndex, consumerVars, count, locks, eventVars, frames, abort>>

\* WaitForEventOrAbort goes on as soon as the event is set, which it stays ...
ProduceWoken ==
  /\ p = "wait" /\ notFull
  /\ p' = "lock"
  /\ UNCHANGED <<head, fillIndex, consumerVars, count, lockVars, eventVars, frames, abort>>

\* ... or for no reason, which counts as a signal.
ProduceSpurious ==
  /\ Spurious /\ p = "wait" /\ ~notFull
  /\ p' = "lock"
  /\ UNCHANGED <<head, fillIndex, consumerVars, count, lockVars, eventVars, frames, abort>>

\* The frame counts before it is filled.  What it held is gone.
ProduceFrame ==
  /\ p = "frame" /\ locks[head] = Nobody
  /\ locks' = [locks EXCEPT ![head] = "producer"]
  /\ fillIndex' = head /\ head' = Succ(head)
  /\ count' = count + 1
  /\ frames' = [frames EXCEPT ![head] = Torn]
  /\ p' = "clear"
  /\ UNCHANGED <<consumerVars, dataLock, eventVars, abort>>

ProduceClear ==
  /\ p = "clear"
  /\ notFull' = (notFull /\ count # NumFrames)
  /\ dataLock' = Nobody
  /\ p' = "work"
  /\ UNCHANGED <<head, fillIndex, consumerVars, count, locks, notEmpty, frames, abort>>

\* The client has filled the frame; EndProduceNextBuffer lets go of it ...
EndProduce(d) ==
  /\ p = "work"
  /\ frames' = [frames EXCEPT ![fillIndex] = d]
  /\ locks' = [locks EXCEPT ![fillIndex] = Nobody]
  /\ p' = "signal"
  /\ UNCHANGED <<head, fillIndex, consumerVars, count, dataLock, eventVars, abort>>

\* Mutant of ProduceSignal: the event of the other side is set.
ProduceSignalNotFull ==
  /\ p = "signal"
  /\ notFull' = TRUE
  /\ p' = "out"
  /\ UNCHANGED <<head, fillIndex, consumerVars, count, lockVars, notEmpty, frames, abort>>

\* ... and then says so.
ProduceSignal ==
  /\ p = "signal"
  /\ notEmpty' = TRUE
  /\ p' = "out"
  /\ UNCHANGED <<head, fillIndex, consumerVars, count, lockVars, notFull, frames, abort>>

\* A wait that times out sees the flag.  One for a frame leaves the ring locked.
ProduceAbort ==
  /\ abort
  /\ \/ p = "lock" /\ dataLock # Nobody
     \/ p = "wait" /\ ~notFull
     \/ p = "frame" /\ locks[head] # Nobody
  /\ p' = "out"
  /\ UNCHANGED <<head, fillIndex, consumerVars, count, lockVars, eventVars, frames, abort>>

-----------------------------------------------------------------------------
(* StartConsumeNextBuffer *)

StartConsume ==
  /\ c = "out" /\ ~abort
  /\ c' = "lock"
  /\ UNCHANGED <<producerVars, tail, emptyIndex, count, lockVars, eventVars, frames, abort>>

\* Mutant of ConsumeLock: a consumer that finds nothing waits with the lock.
ConsumeLockKeeps ==
  /\ c = "lock" /\ dataLock = Nobody
  /\ c' = IF count = 0 THEN "wait" ELSE "frame"
  /\ dataLock' = "consumer"
  /\ UNCHANGED <<producerVars, tail, emptyIndex, count, locks, eventVars, frames, abort>>

ConsumeLock ==
  /\ c = "lock" /\ dataLock = Nobody
  /\ IF count = 0 THEN c' = "wait" /\ UNCHANGED dataLock
                  ELSE c' = "frame" /\ dataLock' = "consumer"
  /\ UNCHANGED <<producerVars, tail, emptyIndex, count, locks, eventVars, frames, abort>>

ConsumeWoken ==
  /\ c = "wait" /\ notEmpty
  /\ c' = "lock"
  /\ UNCHANGED <<producerVars, tail, emptyIndex, count, lockVars, eventVars, frames, abort>>

ConsumeSpurious ==
  /\ Spurious /\ c = "wait" /\ ~notEmpty
  /\ c' = "lock"
  /\ UNCHANGED <<producerVars, tail, emptyIndex, count, lockVars, eventVars, frames, abort>>

\* Mutant of ConsumeFrame: the lock of the frame is not waited for.
ConsumeFrameUnlocked ==
  /\ c = "frame"
  /\ emptyIndex' = tail /\ tail' = Succ(tail)
  /\ count' = count - 1
  /\ c' = "clear"
  /\ UNCHANGED <<producerVars, lockVars, eventVars, frames, abort>>

\* A frame may count that is still being filled: its lock is.
ConsumeFrame ==
  /\ c = "frame" /\ locks[tail] = Nobody
  /\ locks' = [locks EXCEPT ![tail] = "consumer"]
  /\ emptyIndex' = tail /\ tail' = Succ(tail)
  /\ count' = count - 1
  /\ c' = "clear"
  /\ UNCHANGED <<producerVars, dataLock, eventVars, frames, abort>>

ConsumeClear ==
  /\ c = "clear"
  /\ notEmpty' = (notEmpty /\ count # 0)
  /\ dataLock' = Nobody
  /\ c' = "work"
  /\ UNCHANGED <<producerVars, tail, emptyIndex, count, locks, notFull, frames, abort>>

\* EndConsumeNextBuffer
EndConsume ==
  /\ c = "work"
  /\ locks' = [locks EXCEPT ![emptyIndex] = Nobody]
  /\ c' = "signal"
  /\ UNCHANGED <<producerVars, tail, emptyIndex, count, dataLock, eventVars, frames, abort>>

\* Mutant of ConsumeSignal: the producer is told once the ring has run dry.
ConsumeSignalDry ==
  /\ c = "signal"
  /\ notFull' = (notFull \/ count = 0)
  /\ c' = "out"
  /\ UNCHANGED <<producerVars, tail, emptyIndex, count, lockVars, notEmpty, frames, abort>>

ConsumeSignal ==
  /\ c = "signal"
  /\ notFull' = TRUE
  /\ c' = "out"
  /\ UNCHANGED <<producerVars, tail, emptyIndex, count, lockVars, notEmpty, frames, abort>>

ConsumeAbort ==
  /\ abort
  /\ \/ c = "lock" /\ dataLock # Nobody
     \/ c = "wait" /\ ~notEmpty
     \/ c = "frame" /\ locks[tail] # Nobody
  /\ c' = "out"
  /\ UNCHANGED <<producerVars, tail, emptyIndex, count, lockVars, eventVars, frames, abort>>

-----------------------------------------------------------------------------
\* The client sets the flag that SetAbortFlag has pointed to.
SetAbort ==
  /\ abort' = TRUE
  /\ UNCHANGED <<producerVars, consumerVars, count, lockVars, eventVars, frames>>

Produce == \/ ProduceLock \/ ProduceWoken \/ ProduceFrame \/ ProduceClear
           \/ (\E d \in Data : EndProduce(d)) \/ ProduceSignal \/ ProduceAbort

Consume == \/ ConsumeLock \/ ConsumeWoken \/ ConsumeFrame \/ ConsumeClear
           \/ EndConsume \/ ConsumeSignal \/ ConsumeAbort

Next == \/ StartProduce \/ Produce \/ ProduceSpurious
        \/ StartConsume \/ Consume \/ ConsumeSpurious
        \/ SetAbort

\* Threads inside a call, or with a frame, go on.
Fairness == WF_vars(Produce) /\ WF_vars(Consume)

Spec == Init /\ [][Next]_vars /\ Fairness

-----------------------------------------------------------------------------
(* Properties *)

\* The producer has a frame, so that one of those counted is not filled yet.
Filling == p \in {"clear", "work"}
Reading == c \in {"clear", "work"}

Filled == count - (IF Filling THEN 1 ELSE 0)

\* The i-th frame from the tail.
FrameAt(i) == LET k == tail + i - 1 IN IF k < NumFrames THEN k ELSE k - NumFrames

Queue == INSTANCE FrameQueue WITH
  Capacity <- NumFrames,
  Nothing  <- Torn,
  fifo     <- [i \in 1 .. Filled |-> frames[FrameAt(i)]],
  reading  <- IF Reading THEN frames[emptyIndex] ELSE Torn

\* Frames are consumed in the order they were produced, each once and whole,
\* though a frame counts before it is filled and is free before it is signalled.
QueueSpec == Queue!Spec

\* No wake-up is lost: a thread that waits while it could go on has its event
\* set, or the other thread has yet to set it.  A timeout would not help, since
\* the wait is taken up again without another look at the count.
WakeupPending ==
  /\ p = "wait" /\ count < NumFrames => notFull \/ c \in {"clear", "work", "signal"}
  /\ c = "wait" /\ count > 0 => notEmpty \/ p \in {"clear", "work", "signal"}

\* A consumer that asks for a frame gets one if there are any, and a producer
\* if there is room, though each may hold the ring while it waits for a frame.
ConsumerServed ==
  (c \in {"lock", "wait", "frame"} /\ Filled > 0) ~> (c = "work" \/ abort)

ProducerServed ==
  (p \in {"lock", "wait", "frame"} /\ count < NumFrames) ~> (p = "work" \/ abort)

\* SetAbortFlag: the flag "will cause any threads waiting on my events/locks to
\* gracefully exit".
AbortFrees == abort ~> (p = "out" /\ c = "out")
=============================================================================
