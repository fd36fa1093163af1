---------------------------- MODULE StreamEngine ----------------------------
(***************************************************************************)
(* One DMA stream: the queue of user buffers of src/driver/ntv2stream.c,   *)
(* the hardware operations of src/driver/linux/ntv2dma.c (dmaOps...), the  *)
(* DMA engine that walks the descriptor chain by itself, and the threads   *)
(* that wait for stream events.                                            *)
(*                                                                         *)
(* Commands hold state_sema, so one runs at a time; a command that gives   *)
(* the engine lock up between its operations is several steps, told apart  *)
(* by cmd.  The DMA interrupt takes no semaphore: ntv2_stream_channel_     *)
(* advance is one step per engine lock section or unlocked access, told    *)
(* apart by isr, and runs between the steps of any command.                *)
(***************************************************************************)
EXTENDS Integers

CONSTANTS
  NumBuffers,    \* NTV2_STREAM_NUM_BUFFERS
  NumDescs,      \* maxDescriptors, in blocks: a buffer takes one block
  InitAdvance,   \* init_advance: interrupts to ignore while starting
  Owners,        \* open file handles
  NoOwner,
  Waiters,       \* threads that call ntv2_stream_channel_wait
  WaitClients,   \* NTV2_STREAM_WAIT_CLIENTS
  Faults,        \* the hardware may report an error
  Timeouts,      \* a wait may time out, or be interrupted by a signal
  MaxOverlap,    \* bound: commands that may begin while one interrupt is served
  Strays         \* bound: clients go on with a stream that is exposed

ASSUME StreamAssumption ==
  /\ NumBuffers \in Nat /\ NumBuffers >= 2
  /\ NumDescs \in Nat /\ NumDescs >= 2
  /\ InitAdvance \in Nat
  /\ WaitClients \in Nat
  /\ MaxOverlap \in Nat
  /\ NoOwner \notin Owners
  /\ {Faults, Timeouts, Strays} \subseteq BOOLEAN

VARIABLES
  streamState,   \* stream_state: what the clients want
  engineState,   \* engine_state: what the interrupt has seen
  owner,
  flags,         \* the flags of each stream_buffers entry
  head, tail, active, next,   \* ..._index
  initCount,
  ds,            \* ds_index of each buffer: the block built for it
  strDesc,       \* strDescriptorIndex: the block to build next
  desc,          \* descriptor memory
  hwOn, hwDesc,  \* the engine runs; the block it transfers
  irq,           \* a block is complete, its interrupt not served
  isr, isrNext,  \* where ntv2_stream_channel_advance is; its local "next"
  overlap,       \* commands begun since the interrupt being served
  cmd,           \* the command that holds state_sema
  session,       \* history: how clients have used the stream
  inuse,         \* wait_inuse
  event,         \* the flag of each wait_events entry
  wst, slot      \* where each waiter is; its event_index

bufferVars == <<flags, head, tail, active, next>>
memoryVars == <<ds, strDesc, desc>>
hwVars     == <<hwOn, hwDesc, irq>>
isrVars    == <<isr, isrNext, overlap>>
waitVars   == <<inuse, event, wst, slot>>
vars == <<streamState, engineState, owner, bufferVars, initCount, memoryVars,
          hwVars, isrVars, cmd, session, waitVars>>

Slots    == 0 .. NumBuffers - 1
Descs    == 0 .. NumDescs - 1
Clients  == 0 .. WaitClients - 1
None     == -1
States   == {"disabled", "initialized", "released", "idle", "active", "error"}
FlagSet  == {"queued", "linked", "completed", "flushed"}
Commands == {"none", "initialize", "release", "enable", "disable", "flush"}
IsrSteps == {"out", "complete", "move", "state", "scan", "link", "signal"}
WaitSteps == {"out", "claimed", "asleep"}

\* How clients have used the stream since it was last released and empty.
\*   fresh    initialised from the released state, and used as the driver bears
\*   stale    not initialised yet, or initialised over a queue that was in use
\*   exposed  gone on with while stale, stopped with nothing queued, flushed of a
\*            buffer that is in hand, or served by a handler that was too slow
\* Not all of it is the clients' fault: ntv2card.h allows the second Initialize
\* and any flush of an initialised or idle stream.  No operation refuses it, but
\* the driver does not withstand it, and promises nothing until a release.
Sessions == {"fresh", "stale", "exposed"}

\* Mutant of NextSlot: the index does not wrap.
NextSlotUnwrapped(i) == i + 1

NextSlot(i) == IF i = NumBuffers - 1 THEN 0 ELSE i + 1
PrevSlot(i) == IF i = 0 THEN NumBuffers - 1 ELSE i - 1

\* Mutant of NextDesc: the next block is built over the last one.
NextDescStuck(d) == d

NextDesc(d) == IF d = NumDescs - 1 THEN 0 ELSE d + 1
Ahead(a, b) == IF a <= b THEN b - a ELSE b - a + NumBuffers

Running == streamState \in {"active", "idle"}
Usable  == streamState \notin {"disabled", "released", "error"}
Free    == cmd.op = "none"

\* The commands that may begin during one interrupt before the handler is too
\* slow: from the fourth on it may complete a buffer queued since.
MostOverlap == 3

Exposed == session = "exposed" \/ overlap > MostOverlap

\* Bound: once a stream is exposed, or about to be, nothing but releases begins.
Bounded ==
  Strays \/ ~(Exposed \/ (session = "stale" /\ streamState = "initialized"))

TypeOK ==
  /\ streamState \in States /\ engineState \in States
  /\ owner \in Owners \cup {NoOwner}
  /\ flags \in [Slots -> SUBSET FlagSet]
  /\ head \in Slots /\ tail \in Slots /\ active \in Slots /\ next \in Slots
  /\ initCount \in 0 .. InitAdvance
  /\ ds \in [Slots -> Descs]
  /\ strDesc \in Descs
  /\ desc \in [Descs -> [buf : Slots \cup {None}, next : Descs]]
  /\ hwOn \in BOOLEAN /\ hwDesc \in Descs /\ irq \in BOOLEAN
  /\ isr \in IsrSteps /\ isrNext \in Slots /\ overlap \in 0 .. MaxOverlap
  /\ cmd \in [op : Commands, at : Slots]
  /\ session \in Sessions
  /\ inuse \in [Clients -> BOOLEAN] /\ event \in [Clients -> BOOLEAN]
  /\ wst \in [Waiters -> WaitSteps] /\ slot \in [Waiters -> Clients \cup {None}]

Idle == [op |-> "none", at |-> 0]

\* After ntv2_stream_configure.
Init ==
  /\ streamState = "disabled" /\ engineState = "disabled"
  /\ owner = NoOwner
  /\ flags = [i \in Slots |-> {}]
  /\ head = 0 /\ tail = 0 /\ active = 0 /\ next = 0
  /\ initCount = 0
  /\ ds = [i \in Slots |-> 0]
  /\ strDesc = 0
  /\ desc = [d \in Descs |-> [buf |-> None, next |-> 0]]
  /\ hwOn = FALSE /\ hwDesc = 0 /\ irq = FALSE
  /\ isr = "out" /\ isrNext = 0 /\ overlap = 0
  /\ cmd = Idle
  /\ session = "stale"
  /\ inuse = [c \in Clients |-> FALSE]
  /\ event = [c \in Clients |-> FALSE]
  /\ wst = [w \in Waiters |-> "out"]
  /\ slot = [w \in Waiters |-> None]

-----------------------------------------------------------------------------
(* The hardware operations (struct ntv2_stream_ops). *)

\* dmaXlnxStreamStop: interrupt off, DMA off, wait until it is inactive.
HardwareStop == hwOn' = FALSE /\ irq' = FALSE /\ UNCHANGED hwDesc

\* dmaXlnxStreamStart, always at descriptor index 0.
HardwareStart == hwOn' = TRUE /\ hwDesc' = 0 /\ irq' = FALSE

\* What dmaOpsBufferLink asks of both its buffers.
Linkable(i) == "queued" \in flags[i] /\ flags[i] \cap {"flushed", "completed"} = {}

CanLink(from, to) == engineState # "error" /\ Linkable(from) /\ Linkable(to)

Linked(i) == "linked" \in flags[i]

\* dmaOpsBufferLink: build a block, linked to itself, for each buffer that has
\* none, then lead the chain from one to the other.  A refusal of the second
\* buffer leaves the block built for the first.
BufferLink(from, to) ==
  LET buildFrom == engineState # "error" /\ Linkable(from) /\ ~Linked(from)
      f  == IF buildFrom THEN strDesc ELSE ds[from]
      s  == IF buildFrom THEN NextDesc(strDesc) ELSE strDesc
      buildTo == CanLink(from, to) /\ ~Linked(to) /\ to # from
      t  == IF buildTo THEN s ELSE IF to = from THEN f ELSE ds[to]
      built == (IF buildFrom THEN {from} ELSE {}) \cup (IF buildTo THEN {to} ELSE {})
      join == CanLink(from, to) /\ from # to
  IN  /\ flags' = [i \in Slots |-> IF i \in built THEN flags[i] \cup {"linked"}
                                   ELSE flags[i]]
      /\ ds' = [i \in Slots |-> IF buildTo /\ i = to THEN t
                                ELSE IF buildFrom /\ i = from THEN f ELSE ds[i]]
      /\ strDesc' = IF buildTo THEN NextDesc(s) ELSE s
      /\ desc' = [d \in Descs |->
           [buf  |-> IF buildTo /\ d = t THEN to
                     ELSE IF buildFrom /\ d = f THEN from ELSE desc[d].buf,
            next |-> IF join /\ d = f THEN t
                     ELSE IF (buildTo /\ d = t) \/ (buildFrom /\ d = f) THEN d
                     ELSE desc[d].next]]

\* Mutant of CanFlush: what is in the chain is flushed as well.
CanFlushLinked(i) == "queued" \in flags[i] /\ "completed" \notin flags[i]

\* dmaOpsBufferFlush refuses what is done and, while the engine runs, what is
\* in the chain.
CanFlush(i) ==
  /\ "queued" \in flags[i] /\ "completed" \notin flags[i]
  /\ ~(engineState \in {"active", "idle"} /\ Linked(i))

\* dmaOpsBufferRelease: while the engine runs, not what it may be transferring.
CanRelease(i) ==
  ~(engineState \in {"active", "idle"} /\ Linked(i) /\ "completed" \notin flags[i])

-----------------------------------------------------------------------------
(* Commands.  Those the state refuses change nothing and are disabled. *)

\* ntv2EventSignal on every wait event.
SignalAll ==
  /\ event' = [c \in Clients |-> TRUE]
  /\ UNCHANGED <<inuse, wst, slot>>

\* An interrupt handler takes less time than a few commands.
Overlap ==
  IF isr = "out" THEN UNCHANGED overlap
                 ELSE overlap < MaxOverlap /\ overlap' = overlap + 1

SetStates(s) == streamState' = s /\ engineState' = s

\* ntv2_stream_channel_initialize up to stream_initialize.  The indices are
\* left where they are.
ChannelInitialize(o) ==
  /\ Free /\ Bounded /\ Overlap /\ streamState # "disabled" /\ owner \in {NoOwner, o}
  /\ HardwareStop
  /\ strDesc' = 0
  /\ SetStates("initialized")
  /\ owner' = o
  /\ session' = IF session = "exposed" THEN session
                ELSE IF streamState = "released" THEN "fresh" ELSE "stale"
  /\ cmd' = [op |-> "initialize", at |-> 0]
  /\ UNCHANGED <<bufferVars, initCount, ds, desc, isr, isrNext, waitVars>>

\* ... and the flush of every buffer, linked or not.
InitializeFlush ==
  /\ cmd.op = "initialize"
  /\ flags' = [i \in Slots |-> IF CanFlush(i) THEN flags[i] \cup {"flushed"} ELSE flags[i]]
  /\ SignalAll
  /\ cmd' = Idle
  /\ UNCHANGED <<streamState, engineState, owner, head, tail, active, next,
                 initCount, memoryVars, hwVars, isrVars, session>>

\* ntv2_stream_channel_release up to stream_release: by the owner, by the
\* closing of its file, or by the driver (ntv2_stream_enable, _disable).
BeginRelease(op) ==
  /\ Free /\ Overlap
  /\ HardwareStop
  /\ SetStates("released")
  /\ cmd' = [op |-> op, at |-> 0]
  /\ UNCHANGED <<owner, bufferVars, initCount, memoryVars, isr, isrNext, session, waitVars>>

ChannelRelease(o) == owner = o /\ BeginRelease("release")
Enable  == streamState = "disabled" /\ BeginRelease("enable")
Disable == streamState # "disabled" /\ BeginRelease("disable")

\* ... and the release of every buffer.  The driver's own calls set the states
\* next; no client runs then.
ReleaseBuffers ==
  /\ cmd.op \in {"release", "enable", "disable"}
  /\ flags' = [i \in Slots |-> IF CanRelease(i) THEN {} ELSE flags[i]]
  /\ ds' = [i \in Slots |-> IF CanRelease(i) THEN 0 ELSE ds[i]]
  /\ head' = 0 /\ tail' = 0 /\ active' = 0 /\ next' = 0
  /\ owner' = NoOwner
  /\ CASE cmd.op = "disable" -> SetStates("disabled")
       [] cmd.op = "enable"  -> SetStates("released")
       [] OTHER -> UNCHANGED <<streamState, engineState>>
  /\ SignalAll
  /\ session' = IF isr = "out" THEN "stale" ELSE session
  /\ cmd' = Idle
  /\ UNCHANGED <<initCount, strDesc, desc, hwVars, isrVars>>

\* The part that ntv2_stream_channel_start and _stop share: link the first
\* buffer to itself if it is not linked yet, then start the DMA if the stream
\* was only initialised.  A stop that the hardware half refuses is an error.
RunEngine(s) ==
  LET first  == "queued" \in flags[active] /\ ~Linked(active)
      linked == first => CanLink(active, active)
      ok     == linked /\ engineState # "error"
  IN  /\ Free /\ Bounded /\ Overlap /\ Usable
      /\ IF first THEN BufferLink(active, active) /\ next' = active /\ initCount' = 0
                  ELSE UNCHANGED <<flags, ds, strDesc, desc, next, initCount>>
      /\ IF ok
         THEN /\ streamState' = s
              /\ IF streamState = "initialized" THEN HardwareStart ELSE UNCHANGED hwVars
              /\ SignalAll
         ELSE /\ streamState' = IF s = "idle" /\ linked THEN "error" ELSE streamState
              /\ UNCHANGED <<hwVars, waitVars>>
      /\ session' = IF session = "fresh" /\ active # head THEN session ELSE "exposed"
      /\ UNCHANGED <<engineState, owner, head, tail, active, isr, isrNext, cmd>>

ChannelStart == active # head /\ RunEngine("active")

\* No test for an empty queue here.
ChannelStop == RunEngine("idle")

\* ntv2_stream_channel_flush: from the newest buffer to the oldest, one engine
\* lock section for each, up to the first that is refused.
ChannelFlush ==
  /\ Free /\ Bounded /\ Overlap /\ Usable
  /\ cmd' = [op |-> "flush", at |-> head]
  /\ UNCHANGED <<streamState, engineState, owner, bufferVars, initCount, memoryVars,
                 hwVars, isr, isrNext, session, waitVars>>

\* A buffer in hand, though nothing that a flush tests tells so: in the chain of
\* an engine before its first interrupt, at an active_index that a start goes by,
\* or chosen by the handler to be linked next.
InHand(i) ==
  \/ Linked(i) /\ engineState \notin {"active", "idle"}
  \/ ~Linked(i) /\ (i = active \/ (isr = "link" /\ i = isrNext))

FlushNext ==
  LET prev == PrevSlot(cmd.at)
  IN  /\ cmd.op = "flush" /\ cmd.at # tail
      /\ "flushed" \in flags[prev] \/ CanFlush(prev)
      /\ flags' = [flags EXCEPT ![prev] = @ \cup {"flushed"}]
      /\ session' = IF "flushed" \notin flags[prev] /\ InHand(prev) THEN "exposed" ELSE session
      /\ cmd' = [cmd EXCEPT !.at = prev]
      /\ UNCHANGED <<streamState, engineState, owner, head, tail, active, next,
                     initCount, memoryVars, hwVars, isrVars, waitVars>>

FlushEnd ==
  LET prev == PrevSlot(cmd.at)
  IN  /\ cmd.op = "flush"
      /\ cmd.at = tail \/ ~("flushed" \in flags[prev] \/ CanFlush(prev))
      /\ SignalAll
      /\ cmd' = Idle
      /\ UNCHANGED <<streamState, engineState, owner, bufferVars, initCount,
                     memoryVars, hwVars, isrVars, session>>

\* ntv2_stream_buffer_queue of a buffer that is locked and mapped.
BufferQueue(o) ==
  /\ Free /\ Bounded /\ Overlap /\ Usable /\ owner = o
  /\ NextSlot(head) # tail
  /\ "queued" \notin flags[head]
  /\ flags' = [flags EXCEPT ![head] = {"queued"}]
  /\ ds' = [ds EXCEPT ![head] = 0]
  /\ head' = NextSlot(head)
  /\ session' = IF session = "fresh" THEN session ELSE "exposed"
  /\ UNCHANGED <<streamState, engineState, owner, tail, active, next, initCount,
                 strDesc, desc, hwVars, isr, isrNext, cmd, waitVars>>

\* ntv2_stream_buffer_release: the oldest buffer, once it is done.
BufferRelease(o) ==
  /\ Free /\ Bounded /\ Overlap /\ Usable /\ owner = o
  /\ "queued" \in flags[tail] /\ flags[tail] \cap {"completed", "flushed"} # {}
  /\ CanRelease(tail)
  /\ flags' = [flags EXCEPT ![tail] = {}]
  /\ ds' = [ds EXCEPT ![tail] = 0]
  /\ tail' = NextSlot(tail)
  /\ UNCHANGED <<streamState, engineState, owner, head, active, next, initCount,
                 strDesc, desc, hwVars, isr, isrNext, cmd, session, waitVars>>

-----------------------------------------------------------------------------
(* The DMA engine and its interrupt. *)

\* The engine has transferred a block and goes on where its last descriptor
\* leads.  A frame takes far longer than the handler: the interrupt of a block
\* is served before the next block is complete.
HwComplete ==
  /\ Bounded /\ hwOn /\ ~irq /\ isr = "out"
  /\ desc[hwDesc].buf # None
  /\ hwDesc' = desc[hwDesc].next
  /\ irq' = TRUE
  /\ UNCHANGED <<streamState, engineState, owner, bufferVars, initCount, memoryVars,
                 hwOn, isrVars, cmd, session, waitVars>>

\* An interrupt without the completion flag: the engine has stopped, and the
\* handler sets both states.
HwFault ==
  /\ Bounded /\ hwOn /\ ~irq /\ isr = "out"
  /\ Faults \/ desc[hwDesc].buf = None
  /\ HardwareStop
  /\ SetStates("error")
  /\ UNCHANGED <<owner, bufferVars, initCount, memoryVars, isrVars, cmd, session, waitVars>>

\* ntv2_stream_channel_advance, entry.
IsrEnter ==
  /\ irq /\ isr = "out"
  /\ irq' = FALSE
  /\ IF ~Running THEN UNCHANGED <<isr, initCount>>
     ELSE IF engineState = "initialized" /\ initCount < InitAdvance
     THEN initCount' = initCount + 1 /\ UNCHANGED isr
     ELSE /\ isr' = IF active # next THEN "complete" ELSE "move"
          /\ UNCHANGED initCount
  /\ UNCHANGED <<streamState, engineState, owner, bufferVars, memoryVars, hwOn, hwDesc,
                 isrNext, overlap, cmd, session, waitVars>>

\* dmaOpsBufferComplete.
IsrComplete ==
  /\ isr = "complete"
  /\ IF {"queued", "linked"} \subseteq flags[active] /\ "flushed" \notin flags[active]
     THEN /\ flags' = [flags EXCEPT ![active] = @ \cup {"completed"}]
          /\ UNCHANGED engineState
     ELSE engineState' = "error" /\ UNCHANGED flags
  /\ isr' = "move"
  /\ UNCHANGED <<streamState, owner, head, tail, active, next, initCount, memoryVars,
                 hwVars, isrNext, overlap, cmd, session, waitVars>>

IsrMove ==
  /\ isr = "move"
  /\ active' = next
  /\ isr' = "state"
  /\ UNCHANGED <<streamState, engineState, owner, flags, head, tail, next, initCount,
                 memoryVars, hwVars, isrNext, overlap, cmd, session, waitVars>>

\* Mutant of IsrState: an engine that is active stays so.
IsrStateKeepsActive ==
  /\ isr = "state"
  /\ engineState' = IF Running /\ engineState # "active" THEN streamState ELSE engineState
  /\ IF streamState = "error" THEN HardwareStop ELSE UNCHANGED hwVars
  /\ isr' = IF engineState' = "active" THEN "scan" ELSE "signal"
  /\ UNCHANGED <<streamState, owner, bufferVars, initCount, memoryVars, isrNext, overlap,
                 cmd, session, waitVars>>

\* dmaOpsStreamAdvance: the engine reaches the state the clients want, whatever
\* its own state was.
IsrState ==
  /\ isr = "state"
  /\ engineState' = IF Running THEN streamState ELSE "error"
  /\ IF streamState = "error" THEN HardwareStop ELSE UNCHANGED hwVars
  /\ isr' = IF engineState' = "active" THEN "scan" ELSE "signal"
  /\ UNCHANGED <<streamState, owner, bufferVars, initCount, memoryVars, isrNext, overlap,
                 cmd, session, waitVars>>

\* Mutants of Candidates: flushed buffers are linked as well; the scan ends at
\* a flushed buffer.
CandidatesFlushedToo ==
  {i \in Slots : Ahead(NextSlot(active), i) < Ahead(NextSlot(active), head)}

CandidatesUpToFlushed ==
  {i \in Slots : /\ i = NextSlot(active) /\ i # head
                 /\ "flushed" \notin flags[i]}

\* The buffers from the one after the active buffer to the head that are not
\* flushed, without the engine lock.
Candidates ==
  {i \in Slots : /\ Ahead(NextSlot(active), i) < Ahead(NextSlot(active), head)
                 /\ "flushed" \notin flags[i]}

\* Mutant of Nearest: the newest buffer is linked.
Newest(S) == CHOOSE i \in S : \A j \in S :
               Ahead(NextSlot(active), i) >= Ahead(NextSlot(active), j)

Nearest(S) == CHOOSE i \in S : \A j \in S :
                Ahead(NextSlot(active), i) <= Ahead(NextSlot(active), j)

IsrScan ==
  /\ isr = "scan"
  /\ IF Candidates = {} THEN isr' = "signal" /\ UNCHANGED isrNext
                        ELSE isr' = "link" /\ isrNext' = Nearest(Candidates)
  /\ UNCHANGED <<streamState, engineState, owner, bufferVars, initCount, memoryVars,
                 hwVars, overlap, cmd, session, waitVars>>

\* next_index moves even if the link fails.
IsrLink ==
  /\ isr = "link"
  /\ BufferLink(active, isrNext)
  /\ engineState' = IF CanLink(active, isrNext) THEN engineState ELSE "error"
  /\ next' = isrNext
  /\ isr' = "signal"
  /\ UNCHANGED <<streamState, owner, head, tail, active, initCount, hwVars, isrNext, overlap,
                 cmd, session, waitVars>>

\* Mutant of IsrSignal: only a stream with nothing to link wakes its waiters.
IsrSignalWhenDry ==
  /\ isr = "signal"
  /\ IF Candidates = {} THEN SignalAll ELSE UNCHANGED waitVars
  /\ isr' = "out" /\ isrNext' = 0 /\ overlap' = 0
  /\ session' = IF Exposed THEN "exposed" ELSE session
  /\ UNCHANGED <<streamState, engineState, owner, bufferVars, initCount, memoryVars,
                 hwVars, cmd>>

IsrSignal ==
  /\ isr = "signal"
  /\ SignalAll
  /\ isr' = "out" /\ isrNext' = 0 /\ overlap' = 0
  /\ session' = IF Exposed THEN "exposed" ELSE session
  /\ UNCHANGED <<streamState, engineState, owner, bufferVars, initCount, memoryVars,
                 hwVars, cmd>>

Isr == IsrEnter \/ IsrComplete \/ IsrMove \/ IsrState \/ IsrScan \/ IsrLink \/ IsrSignal

-----------------------------------------------------------------------------
(* ntv2_stream_channel_wait. *)

UnchangedButWait ==
  UNCHANGED <<streamState, engineState, owner, bufferVars, initCount, memoryVars,
              hwVars, isrVars, cmd, session>>

\* Mutant of WaitEnter: an event in use is taken again.
WaitEnterShared(w) ==
  \E c \in Clients :
    /\ Free /\ Bounded /\ Usable /\ wst[w] = "out"
    /\ inuse' = [inuse EXCEPT ![c] = TRUE]
    /\ wst' = [wst EXCEPT ![w] = "claimed"]
    /\ slot' = [slot EXCEPT ![w] = c]
    /\ UNCHANGED event
    /\ UnchangedButWait

\* Take the first free event, under the semaphore; without one the wait fails.
WaitEnter(w) ==
  \E c \in Clients :
    /\ Free /\ Bounded /\ Usable /\ wst[w] = "out"
    /\ ~inuse[c] /\ \A e \in Clients : e < c => inuse[e]
    /\ inuse' = [inuse EXCEPT ![c] = TRUE]
    /\ wst' = [wst EXCEPT ![w] = "claimed"]
    /\ slot' = [slot EXCEPT ![w] = c]
    /\ UNCHANGED event
    /\ UnchangedButWait

\* The semaphore is up again when the event is cleared.
WaitClear(w) ==
  /\ wst[w] = "claimed"
  /\ event' = [event EXCEPT ![slot[w]] = FALSE]
  /\ wst' = [wst EXCEPT ![w] = "asleep"]
  /\ UNCHANGED <<inuse, slot>>
  /\ UnchangedButWait

\* Give the event back.  The report that follows always says SUCCESS.
WaitLeave(w) ==
  /\ inuse' = [inuse EXCEPT ![slot[w]] = FALSE]
  /\ wst' = [wst EXCEPT ![w] = "out"]
  /\ slot' = [slot EXCEPT ![w] = None]
  /\ UNCHANGED event
  /\ UnchangedButWait

WaitWoken(w)   == wst[w] = "asleep" /\ event[slot[w]] /\ WaitLeave(w)
WaitTimeout(w) == wst[w] = "asleep" /\ ~event[slot[w]] /\ Timeouts /\ WaitLeave(w)

-----------------------------------------------------------------------------
CommandStep == InitializeFlush \/ ReleaseBuffers \/ FlushNext \/ FlushEnd

Command ==
  \/ \E o \in Owners : \/ ChannelInitialize(o) \/ ChannelRelease(o)
                       \/ BufferQueue(o) \/ BufferRelease(o)
  \/ ChannelStart \/ ChannelStop \/ ChannelFlush
  \/ Enable \/ Disable

Wait(w) == WaitEnter(w) \/ WaitClear(w) \/ WaitWoken(w) \/ WaitTimeout(w)

Next == \/ Command \/ CommandStep \/ HwComplete \/ HwFault \/ Isr
        \/ \E w \in Waiters : Wait(w)

Fairness ==
  /\ WF_vars(HwComplete) /\ WF_vars(Isr) /\ WF_vars(CommandStep)
  /\ \A w \in Waiters : WF_vars(WaitClear(w) \/ WaitWoken(w))

Spec == Init /\ [][Next]_vars /\ Fairness

-----------------------------------------------------------------------------
(* Properties. *)

HwBuffer == desc[hwDesc].buf

\* Unless the stream is exposed, the hardware never transfers a buffer that is
\* not in the queue, that was flushed, or that is complete, since a client may
\* release such a buffer and the memory under it.  No lock joins the release to
\* the walk of the chain.
TransfersOnlyQueued ==
  hwOn /\ ~Exposed =>
    /\ HwBuffer # None
    /\ {"queued", "linked"} \subseteq flags[HwBuffer]
    /\ flags[HwBuffer] \cap {"completed", "flushed"} = {}

\* The driver follows an engine it cannot read: the buffer it calls active
\* (next, until the interrupt is served) is the one being transferred, and the
\* chain leads from there to the buffer it calls next.
HardwareInStep ==
  hwOn /\ ~Exposed =>
    LET now == IF irq \/ isr \in {"complete", "move"} THEN next ELSE active
    IN  /\ HwBuffer = now
        /\ desc[desc[hwDesc].next].buf = next

\* The tests the operations comment "these should not be true" are not: no link
\* or completion fails while the stream runs, unless the hardware or the clients
\* do.
NoSpuriousError == Running /\ ~Exposed => engineState # "error"

\* An event that was signalled stays signalled until its waiter has left, so
\* that two waits never share an event.
EventStays ==
  [][\A w \in Waiters : wst[w] = "asleep" /\ event[slot[w]] /\ wst'[w] = "asleep"
                          => event'[slot[w]]]_vars

\* While a stream is left running, a buffer is transferred, or withdrawn, once
\* there is another to follow it.
QueuedGetsTransferred ==
  \A i \in Slots :
    (streamState = "active" /\ "queued" \in flags[i])
      ~> (\/ streamState # "active" \/ Exposed
          \/ "queued" \notin flags[i] \/ flags[i] \cap {"completed", "flushed"} # {}
          \/ active = i /\ Candidates = {})

\* A stop reaches the engine.
StopIdles ==
  (streamState = "idle") ~> (engineState = "idle" \/ streamState # "idle" \/ Exposed)

\* The interrupt wakes every sleeper of a stream that runs.
SleepersWake ==
  \A w \in Waiters : (wst[w] = "asleep" /\ Running) ~> (wst[w] # "asleep" \/ ~Running \/ Exposed)


\* A flush of a stopped stream spares the buffer that is being transferred.
\* ntv2card.h promises so of a stream in the idle state.
FlushSparesActive ==
  [][FlushNext /\ ~Exposed /\ hwOn /\ streamState = "idle" /\ HwBuffer # None
       => ("flushed" \in flags'[HwBuffer] => "flushed" \in flags[HwBuffer])]_vars

=============================================================================
