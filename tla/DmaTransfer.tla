---------------------------- MODULE DmaTransfer ----------------------------
(***************************************************************************)
(* The transfers of one DMA engine, src/driver/linux/ntv2dma.c: threads in *)
(* dmaTransfer share two contexts and the engine's hardware, each waits    *)
(* for the interrupt of its transfer or times out, and dmaDisable shuts    *)
(* them out.  The host buffers they transfer come from a cache of locked   *)
(* pages (dmaPageRoot...) that other threads fill and empty meanwhile.     *)
(*                                                                         *)
(* One step of a thread is one section under a lock, one semaphore         *)
(* operation or one unlocked access, told apart by pc.  A transfer has one *)
(* host buffer: video, audio and ancillary buffers are treated alike.      *)
(***************************************************************************)
EXTENDS Integers, FiniteSets

CONSTANTS
  Threads,
  Casts,           \* bound: the calls that may meet, see Cast
  Contexts,        \* DMA_NUM_CONTEXTS
  Entries,         \* heap objects for page buffers
  Bufs,            \* host buffers
  None,
  MaxLock,         \* lockMaxSize, in buffers
  MaxTotal         \* bound on lockTotalSize, which grows while an unlock-all polls

\* The threads that transfer and those that lock and unlock buffers, the buffers
\* of both, the settings of the automatic locking that are asked for, whether the
\* hardware may fail and pages may not lock, and how often dmaDisable may wait in
\* vain.
Cast == [callers : SUBSET Threads, lockers : SUBSET Threads, bufs : SUBSET Bufs,
         modes : SUBSET {"off", "lock", "map"}, faults : BOOLEAN, slips : Nat]

ASSUME DmaAssumption ==
  /\ Casts \subseteq Cast
  /\ IsFiniteSet(Threads) /\ IsFiniteSet(Contexts) /\ Contexts # {} /\ IsFiniteSet(Entries)
  /\ Contexts \cap Entries = {}
  /\ None \notin Threads \cup Contexts \cup Entries \cup Bufs
  /\ MaxLock \in Nat \ {0} /\ MaxTotal \in Nat

VARIABLES
  cast,        \* the calls that meet
  pc,          \* where each thread is
  want,        \* the buffer it transfers or locks
  ctx,         \* its context
  pb,          \* its page buffer: a cache entry, or that of its context
  mapIt,       \* it maps the page buffer, and unmaps it at the end
  moved,       \* the hardware has transferred it (history)
  ctxSem, inUse,             \* contextSemaphore; inUse of each context
  addr, mapped,              \* of each page buffer: the locked pages; sgMap
  refs,                      \* refCount of each cache entry, 0 if not listed
  total,                     \* lockTotalSize
  auto,                      \* lockAuto, lockMap
  enable, disabling,         \* dmaEnable; where dmaDisable is
  hwSem, state, done,        \* transferSemaphore; engine state; transferDone
  run, irq, err,             \* the hardware: its thread, interrupt, error bit
  isr,                       \* where the interrupt handler is
  slips,       \* history: calls of dmaDisable that waited in vain
  clean,       \* history: nothing was left of earlier transfers at the last Clear
  alone,       \* history: no other transfer has used the thread's page buffer
  premapped    \* history: the cache entries that were mapped when inserted

cacheVars  == <<addr, mapped, refs, total, premapped>>
contextVars == <<ctxSem, inUse>>
engineVars == <<hwSem, state, done, clean>>
hwVars     == <<run, irq, err>>
vars == <<cast, pc, want, ctx, pb, mapIt, moved, contextVars, cacheVars, auto, enable,
          disabling, engineVars, hwVars, isr, slips, alone>>

PageBufs == Entries \cup Contexts

Steps == {"out", "context", "scan", "find", "prune", "add", "insert", "findAgain",
          "test", "map", "hw", "check", "setup", "clear", "program", "wait", "abort", "finish",
          "hwUp", "unmap", "free", "drop", "up", "unlockAll"}

TypeOK ==
  /\ cast \in Casts
  /\ pc \in [Threads -> Steps]
  /\ want \in [Threads -> Bufs \cup {None}]
  /\ ctx \in [Threads -> Contexts \cup {None}]
  /\ pb \in [Threads -> PageBufs \cup {None}]
  /\ mapIt \in [Threads -> BOOLEAN] /\ moved \in [Threads -> BOOLEAN]
  /\ ctxSem \in 0 .. Cardinality(Contexts) /\ inUse \in [Contexts -> BOOLEAN]
  /\ addr \in [PageBufs -> Bufs \cup {None}] /\ mapped \in [PageBufs -> BOOLEAN]
  /\ refs \in [Entries -> 0 .. Cardinality(Threads) + 1]
  /\ total \in 0 .. MaxTotal
  /\ auto \in {"off", "lock", "map"}
  /\ enable \in BOOLEAN /\ disabling \in {"out", "wait", "up"}
  /\ slips \in 0 .. cast.slips /\ clean \in BOOLEAN
  /\ alone \in [Threads -> BOOLEAN] /\ premapped \subseteq Entries
  /\ hwSem \in 0 .. 1 + slips /\ state \in {"idle", "transfer"} /\ done \in BOOLEAN
  /\ run \in Threads \cup {None} /\ irq \in BOOLEAN /\ err \in BOOLEAN
  /\ isr \in {"out", "check", "wake"}

Init ==
  /\ cast \in Casts
  /\ pc = [t \in Threads |-> "out"]
  /\ want = [t \in Threads |-> None]
  /\ ctx = [t \in Threads |-> None]
  /\ pb = [t \in Threads |-> None]
  /\ mapIt = [t \in Threads |-> FALSE] /\ moved = [t \in Threads |-> FALSE]
  /\ ctxSem = Cardinality(Contexts) /\ inUse = [c \in Contexts |-> FALSE]
  /\ addr = [p \in PageBufs |-> None] /\ mapped = [p \in PageBufs |-> FALSE]
  /\ refs = [p \in Entries |-> 0]
  /\ total = 0
  /\ auto = "off"
  /\ enable = FALSE /\ disabling = "out"
  /\ hwSem = 1 /\ state = "idle" /\ done = FALSE
  /\ run = None /\ irq = FALSE /\ err = FALSE
  /\ isr = "out"
  /\ slips = 0 /\ clean = TRUE
  /\ alone = [t \in Threads |-> TRUE] /\ premapped = {}

At(t, s) == pc[t] = s
Go(t, s) == pc' = [pc EXCEPT ![t] = s]

\* The locals of a call end with it.
Return(t) ==
  /\ Go(t, "out")
  /\ want' = [want EXCEPT ![t] = None]
  /\ mapIt' = [mapIt EXCEPT ![t] = FALSE]
  /\ moved' = [moved EXCEPT ![t] = FALSE]

Step(t, s) == IF s = "out" THEN Return(t)
                           ELSE Go(t, s) /\ UNCHANGED <<want, mapIt, moved>>

Listed == {p \in Entries : refs[p] > 0}

\* What dmaPageRootFind may return.
Hits(b) == {p \in Listed : addr[p] = b}

\* Mutant of Unused: an entry that one transfer uses.
UnusedButOnce == {p \in Listed : refs[p] <= 2}

\* Entries that only the cache itself refers to.
Unused == {p \in Listed : refs[p] <= 1}

-----------------------------------------------------------------------------
(* The page cache.  Where the list has several candidates any may be taken:  *)
(* the order of the list and the age of the entries are left out.  An entry  *)
(* is locked, mapped, unmapped and freed while no one else can reach it.     *)

\* list_del, dmaPageBufferRelease, kfree.
Discard(p) ==
  /\ refs' = [refs EXCEPT ![p] = 0]
  /\ addr' = [addr EXCEPT ![p] = None]
  /\ mapped' = [mapped EXCEPT ![p] = FALSE]
  /\ premapped' = premapped \ {p}

UnchangedButCache ==
  UNCHANGED <<ctx, pb, contextVars, auto, enable, disabling, engineVars, hwVars, isr, slips,
              alone>>

\* DMABUFFERLOCK_LOCK: dmaPageRootAdd on behalf of a client.
Lock(t, b, map) ==
  /\ At(t, "out")
  /\ want' = [want EXCEPT ![t] = b]
  /\ mapIt' = [mapIt EXCEPT ![t] = map]
  /\ Go(t, "add")
  /\ UNCHANGED <<moved, cacheVars>> /\ UnchangedButCache

\* DMABUFFERLOCK_UNLOCK: dmaPageRootRemove passes over entries in use.
Unlock(t, b) ==
  /\ At(t, "out")
  /\ \E p \in Unused : addr[p] = b /\ Discard(p)
  /\ total' = total - 1
  /\ UNCHANGED <<pc, want, mapIt, moved>> /\ UnchangedButCache

\* DMABUFFERLOCK_UNLOCK_ALL and the closing of the file: dmaPageRootRelease
\* polls until each entry is unused, and counts only at the end.
UnlockAll(t) ==
  /\ At(t, "out")
  /\ Step(t, "unlockAll")
  /\ UNCHANGED cacheVars /\ UnchangedButCache

UnlockAllNext(t) ==
  /\ At(t, "unlockAll")
  /\ \E p \in Unused : Discard(p)
  /\ UNCHANGED <<pc, want, mapIt, moved, total>> /\ UnchangedButCache

\* Mutant of UnlockAllEnd: the size is not accounted for.
UnlockAllEndUncounted(t) ==
  /\ At(t, "unlockAll") /\ Listed = {}
  /\ Step(t, "out")
  /\ UNCHANGED cacheVars /\ UnchangedButCache

UnlockAllEnd(t) ==
  /\ At(t, "unlockAll") /\ Listed = {}
  /\ total' = 0
  /\ Step(t, "out")
  /\ UNCHANGED <<addr, mapped, refs, premapped>> /\ UnchangedButCache

\* DMABUFFERLOCK_AUTO, DMABUFFERLOCK_MANUAL, also amid transfers.
SetAuto(mode) ==
  /\ auto' = mode
  /\ UNCHANGED <<pc, want, ctx, pb, mapIt, moved, contextVars, cacheVars, enable,
                 disabling, engineVars, hwVars, isr, slips, alone>>

\* dmaPageRootAdd is content with an entry it finds ...
Add(t) ==
  /\ At(t, "add")
  /\ Step(t, IF Hits(want[t]) = {} THEN "insert"
             ELSE IF ctx[t] = None THEN "out" ELSE "findAgain")
  /\ UNCHANGED cacheVars /\ UnchangedButCache

\* ... and otherwise allocates, locks and maps a page buffer without the lock
\* of the list.  Each of these may fail.
Insert(t) ==
  /\ At(t, "insert")
  /\ \/ LET p == CHOOSE p \in Entries \ Listed : TRUE
        IN  /\ Listed # Entries /\ total < MaxTotal
            /\ addr' = [addr EXCEPT ![p] = want[t]]
            /\ mapped' = [mapped EXCEPT ![p] = mapIt[t]]
            /\ refs' = [refs EXCEPT ![p] = 1]
            /\ total' = total + 1
            /\ premapped' = IF mapIt[t] THEN premapped \cup {p} ELSE premapped \ {p}
     \/ /\ cast.faults \/ Listed = Entries \/ total >= MaxTotal
        /\ UNCHANGED cacheVars
  /\ Step(t, IF ctx[t] = None THEN "out" ELSE "findAgain")
  /\ UnchangedButCache

-----------------------------------------------------------------------------
(* dmaTransfer *)

UnchangedButContext ==
  UNCHANGED <<pb, cacheVars, auto, enable, disabling, engineVars, hwVars, isr, slips, alone>>

\* A disabled engine refuses at once.  Several threads may transfer one buffer.
Begin(t, b) ==
  /\ At(t, "out") /\ enable
  /\ want' = [want EXCEPT ![t] = b]
  /\ Go(t, "context")
  /\ UNCHANGED <<ctx, pb, mapIt, moved, contextVars, cacheVars, auto, enable, disabling,
                 engineVars, hwVars, isr, slips, alone>>

\* dmaContextAcquire: the semaphore promises a free context ...
ContextDown(t) ==
  /\ At(t, "context") /\ ctxSem > 0
  /\ ctxSem' = ctxSem - 1
  /\ Step(t, "scan")
  /\ UNCHANGED <<ctx, inUse>> /\ UnchangedButContext

\* Mutant of ContextTimeout: gives back a context it never had.
ContextTimeoutUp(t) ==
  /\ At(t, "context") /\ ctxSem = 0
  /\ Step(t, "up")
  /\ UNCHANGED <<ctx, contextVars>> /\ UnchangedButContext

ContextTimeout(t) ==
  /\ At(t, "context") /\ ctxSem = 0
  /\ Step(t, "out")
  /\ UNCHANGED <<ctx, contextVars>> /\ UnchangedButContext

\* Mutant of Scan: the context is not marked.
ScanUnmarked(t) ==
  /\ At(t, "scan")
  /\ \E c \in Contexts : ~inUse[c] /\ ctx' = [ctx EXCEPT ![t] = c]
  /\ Step(t, IF enable THEN "find" ELSE "drop")
  /\ UNCHANGED <<ctxSem, inUse>> /\ UnchangedButContext

\* ... and the scan takes one, as good as any.  Without any it would return
\* one in use.
Scan(t) ==
  LET unused == {c \in Contexts : ~inUse[c]}
  IN  /\ At(t, "scan")
      /\ \E c \in IF unused # {} THEN unused ELSE Contexts :
           ctx' = [ctx EXCEPT ![t] = c] /\ inUse' = [inUse EXCEPT ![c] = TRUE]
      /\ Step(t, IF enable THEN "find" ELSE "drop")
      /\ UNCHANGED ctxSem /\ UnchangedButContext

UnchangedButPages ==
  UNCHANGED <<want, ctx, moved, contextVars, auto, enable, disabling, engineVars,
              hwVars, isr, slips>>

\* dmaPageRootFind, or else the page buffer of the context.
Find(t) ==
  /\ pc[t] \in {"find", "findAgain"}
  /\ \/ \E p \in Hits(want[t]) :
          /\ refs' = [refs EXCEPT ![p] = @ + 1]
          /\ pb' = [pb EXCEPT ![t] = p]
          /\ alone' = [u \in Threads |->
                        IF u = t THEN \A v \in Threads : pb[v] # p
                                 ELSE alone[u] /\ pb[u] # p]
          /\ Go(t, "test")
     \/ /\ Hits(want[t]) = {} /\ At(t, "find") /\ auto # "off"
        /\ Go(t, "prune")
        /\ UNCHANGED <<pb, refs, alone>>
     \/ /\ Hits(want[t]) = {} /\ (At(t, "findAgain") \/ auto = "off")
        /\ pb' = [pb EXCEPT ![t] = ctx[t]]
        /\ Go(t, "test")
        /\ UNCHANGED <<refs, alone>>
  /\ UNCHANGED <<mapIt, addr, mapped, total, premapped>> /\ UnchangedButPages

\* dmaPageRootPrune discards unused entries until the new one fits.  If it
\* never does the buffer is added nevertheless.
Prune(t) ==
  /\ At(t, "prune") /\ total + 1 > MaxLock
  /\ \E p \in Unused : Discard(p)
  /\ total' = total - 1
  /\ UNCHANGED <<pc, pb, mapIt, alone>> /\ UnchangedButPages

PruneEnd(t) ==
  /\ At(t, "prune") /\ (total + 1 <= MaxLock \/ Unused = {})
  /\ mapIt' = [mapIt EXCEPT ![t] = (auto = "map")]
  /\ Go(t, "add")
  /\ UNCHANGED <<pb, cacheVars, alone>> /\ UnchangedButPages

\* dmaSgMapped is read, dmaSgMap called and dmaSgMapped read again without a
\* lock.
Test(t) ==
  /\ At(t, "test")
  /\ mapIt' = [mapIt EXCEPT ![t] = ~mapped[pb[t]]]
  /\ Go(t, "map")
  /\ UNCHANGED <<pb, cacheVars, alone>> /\ UnchangedButPages

Map(t) ==
  /\ At(t, "map")
  /\ IF mapIt[t]
     THEN \/ /\ addr' = [addr EXCEPT ![pb[t]] = want[t]]
             /\ mapped' = [mapped EXCEPT ![pb[t]] = TRUE]
          \/ cast.faults /\ UNCHANGED <<addr, mapped>>
     ELSE UNCHANGED <<addr, mapped>>
  /\ Go(t, IF mapped'[pb[t]] THEN "hw" ELSE "unmap")
  /\ UNCHANGED <<pb, mapIt, refs, total, premapped, alone>> /\ UnchangedButPages

UnchangedButEngine ==
  UNCHANGED <<want, ctx, pb, mapIt, moved, contextVars, cacheVars, auto, enable, disabling,
              isr, slips, alone>>

\* dmaHardwareAcquire
HwDown(t) ==
  /\ At(t, "hw") /\ hwSem > 0
  /\ hwSem' = hwSem - 1
  /\ Go(t, "check")
  /\ UNCHANGED <<state, done, clean, hwVars>> /\ UnchangedButEngine

HwTimeout(t) ==
  /\ At(t, "hw") /\ hwSem = 0
  /\ Go(t, "unmap")
  /\ UNCHANGED <<engineVars, hwVars>> /\ UnchangedButEngine

\* Mutant of Check: the engine is not tested again once it is had.
CheckNothing(t) ==
  /\ At(t, "check")
  /\ Go(t, "setup")
  /\ UNCHANGED <<engineVars, hwVars>> /\ UnchangedButEngine

Check(t) ==
  /\ At(t, "check")
  /\ Go(t, IF enable /\ state = "idle" THEN "setup" ELSE "hwUp")
  /\ UNCHANGED <<engineVars, hwVars>> /\ UnchangedButEngine

\* No lock holds test and assignment together, but for the semaphore.
Setup(t) ==
  /\ At(t, "setup")
  /\ state' = "transfer"
  /\ Go(t, "clear")
  /\ UNCHANGED <<hwSem, done, clean, hwVars>> /\ UnchangedButEngine

\* Nothing is under way: no transfer, no interrupt and no handler.
Quiet == run = None /\ ~irq /\ isr = "out"

\* Mutant of Clear: the bit of the last transfer stays.
ClearNothing(t) ==
  /\ At(t, "clear")
  /\ clean' = Quiet
  /\ Go(t, "program")
  /\ UNCHANGED <<hwSem, state, done, hwVars>> /\ UnchangedButEngine

\* The bit is cleared whatever is left of the transfer before.
Clear(t) ==
  /\ At(t, "clear")
  /\ done' = FALSE
  /\ clean' = Quiet
  /\ Go(t, "program")
  /\ UNCHANGED <<hwSem, state, hwVars>> /\ UnchangedButEngine

\* dmaXlnxProgram.  Its test for an engine that runs reads a descriptor word
\* in place of the status.
Program(t) ==
  /\ At(t, "program")
  /\ run' = t /\ irq' = FALSE /\ err' = FALSE
  /\ Go(t, "wait")
  /\ UNCHANGED engineVars /\ UnchangedButEngine

ProgramFails(t) ==
  /\ At(t, "program") /\ cast.faults
  /\ Go(t, "finish")
  /\ UNCHANGED <<engineVars, hwVars>> /\ UnchangedButEngine

WaitDone(t) ==
  /\ At(t, "wait") /\ done
  /\ Go(t, "finish")
  /\ UNCHANGED <<engineVars, hwVars>> /\ UnchangedButEngine

WaitTimeout(t) ==
  /\ At(t, "wait") /\ ~done
  /\ Go(t, "abort")
  /\ UNCHANGED <<engineVars, hwVars>> /\ UnchangedButEngine

\* dmaXlnxAbort: interrupt off, DMA off.
StopHw == run' = None /\ irq' = FALSE /\ UNCHANGED err

Abort(t) ==
  /\ At(t, "abort")
  /\ StopHw
  /\ Go(t, "finish")
  /\ UNCHANGED engineVars /\ UnchangedButEngine

Finish(t) ==
  /\ At(t, "finish")
  /\ state' = "idle"
  /\ Go(t, "hwUp")
  /\ UNCHANGED <<hwSem, done, clean, hwVars>> /\ UnchangedButEngine

HwUp(t) ==
  /\ At(t, "hwUp")
  /\ hwSem' = hwSem + 1
  /\ Go(t, "unmap")
  /\ UNCHANGED <<state, done, clean, hwVars>> /\ UnchangedButEngine

Unmap(t) ==
  /\ At(t, "unmap")
  /\ mapped' = IF mapIt[t] THEN [mapped EXCEPT ![pb[t]] = FALSE] ELSE mapped
  /\ Go(t, "free")
  /\ UNCHANGED <<pb, mapIt, addr, refs, total, premapped, alone>> /\ UnchangedButPages

\* Mutant of Free: an entry found mapped keeps the reference.
FreeIfUnmapped(t) ==
  /\ At(t, "free")
  /\ IF pb[t] \in Entries
     THEN /\ refs' = [refs EXCEPT ![pb[t]] = IF mapIt[t] THEN @ - 1 ELSE @]
          /\ UNCHANGED addr
     ELSE addr' = [addr EXCEPT ![pb[t]] = None] /\ UNCHANGED refs
  /\ pb' = [pb EXCEPT ![t] = None]
  /\ alone' = [alone EXCEPT ![t] = TRUE]
  /\ Go(t, "drop")
  /\ UNCHANGED <<mapIt, mapped, total, premapped>> /\ UnchangedButPages

\* dmaPageUnlock of the context's page buffer, dmaPageRootFree of an entry.
Free(t) ==
  /\ At(t, "free")
  /\ IF pb[t] \in Entries
     THEN refs' = [refs EXCEPT ![pb[t]] = @ - 1] /\ UNCHANGED addr
     ELSE addr' = [addr EXCEPT ![pb[t]] = None] /\ UNCHANGED refs
  /\ pb' = [pb EXCEPT ![t] = None]
  /\ alone' = [alone EXCEPT ![t] = TRUE]
  /\ Go(t, "drop")
  /\ UNCHANGED <<mapIt, mapped, total, premapped>> /\ UnchangedButPages

\* dmaContextRelease
Drop(t) ==
  /\ At(t, "drop")
  /\ inUse' = [inUse EXCEPT ![ctx[t]] = FALSE]
  /\ ctx' = [ctx EXCEPT ![t] = None]
  /\ Step(t, "up")
  /\ UNCHANGED ctxSem /\ UnchangedButContext

Up(t) ==
  /\ At(t, "up")
  /\ ctxSem' = ctxSem + 1
  /\ Step(t, "out")
  /\ UNCHANGED <<ctx, inUse>> /\ UnchangedButContext

-----------------------------------------------------------------------------
(* The hardware and dmaXlnxInterrupt *)

UnchangedButHw ==
  UNCHANGED <<pc, want, ctx, pb, mapIt, contextVars, cacheVars, auto, enable, disabling,
              hwSem, state, clean, slips, alone>>

HwComplete ==
  /\ run # None
  /\ moved' = [moved EXCEPT ![run] = TRUE]
  /\ run' = None /\ irq' = TRUE
  /\ UNCHANGED <<err, done, isr>> /\ UnchangedButHw

HwFault ==
  /\ run # None /\ cast.faults
  /\ run' = None /\ irq' = TRUE /\ err' = TRUE
  /\ UNCHANGED <<moved, done, isr>> /\ UnchangedButHw

IsrEnter ==
  /\ irq /\ isr = "out"
  /\ irq' = FALSE /\ isr' = "check"
  /\ UNCHANGED <<moved, done, run, err>> /\ UnchangedButHw

\* The engine is stopped before its state is tested.
IsrCheck ==
  /\ isr = "check"
  /\ StopHw
  /\ isr' = IF state = "transfer" THEN "wake" ELSE "out"
  /\ UNCHANGED <<moved, done>> /\ UnchangedButHw

\* After an error the handler aborts, and leaves the thread to its timeout.
IsrWake ==
  /\ isr = "wake"
  /\ IF err THEN StopHw /\ UNCHANGED done ELSE done' = TRUE /\ UNCHANGED hwVars
  /\ isr' = "out"
  /\ UNCHANGED moved /\ UnchangedButHw

Isr == IsrEnter \/ IsrCheck \/ IsrWake

-----------------------------------------------------------------------------
(* dmaEnable and dmaDisable: probe, suspend, resume *)

UnchangedButEnable ==
  UNCHANGED <<pc, want, ctx, pb, mapIt, moved, contextVars, cacheVars, auto, state, done,
              clean, hwVars, isr, alone>>

Enable ==
  /\ disabling = "out" /\ ~enable
  /\ enable' = TRUE
  /\ UNCHANGED <<disabling, hwSem, slips>> /\ UnchangedButEnable

Disable ==
  /\ disabling = "out"
  /\ enable' = FALSE /\ disabling' = "wait"
  /\ UNCHANGED <<hwSem, slips>> /\ UnchangedButEnable

\* What dmaHardwareAcquire answers is not looked at: after a timeout a semaphore
\* is given back that was never had.
DisableDown ==
  /\ disabling = "wait"
  /\ \/ hwSem > 0 /\ hwSem' = hwSem - 1 /\ UNCHANGED slips
     \/ hwSem = 0 /\ slips < cast.slips /\ slips' = slips + 1 /\ UNCHANGED hwSem
  /\ disabling' = "up"
  /\ UNCHANGED enable /\ UnchangedButEnable

DisableUp ==
  /\ disabling = "up"
  /\ hwSem' = hwSem + 1
  /\ disabling' = "out"
  /\ UNCHANGED <<enable, slips>> /\ UnchangedButEnable

-----------------------------------------------------------------------------
Locking(t) ==
  \/ \E b \in cast.bufs : Unlock(t, b) \/ \E map \in BOOLEAN : Lock(t, b, map)
  \/ UnlockAll(t) \/ UnlockAllNext(t) \/ UnlockAllEnd(t)

Transfer(t) ==
  \/ ContextDown(t) \/ ContextTimeout(t) \/ Scan(t)
  \/ Find(t) \/ Prune(t) \/ PruneEnd(t) \/ Add(t) \/ Insert(t) \/ Test(t) \/ Map(t)
  \/ HwDown(t) \/ HwTimeout(t) \/ Check(t) \/ Setup(t) \/ Clear(t) \/ Program(t) \/ ProgramFails(t)
  \/ WaitDone(t) \/ WaitTimeout(t) \/ Abort(t) \/ Finish(t) \/ HwUp(t)
  \/ Unmap(t) \/ Free(t) \/ Drop(t) \/ Up(t)

Next ==
  /\ \/ \E t \in Threads : Transfer(t)
     \/ \E t \in cast.callers, b \in cast.bufs : Begin(t, b)
     \/ \E t \in cast.lockers : Locking(t)
     \/ \E mode \in cast.modes : SetAuto(mode)
     \/ HwComplete \/ HwFault \/ Isr
     \/ Enable \/ Disable \/ DisableDown \/ DisableUp
  /\ UNCHANGED cast

Spec == Init /\ [][Next]_vars

-----------------------------------------------------------------------------
(* Properties *)

\* A transfer has the engine to itself: dmaDisable has never given back a
\* semaphore it did not have, and nothing was left of the transfers before.
Exclusive == slips = 0 /\ clean

\* The memory the hardware transfers is the one asked for, and the thread that
\* owns it has not moved on, whatever other threads unlock, prune or time out
\* meanwhile.  It is mapped too, and only another transfer of the same memory,
\* locked in the cache but not mapped there, can unmap it.
MappedUnderDma ==
  run # None /\ Exclusive =>
    /\ pc[run] \in {"wait", "abort"}
    /\ addr[pb[run]] = want[run]
    /\ alone[run] \/ pb[run] \in premapped => mapped[pb[run]]

\* A thread is only told that its transfer is done after the hardware has done
\* it: neither the bit of an earlier transfer nor its interrupt is mistaken for
\* it, unless a handler is still under way when the bit is cleared.
DoneMeansMoved == \A t \in Threads : At(t, "wait") /\ done /\ Exclusive => moved[t]

\* "wait for dma to complete": once dmaDisable has had the hardware no transfer
\* runs, until dmaEnable.
QuietWhenDisabled ==
  ~enable /\ disabling # "wait" /\ slips = 0 => state = "idle" /\ (clean => run = None)

\* The count of the semaphore and the flags of the contexts agree: two
\* transfers never work in one context.
ContextsDistinct ==
  \A t, u \in Threads : t # u /\ ctx[t] # None => ctx[t] # ctx[u]

\* The references of an entry are those of the cache and of the transfers
\* that use it, so that it is neither freed under one nor kept for ever.
RefsExact ==
  \A p \in Entries :
    LET users == {t \in Threads : pb[t] = p}
    IN  IF p \in Listed THEN refs[p] = 1 + Cardinality(users) ELSE users = {}

\* The locked size is that of the entries, but for those an unlock-all has
\* discarded and not yet accounted for.
TotalExact ==
  /\ total >= Cardinality(Listed)
  /\ (\A t \in Threads : ~At(t, "unlockAll")) => total = Cardinality(Listed)
=============================================================================
