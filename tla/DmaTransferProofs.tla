------------------------- MODULE DmaTransferProofs -------------------------
(***************************************************************************)
(* Theorems about DmaTransfer, for any number of threads, contexts, cache  *)
(* entries and buffers.                                                    *)
(***************************************************************************)
EXTENDS DmaTransfer, FiniteSetTheorems, TLAPS

(* Three inductive invariants, each on top of the one before: who owns the   *)
(* engine, who owns which context, and who uses which page buffer.           *)

\* A thread that has the transfer semaphore.
OwnerSteps == {"check", "setup", "clear", "program", "wait", "abort", "finish", "hwUp"}
BusySteps  == {"clear", "program", "wait", "abort", "finish"}
Owner(t) == pc[t] \in OwnerSteps
Busy(t)  == pc[t] \in BusySteps

Owners == {t \in Threads : Owner(t)}

\* The semaphore counts threads and dmaDisable, and the calls of dmaDisable
\* that gave back what they never had.
SemaphoreCounts ==
  /\ hwSem >= 0 /\ slips >= 0 /\ slips <= cast.slips
  /\ hwSem + Cardinality(Owners) + (IF disabling = "up" THEN 1 ELSE 0) = 1 + slips

\* The engine only leaves idle under an owner, and not while it is disabled.
BusyIsOwned ==
  /\ state = "transfer" => \E t \in Threads : Busy(t)
  /\ ~enable /\ disabling # "wait" => \A t \in Threads : ~Busy(t) /\ ~At(t, "setup")

\* Hardware, interrupt, handler and completion bit follow each other.
OneAfterTheOther ==
  /\ run # None => /\ pc[run] \in {"wait", "abort"}
                   /\ ~irq /\ ~err /\ isr = "out" /\ ~done
  /\ irq => isr = "out" /\ ~done
  /\ \A t \in Threads : At(t, "program") => Quiet /\ ~done

\* What the hardware has done for the thread that waits.
WaitsForHw ==
  \A t \in Threads : At(t, "wait") /\ run = None /\ (done \/ ~err) => moved[t]

EngineInv ==
  /\ SemaphoreCounts
  /\ slips = 0 => BusyIsOwned
  /\ Exclusive => OneAfterTheOther /\ WaitsForHw

-----------------------------------------------------------------------------
(* Types, but for the bounds of the counters, which need the invariants.     *)

Types ==
  /\ cast \in Casts
  /\ pc \in [Threads -> Steps]
  /\ want \in [Threads -> Bufs \cup {None}]
  /\ ctx \in [Threads -> Contexts \cup {None}]
  /\ pb \in [Threads -> PageBufs \cup {None}]
  /\ mapIt \in [Threads -> BOOLEAN] /\ moved \in [Threads -> BOOLEAN]
  /\ ctxSem \in Int /\ inUse \in [Contexts -> BOOLEAN]
  /\ addr \in [PageBufs -> Bufs \cup {None}] /\ mapped \in [PageBufs -> BOOLEAN]
  /\ refs \in [Entries -> Int]
  /\ total \in Int
  /\ auto \in {"off", "lock", "map"}
  /\ enable \in BOOLEAN /\ disabling \in {"out", "wait", "up"}
  /\ hwSem \in Int /\ state \in {"idle", "transfer"} /\ done \in BOOLEAN
  /\ run \in Threads \cup {None} /\ irq \in BOOLEAN /\ err \in BOOLEAN
  /\ isr \in {"out", "check", "wake"}
  /\ slips \in Int /\ clean \in BOOLEAN
  /\ alone \in [Threads -> BOOLEAN] /\ premapped \subseteq Entries

\* The bounds a cast sets are within the types.
LEMMA CastInBounds ==
  ASSUME Types
  PROVE  /\ cast.bufs \subseteq Bufs /\ cast.modes \subseteq {"off", "lock", "map"}
         /\ cast.callers \subseteq Threads /\ cast.lockers \subseteq Threads
         /\ cast.slips \in Nat
BY DmaAssumption DEF Types, Cast

\* A thread only has a page buffer where it uses one.
UseSteps == {"test", "map", "hw", "unmap", "free"} \cup OwnerSteps
Uses(t) == pc[t] \in UseSteps

\* Calls that have a context: transfers from the scan to the release.
CtxSteps == {"find", "prune", "findAgain", "drop"} \cup UseSteps

\* The locals of a thread are there when it needs them.
LocalsSet ==
  \A t \in Threads :
    /\ Uses(t) => pb[t] \in Entries \cup {ctx[t]} /\ pb[t] # None
    /\ ~Uses(t) => pb[t] = None
    /\ pc[t] \in CtxSteps => ctx[t] # None /\ want[t] # None
    /\ pc[t] \in {"out", "context", "scan", "up", "unlockAll"} => ctx[t] = None
    /\ pc[t] \in {"context", "scan", "add", "insert"} => want[t] # None

\* The actions in groups.
ContextUse(t) == \/ \E b \in Bufs : Begin(t, b)
                 \/ ContextDown(t) \/ ContextTimeout(t) \/ Scan(t) \/ Drop(t) \/ Up(t)

PageUse(t) == \/ Find(t) \/ Prune(t) \/ PruneEnd(t) \/ Add(t) \/ Insert(t)
              \/ Test(t) \/ Map(t) \/ Unmap(t) \/ Free(t)

EngineUse(t) == \/ HwDown(t) \/ HwTimeout(t) \/ Check(t) \/ Setup(t) \/ Clear(t)
                \/ Program(t) \/ ProgramFails(t) \/ WaitDone(t) \/ WaitTimeout(t) \/ Abort(t)
                \/ Finish(t) \/ HwUp(t)

Other == \/ \E mode \in cast.modes : SetAuto(mode)
         \/ HwComplete \/ HwFault \/ Isr
         \/ Enable \/ Disable \/ DisableDown \/ DisableUp

LEMMA NextCases ==
  ASSUME Types, Next
  PROVE  /\ \/ \E t \in Threads : ContextUse(t) \/ PageUse(t) \/ EngineUse(t) \/ Locking(t)
            \/ Other
         /\ UNCHANGED cast
BY CastInBounds DEF Next, Transfer, ContextUse, PageUse, EngineUse, Other

\* What the choice of a context and that of a free entry come to.
LEMMA ScanTakes ==
  ASSUME NEW t \in Threads, Scan(t)
  PROVE  \E c \in Contexts :
           /\ (\E d \in Contexts : ~inUse[d]) => ~inUse[c]
           /\ ctx' = [ctx EXCEPT ![t] = c]
           /\ inUse' = [inUse EXCEPT ![c] = TRUE]
BY DmaAssumption DEF Scan

InsertsAt(t, p) ==
  /\ refs[p] <= 0
  /\ addr' = [addr EXCEPT ![p] = want[t]]
  /\ mapped' = [mapped EXCEPT ![p] = mapIt[t]]
  /\ refs' = [refs EXCEPT ![p] = 1]
  /\ total < MaxTotal /\ total' = total + 1
  /\ premapped' = IF mapIt[t] THEN premapped \cup {p} ELSE premapped \ {p}

LEMMA InsertTakes ==
  ASSUME Types, NEW t \in Threads, Insert(t)
  PROVE  UNCHANGED cacheVars \/ \E p \in Entries : InsertsAt(t, p)
<1> DEFINE p == CHOOSE p \in Entries \ Listed : TRUE
<1>1. Listed # Entries => p \in Entries /\ p \notin Listed
  BY DEF Listed
<1>2. Listed # Entries => refs[p] <= 0
  BY <1>1 DEF Listed, Types
<1> QED BY <1>1, <1>2 DEF Insert, InsertsAt, cacheVars

\* Where Step leads the locals of the call have their types.
LEMMA StepKeepsTypes ==
  ASSUME Types, NEW t \in Threads, NEW s \in Steps, Step(t, s)
  PROVE  /\ pc' \in [Threads -> Steps]
         /\ want' \in [Threads -> Bufs \cup {None}]
         /\ mapIt' \in [Threads -> BOOLEAN]
         /\ moved' \in [Threads -> BOOLEAN]
<1>1. CASE s = "out"
  BY <1>1 DEF Types, Step, Return, Go, Steps
<1>2. CASE s # "out"
  BY <1>2 DEF Types, Step, Go
<1> QED BY <1>1, <1>2

LEMMA LockingTypes ==
  ASSUME Types, LocalsSet, NEW t \in Threads, Locking(t), UNCHANGED cast
  PROVE  Types'
<1> USE DEF Types, UnchangedButCache, contextVars, cacheVars, engineVars, hwVars
<1>1. ASSUME NEW b \in Bufs, Unlock(t, b) PROVE Types'
  BY <1>1 DEF Unlock, Discard, Unused, Listed, PageBufs
<1>2. ASSUME NEW b \in Bufs, NEW map \in BOOLEAN, Lock(t, b, map) PROVE Types'
  BY <1>2 DEF Lock, Go, Steps
<1>3. CASE UnlockAll(t)
  BY <1>3, StepKeepsTypes DEF UnlockAll, Steps
<1>4. CASE UnlockAllNext(t)
  BY <1>4 DEF UnlockAllNext, Discard, Unused, Listed, PageBufs
<1>5. CASE UnlockAllEnd(t)
  BY <1>5, StepKeepsTypes DEF UnlockAllEnd, Steps
<1> QED BY <1>1, <1>2, <1>3, <1>4, <1>5, CastInBounds DEF Locking

LEMMA ContextTypes ==
  ASSUME Types, LocalsSet, NEW t \in Threads, ContextUse(t), UNCHANGED cast
  PROVE  Types'
<1> USE DEF Types, UnchangedButContext, contextVars, cacheVars, engineVars, hwVars
<1>1. ASSUME NEW b \in Bufs, Begin(t, b) PROVE Types'
  BY <1>1 DEF Begin, Go, Steps
<1>2. CASE ContextDown(t)
  BY <1>2, StepKeepsTypes DEF ContextDown, Steps
<1>3. CASE ContextTimeout(t)
  BY <1>3, StepKeepsTypes DEF ContextTimeout, Steps
<1>4. CASE Scan(t)
  <2>1. PICK c \in Contexts : /\ ctx' = [ctx EXCEPT ![t] = c]
                              /\ inUse' = [inUse EXCEPT ![c] = TRUE]
    BY <1>4, ScanTakes
  <2>2. \E s \in Steps : Step(t, s)
    BY <1>4 DEF Scan, Steps
  <2> QED BY <1>4, <2>1, <2>2, StepKeepsTypes DEF Scan
<1>5. CASE Drop(t)
  BY <1>5, StepKeepsTypes DEF Drop, Steps, At, LocalsSet, CtxSteps
<1>6. CASE Up(t)
  BY <1>6, StepKeepsTypes DEF Up, Steps
<1> QED BY <1>1, <1>2, <1>3, <1>4, <1>5, <1>6 DEF ContextUse

LEMMA PagesTypes ==
  ASSUME Types, LocalsSet, NEW t \in Threads, PageUse(t), UNCHANGED cast
  PROVE  Types'
<1> USE DEF Types, UnchangedButPages, contextVars, cacheVars, engineVars, hwVars
<1>1. pc[t] \in {"test", "map", "unmap", "free"} => pb[t] \in PageBufs
  BY DEF LocalsSet, Uses, UseSteps, PageBufs
<1>2. CASE Find(t)
  <2>1. pc' \in [Threads -> Steps]
    BY <1>2 DEF Find, Go, Steps
  <2>2. pb' \in [Threads -> PageBufs \cup {None}]
    BY <1>2 DEF Find, Hits, Listed, PageBufs, LocalsSet, CtxSteps
  <2>3. refs' \in [Entries -> Int]
    <3>1. UNCHANGED refs \/ \E p \in Entries : refs' = [refs EXCEPT ![p] = @ + 1]
      BY <1>2 DEF Find, Hits, Listed
    <3> QED BY <3>1
  <2>4. alone' \in [Threads -> BOOLEAN]
    BY <1>2 DEF Find
  <2> QED BY <1>2, <2>1, <2>2, <2>3, <2>4 DEF Find
<1>3. CASE Prune(t)
  BY <1>3 DEF Prune, Discard, Unused, Listed, PageBufs
<1>4. CASE PruneEnd(t)
  BY <1>4 DEF PruneEnd, Go, Steps
<1>5. CASE Add(t)
  <2>1. \E s \in Steps : Step(t, s)
    BY <1>5 DEF Add, Steps
  <2> QED BY <1>5, <2>1, StepKeepsTypes DEF Add, UnchangedButCache
<1>6. CASE Insert(t)
  <2>1. \E s \in Steps : Step(t, s)
    BY <1>6 DEF Insert, Steps
  <2>2. \/ UNCHANGED cacheVars
        \/ \E p \in Entries : InsertsAt(t, p)
    BY <1>6, InsertTakes
  <2>3. /\ addr' \in [PageBufs -> Bufs \cup {None}] /\ mapped' \in [PageBufs -> BOOLEAN]
        /\ refs' \in [Entries -> Int] /\ total' \in Int /\ premapped' \subseteq Entries
    BY <2>2 DEF InsertsAt, PageBufs
  <2> QED BY <1>6, <2>1, <2>3, StepKeepsTypes DEF Insert, UnchangedButCache
<1>7. CASE Test(t)
  BY <1>1, <1>7 DEF Test, Go, Steps, At
<1>8. CASE Map(t)
  <2>1. pc' \in [Threads -> Steps]
    BY <1>8 DEF Map, Go, Steps
  <2>2. addr' \in [PageBufs -> Bufs \cup {None}] /\ mapped' \in [PageBufs -> BOOLEAN]
    BY <1>1, <1>8 DEF Map, At
  <2> QED BY <1>8, <2>1, <2>2 DEF Map
<1>9. CASE Unmap(t)
  BY <1>1, <1>9 DEF Unmap, Go, Steps, At
<1>10. CASE Free(t)
  BY <1>1, <1>10 DEF Free, Go, Steps, At
<1> QED BY <1>2, <1>3, <1>4, <1>5, <1>6, <1>7, <1>8, <1>9, <1>10 DEF PageUse

\* What a step that uses the engine changes of its thread.
LEMMA EngineMoves ==
  ASSUME Types, NEW t \in Threads, EngineUse(t)
  PROVE  /\ UNCHANGED <<want, ctx, pb, mapIt, moved, ctxSem, inUse, addr, mapped, refs,
                        total, premapped, auto, enable, disabling, isr, slips, alone>>
         /\ \E s \in {"unmap"} \cup OwnerSteps : Go(t, s)
         /\ pc[t] \in {"hw"} \cup OwnerSteps
BY DEF EngineUse, HwDown, HwTimeout, Check, Setup, Clear, Program, ProgramFails, WaitDone,
       WaitTimeout, Abort, Finish, HwUp, UnchangedButEngine, contextVars, cacheVars,
       OwnerSteps, At

\* Hardware, interrupt, settings, enable and disable move no thread.
LEMMA OtherMoves ==
  ASSUME Types, Other
  PROVE  UNCHANGED <<pc, want, ctx, pb, mapIt, ctxSem, inUse, addr, mapped, refs, total,
                     premapped, alone>>
BY DEF Other, SetAuto, HwComplete, HwFault, Isr, IsrEnter, IsrCheck, IsrWake, Enable,
       Disable, DisableDown, DisableUp, UnchangedButHw, UnchangedButEnable, contextVars,
       cacheVars

LEMMA EngineTypes ==
  ASSUME Types, NEW t \in Threads, EngineUse(t), UNCHANGED cast
  PROVE  Types'
<1>1. pc' \in [Threads -> Steps]
  <2>1. PICK r \in {"unmap"} \cup OwnerSteps : Go(t, r)
    BY EngineMoves
  <2>2. r \in Steps
    BY DEF OwnerSteps, Steps
  <2> QED BY <2>1, <2>2 DEF Go, Types
<1>2. /\ hwSem' \in Int /\ state' \in {"idle", "transfer"} /\ done' \in BOOLEAN
      /\ clean' \in BOOLEAN
      /\ run' \in Threads \cup {None} /\ irq' \in BOOLEAN /\ err' \in BOOLEAN
  <2> USE DEF Types, engineVars, hwVars
  <2>1. CASE HwDown(t) \/ HwTimeout(t) \/ HwUp(t)
    BY <2>1 DEF HwDown, HwTimeout, HwUp
  <2>2. CASE Check(t) \/ Setup(t) \/ Finish(t)
    BY <2>2 DEF Check, Setup, Finish
  <2>3. CASE Clear(t)
    BY <2>3 DEF Clear, Quiet
  <2>4. CASE Program(t) \/ ProgramFails(t)
    BY <2>4 DEF Program, ProgramFails
  <2>5. CASE WaitDone(t) \/ WaitTimeout(t)
    BY <2>5 DEF WaitDone, WaitTimeout
  <2>6. CASE Abort(t)
    BY <2>6 DEF Abort, StopHw
  <2> QED BY <2>1, <2>2, <2>3, <2>4, <2>5, <2>6 DEF EngineUse
<1> QED BY <1>1, <1>2, EngineMoves DEF Types

LEMMA OtherTypes ==
  ASSUME Types, Other, UNCHANGED cast
  PROVE  Types'
<1>1. /\ moved' \in [Threads -> BOOLEAN] /\ auto' \in {"off", "lock", "map"}
      /\ enable' \in BOOLEAN /\ disabling' \in {"out", "wait", "up"}
      /\ slips' \in Int /\ clean' \in BOOLEAN
      /\ hwSem' \in Int /\ state' \in {"idle", "transfer"} /\ done' \in BOOLEAN
      /\ run' \in Threads \cup {None} /\ irq' \in BOOLEAN /\ err' \in BOOLEAN
      /\ isr' \in {"out", "check", "wake"}
  <2> USE DEF Types, engineVars, hwVars
  <2>1. CASE \E mode \in cast.modes : SetAuto(mode)
    BY <2>1, CastInBounds DEF SetAuto
  <2>2. CASE HwComplete
    BY <2>2 DEF HwComplete, UnchangedButHw
  <2>3. CASE HwFault
    BY <2>3 DEF HwFault, UnchangedButHw
  <2>4. CASE IsrEnter
    BY <2>4 DEF IsrEnter, UnchangedButHw
  <2>5. CASE IsrCheck
    BY <2>5 DEF IsrCheck, StopHw, UnchangedButHw
  <2>6. CASE IsrWake
    BY <2>6 DEF IsrWake, StopHw, UnchangedButHw
  <2>7. CASE Enable \/ Disable
    BY <2>7 DEF Enable, Disable, UnchangedButEnable
  <2>8. CASE DisableDown \/ DisableUp
    BY <2>8 DEF DisableDown, DisableUp, UnchangedButEnable
  <2> QED BY <2>1, <2>2, <2>3, <2>4, <2>5, <2>6, <2>7, <2>8 DEF Other, Isr
<1> QED BY <1>1, OtherMoves DEF Types

-----------------------------------------------------------------------------
(* The locals of a thread. *)

LEMMA LocalsOnly ==
  ASSUME Types, LocalsSet, UNCHANGED <<pc, want, ctx, pb>>
  PROVE  LocalsSet'
BY DEF LocalsSet, Uses

LEMMA LockingLocals ==
  ASSUME Types, LocalsSet, NEW t \in Threads, Locking(t)
  PROVE  LocalsSet'
<1> USE DEF Types, LocalsSet, Uses, UseSteps, OwnerSteps, CtxSteps, Go, At, UnchangedButCache
<1>1. ASSUME NEW b \in Bufs, Unlock(t, b) PROVE LocalsSet'
  BY <1>1, LocalsOnly DEF Unlock
<1>2. ASSUME NEW b \in Bufs, NEW map \in BOOLEAN, Lock(t, b, map) PROVE LocalsSet'
  BY <1>2, DmaAssumption DEF Lock
<1>3. CASE UnlockAll(t)
  BY <1>3 DEF UnlockAll, Step
<1>4. CASE UnlockAllNext(t)
  BY <1>4, LocalsOnly DEF UnlockAllNext
<1>5. CASE UnlockAllEnd(t)
  BY <1>5 DEF UnlockAllEnd, Step, Return
<1> QED BY <1>1, <1>2, <1>3, <1>4, <1>5, CastInBounds DEF Locking

LEMMA ContextLocals ==
  ASSUME Types, LocalsSet, NEW t \in Threads, ContextUse(t)
  PROVE  LocalsSet'
<1> USE DmaAssumption
    DEF Types, LocalsSet, Uses, UseSteps, OwnerSteps, CtxSteps, Go, At, UnchangedButContext
<1>1. ASSUME NEW b \in Bufs, Begin(t, b) PROVE LocalsSet'
  BY <1>1 DEF Begin
<1>2. CASE ContextDown(t)
  BY <1>2 DEF ContextDown, Step
<1>3. CASE ContextTimeout(t)
  BY <1>3 DEF ContextTimeout, Step, Return
<1>4. CASE Scan(t)
  <2>1. PICK c \in Contexts : ctx' = [ctx EXCEPT ![t] = c]
    BY <1>4, ScanTakes
  <2>2. \E s \in {"find", "drop"} : Go(t, s) /\ UNCHANGED <<want, pb>>
    BY <1>4 DEF Scan, Step
  <2>3. At(t, "scan")
    BY <1>4 DEF Scan
  <2> QED BY <2>1, <2>2, <2>3
<1>5. CASE Drop(t)
  BY <1>5 DEF Drop, Step
<1>6. CASE Up(t)
  BY <1>6 DEF Up, Step, Return
<1> QED BY <1>1, <1>2, <1>3, <1>4, <1>5, <1>6 DEF ContextUse

LEMMA PagesLocals ==
  ASSUME Types, LocalsSet, NEW t \in Threads, PageUse(t)
  PROVE  LocalsSet'
<1> USE DEF Types, LocalsSet, Uses, UseSteps, OwnerSteps, CtxSteps, Go, At, UnchangedButPages
<1>1. CASE Find(t)
  <2>1. /\ UNCHANGED <<want, ctx>>
        /\ \/ \E p \in Entries \cup {ctx[t]} : pb' = [pb EXCEPT ![t] = p] /\ Go(t, "test")
           \/ UNCHANGED pb /\ Go(t, "prune")
    BY <1>1 DEF Find, Hits, Listed
  <2>2. pc[t] \in {"find", "findAgain"}
    BY <1>1 DEF Find
  <2> QED BY <2>1, <2>2, DmaAssumption
<1>2. CASE Prune(t)
  BY <1>2, LocalsOnly DEF Prune
<1>3. CASE PruneEnd(t)
  BY <1>3 DEF PruneEnd
<1>4. CASE Add(t) \/ Insert(t)
  <2>1. /\ UNCHANGED <<ctx, pb>>
        /\ \/ ctx[t] # None /\ Step(t, "findAgain")
           \/ Step(t, "insert") /\ At(t, "add")
           \/ ctx[t] = None /\ Step(t, "out")
    BY <1>4 DEF Add, Insert, UnchangedButCache
  <2>2. pc[t] \in {"add", "insert"}
    BY <1>4 DEF Add, Insert
  <2>3. CASE ctx[t] # None /\ Step(t, "findAgain")
    BY <2>1, <2>2, <2>3 DEF Step
  <2>4. CASE Step(t, "insert") /\ At(t, "add")
    BY <2>1, <2>4 DEF Step
  <2>5. CASE ctx[t] = None /\ Step(t, "out")
    BY <2>1, <2>2, <2>5 DEF Step, Return
  <2> QED BY <2>1, <2>3, <2>4, <2>5
<1>5. CASE Test(t)
  BY <1>5 DEF Test
<1>6. CASE Map(t)
  BY <1>6 DEF Map
<1>7. CASE Unmap(t)
  BY <1>7 DEF Unmap
<1>8. CASE Free(t)
  BY <1>8 DEF Free
<1> QED BY <1>1, <1>2, <1>3, <1>4, <1>5, <1>6, <1>7, <1>8 DEF PageUse

LEMMA StepTypes == Types /\ LocalsSet /\ [Next]_vars => Types' /\ LocalsSet'
<1> SUFFICES ASSUME Types, LocalsSet, [Next]_vars PROVE Types' /\ LocalsSet'
  OBVIOUS
<1>1. ASSUME NEW t \in Threads, EngineUse(t) PROVE LocalsSet'
  BY <1>1, EngineMoves
  DEF Types, LocalsSet, Uses, UseSteps, OwnerSteps, CtxSteps, Go
<1>2. CASE UNCHANGED vars
  BY <1>2 DEF Types, LocalsSet, Uses, vars, cacheVars, contextVars, engineVars, hwVars
<1>3. CASE Other /\ UNCHANGED cast
  BY <1>3, OtherTypes, OtherMoves, LocalsOnly
<1> QED
  BY <1>1, <1>2, <1>3, NextCases, LockingTypes, ContextTypes, PagesTypes, EngineTypes,
     LockingLocals, ContextLocals, PagesLocals

LEMMA InitTypes == Init => Types /\ LocalsSet
<1> SUFFICES ASSUME Init PROVE Types /\ LocalsSet
  OBVIOUS
<1>1. Types
  <2>1. ctxSem \in Int
    BY DmaAssumption, FS_CardinalityType DEF Init
  <2>2. /\ pc \in [Threads -> Steps]
        /\ want \in [Threads -> Bufs \cup {None}] /\ ctx \in [Threads -> Contexts \cup {None}]
        /\ pb \in [Threads -> PageBufs \cup {None}]
        /\ mapIt \in [Threads -> BOOLEAN] /\ moved \in [Threads -> BOOLEAN]
    BY DEF Init, Steps
  <2>3. /\ inUse \in [Contexts -> BOOLEAN] /\ addr \in [PageBufs -> Bufs \cup {None}]
        /\ mapped \in [PageBufs -> BOOLEAN] /\ refs \in [Entries -> Int]
    BY DEF Init
  <2>4. /\ total \in Int /\ auto \in {"off", "lock", "map"} /\ hwSem \in Int
        /\ disabling \in {"out", "wait", "up"} /\ state \in {"idle", "transfer"}
        /\ run \in Threads \cup {None} /\ isr \in {"out", "check", "wake"}
    BY DEF Init
  <2>5. enable \in BOOLEAN /\ done \in BOOLEAN /\ irq \in BOOLEAN /\ err \in BOOLEAN
    BY DEF Init
  <2>6. /\ cast \in Casts /\ slips \in Int /\ clean \in BOOLEAN
        /\ alone \in [Threads -> BOOLEAN] /\ premapped \subseteq Entries
    BY DEF Init
  <2> QED BY <2>1, <2>2, <2>3, <2>4, <2>5, <2>6 DEF Types
<1>2. LocalsSet
  BY DEF Init, LocalsSet, Uses, UseSteps, OwnerSteps, CtxSteps
<1> QED BY <1>1, <1>2

-----------------------------------------------------------------------------
(* The engine. *)

\* Threads and dmaDisable exclude each other.
SemaphoreIsLock ==
  /\ hwSem \in {0, 1}
  /\ hwSem = 1 => disabling # "up"
  /\ \A t \in Threads : Owner(t) => hwSem = 0 /\ disabling # "up"
  /\ \A t, u \in Threads : Owner(t) /\ Owner(u) => t = u

LEMMA OwnersFinite == IsFiniteSet(Owners) /\ Cardinality(Owners) \in Nat
<1>1. Owners \in SUBSET Threads
  BY DEF Owners
<1> QED BY <1>1, DmaAssumption, FS_Subset, FS_CardinalityType

\* As long as dmaDisable has not waited in vain the semaphore is a lock.
LEMMA CountsToOne ==
  ASSUME Types, SemaphoreCounts, slips = 0
  PROVE  SemaphoreIsLock
<1>1. /\ hwSem \in Int /\ hwSem >= 0
      /\ hwSem + Cardinality(Owners) + (IF disabling = "up" THEN 1 ELSE 0) = 1
  BY DEF Types, SemaphoreCounts
<1>2. ASSUME NEW t \in Threads, Owner(t)
      PROVE  Cardinality(Owners) = 1 + Cardinality(Owners \ {t})
  <2>1. t \in Owners
    BY <1>2 DEF Owners
  <2>2. Cardinality(Owners \ {t}) = Cardinality(Owners) - 1
    BY <2>1, OwnersFinite, FS_RemoveElement
  <2> QED BY <2>2, OwnersFinite
<1>3. ASSUME NEW t \in Threads, Owner(t)
      PROVE  /\ hwSem = 0 /\ disabling # "up"
             /\ \A u \in Threads : Owner(u) => t = u
  <2>1. IsFiniteSet(Owners \ {t}) /\ Cardinality(Owners \ {t}) \in Nat
    BY OwnersFinite, FS_Subset, FS_CardinalityType
  <2>2. hwSem = 0 /\ disabling # "up" /\ Cardinality(Owners \ {t}) = 0
    BY <1>1, <1>2, <1>3, <2>1
  <2>3. Owners \ {t} = {}
    BY <2>1, <2>2, FS_EmptySet
  <2> QED BY <2>2, <2>3 DEF Owners
<1>4. hwSem \in {0, 1} /\ (hwSem = 1 => disabling # "up")
  BY <1>1, OwnersFinite
<1> QED BY <1>3, <1>4 DEF SemaphoreIsLock

\* Steps that leave the semaphore alone.
LEMMA CountsKept ==
  ASSUME SemaphoreCounts, UNCHANGED <<hwSem, disabling, slips, cast>>,
         \A u \in Threads : Owner(u)' <=> Owner(u)
  PROVE  SemaphoreCounts'
<1>1. Owners' = Owners
  BY DEF Owners
<1> QED BY <1>1 DEF SemaphoreCounts

LEMMA EngineUseCounts ==
  ASSUME Types, SemaphoreCounts, NEW t \in Threads, EngineUse(t), UNCHANGED cast
  PROVE  SemaphoreCounts'
<1> USE DEF Types, Owner, OwnerSteps, At, Go
<1>1. CASE HwDown(t)
  <2>1. /\ pc[t] = "hw" /\ pc' = [pc EXCEPT ![t] = "check"]
        /\ hwSem > 0 /\ hwSem' = hwSem - 1 /\ UNCHANGED <<disabling, slips>>
    BY <1>1 DEF HwDown, UnchangedButEngine
  <2>2. t \notin Owners /\ Owners' = Owners \cup {t}
    BY <2>1 DEF Owners
  <2>3. Cardinality(Owners') = Cardinality(Owners) + 1
    BY <2>2, OwnersFinite, FS_AddElement
  <2> QED BY <2>1, <2>3, OwnersFinite DEF SemaphoreCounts
<1>2. CASE HwUp(t)
  <2>1. /\ pc[t] = "hwUp" /\ pc' = [pc EXCEPT ![t] = "unmap"]
        /\ hwSem' = hwSem + 1 /\ UNCHANGED <<disabling, slips>>
    BY <1>2 DEF HwUp, UnchangedButEngine
  <2>2. t \in Owners /\ Owners' = Owners \ {t}
    BY <2>1 DEF Owners
  <2>3. Cardinality(Owners') = Cardinality(Owners) - 1
    BY <2>2, OwnersFinite, FS_RemoveElement
  <2> QED BY <2>1, <2>3, OwnersFinite DEF SemaphoreCounts
<1>3. CASE \/ HwTimeout(t) \/ Check(t) \/ Setup(t) \/ Clear(t) \/ Program(t) \/ ProgramFails(t)
           \/ WaitDone(t) \/ WaitTimeout(t) \/ Abort(t) \/ Finish(t)
  <2>1. /\ UNCHANGED <<hwSem, disabling, slips>>
        /\ \E r \in Steps : /\ pc' = [pc EXCEPT ![t] = r]
                            /\ r \in OwnerSteps <=> pc[t] \in OwnerSteps
    BY <1>3
    DEF HwTimeout, Check, Setup, Clear, Program, ProgramFails, WaitDone, WaitTimeout, Abort,
        Finish, UnchangedButEngine, engineVars, Steps
  <2> QED BY <2>1, CountsKept
<1> QED BY <1>1, <1>2, <1>3 DEF EngineUse

LEMMA OtherCounts ==
  ASSUME Types, SemaphoreCounts, Other, UNCHANGED cast
  PROVE  SemaphoreCounts'
<1>1. UNCHANGED pc /\ Owners' = Owners
  BY OtherMoves DEF Owners, Owner
<1>2. CASE DisableDown \/ DisableUp
  BY <1>1, <1>2, OwnersFinite, CastInBounds
  DEF DisableDown, DisableUp, SemaphoreCounts, Types, UnchangedButEnable
<1>3. CASE Disable \/ Enable
  BY <1>1, <1>3 DEF Disable, Enable, SemaphoreCounts, Types, UnchangedButEnable
<1>4. CASE (\E mode \in cast.modes : SetAuto(mode)) \/ HwComplete \/ HwFault \/ Isr
  <2>1. UNCHANGED <<hwSem, disabling, slips>>
    BY <1>4
    DEF SetAuto, HwComplete, HwFault, Isr, IsrEnter, IsrCheck, IsrWake, UnchangedButHw,
        engineVars
  <2> QED BY <1>1, <2>1 DEF SemaphoreCounts
<1> QED BY <1>2, <1>3, <1>4 DEF Other

\* Everything before and after the engine leaves it alone.
Elsewhere ==
  /\ UNCHANGED <<hwSem, state, done, clean, run, irq, err, isr, enable, disabling, slips>>
  /\ \A u \in Threads : \/ pc'[u] = pc[u] /\ moved'[u] = moved[u]
                        \/ ~Owner(u) /\ ~Owner(u)'

LEMMA LockingElsewhere ==
  ASSUME Types, NEW t \in Threads, Locking(t)
  PROVE  Elsewhere
BY DEF Locking, Lock, Unlock, UnlockAll, UnlockAllNext, UnlockAllEnd, Step, Return, Go, At,
       UnchangedButCache, engineVars, hwVars, Elsewhere, Owner, OwnerSteps, Types

LEMMA ContextElsewhere ==
  ASSUME Types, NEW t \in Threads, ContextUse(t)
  PROVE  Elsewhere
BY DEF ContextUse, Begin, ContextDown, ContextTimeout, Scan, Drop, Up, Step, Return, Go, At,
       UnchangedButContext, engineVars, hwVars, Elsewhere, Owner, OwnerSteps, Types

LEMMA PagesElsewhere ==
  ASSUME Types, NEW t \in Threads, PageUse(t)
  PROVE  Elsewhere
<1> USE DEF Types, Go, At, engineVars, hwVars, Elsewhere, Owner, OwnerSteps
<1>1. CASE Find(t)
  BY <1>1 DEF Find, UnchangedButPages
<1>2. CASE Prune(t) \/ PruneEnd(t)
  BY <1>2 DEF Prune, PruneEnd, UnchangedButPages
<1>3. CASE Add(t)
  BY <1>3 DEF Add, Step, Return, UnchangedButCache
<1>4. CASE Insert(t)
  BY <1>4 DEF Insert, Step, Return, UnchangedButCache
<1>5. CASE Test(t) \/ Unmap(t)
  BY <1>5 DEF Test, Unmap, UnchangedButPages
<1>6. CASE Map(t)
  BY <1>6 DEF Map, UnchangedButPages
<1>7. CASE Free(t)
  BY <1>7 DEF Free, UnchangedButPages
<1> QED BY <1>1, <1>2, <1>3, <1>4, <1>5, <1>6, <1>7 DEF PageUse

LEMMA ElsewhereKeeps == Types /\ EngineInv /\ Elsewhere /\ UNCHANGED cast => EngineInv'
<1> SUFFICES ASSUME Types, EngineInv, Elsewhere, UNCHANGED cast PROVE EngineInv'
  OBVIOUS
<1>1. SemaphoreCounts'
  BY CountsKept DEF Elsewhere, EngineInv, Owner
<1>2. BusyIsOwned => BusyIsOwned'
  BY DEF Types, BusyIsOwned, Elsewhere, Owner, Busy, OwnerSteps, BusySteps, At
<1>3. OneAfterTheOther /\ WaitsForHw => OneAfterTheOther' /\ WaitsForHw'
  BY DmaAssumption
  DEF Types, OneAfterTheOther, WaitsForHw, Elsewhere, Owner, OwnerSteps, At, Quiet
<1>4. UNCHANGED slips /\ Exclusive' = Exclusive
  BY DEF Elsewhere, Exclusive
<1> QED BY <1>1, <1>2, <1>3, <1>4 DEF EngineInv

\* One step per action that takes, uses or gives back the engine.
LEMMA EngineUseOwned ==
  ASSUME Types, SemaphoreIsLock, BusyIsOwned, NEW t \in Threads, EngineUse(t)
  PROVE  BusyIsOwned'
<1> USE DEF Types, SemaphoreIsLock, BusyIsOwned, Owner, Busy, OwnerSteps, BusySteps, At, Go,
            UnchangedButEngine, engineVars
<1>1. CASE HwDown(t) \/ HwTimeout(t) \/ HwUp(t)
  BY <1>1 DEF HwDown, HwTimeout, HwUp
<1>2. CASE Check(t)
  BY <1>2 DEF Check
<1>3. CASE Setup(t)
  BY <1>3 DEF Setup
<1>4. CASE Clear(t)
  BY <1>4 DEF Clear
<1>5. CASE Program(t) \/ ProgramFails(t)
  BY <1>5 DEF Program, ProgramFails
<1>6. CASE WaitDone(t) \/ WaitTimeout(t)
  BY <1>6 DEF WaitDone, WaitTimeout
<1>7. CASE Abort(t)
  BY <1>7 DEF Abort
<1>8. CASE Finish(t)
  BY <1>8 DEF Finish
<1> QED BY <1>1, <1>2, <1>3, <1>4, <1>5, <1>6, <1>7, <1>8 DEF EngineUse

\* Clear starts afresh, even from a state in which something is left.
LEMMA ClearOrders ==
  ASSUME Types, SemaphoreIsLock, NEW t \in Threads, Clear(t), clean'
  PROVE  OneAfterTheOther' /\ WaitsForHw'
BY DmaAssumption
DEF Types, SemaphoreIsLock, Owner, OwnerSteps, At, Go, Clear, Quiet, hwVars, OneAfterTheOther,
    WaitsForHw, UnchangedButEngine

LEMMA EngineUseOrders ==
  ASSUME Types, SemaphoreIsLock, OneAfterTheOther, WaitsForHw, NEW t \in Threads, EngineUse(t),
         ~Clear(t)
  PROVE  OneAfterTheOther' /\ WaitsForHw'
<1> USE DEF Types, SemaphoreIsLock, OneAfterTheOther, WaitsForHw, Quiet, Owner, OwnerSteps, At,
            Go, UnchangedButEngine, engineVars, hwVars
<1>1. CASE HwDown(t) \/ HwTimeout(t) \/ HwUp(t)
  BY <1>1 DEF HwDown, HwTimeout, HwUp
<1>2. CASE Check(t) \/ Setup(t)
  BY <1>2 DEF Check, Setup
<1>3. CASE Program(t)
  BY <1>3, DmaAssumption DEF Program
<1>4. CASE ProgramFails(t)
  BY <1>4 DEF ProgramFails
<1>5. CASE WaitDone(t)
  BY <1>5 DEF WaitDone
<1>6. CASE WaitTimeout(t)
  BY <1>6 DEF WaitTimeout
<1>7. CASE Abort(t)
  BY <1>7 DEF Abort, StopHw
<1>8. CASE Finish(t)
  BY <1>8 DEF Finish
<1> QED BY <1>1, <1>2, <1>3, <1>4, <1>5, <1>6, <1>7, <1>8 DEF EngineUse

LEMMA EngineUseKeeps ==
  ASSUME Types, EngineInv, NEW t \in Threads, EngineUse(t), UNCHANGED cast
  PROVE  EngineInv'
<1>1. SemaphoreCounts'
  BY EngineUseCounts DEF EngineInv
<1>2. UNCHANGED slips
  BY EngineMoves
<1>3. slips = 0 => SemaphoreIsLock
  BY CountsToOne DEF EngineInv
<1>4. slips = 0 => BusyIsOwned'
  BY <1>3, EngineUseOwned DEF EngineInv
<1>5. CASE Clear(t)
  BY <1>1, <1>2, <1>3, <1>4, <1>5, ClearOrders DEF EngineInv, Exclusive
<1>6. CASE ~Clear(t)
  <2>1. UNCHANGED clean
    BY <1>6
    DEF EngineUse, HwDown, HwTimeout, Check, Setup, Program, ProgramFails, WaitDone,
        WaitTimeout, Abort, Finish, HwUp, engineVars
  <2> QED BY <1>1, <1>2, <1>3, <1>4, <1>6, <2>1, EngineUseOrders DEF EngineInv, Exclusive
<1> QED BY <1>5, <1>6

LEMMA OtherOrders ==
  ASSUME Types, OneAfterTheOther, WaitsForHw, SemaphoreIsLock, Other
  PROVE  OneAfterTheOther' /\ WaitsForHw'
<1> USE DmaAssumption
    DEF Types, SemaphoreIsLock, OneAfterTheOther, WaitsForHw, Quiet, Owner, OwnerSteps, At,
        engineVars, hwVars
<1>1. CASE \E mode \in cast.modes : SetAuto(mode)
  BY <1>1 DEF SetAuto
<1>2. CASE HwComplete
  BY <1>2 DEF HwComplete, UnchangedButHw
<1>3. CASE HwFault
  BY <1>3 DEF HwFault, UnchangedButHw
<1>4. CASE IsrEnter
  BY <1>4 DEF IsrEnter, UnchangedButHw
<1>5. CASE IsrCheck
  BY <1>5 DEF IsrCheck, UnchangedButHw, StopHw
<1>6. CASE IsrWake
  BY <1>6 DEF IsrWake, UnchangedButHw, StopHw
<1>7. CASE Enable \/ Disable
  BY <1>7 DEF Enable, Disable, UnchangedButEnable
<1>8. CASE DisableDown \/ DisableUp
  BY <1>8 DEF DisableDown, DisableUp, UnchangedButEnable
<1> QED BY <1>1, <1>2, <1>3, <1>4, <1>5, <1>6, <1>7, <1>8 DEF Other, Isr

LEMMA OtherOwned ==
  ASSUME Types, SemaphoreIsLock, BusyIsOwned, Other
  PROVE  slips' = slips => BusyIsOwned'
<1> SUFFICES ASSUME slips' = slips PROVE BusyIsOwned'
  OBVIOUS
<1> USE DEF Types, SemaphoreIsLock, BusyIsOwned, Owner, Busy, OwnerSteps, BusySteps, At,
            engineVars
<1>1. CASE (\E mode \in cast.modes : SetAuto(mode)) \/ HwComplete \/ HwFault \/ Isr
  BY <1>1
  DEF SetAuto, HwComplete, HwFault, Isr, IsrEnter, IsrCheck, IsrWake, UnchangedButHw
<1>2. CASE Enable \/ Disable
  BY <1>2 DEF Enable, Disable, UnchangedButEnable
<1>3. CASE DisableDown
  BY <1>3 DEF DisableDown, UnchangedButEnable
<1>4. CASE DisableUp
  BY <1>4 DEF DisableUp, UnchangedButEnable
<1> QED BY <1>1, <1>2, <1>3, <1>4 DEF Other

LEMMA OtherKeepsEngine ==
  ASSUME Types, EngineInv, Other, UNCHANGED cast
  PROVE  EngineInv'
<1>1. SemaphoreCounts'
  BY OtherCounts DEF EngineInv
<1>2. UNCHANGED clean /\ (UNCHANGED slips \/ slips' = slips + 1)
  BY DEF Other, SetAuto, HwComplete, HwFault, Isr, IsrEnter, IsrCheck, IsrWake, Enable,
         Disable, DisableDown, DisableUp, UnchangedButHw, UnchangedButEnable, engineVars
<1>3. slips' = 0 => slips = 0 /\ UNCHANGED slips
  BY <1>2 DEF EngineInv, SemaphoreCounts, Types
<1>4. slips = 0 => SemaphoreIsLock
  BY CountsToOne DEF EngineInv
<1> QED
  BY <1>1, <1>2, <1>3, <1>4, OtherOwned, OtherOrders DEF EngineInv, Exclusive

LEMMA EngineStep ==
  ASSUME Types, EngineInv, [Next]_vars
  PROVE  EngineInv'
<1>1. CASE UNCHANGED vars
  <2>1. Elsewhere /\ UNCHANGED cast
    BY <1>1 DEF vars, engineVars, hwVars, Elsewhere
  <2> QED BY <2>1, ElsewhereKeeps
<1> QED
  BY <1>1, NextCases, LockingElsewhere, ContextElsewhere, PagesElsewhere, ElsewhereKeeps,
     EngineUseKeeps, OtherKeepsEngine

LEMMA InitEngine == Init => EngineInv
<1> SUFFICES ASSUME Init PROVE EngineInv
  OBVIOUS
<1>1. Owners = {}
  BY DEF Init, Owners, Owner, OwnerSteps
<1>2. SemaphoreCounts
  <2>1. Cardinality(Owners) = 0
    BY <1>1, FS_EmptySet
  <2>2. cast.slips \in Nat
    BY DmaAssumption DEF Init, Cast
  <2> QED BY <2>1, <2>2 DEF Init, SemaphoreCounts
<1>3. BusyIsOwned /\ OneAfterTheOther /\ WaitsForHw
  BY DEF Init, BusyIsOwned, OneAfterTheOther, WaitsForHw, Busy, BusySteps, At
<1> QED BY <1>2, <1>3 DEF EngineInv

\* A thread is only told that its transfer is done after the hardware has done
\* it, for any number of threads that share the engine: neither the completion
\* bit nor the interrupt of another transfer is mistaken for its own, but for a
\* handler that is under way when the bit is cleared and for a second semaphore.
THEOREM DoneTransfersMoved == Spec => []DoneMeansMoved
<1>1. Init => EngineInv
  BY InitEngine
<1>2. Types /\ EngineInv => DoneMeansMoved
  <2>1. ASSUME Types, EngineInv, Exclusive, NEW t \in Threads, At(t, "wait"), done
        PROVE  moved[t]
    BY <2>1 DEF EngineInv, OneAfterTheOther, WaitsForHw, At, Types
  <2> QED BY <2>1 DEF DoneMeansMoved
<1>3. Types /\ LocalsSet /\ EngineInv /\ [Next]_vars => EngineInv'
  BY EngineStep
<1> QED BY <1>1, <1>2, <1>3, InitTypes, StepTypes, PTL DEF Spec

\* Once dmaDisable has the hardware none of any number of threads uses it,
\* unless a dmaDisable has waited in vain.
THEOREM DisabledIsQuiet == Spec => []QuietWhenDisabled
<1>1. Init => EngineInv
  BY InitEngine
<1>2. Types /\ EngineInv => QuietWhenDisabled
  <2> SUFFICES ASSUME Types, EngineInv, ~enable, disabling # "wait", slips = 0
               PROVE  state = "idle" /\ (clean => run = None)
    BY DEF QuietWhenDisabled
  <2>1. BusyIsOwned /\ (clean => OneAfterTheOther)
    BY DEF EngineInv, Exclusive
  <2>2. state = "idle"
    BY <2>1 DEF BusyIsOwned, Types
  <2>3. clean => run = None
    BY <2>1 DEF BusyIsOwned, OneAfterTheOther, Types, Busy, BusySteps
  <2> QED BY <2>2, <2>3
<1>3. Types /\ LocalsSet /\ EngineInv /\ [Next]_vars => EngineInv'
  BY EngineStep
<1> QED BY <1>1, <1>2, <1>3, InitTypes, StepTypes, PTL DEF Spec

-----------------------------------------------------------------------------
(* The contexts. *)

\* Threads that the semaphore has let in, or that have not yet signalled it.
Admitted == {t \in Threads : pc[t] \in {"scan", "up"} \/ ctx[t] # None}

\* The flags say which contexts are taken, no two threads take one, and with
\* those admitted the semaphore counts them all.
ContextInv ==
  /\ \A c \in Contexts : inUse[c] <=> \E t \in Threads : ctx[t] = c
  /\ ContextsDistinct
  /\ ctxSem >= 0 /\ ctxSem + Cardinality(Admitted) = Cardinality(Contexts)

\* Steps that neither take nor give back a context.
LEMMA ContextsOnly ==
  ASSUME Types, ContextInv, UNCHANGED <<ctx, ctxSem, inUse>>,
         \A u \in Threads : pc'[u] \in {"scan", "up"} <=> pc[u] \in {"scan", "up"}
  PROVE  ContextInv'
<1>1. Admitted' = Admitted
  BY DEF Admitted
<1> QED BY <1>1 DEF ContextInv, ContextsDistinct

LEMMA AdmittedFinite == IsFiniteSet(Admitted) /\ Cardinality(Admitted) \in Nat
<1>1. Admitted \in SUBSET Threads
  BY DEF Admitted
<1> QED BY <1>1, DmaAssumption, FS_Subset, FS_CardinalityType

\* A thread that the semaphore has let in finds a context.
LEMMA ScanFinds ==
  ASSUME Types, LocalsSet, ContextInv, NEW t \in Threads, At(t, "scan")
  PROVE  \E c \in Contexts : ~inUse[c]
<1> SUFFICES ASSUME \A c \in Contexts : inUse[c] PROVE FALSE
  OBVIOUS
<1> DEFINE holders == {u \in Threads : ctx[u] # None}
           held == [u \in holders |-> ctx[u]]
           others == Admitted \ {t}
<1>1. t \in Admitted /\ ctx[t] = None
  BY DEF Admitted, At, LocalsSet
<1>2. IsFiniteSet(others) /\ Cardinality(others) = Cardinality(Admitted) - 1
  BY <1>1, AdmittedFinite, FS_RemoveElement
<1>3. holders \in SUBSET others
  BY <1>1 DEF Admitted
<1>4. IsFiniteSet(holders) /\ Cardinality(holders) <= Cardinality(others)
  BY <1>2, <1>3, FS_Subset
<1>5. held \in Surjection(holders, Contexts)
  <2>1. held \in [holders -> Contexts]
    BY DEF Types
  <2>2. ASSUME NEW c \in Contexts PROVE \E u \in holders : held[u] = c
    BY DmaAssumption DEF ContextInv
  <2> QED BY <2>1, <2>2 DEF Surjection
<1>6. Cardinality(Contexts) <= Cardinality(holders)
  BY <1>4, <1>5, FS_Surjection
<1>7. /\ Cardinality(Contexts) \in Nat /\ Cardinality(holders) \in Nat
      /\ Cardinality(Admitted) \in Nat
  BY <1>4, AdmittedFinite, FS_CardinalityType, DmaAssumption
<1>8. ctxSem \in Int /\ ctxSem >= 0 /\ ctxSem + Cardinality(Admitted) = Cardinality(Contexts)
  BY DEF ContextInv, Types
<1> QED BY <1>2, <1>4, <1>6, <1>7, <1>8

LEMMA ContextUseKeeps ==
  ASSUME Types, LocalsSet, ContextInv, NEW t \in Threads, ContextUse(t)
  PROVE  ContextInv'
<1> USE DEF Types, At, Go
<1>1. ASSUME NEW b \in Bufs, Begin(t, b) PROVE ContextInv'
  BY <1>1, ContextsOnly DEF Begin, contextVars
<1>2. CASE ContextTimeout(t)
  BY <1>2, ContextsOnly DEF ContextTimeout, Step, Return, contextVars
<1>3. CASE ContextDown(t)
  <2>1. /\ At(t, "context") /\ ctxSem' = ctxSem - 1 /\ ctxSem > 0 /\ Go(t, "scan")
        /\ UNCHANGED <<ctx, inUse>>
    BY <1>3 DEF ContextDown, Step
  <2>2. t \notin Admitted /\ Admitted' = Admitted \cup {t}
    BY <2>1 DEF Admitted, LocalsSet
  <2>3. Cardinality(Admitted') = Cardinality(Admitted) + 1
    BY <2>2, AdmittedFinite, FS_AddElement
  <2>4. ctxSem' >= 0 /\ ctxSem' + Cardinality(Admitted') = Cardinality(Contexts)
    BY <2>1, <2>3, AdmittedFinite DEF ContextInv
  <2>5. /\ \A c \in Contexts : inUse'[c] <=> \E u \in Threads : ctx'[u] = c
        /\ ContextsDistinct'
    BY <2>1 DEF ContextInv, ContextsDistinct
  <2> QED BY <2>4, <2>5 DEF ContextInv
<1>4. CASE Scan(t)
  <2>1. PICK c \in Contexts : /\ (\E d \in Contexts : ~inUse[d]) => ~inUse[c]
                              /\ ctx' = [ctx EXCEPT ![t] = c]
                              /\ inUse' = [inUse EXCEPT ![c] = TRUE]
    BY <1>4, ScanTakes
  <2>2. At(t, "scan") /\ UNCHANGED ctxSem /\ \E s \in {"find", "drop"} : Go(t, s)
    BY <1>4 DEF Scan, Step
  <2>3. ~inUse[c] /\ ctx[t] = None /\ c # None
    BY <2>1, <2>2, ScanFinds, DmaAssumption DEF LocalsSet
  <2>4. Admitted' = Admitted
    BY <2>1, <2>2, <2>3 DEF Admitted
  <2>5. ASSUME NEW d \in Contexts PROVE inUse'[d] <=> \E u \in Threads : ctx'[u] = d
    <3>1. CASE d = c
      BY <2>1, <3>1
    <3>2. CASE d # c
      <4>1. inUse'[d] = inUse[d]
        BY <2>1, <3>2
      <4>2. (\E u \in Threads : ctx'[u] = d) <=> \E u \in Threads : ctx[u] = d
        BY <2>1, <2>3, <3>2, DmaAssumption
      <4> QED BY <4>1, <4>2 DEF ContextInv
    <3> QED BY <3>1, <3>2
  <2>6. ContextsDistinct'
    BY <2>1, <2>3 DEF ContextInv, ContextsDistinct
  <2> QED BY <2>2, <2>4, <2>5, <2>6 DEF ContextInv
<1>5. CASE Drop(t)
  <2>1. /\ At(t, "drop") /\ UNCHANGED ctxSem /\ Go(t, "up")
        /\ inUse' = [inUse EXCEPT ![ctx[t]] = FALSE] /\ ctx' = [ctx EXCEPT ![t] = None]
    BY <1>5 DEF Drop, Step
  <2>2. ctx[t] \in Contexts /\ None \notin Contexts
    BY <2>1, DmaAssumption DEF LocalsSet, CtxSteps
  <2>3. Admitted' = Admitted
    BY <2>1, <2>2 DEF Admitted
  <2>4. ASSUME NEW d \in Contexts PROVE inUse'[d] <=> \E u \in Threads : ctx'[u] = d
    BY <2>1, <2>2 DEF ContextInv, ContextsDistinct
  <2>5. ContextsDistinct'
    BY <2>1, <2>2 DEF ContextInv, ContextsDistinct
  <2> QED BY <2>1, <2>3, <2>4, <2>5 DEF ContextInv
<1>6. CASE Up(t)
  <2>1. /\ At(t, "up") /\ ctxSem' = ctxSem + 1 /\ Go(t, "out")
        /\ UNCHANGED <<ctx, inUse>>
    BY <1>6 DEF Up, Step, Return
  <2>2. t \in Admitted /\ Admitted' = Admitted \ {t}
    BY <2>1 DEF Admitted, LocalsSet
  <2>3. Cardinality(Admitted') = Cardinality(Admitted) - 1
    BY <2>2, AdmittedFinite, FS_RemoveElement
  <2>4. ctxSem' >= 0 /\ ctxSem' + Cardinality(Admitted') = Cardinality(Contexts)
    BY <2>1, <2>3, AdmittedFinite DEF ContextInv
  <2>5. /\ \A c \in Contexts : inUse'[c] <=> \E u \in Threads : ctx'[u] = c
        /\ ContextsDistinct'
    BY <2>1 DEF ContextInv, ContextsDistinct
  <2> QED BY <2>4, <2>5 DEF ContextInv
<1> QED BY <1>1, <1>2, <1>3, <1>4, <1>5, <1>6 DEF ContextUse

LEMMA ContextStep ==
  ASSUME Types, LocalsSet, ContextInv, [Next]_vars
  PROVE  ContextInv'
<1>1. ASSUME NEW t \in Threads, Locking(t) PROVE ContextInv'
  <2>1. /\ UNCHANGED <<ctx, ctxSem, inUse>>
        /\ \A u \in Threads : \/ pc'[u] = pc[u]
                              \/ {pc[u], pc'[u]} \subseteq {"out", "add", "unlockAll"}
    BY <1>1
    DEF Locking, Lock, Unlock, UnlockAll, UnlockAllNext, UnlockAllEnd, Step, Return, Go, At,
        UnchangedButCache, contextVars, Types
  <2> QED BY <2>1, ContextsOnly
<1>2. ASSUME NEW t \in Threads, PageUse(t) PROVE ContextInv'
  <2>1. /\ UNCHANGED <<ctx, ctxSem, inUse>>
        /\ \A u \in Threads : \/ pc'[u] = pc[u]
                              \/ pc[u] \notin {"scan", "up"} /\ pc'[u] \notin {"scan", "up"}
    BY <1>2
    DEF PageUse, Find, Prune, PruneEnd, Add, Insert, Test, Map, Unmap, Free, Step, Return,
        Go, At, UnchangedButPages, UnchangedButCache, contextVars, Types
  <2> QED BY <2>1, ContextsOnly
<1>3. ASSUME NEW t \in Threads, EngineUse(t) PROVE ContextInv'
  <2>1. \A u \in Threads : \/ pc'[u] = pc[u]
                           \/ pc[u] \notin {"scan", "up"} /\ pc'[u] \notin {"scan", "up"}
    BY <1>3, EngineMoves DEF Types, Go, OwnerSteps
  <2> QED BY <1>3, <2>1, EngineMoves, ContextsOnly
<1>4. CASE Other
  BY <1>4, OtherMoves, ContextsOnly
<1>5. CASE UNCHANGED vars
  BY <1>5, ContextsOnly DEF vars, contextVars
<1> QED BY <1>1, <1>2, <1>3, <1>4, <1>5, NextCases, ContextUseKeeps

LEMMA InitContext == Init => ContextInv
<1> SUFFICES ASSUME Init PROVE ContextInv
  OBVIOUS
<1>1. Admitted = {}
  BY DEF Init, Admitted
<1>2. Cardinality(Admitted) = 0 /\ Cardinality(Contexts) \in Nat
  BY <1>1, FS_EmptySet, FS_CardinalityType, DmaAssumption
<1> QED BY <1>2, DmaAssumption DEF Init, ContextInv, ContextsDistinct

\* However many threads compete for however many contexts, no two transfers
\* work in one, without any assumption on the environment.
THEOREM ContextsExclusive == Spec => []ContextsDistinct
<1>1. Types /\ LocalsSet /\ ContextInv /\ [Next]_vars => ContextInv'
  BY ContextStep
<1>2. ContextInv => ContextsDistinct
  BY DEF ContextInv
<1> QED BY <1>1, <1>2, InitTypes, InitContext, StepTypes, PTL DEF Spec

-----------------------------------------------------------------------------
(* The page cache: references and size. *)

Users(p) == {t \in Threads : pb[t] = p}

\* RefsExact, and what is not listed has no references at all.
RefsInv ==
  \A p \in Entries : \/ refs[p] = 0 /\ Users(p) = {}
                     \/ refs[p] = 1 + Cardinality(Users(p))

TotalInv ==
  /\ 0 <= total /\ total <= MaxTotal
  /\ TotalExact

LEMMA UsersFinite == \A p : IsFiniteSet(Users(p)) /\ Cardinality(Users(p)) \in Nat
<1> SUFFICES ASSUME NEW p PROVE IsFiniteSet(Users(p)) /\ Cardinality(Users(p)) \in Nat
  OBVIOUS
<1>1. Users(p) \in SUBSET Threads
  BY DEF Users
<1> QED BY <1>1, DmaAssumption, FS_Subset, FS_CardinalityType

LEMMA UnusedHasNoUsers ==
  ASSUME Types, RefsInv, NEW p \in Unused
  PROVE  p \in Entries /\ refs[p] = 1 /\ Users(p) = {}
<1>1. p \in Entries /\ refs[p] > 0 /\ refs[p] <= 1 /\ refs[p] \in Int
  BY DEF Unused, Listed, Types
<1>2. refs[p] = 1 + Cardinality(Users(p))
  BY <1>1 DEF RefsInv
<1>3. Cardinality(Users(p)) = 0
  BY <1>1, <1>2, UsersFinite
<1> QED BY <1>1, <1>2, <1>3, UsersFinite, FS_EmptySet

\* An entry in use is listed, with a reference for the cache and one for each.
LEMMA UsedIsListed ==
  ASSUME Types, RefsInv, NEW t \in Threads, pb[t] \in Entries
  PROVE  pb[t] \in Listed /\ refs[pb[t]] > 1
<1> DEFINE p == pb[t]
<1>1. t \in Users(p)
  BY DEF Users
<1>2. refs[p] = 1 + Cardinality(Users(p)) /\ Cardinality(Users(p)) # 0
  BY <1>1, UsersFinite, FS_EmptySet DEF RefsInv
<1> QED BY <1>2, UsersFinite DEF Listed

\* Steps that take or drop no reference.
LEMMA RefsOnly ==
  ASSUME RefsInv, UNCHANGED <<pb, refs>>
  PROVE  RefsInv'
BY DEF RefsInv, Users

LEMMA DiscardRefs ==
  ASSUME Types, RefsInv, NEW p \in Unused, Discard(p), UNCHANGED pb
  PROVE  /\ RefsInv'
         /\ p \in Listed /\ Listed' = Listed \ {p}
<1>1. p \in Entries /\ refs[p] = 1 /\ Users(p) = {}
  BY UnusedHasNoUsers
<1>2. \A q \in Entries : refs'[q] = IF q = p THEN 0 ELSE refs[q]
  BY <1>1 DEF Discard, Types
<1>3. \A q : Users(q)' = Users(q)
  BY DEF Users
<1>4. RefsInv'
  BY <1>1, <1>2, <1>3 DEF RefsInv
<1>5. p \in Listed /\ Listed' = Listed \ {p}
  BY <1>1, <1>2 DEF Listed
<1> QED BY <1>4, <1>5

LEMMA FindRefs ==
  ASSUME Types, LocalsSet, RefsInv, NEW t \in Threads, Find(t)
  PROVE  RefsInv' /\ Listed' = Listed
<1>1. pb[t] = None
  BY DEF LocalsSet, Uses, UseSteps, OwnerSteps, Find
<1>2. ASSUME NEW p \in Hits(want[t]), refs' = [refs EXCEPT ![p] = @ + 1],
             pb' = [pb EXCEPT ![t] = p]
      PROVE  RefsInv' /\ Listed' = Listed
  <2>1. p \in Entries /\ refs[p] > 0
    BY DEF Hits, Listed
  <2>2. \A q \in Entries : refs'[q] = IF q = p THEN refs[p] + 1 ELSE refs[q]
    BY <1>2, <2>1 DEF Types
  <2>3. \A q \in Entries : Users(q)' = IF q = p THEN Users(p) \cup {t} ELSE Users(q)
    BY <1>1, <1>2, <2>1, DmaAssumption DEF Users, Types
  <2>4. Cardinality(Users(p)') = Cardinality(Users(p)) + 1
    <3>1. t \notin Users(p)
      BY <1>1, <2>1, DmaAssumption DEF Users
    <3> QED BY <2>1, <2>3, <3>1, UsersFinite, FS_AddElement
  <2>5. refs[p] = 1 + Cardinality(Users(p))
    BY <2>1 DEF RefsInv
  <2>6. refs'[p] = 1 + Cardinality(Users(p)')
    BY <2>1, <2>2, <2>4, <2>5, UsersFinite
  <2>7. RefsInv'
    BY <2>2, <2>3, <2>6 DEF RefsInv
  <2>8. Listed' = Listed
    BY <2>1, <2>2 DEF Listed, Types
  <2> QED BY <2>7, <2>8
<1>3. ASSUME UNCHANGED refs, UNCHANGED pb \/ pb' = [pb EXCEPT ![t] = ctx[t]]
      PROVE  RefsInv' /\ Listed' = Listed
  <2>1. ctx[t] \notin Entries
    BY DmaAssumption DEF Types
  <2>2. \A q \in Entries : Users(q)' = Users(q)
    BY <1>1, <1>3, <2>1, DmaAssumption DEF Users, Types
  <2>3. RefsInv'
    BY <1>3, <2>2 DEF RefsInv
  <2> QED BY <1>3, <2>3 DEF Listed
<1> QED BY <1>2, <1>3 DEF Find

LEMMA FreeRefs ==
  ASSUME Types, LocalsSet, RefsInv, NEW t \in Threads, Free(t)
  PROVE  RefsInv' /\ Listed' = Listed
<1>1. pb' = [pb EXCEPT ![t] = None] /\ None \notin Entries
  BY DmaAssumption DEF Free
<1>2. ASSUME NEW p \in Entries, p = pb[t] PROVE RefsInv' /\ Listed' = Listed
  <2>1. \A q \in Entries : refs'[q] = IF q = p THEN refs[p] - 1 ELSE refs[q]
    BY <1>2 DEF Free, Types
  <2>2. \A q \in Entries : Users(q)' = IF q = p THEN Users(p) \ {t} ELSE Users(q)
    BY <1>1, <1>2 DEF Users, Types
  <2>3. refs[p] > 1 /\ p \in Listed
    BY <1>2, UsedIsListed
  <2>4. refs[p] = 1 + Cardinality(Users(p))
    BY <1>2, <2>3 DEF RefsInv
  <2>5. Cardinality(Users(p)') = Cardinality(Users(p)) - 1
    <3>1. t \in Users(p)
      BY <1>2 DEF Users
    <3> QED BY <1>2, <2>2, <3>1, UsersFinite, FS_RemoveElement
  <2>6. refs'[p] = 1 + Cardinality(Users(p)')
    BY <1>2, <2>1, <2>4, <2>5, UsersFinite
  <2>7. RefsInv'
    BY <2>1, <2>2, <2>6 DEF RefsInv
  <2>8. Listed' = Listed
    BY <1>2, <2>1, <2>3 DEF Listed, Types
  <2> QED BY <2>7, <2>8
<1>3. CASE pb[t] \notin Entries
  <2>1. UNCHANGED refs
    BY <1>3 DEF Free
  <2>2. \A q \in Entries : Users(q)' = Users(q)
    BY <1>1, <1>3 DEF Users, Types
  <2>3. RefsInv'
    BY <2>1, <2>2 DEF RefsInv
  <2> QED BY <2>1, <2>3 DEF Listed
<1> QED BY <1>2, <1>3

LEMMA InsertRefs ==
  ASSUME Types, RefsInv, NEW t \in Threads, NEW p \in Entries, InsertsAt(t, p), UNCHANGED pb
  PROVE  /\ RefsInv' /\ Users(p) = {}
         /\ p \notin Listed /\ Listed' = Listed \cup {p}
<1>1. \A q \in Entries : refs'[q] = IF q = p THEN 1 ELSE refs[q]
  BY DEF InsertsAt, Types
<1>2. refs[p] <= 0 /\ Users(p) = {}
  BY UsersFinite DEF InsertsAt, RefsInv
<1>3. \A q : Users(q)' = Users(q)
  BY DEF Users
<1>4. Cardinality(Users(p)') = 0
  BY <1>2, <1>3, FS_EmptySet
<1>5. RefsInv'
  BY <1>1, <1>3, <1>4 DEF RefsInv
<1>6. p \notin Listed /\ Listed' = Listed \cup {p}
  BY <1>1, <1>2 DEF Listed, Types
<1> QED BY <1>2, <1>5, <1>6

\* References and locked size keep step with the list, whoever fills it,
\* empties it or uses it.
CacheInv == RefsInv /\ TotalInv

LEMMA ListedFinite == IsFiniteSet(Listed) /\ Cardinality(Listed) \in Nat
<1>1. Listed \in SUBSET Entries
  BY DEF Listed
<1> QED BY <1>1, DmaAssumption, FS_Subset, FS_CardinalityType

LEMMA SizeKept ==
  ASSUME TotalInv, UNCHANGED total, Listed' = Listed,
         \A u \in Threads : At(u, "unlockAll") => At(u, "unlockAll")'
  PROVE  TotalInv'
BY DEF TotalInv, TotalExact

LEMMA CacheOnly ==
  ASSUME CacheInv, UNCHANGED <<pb, refs, total>>,
         \A u \in Threads : At(u, "unlockAll") => At(u, "unlockAll")'
  PROVE  CacheInv'
BY RefsOnly, SizeKept DEF CacheInv, Listed

\* An entry discarded and accounted for at once.
LEMMA DiscardCounted ==
  ASSUME Types, CacheInv, NEW p \in Unused, Discard(p), total' = total - 1, UNCHANGED pb,
         \A u \in Threads : At(u, "unlockAll") => At(u, "unlockAll")'
  PROVE  CacheInv'
<1>1. RefsInv' /\ p \in Listed /\ Listed' = Listed \ {p}
  BY DiscardRefs DEF CacheInv
<1>2. Cardinality(Listed') = Cardinality(Listed) - 1 /\ Cardinality(Listed') \in Nat
  BY <1>1, ListedFinite, FS_RemoveElement, FS_CardinalityType
<1>3. TotalInv'
  BY <1>1, <1>2, ListedFinite, DmaAssumption DEF CacheInv, TotalInv, TotalExact, Types
<1> QED BY <1>1, <1>3 DEF CacheInv

LEMMA LockingCache ==
  ASSUME Types, LocalsSet, CacheInv, NEW t \in Threads, Locking(t)
  PROVE  CacheInv'
<1> USE DEF Types, At, Go, UnchangedButCache
<1>1. ASSUME NEW b \in Bufs, Unlock(t, b) PROVE CacheInv'
  <2>1. PICK p \in Unused : Discard(p)
    BY <1>1 DEF Unlock
  <2> QED BY <1>1, <2>1, DiscardCounted DEF Unlock
<1>2. ASSUME NEW b \in Bufs, NEW map \in BOOLEAN, Lock(t, b, map) PROVE CacheInv'
  BY <1>2, CacheOnly DEF Lock, cacheVars
<1>3. CASE UnlockAll(t)
  BY <1>3, CacheOnly DEF UnlockAll, Step, cacheVars
<1>4. CASE UnlockAllNext(t)
  <2>1. PICK p \in Unused : Discard(p)
    BY <1>4 DEF UnlockAllNext
  <2>2. /\ UNCHANGED <<pc, pb, total>> /\ pc[t] = "unlockAll"
        /\ RefsInv' /\ p \in Listed /\ Listed' = Listed \ {p}
    BY <1>4, <2>1, DiscardRefs DEF UnlockAllNext, CacheInv
  <2>3. Cardinality(Listed') = Cardinality(Listed) - 1 /\ Cardinality(Listed') \in Nat
    BY <2>2, ListedFinite, FS_RemoveElement, FS_CardinalityType
  <2>4. TotalInv'
    BY <2>2, <2>3, ListedFinite, DmaAssumption DEF CacheInv, TotalInv, TotalExact
  <2> QED BY <2>2, <2>4 DEF CacheInv
<1>5. CASE UnlockAllEnd(t)
  <2>1. UNCHANGED <<pb, refs>> /\ total' = 0 /\ Listed = {}
    BY <1>5 DEF UnlockAllEnd
  <2>2. Listed' = {} /\ Cardinality(Listed') = 0
    BY <2>1, FS_EmptySet DEF Listed
  <2>3. TotalInv'
    BY <2>1, <2>2, DmaAssumption DEF TotalInv, TotalExact
  <2> QED BY <2>1, <2>3, RefsOnly DEF CacheInv
<1> QED BY <1>1, <1>2, <1>3, <1>4, <1>5, CastInBounds DEF Locking

LEMMA PagesCache ==
  ASSUME Types, LocalsSet, CacheInv, NEW t \in Threads, PageUse(t)
  PROVE  CacheInv'
<1>1. \A u \in Threads : At(u, "unlockAll") => At(u, "unlockAll")'
  BY DEF PageUse, Find, Prune, PruneEnd, Add, Insert, Test, Map, Unmap, Free, Step, Return,
         Go, At, Types
<1>2. CASE Find(t)
  BY <1>1, <1>2, FindRefs, SizeKept DEF Find, CacheInv
<1>3. CASE Prune(t)
  <2>1. PICK p \in Unused : Discard(p)
    BY <1>3 DEF Prune
  <2> QED BY <1>1, <1>3, <2>1, DiscardCounted DEF Prune
<1>4. CASE Insert(t)
  <2>1. UNCHANGED pb
    BY <1>4 DEF Insert, UnchangedButCache
  <2>2. CASE UNCHANGED cacheVars
    BY <1>1, <2>1, <2>2, CacheOnly DEF cacheVars
  <2>3. ASSUME NEW p \in Entries, InsertsAt(t, p) PROVE CacheInv'
    <3>1. RefsInv' /\ p \notin Listed /\ Listed' = Listed \cup {p}
      BY <2>1, <2>3, InsertRefs DEF CacheInv
    <3>2. Cardinality(Listed') = Cardinality(Listed) + 1
      BY <3>1, ListedFinite, FS_AddElement
    <3>3. TotalInv'
      BY <1>1, <2>3, <3>2, ListedFinite, DmaAssumption
      DEF CacheInv, TotalInv, TotalExact, InsertsAt, Types
    <3> QED BY <3>1, <3>3 DEF CacheInv
  <2> QED BY <1>4, <2>2, <2>3, InsertTakes
<1>5. CASE Free(t)
  BY <1>1, <1>5, FreeRefs, SizeKept DEF Free, CacheInv
<1>6. CASE PruneEnd(t) \/ Add(t) \/ Test(t) \/ Map(t) \/ Unmap(t)
  <2>1. UNCHANGED <<pb, refs, total>>
    BY <1>6 DEF PruneEnd, Add, Test, Map, Unmap, UnchangedButCache, cacheVars
  <2> QED BY <1>1, <2>1, CacheOnly
<1> QED BY <1>2, <1>3, <1>4, <1>5, <1>6 DEF PageUse

LEMMA CacheStep ==
  ASSUME Types, LocalsSet, CacheInv, [Next]_vars
  PROVE  CacheInv'
<1>1. ASSUME NEW t \in Threads, ContextUse(t) PROVE CacheInv'
  <2>1. /\ UNCHANGED <<pb, refs, total>>
        /\ \A u \in Threads : At(u, "unlockAll") => At(u, "unlockAll")'
    BY <1>1
    DEF ContextUse, Begin, ContextDown, ContextTimeout, Scan, Drop, Up, Step, Return, Go, At,
        UnchangedButContext, cacheVars, Types
  <2> QED BY <2>1, CacheOnly
<1>2. ASSUME NEW t \in Threads, EngineUse(t) PROVE CacheInv'
  <2>1. \A u \in Threads : At(u, "unlockAll") => At(u, "unlockAll")'
    BY <1>2, EngineMoves DEF At, Go, OwnerSteps, Types
  <2> QED BY <1>2, <2>1, EngineMoves, CacheOnly
<1>3. CASE Other
  BY <1>3, OtherMoves, CacheOnly DEF At
<1>4. CASE UNCHANGED vars
  BY <1>4, CacheOnly DEF vars, cacheVars, At
<1> QED BY <1>1, <1>2, <1>3, <1>4, NextCases, LockingCache, PagesCache

LEMMA InitCache == Init => CacheInv
<1> SUFFICES ASSUME Init PROVE CacheInv
  OBVIOUS
<1>1. \A p \in Entries : refs[p] = 0 /\ Users(p) = {}
  BY DmaAssumption DEF Init, Users
<1>2. Listed = {}
  BY <1>1 DEF Listed
<1>3. Cardinality(Listed) = 0
  BY <1>2, FS_EmptySet
<1> QED BY <1>1, <1>3, DmaAssumption DEF Init, CacheInv, RefsInv, TotalInv, TotalExact

LEMMA CacheInvImplies == ASSUME Types, CacheInv PROVE RefsExact /\ TotalExact
<1>1. ASSUME NEW p \in Entries
      PROVE  IF p \in Listed THEN refs[p] = 1 + Cardinality(Users(p)) ELSE Users(p) = {}
  BY <1>1, UsersFinite DEF CacheInv, RefsInv, Listed
<1> QED BY <1>1 DEF RefsExact, Users, CacheInv, TotalInv

\* The cache never frees an entry under a transfer and never keeps one for
\* ever, for any number of threads and entries.
THEOREM ReferencesExact == Spec => []RefsExact
<1>1. Types /\ LocalsSet /\ CacheInv /\ [Next]_vars => CacheInv'
  BY CacheStep
<1>2. Types /\ CacheInv => RefsExact
  BY CacheInvImplies
<1> QED BY <1>1, <1>2, InitTypes, InitCache, StepTypes, PTL DEF Spec

\* The locked size never drifts from the list.
THEOREM SizeExact == Spec => []TotalExact
<1>1. Types /\ LocalsSet /\ CacheInv /\ [Next]_vars => CacheInv'
  BY CacheStep
<1>2. Types /\ CacheInv => TotalExact
  BY CacheInvImplies
<1> QED BY <1>1, <1>2, InitTypes, InitCache, StepTypes, PTL DEF Spec

-----------------------------------------------------------------------------
(* The page buffers. *)

\* From the mapping of a page buffer to the end of its use.
MappedSteps == {"hw", "unmap"} \cup OwnerSteps

\* A cache entry in use is that of the buffer, what goes to the engine holds
\* its pages, and is mapped unless another transfer may have unmapped it.
Pinned ==
  \A t \in Threads :
    /\ Uses(t) /\ pb[t] \in Entries => addr[pb[t]] = want[t]
    /\ pc[t] \in MappedSteps \ {"unmap"} =>
         /\ addr[pb[t]] = want[t]
         /\ alone[t] \/ pb[t] \in premapped => mapped[pb[t]]

\* Who has been alone with a page buffer still is.
AloneInv ==
  \A t, u \in Threads : t # u /\ Uses(t) /\ alone[t] => pb[u] # pb[t]

\* Entries mapped from the start stay mapped: no transfer unmaps them.
PremappedInv ==
  /\ \A p \in premapped : p \in Listed /\ mapped[p]
  /\ \A t \in Threads :
       pc[t] \in {"map"} \cup MappedSteps /\ pb[t] \in premapped => ~mapIt[t]

\* The page buffer of a context is mapped by the transfer that has it, and
\* unmapped by it.
ContextPages ==
  /\ \A c \in Contexts : mapped[c] => \E t \in Threads : pb[t] = c /\ pc[t] \in MappedSteps
  /\ \A t \in Threads :
       pc[t] \in {"map"} \cup MappedSteps /\ pb[t] \in Contexts => mapIt[t]

PagesInv == Pinned /\ AloneInv /\ PremappedInv /\ ContextPages

\* Two users of one page buffer share an entry of the buffer both transfer.
LEMMA SameEntry ==
  ASSUME Types, LocalsSet, ContextInv, Pinned,
         NEW t \in Threads, NEW u \in Threads, t # u, Uses(t), pb[t] = pb[u]
  PROVE  Uses(u) /\ pb[t] \in Entries /\ want[t] = want[u]
<1>1. Uses(u)
  BY DEF LocalsSet
<1>2. ctx[t] # None /\ ctx[u] # None
  BY <1>1 DEF LocalsSet, Uses, CtxSteps
<1>3. pb[t] \in Entries
  BY <1>1, <1>2 DEF LocalsSet, ContextInv, ContextsDistinct
<1> QED BY <1>1, <1>3 DEF Pinned

\* A thread moves between steps that use no page buffer.
LEMMA OutsidePages ==
  ASSUME Types, LocalsSet, PagesInv, NEW t \in Threads,
         UNCHANGED <<pb, addr, mapped, refs, premapped, alone>>,
         \A u \in Threads \ {t} : /\ pc'[u] = pc[u] /\ want'[u] = want[u]
                                  /\ mapIt'[u] = mapIt[u],
         pc[t] \notin UseSteps, pc'[t] \notin UseSteps
  PROVE  PagesInv'
<1> USE DEF UseSteps, OwnerSteps, MappedSteps
<1>1. Pinned'
  BY DEF PagesInv, Pinned, Uses
<1>2. AloneInv'
  BY DEF PagesInv, AloneInv, Uses
<1>3. PremappedInv'
  BY DEF PagesInv, PremappedInv, Listed
<1>4. ContextPages'
  <2>1. ASSUME NEW c \in Contexts, mapped'[c]
        PROVE  \E u \in Threads : pb'[u] = c /\ pc'[u] \in MappedSteps
    BY <2>1 DEF PagesInv, ContextPages
  <2>2. ASSUME NEW u \in Threads, pc'[u] \in {"map"} \cup MappedSteps, pb'[u] \in Contexts
        PROVE  mapIt'[u]
    BY <2>2 DEF PagesInv, ContextPages
  <2> QED BY <2>1, <2>2 DEF ContextPages
<1> QED BY <1>1, <1>2, <1>3, <1>4 DEF PagesInv

LEMMA DiscardPages ==
  ASSUME Types, LocalsSet, CacheInv, PagesInv, NEW p \in Unused, Discard(p),
         UNCHANGED <<pc, want, ctx, pb, mapIt, alone>>
  PROVE  PagesInv'
<1>1. p \in Entries /\ p \notin Contexts /\ Listed' = Listed \ {p}
  BY UnusedHasNoUsers, DiscardRefs, DmaAssumption DEF CacheInv
<1>2. \A t \in Threads : pb[t] # p
  BY UnusedHasNoUsers DEF CacheInv, Users
<1>3. /\ \A q \in PageBufs : q # p => addr'[q] = addr[q] /\ mapped'[q] = mapped[q]
      /\ premapped' = premapped \ {p} /\ premapped \subseteq PageBufs
  BY DEF Discard, Types, PageBufs
<1>4. \A t \in Threads : Uses(t) => pb[t] \in PageBufs
  BY DEF LocalsSet, Types, PageBufs
<1>5. Pinned'
  BY <1>2, <1>3, <1>4 DEF PagesInv, Pinned, Uses, UseSteps, MappedSteps
<1>6. AloneInv'
  BY DEF PagesInv, AloneInv, Uses
<1>7. PremappedInv'
  BY <1>1, <1>3 DEF PagesInv, PremappedInv
<1>8. ContextPages'
  BY <1>1, <1>3 DEF PagesInv, ContextPages, PageBufs
<1> QED BY <1>5, <1>6, <1>7, <1>8 DEF PagesInv

LEMMA LockingPages ==
  ASSUME Types, LocalsSet, CacheInv, PagesInv, NEW t \in Threads, Locking(t)
  PROVE  PagesInv'
<1> USE DEF Types, At, Go, UnchangedButCache, cacheVars, UseSteps, OwnerSteps
<1>1. ASSUME NEW b \in Bufs, Unlock(t, b) PROVE PagesInv'
  BY <1>1, DiscardPages DEF Unlock
<1>2. ASSUME NEW b \in Bufs, NEW map \in BOOLEAN, Lock(t, b, map) PROVE PagesInv'
  BY <1>2, OutsidePages DEF Lock
<1>3. CASE UnlockAll(t)
  BY <1>3, OutsidePages DEF UnlockAll, Step
<1>4. CASE UnlockAllNext(t)
  BY <1>4, DiscardPages DEF UnlockAllNext
<1>5. CASE UnlockAllEnd(t)
  BY <1>5, OutsidePages DEF UnlockAllEnd, Step, Return
<1> QED BY <1>1, <1>2, <1>3, <1>4, <1>5, CastInBounds DEF Locking

LEMMA ContextPagesKept ==
  ASSUME Types, LocalsSet, PagesInv, NEW t \in Threads, ContextUse(t)
  PROVE  PagesInv'
<1>1. /\ UNCHANGED <<pb, addr, mapped, refs, premapped, alone>>
      /\ \A u \in Threads \ {t} : /\ pc'[u] = pc[u] /\ want'[u] = want[u]
                                  /\ mapIt'[u] = mapIt[u]
      /\ pc[t] \in {"out", "context", "scan", "drop", "up"}
      /\ pc'[t] \in {"out", "context", "scan", "find", "drop", "up"}
  BY DEF ContextUse, Begin, ContextDown, ContextTimeout, Scan, Drop, Up, Step, Return, Go, At,
         UnchangedButContext, cacheVars, Types
<1> QED BY <1>1, OutsidePages DEF UseSteps, OwnerSteps

\* Finding a page buffer: an entry of the buffer wanted, alone if no other
\* transfer has it, or that of the context.
LEMMA FindPages ==
  ASSUME Types, LocalsSet, ContextInv, CacheInv, PagesInv, NEW t \in Threads, Find(t)
  PROVE  PagesInv'
<1>1. /\ pc[t] \in {"find", "findAgain"} /\ ~Uses(t) /\ pb[t] = None /\ ctx[t] # None
      /\ UNCHANGED <<want, mapIt, addr, mapped, premapped>>
      /\ Listed' = Listed
  BY FindRefs
  DEF Find, UnchangedButPages, LocalsSet, Uses, UseSteps, OwnerSteps, CtxSteps, CacheInv
<1>2. CASE pc' = [pc EXCEPT ![t] = "prune"] /\ UNCHANGED <<pb, alone, refs>>
  BY <1>1, <1>2, OutsidePages DEF Uses, UseSteps, OwnerSteps, Types
<1>3. ASSUME NEW p \in PageBufs, pc' = [pc EXCEPT ![t] = "test"],
             pb' = [pb EXCEPT ![t] = p], p \in Entries => addr[p] = want[t],
             \A u \in Threads \ {t} : alone'[u] => alone[u] /\ pb[u] # p,
             alone'[t] => \A u \in Threads : pb[u] # p
      PROVE  PagesInv'
  <2>1. Pinned'
    BY <1>1, <1>3 DEF PagesInv, Pinned, Uses, UseSteps, OwnerSteps, MappedSteps, Types
  <2>2. AloneInv'
    BY <1>1, <1>3 DEF PagesInv, AloneInv, Uses, Types
  <2>3. PremappedInv'
    BY <1>1, <1>3 DEF PagesInv, PremappedInv, OwnerSteps, MappedSteps, Types
  <2>4. ContextPages'
    BY <1>1, <1>3 DEF PagesInv, ContextPages, OwnerSteps, MappedSteps, Types
  <2> QED BY <2>1, <2>2, <2>3, <2>4 DEF PagesInv
<1>4. CASE UNCHANGED alone /\ pb' = [pb EXCEPT ![t] = ctx[t]] /\ pc' = [pc EXCEPT ![t] = "test"]
  <2>1. ctx[t] \in PageBufs /\ ctx[t] \notin Entries
    BY <1>1, DmaAssumption DEF Types, PageBufs
  <2>2. \A u \in Threads : pb[u] # ctx[t]
    <3> SUFFICES ASSUME NEW u \in Threads, pb[u] = ctx[t] PROVE FALSE
      OBVIOUS
    <3>1. u # t /\ Uses(u)
      BY <1>1 DEF LocalsSet
    <3>2. pb[u] = ctx[u] /\ ctx[u] # None
      BY <2>1, <3>1 DEF LocalsSet, Uses, CtxSteps
    <3> QED BY <3>1, <3>2 DEF ContextInv, ContextsDistinct
  <2> QED BY <1>3, <1>4, <2>1, <2>2
<1>5. ASSUME NEW p \in Hits(want[t]), pb' = [pb EXCEPT ![t] = p], Go(t, "test"),
             alone' = [u \in Threads |-> IF u = t THEN \A v \in Threads : pb[v] # p
                                                  ELSE alone[u] /\ pb[u] # p]
      PROVE  PagesInv'
  <2>1. p \in PageBufs /\ addr[p] = want[t]
    BY DEF Hits, Listed, PageBufs
  <2> QED BY <1>3, <1>5, <2>1 DEF Go
<1> QED BY <1>2, <1>4, <1>5 DEF Find, Go

\* Making room for an entry and adding one.
LEMMA AddPages ==
  ASSUME Types, LocalsSet, CacheInv, PagesInv, NEW t \in Threads,
         Prune(t) \/ PruneEnd(t) \/ Add(t) \/ Insert(t)
  PROVE  PagesInv'
<1> USE DEF At, Go
<1>1. CASE Prune(t)
  BY <1>1, DiscardPages DEF Prune, UnchangedButPages
<1>2. CASE PruneEnd(t)
  BY <1>2, OutsidePages DEF PruneEnd, UnchangedButPages, cacheVars, UseSteps, OwnerSteps, Types
<1>3. ASSUME NEW s \in {"insert", "findAgain", "out"}, Step(t, s)
      PROVE  /\ \A u \in Threads \ {t} : /\ pc'[u] = pc[u] /\ want'[u] = want[u]
                                         /\ mapIt'[u] = mapIt[u]
             /\ pc'[t] = s
  BY <1>3 DEF Step, Return, Types
<1>4. CASE Add(t)
  <2>1. /\ At(t, "add") /\ UNCHANGED <<pb, addr, mapped, refs, premapped, alone>>
        /\ \E s \in {"insert", "findAgain", "out"} : Step(t, s)
    BY <1>4 DEF Add, UnchangedButCache, cacheVars
  <2> QED BY <1>3, <2>1, OutsidePages DEF UseSteps, OwnerSteps
<1>5. CASE Insert(t)
  <2>1. /\ At(t, "insert") /\ UNCHANGED <<pb, alone>>
        /\ \E s \in {"findAgain", "out"} : Step(t, s)
    BY <1>5 DEF Insert, UnchangedButCache
  <2>2. /\ \A u \in Threads \ {t} : /\ pc'[u] = pc[u] /\ want'[u] = want[u]
                                    /\ mapIt'[u] = mapIt[u]
        /\ pc'[t] \in {"findAgain", "out"}
    BY <1>3, <2>1
  <2>3. CASE UNCHANGED cacheVars
    BY <2>1, <2>2, <2>3, OutsidePages DEF cacheVars, UseSteps, OwnerSteps
  <2>4. ASSUME NEW p \in Entries, InsertsAt(t, p) PROVE PagesInv'
    <3>1. /\ Listed' = Listed \cup {p} /\ \A u \in Threads : pb[u] # p
      BY <2>1, <2>4, InsertRefs DEF CacheInv, Users
    <3>2. p \notin Contexts
      BY DmaAssumption
    <3>3. /\ \A q \in PageBufs : q # p => addr'[q] = addr[q] /\ mapped'[q] = mapped[q]
          /\ mapped'[p] = mapIt[t]
      BY <2>4 DEF InsertsAt, Types, PageBufs
    <3>4. /\ premapped \subseteq PageBufs /\ premapped' \subseteq PageBufs
          /\ \A q \in PageBufs \ {p} : q \in premapped' <=> q \in premapped
          /\ p \in premapped' => mapIt[t]
      <4>1. premapped \subseteq PageBufs
        BY DEF Types, PageBufs
      <4>2. premapped' = IF mapIt[t] THEN premapped \cup {p} ELSE premapped \ {p}
        BY <2>4 DEF InsertsAt
      <4>3. p \in PageBufs
        BY DEF PageBufs
      <4> QED BY <4>1, <4>2, <4>3
    <3>5. \A u \in Threads : Uses(u) => pb[u] \in PageBufs
      BY DEF LocalsSet, Types, PageBufs
    <3>6. Pinned'
      BY <2>1, <2>2, <3>1, <3>3, <3>4, <3>5
      DEF PagesInv, Pinned, Uses, UseSteps, OwnerSteps, MappedSteps
    <3>7. AloneInv'
      BY <2>1, <2>2 DEF PagesInv, AloneInv, Uses, UseSteps, OwnerSteps
    <3>8. PremappedInv'
      BY <2>1, <2>2, <3>1, <3>3, <3>4 DEF PagesInv, PremappedInv, OwnerSteps, MappedSteps
    <3>9. ContextPages'
      BY <2>1, <2>2, <3>2, <3>3 DEF PagesInv, ContextPages, OwnerSteps, MappedSteps, PageBufs
    <3> QED BY <3>6, <3>7, <3>8, <3>9 DEF PagesInv
  <2> QED BY <1>5, <2>3, <2>4, InsertTakes
<1> QED BY <1>1, <1>2, <1>4, <1>5

\* Mapping, unmapping and giving back: other users of the page buffer transfer
\* the same memory, and know that they are not alone.
LEMMA UsePages ==
  ASSUME Types, LocalsSet, ContextInv, CacheInv, PagesInv, NEW t \in Threads,
         Test(t) \/ Map(t) \/ Unmap(t) \/ Free(t)
  PROVE  PagesInv'
<1> USE DEF At, Go
<1>1. /\ pc[t] \in {"test", "map", "unmap", "free"} /\ Uses(t)
      /\ UNCHANGED <<want, premapped>>
      /\ \A u \in Threads \ {t} : /\ pc'[u] = pc[u] /\ pb'[u] = pb[u]
                                  /\ mapIt'[u] = mapIt[u] /\ alone'[u] = alone[u]
  <2>1. CASE Test(t)
    BY <2>1 DEF Test, UnchangedButPages, cacheVars, Uses, UseSteps, Types
  <2>2. CASE Map(t)
    BY <2>2 DEF Map, UnchangedButPages, Uses, UseSteps, Types
  <2>3. CASE Unmap(t)
    BY <2>3 DEF Unmap, UnchangedButPages, Uses, UseSteps, Types
  <2>4. CASE Free(t)
    BY <2>4 DEF Free, UnchangedButPages, Uses, UseSteps, Types
  <2> QED BY <2>1, <2>2, <2>3, <2>4
<1>2. PICK p \in PageBufs : p = pb[t]
  BY <1>1 DEF LocalsSet, Types, PageBufs
<1>3. ASSUME NEW u \in Threads \ {t}, pb[u] = p
      PROVE  p \in Entries /\ want[t] = want[u] /\ ~alone[u]
  <2>1. Uses(u) /\ p \in Entries /\ want[t] = want[u]
    BY <1>1, <1>2, <1>3, SameEntry DEF PagesInv
  <2> QED BY <1>2, <1>3, <2>1 DEF PagesInv, AloneInv, Types
<1>4. p \in Entries => addr[p] = want[t] /\ p \in Listed
  BY <1>1, <1>2, UsedIsListed DEF PagesInv, Pinned, CacheInv
<1>5. p \in Contexts => \A u \in Threads \ {t} : pb[u] # p
  BY <1>3, DmaAssumption
<1>6. p \in Contexts \/ p \in Entries
  BY DEF PageBufs
<1>7. /\ premapped \subseteq PageBufs
      /\ \A u \in Threads : Uses(u) => pb[u] \in PageBufs
  BY DEF LocalsSet, Types, PageBufs
<1> USE DEF MappedSteps, OwnerSteps
<1>8. CASE Test(t)
  <2>1. /\ At(t, "test") /\ pc'[t] = "map" /\ mapIt'[t] = ~mapped[p]
        /\ UNCHANGED <<pb, addr, mapped, refs, alone>>
    BY <1>2, <1>8 DEF Test, UnchangedButPages, cacheVars, Types
  <2>2. p \in Contexts => ~mapped[p]
    BY <1>5, <2>1 DEF PagesInv, ContextPages
  <2>3. Pinned'
    BY <1>1, <2>1 DEF PagesInv, Pinned, Uses, UseSteps
  <2>4. AloneInv'
    BY <1>1, <2>1 DEF PagesInv, AloneInv, Uses, UseSteps
  <2>5. PremappedInv'
    BY <1>1, <1>2, <2>1 DEF PagesInv, PremappedInv, Listed
  <2>6. ContextPages'
    <3>1. ASSUME NEW c \in Contexts, mapped[c]
          PROVE  \E u \in Threads : pb'[u] = c /\ pc'[u] \in MappedSteps
      BY <1>1, <2>1, <3>1 DEF PagesInv, ContextPages
    <3>2. ASSUME NEW u \in Threads, pc'[u] \in {"map"} \cup MappedSteps, pb'[u] \in Contexts
          PROVE  mapIt'[u]
      <4>1. CASE u = t
        BY <1>2, <2>1, <2>2, <3>2, <4>1
      <4>2. CASE u # t
        BY <1>1, <3>2, <4>2 DEF PagesInv, ContextPages
      <4> QED BY <4>1, <4>2
    <3> QED BY <2>1, <3>1, <3>2 DEF ContextPages
  <2> QED BY <2>3, <2>4, <2>5, <2>6 DEF PagesInv
<1>9. CASE Map(t)
  <2>1. /\ At(t, "map") /\ UNCHANGED <<pb, mapIt, refs, alone>>
        /\ pc'[t] = IF mapped'[p] THEN "hw" ELSE "unmap"
        /\ \/ UNCHANGED <<addr, mapped>>
           \/ /\ mapIt[t]
              /\ addr' = [addr EXCEPT ![p] = want[t]]
              /\ mapped' = [mapped EXCEPT ![p] = TRUE]
    BY <1>2, <1>9 DEF Map, UnchangedButPages, Types
  <2>2. AloneInv'
    BY <1>1, <2>1 DEF PagesInv, AloneInv, Uses, UseSteps
  <2>3. CASE UNCHANGED <<addr, mapped>>
    <3>1. p \in Contexts => ~mapped[p]
      BY <1>5, <2>1 DEF PagesInv, ContextPages
    <3>2. Pinned'
      BY <1>1, <1>2, <1>4, <1>6, <2>1, <2>3, <3>1 DEF PagesInv, Pinned, Uses, UseSteps
    <3>3. PremappedInv'
      BY <1>1, <2>1, <2>3 DEF PagesInv, PremappedInv, Listed
    <3>4. ContextPages'
      BY <1>1, <2>1, <2>3 DEF PagesInv, ContextPages
    <3> QED BY <2>2, <3>2, <3>3, <3>4 DEF PagesInv
  <2>4. CASE /\ mapIt[t]
             /\ addr' = [addr EXCEPT ![p] = want[t]]
             /\ mapped' = [mapped EXCEPT ![p] = TRUE]
    <3>1. /\ addr'[p] = want[t] /\ mapped'[p] /\ pc'[t] = "hw"
          /\ \A q \in PageBufs : q # p => addr'[q] = addr[q] /\ mapped'[q] = mapped[q]
      BY <2>1, <2>4 DEF Types
    <3>2. Pinned'
      BY <1>1, <1>2, <1>3, <1>7, <2>1, <3>1 DEF PagesInv, Pinned, Uses, UseSteps
    <3>3. PremappedInv'
      BY <1>1, <1>7, <2>1, <3>1 DEF PagesInv, PremappedInv, Listed
    <3>4. ContextPages'
      BY <1>1, <1>2, <2>1, <2>4, <3>1 DEF PagesInv, ContextPages, PageBufs
    <3> QED BY <2>2, <3>2, <3>3, <3>4 DEF PagesInv
  <2> QED BY <2>1, <2>3, <2>4
<1>10. CASE Unmap(t)
  <2>1. /\ At(t, "unmap") /\ UNCHANGED <<pb, mapIt, addr, refs, alone>>
        /\ pc'[t] = "free"
        /\ mapped' = IF mapIt[t] THEN [mapped EXCEPT ![p] = FALSE] ELSE mapped
    BY <1>2, <1>10 DEF Unmap, UnchangedButPages, Types
  <2>2. p \in Contexts => mapIt[t]
    BY <1>2, <2>1 DEF PagesInv, ContextPages
  <2>3. mapIt[t] => p \notin premapped
    BY <1>2, <2>1 DEF PagesInv, PremappedInv
  <2>4. /\ \A q \in PageBufs : q # p => mapped'[q] = mapped[q]
        /\ IF mapIt[t] THEN ~mapped'[p] ELSE mapped'[p] = mapped[p]
    BY <2>1 DEF Types
  <2>5. Pinned'
    BY <1>1, <1>2, <1>3, <1>7, <2>1, <2>3, <2>4 DEF PagesInv, Pinned, Uses, UseSteps
  <2>6. AloneInv'
    BY <1>1, <2>1 DEF PagesInv, AloneInv, Uses, UseSteps
  <2>7. PremappedInv'
    BY <1>1, <1>7, <2>1, <2>3, <2>4 DEF PagesInv, PremappedInv, Listed
  <2>8. ContextPages'
    BY <1>1, <1>2, <2>1, <2>2, <2>4 DEF PagesInv, ContextPages, PageBufs
  <2> QED BY <2>5, <2>6, <2>7, <2>8 DEF PagesInv
<1>11. CASE Free(t)
  <2>1. /\ At(t, "free") /\ UNCHANGED <<mapIt, mapped>>
        /\ pc'[t] = "drop" /\ pb'[t] = None
        /\ addr' = IF p \in Entries THEN addr ELSE [addr EXCEPT ![p] = None]
    BY <1>2, <1>11 DEF Free, UnchangedButPages, Types
  <2>2. Listed' = Listed
    BY <1>11, FreeRefs DEF CacheInv
  <2>3. p \notin Entries => \A u \in Threads \ {t} : pb[u] # p
    BY <1>3
  <2>4. /\ \A q \in PageBufs : q # p => addr'[q] = addr[q]
        /\ p \in Entries => addr'[p] = addr[p]
    BY <2>1 DEF Types
  <2>5. Pinned'
    BY <1>1, <1>7, <2>1, <2>3, <2>4 DEF PagesInv, Pinned, Uses, UseSteps
  <2>6. AloneInv'
    <3>1. ASSUME NEW v \in Threads, NEW u \in Threads, v # u, Uses(v)', alone'[v]
          PROVE  pb'[u] # pb'[v]
      <4>1. v # t /\ Uses(v) /\ alone[v] /\ pb'[v] = pb[v] /\ pb[v] # None
        BY <1>1, <2>1, <3>1 DEF Uses, UseSteps, LocalsSet
      <4> QED BY <1>1, <2>1, <3>1, <4>1 DEF PagesInv, AloneInv
    <3> QED BY <3>1 DEF AloneInv
  <2>7. PremappedInv'
    BY <1>1, <2>1, <2>2 DEF PagesInv, PremappedInv
  <2>8. ContextPages'
    BY <1>1, <2>1 DEF PagesInv, ContextPages
  <2> QED BY <2>5, <2>6, <2>7, <2>8 DEF PagesInv
<1> QED BY <1>8, <1>9, <1>10, <1>11

LEMMA EnginePages ==
  ASSUME Types, LocalsSet, PagesInv, NEW t \in Threads, EngineUse(t)
  PROVE  PagesInv'
<1>1. /\ UNCHANGED <<want, pb, mapIt, addr, mapped, refs, premapped, alone>>
      /\ \A u \in Threads \ {t} : pc'[u] = pc[u]
      /\ pc[t] \in {"hw"} \cup OwnerSteps /\ pc'[t] \in {"unmap"} \cup OwnerSteps
  BY EngineMoves DEF Go, Types
<1> USE DEF OwnerSteps, MappedSteps
<1>2. Pinned'
  BY <1>1 DEF PagesInv, Pinned, Uses, UseSteps
<1>3. AloneInv'
  BY <1>1 DEF PagesInv, AloneInv, Uses, UseSteps
<1>4. PremappedInv'
  BY <1>1 DEF PagesInv, PremappedInv, Listed
<1>5. ContextPages'
  BY <1>1 DEF PagesInv, ContextPages
<1> QED BY <1>2, <1>3, <1>4, <1>5 DEF PagesInv

LEMMA PagesUntouched ==
  ASSUME PagesInv, UNCHANGED <<pc, want, pb, mapIt, addr, mapped, refs, premapped, alone>>
  PROVE  PagesInv'
BY DEF PagesInv, Pinned, AloneInv, PremappedInv, ContextPages, Uses, Listed

LEMMA PagesStep ==
  ASSUME Types, LocalsSet, ContextInv, CacheInv, PagesInv, [Next]_vars
  PROVE  PagesInv'
<1>1. CASE UNCHANGED vars
  BY <1>1, PagesUntouched DEF vars, cacheVars
<1>2. ASSUME NEW t \in Threads, PageUse(t) PROVE PagesInv'
  BY <1>2, FindPages, AddPages, UsePages DEF PageUse
<1>3. CASE Other
  BY <1>3, OtherMoves, PagesUntouched
<1> QED
  BY <1>1, <1>2, <1>3, NextCases, LockingPages, ContextPagesKept, EnginePages

LEMMA InitPages == Init => PagesInv
BY DmaAssumption
DEF Init, PagesInv, Pinned, AloneInv, PremappedInv, ContextPages, Uses, UseSteps, OwnerSteps,
    MappedSteps, PageBufs

\* Whatever is locked, unlocked, pruned or transferred beside it, the memory
\* under a running transfer stays locked and its own, and mapped unless another
\* transfer of the same memory, mapped by neither when it was cached, unmaps it.
THEOREM DmaIntoMappedMemory == Spec => []MappedUnderDma
<1>1. Types /\ LocalsSet /\ ContextInv /\ CacheInv /\ PagesInv /\ EngineInv /\ [Next]_vars
        => ContextInv' /\ CacheInv' /\ PagesInv' /\ EngineInv'
  BY ContextStep, CacheStep, PagesStep, EngineStep
<1>2. Types /\ PagesInv /\ EngineInv => MappedUnderDma
  <2> SUFFICES ASSUME Types, PagesInv, EngineInv, run # None, Exclusive
               PROVE  /\ pc[run] \in {"wait", "abort"}
                      /\ addr[pb[run]] = want[run]
                      /\ alone[run] \/ pb[run] \in premapped => mapped[pb[run]]
    BY DEF MappedUnderDma
  <2>1. run \in Threads /\ pc[run] \in {"wait", "abort"}
    BY DEF Types, EngineInv, OneAfterTheOther
  <2> QED BY <2>1 DEF PagesInv, Pinned, MappedSteps, OwnerSteps
<1>3. Init => ContextInv /\ CacheInv /\ PagesInv /\ EngineInv
  BY InitContext, InitCache, InitPages, InitEngine
<1> QED BY <1>1, <1>2, <1>3, InitTypes, StepTypes, PTL DEF Spec

\* Types with the bounds of the counters: no count of references or contexts
\* and no size ever leaves its range, and the transfer semaphore exceeds one by
\* no more than the times dmaDisable has waited in vain.
THEOREM TypeCorrect == Spec => []TypeOK
<1>1. ASSUME Types, ContextInv, CacheInv, EngineInv PROVE TypeOK
  <2>1. ctxSem \in 0 .. Cardinality(Contexts)
    BY <1>1, AdmittedFinite, FS_CardinalityType, DmaAssumption DEF ContextInv, Types
  <2>2. ASSUME NEW p \in Entries PROVE refs[p] \in 0 .. Cardinality(Threads) + 1
    <3>1. Users(p) \in SUBSET Threads
      BY DEF Users
    <3>2. /\ Cardinality(Users(p)) <= Cardinality(Threads)
          /\ Cardinality(Users(p)) \in Nat /\ Cardinality(Threads) \in Nat
      BY <3>1, UsersFinite, FS_Subset, FS_CardinalityType, DmaAssumption
    <3> QED BY <1>1, <3>2 DEF CacheInv, RefsInv
  <2>3. refs \in [Entries -> 0 .. Cardinality(Threads) + 1]
    BY <1>1, <2>2 DEF Types
  <2>4. total \in 0 .. MaxTotal
    BY <1>1, DmaAssumption DEF CacheInv, TotalInv, Types
  <2>5. /\ hwSem \in Int /\ slips \in Int /\ cast.slips \in Nat
        /\ hwSem >= 0 /\ slips >= 0 /\ slips <= cast.slips
        /\ hwSem + Cardinality(Owners) + (IF disabling = "up" THEN 1 ELSE 0) = 1 + slips
    BY <1>1, CastInBounds DEF EngineInv, SemaphoreCounts, Types
  <2>6. hwSem \in 0 .. 1 + slips /\ slips \in 0 .. cast.slips
    BY <2>5, OwnersFinite
  <2> QED BY <1>1, <2>1, <2>3, <2>4, <2>6 DEF Types, TypeOK
<1>2. Types /\ LocalsSet /\ ContextInv /\ CacheInv /\ EngineInv /\ [Next]_vars
        => ContextInv' /\ CacheInv' /\ EngineInv'
  BY ContextStep, CacheStep, EngineStep
<1>3. Init => ContextInv /\ CacheInv /\ EngineInv
  BY InitContext, InitCache, InitEngine
<1> QED BY <1>1, <1>2, <1>3, InitTypes, StepTypes, PTL DEF Spec

=============================================================================
