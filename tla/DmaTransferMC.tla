--------------------------- MODULE DmaTransferMC ---------------------------
(***************************************************************************)
(* The instances of DmaTransfer that are model-checked, in one run: three  *)
(* threads after two contexts; two that transfer one buffer while a third  *)
(* locks and unlocks it; two that transfer different buffers with a cache  *)
(* that has room for one; two while dmaDisable waits for the hardware in   *)
(* vain.  Contexts are alike, and so are the threads without a part of     *)
(* their own; symmetry leaves invariants, all that is checked here, as     *)
(* they are.                                                               *)
(***************************************************************************)
EXTENDS DmaTransfer, TLC

CONSTANTS t1, t2, t3, b1, b2

Contention == [callers |-> {t1, t2, t3}, lockers |-> {}, bufs |-> {b1}, modes |-> {},
               faults |-> TRUE, slips |-> 0]
OneBuffer  == [callers |-> {t2, t3}, lockers |-> {t1}, bufs |-> {b1}, modes |-> {"map"},
               faults |-> FALSE, slips |-> 0]
FullCache  == [callers |-> {t2, t3}, lockers |-> {}, bufs |-> {b1, b2}, modes |-> {"lock"},
               faults |-> TRUE, slips |-> 0]
InVain     == [callers |-> {t2, t3}, lockers |-> {}, bufs |-> {b1}, modes |-> {},
               faults |-> TRUE, slips |-> 1]

AllCasts == {Contention, OneBuffer, FullCache, InVain}

Alike == Permutations({t2, t3}) \cup Permutations(Contexts)
=============================================================================
