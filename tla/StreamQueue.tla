----------------------------- MODULE StreamQueue -----------------------------
(***************************************************************************)
(* What a DMA stream promises its client: a first-in first-out queue of    *)
(* buffers, each transferred in its turn or withdrawn, newest first, and   *)
(* given back in the order it was queued.  At most two buffers are in the  *)
(* hands of the hardware: the one it transfers and the one to follow.      *)
(***************************************************************************)
EXTENDS Integers, Sequences

CONSTANT Capacity

VARIABLES
  fifo,     \* the status of each buffer, oldest first
  air,      \* the position of the buffer the hardware has, 0 for none
  running,  \* the hardware transfers it, over and over until told otherwise
  void      \* the stream is exposed: nothing is promised

vars == <<fifo, air, running, void>>

Status == {"waiting", "committed", "done", "flushed"}

Where(s) == {i \in DOMAIN fifo : fifo[i] = s}

TypeOK ==
  /\ fifo \in Seq(Status) /\ Len(fifo) <= Capacity
  /\ air \in 0 .. Len(fifo)
  /\ running \in BOOLEAN /\ void \in BOOLEAN

Init == fifo = << >> /\ air = 0 /\ running = FALSE /\ void = FALSE

Queue ==
  /\ Len(fifo) < Capacity
  /\ fifo' = Append(fifo, "waiting")
  /\ UNCHANGED <<air, running>>

\* The oldest waiting buffer is the next one the hardware gets.
Commit ==
  \E i \in Where("waiting") :
    /\ \A j \in Where("waiting") : i <= j
    /\ fifo' = [fifo EXCEPT ![i] = "committed"]

\* One buffer may follow the one the hardware has.  The handler that is under
\* way at a halt may still say which, even of the first buffer queued after it.
Follow ==
  /\ IF running THEN Where("committed") = {air}
                ELSE \A i, j \in Where("committed") : i = j
  /\ Commit
  /\ UNCHANGED <<air, running>>

\* The first transfer is that of the oldest buffer that is neither done nor
\* withdrawn.
Begin ==
  /\ ~running /\ running' = TRUE
  /\ Commit \/ UNCHANGED fifo
  /\ Where("committed")' = {air'}
  /\ \A i \in Where("waiting") : air' <= i

\* The hardware goes on to the buffer that follows.
Advance ==
  /\ running
  /\ air' \in {i \in Where("committed") : i > air}
  /\ UNCHANGED <<fifo, running>>

\* A buffer is done once the hardware has left it.
Done ==
  /\ \E i \in Where("committed") : i < air /\ fifo' = [fifo EXCEPT ![i] = "done"]
  /\ UNCHANGED <<air, running>>

Withdraw ==
  /\ \E i \in Where("waiting") :
       /\ \A j \in Where("waiting") : j <= i
       /\ fifo' = [fifo EXCEPT ![i] = "flushed"]
  /\ UNCHANGED <<air, running>>

\* The oldest buffer goes back to the client, but never one the hardware has.
Release ==
  /\ fifo # << >> /\ Head(fifo) \in {"done", "flushed"}
  /\ running => air # 1
  /\ fifo' = Tail(fifo)
  /\ air' = IF air > 0 THEN air - 1 ELSE 0
  /\ UNCHANGED running

\* A halt may forget where the hardware was.
Halt == running' = FALSE /\ air' \in 0 .. air /\ UNCHANGED fifo

WithdrawAll ==
  /\ ~running
  /\ fifo' = [i \in DOMAIN fifo |-> IF fifo[i] = "done" THEN "done" ELSE "flushed"]
  /\ UNCHANGED <<air, running>>

Clear == ~running /\ fifo' = << >> /\ air' = 0 /\ UNCHANGED running

Promise == \/ Queue \/ Follow \/ Begin \/ Advance \/ Done \/ Withdraw \/ Release
           \/ Halt \/ WithdrawAll \/ Clear

Keep == ~void /\ Promise /\ UNCHANGED void

\* Once exposed anything may happen, until the queue is clean and empty again.
Forfeit == void' = TRUE

Renew == void /\ void' = FALSE /\ fifo' = << >> /\ air' = 0 /\ running' = FALSE

Next == Keep \/ Forfeit \/ Renew

Spec == Init /\ [][Next]_vars
=============================================================================
