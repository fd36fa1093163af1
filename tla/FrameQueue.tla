----------------------------- MODULE FrameQueue -----------------------------
(***************************************************************************)
(* What AJACircularBuffer promises its two threads: a bounded first-in     *)
(* first-out queue.  A frame counts from when its producer is done with it *)
(* until its consumer is, and belongs to the consumer alone meanwhile.     *)
(***************************************************************************)
EXTENDS Integers, Sequences

CONSTANTS Capacity, Data, Nothing

VARIABLES
  fifo,     \* filled frames, oldest first
  reading   \* what the consumer has before it, or Nothing

vars == <<fifo, reading>>

Init == fifo = << >> /\ reading = Nothing

Put(d) ==
  /\ Len(fifo) + (IF reading = Nothing THEN 0 ELSE 1) < Capacity
  /\ fifo' = Append(fifo, d)
  /\ UNCHANGED reading

Take ==
  /\ reading = Nothing /\ fifo # << >>
  /\ reading' = Head(fifo)
  /\ fifo' = Tail(fifo)

GiveBack ==
  /\ reading # Nothing
  /\ reading' = Nothing
  /\ UNCHANGED fifo

Next == (\E d \in Data : Put(d)) \/ Take \/ GiveBack

Spec == Init /\ [][Next]_vars
=============================================================================
