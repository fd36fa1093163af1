--------------------------- MODULE StreamEngineMC ---------------------------
(***************************************************************************)
(* StreamEngine on a small ring, and the refinement of StreamQueue.        *)
(***************************************************************************)
EXTENDS StreamEngine, Sequences

QueueLength == Ahead(tail, head)

\* The slot of the i-th buffer of a queue that begins in slot t, and the place
\* in the queue of the buffer in slot i.
SlotAt(t, i) == IF t + i <= NumBuffers THEN t + i - 1 ELSE t + i - 1 - NumBuffers
Position(i) == Ahead(tail, i) + 1

StatusOf(f) == IF "completed" \in f    THEN "done"
               ELSE IF "flushed" \in f THEN "flushed"
               ELSE IF "linked" \in f  THEN "committed"
               ELSE "waiting"

\* The place of the buffer the hardware has; once it is off, of the one the
\* handler under way takes it to have.
Air == IF hwOn THEN Position(HwBuffer)
       ELSE IF isr \in {"complete", "move"} /\ Linked(next) THEN Position(next)
       ELSE 0

Fifo == [i \in 1 .. QueueLength |-> StatusOf(flags[SlotAt(tail, i)])]

StreamFifo == INSTANCE StreamQueue WITH
  Capacity <- NumBuffers - 1,
  fifo     <- Fifo,
  air      <- Air,
  running  <- hwOn,
  void     <- Exposed

\* The stream is a first-in first-out queue of buffers, as long as it is
\* not exposed: commands, interrupt, flags and descriptor chain together lose,
\* repeat and reorder nothing.
QueueSpec == StreamFifo!Spec
=============================================================================
