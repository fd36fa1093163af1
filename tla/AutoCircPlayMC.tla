--------------------------- MODULE AutoCircPlayMC ---------------------------
(***************************************************************************)
(* AutoCircPlay on small rings: the refinement of PlayoutQueue, and the    *)
(* buffer level the driver reports.                                        *)
(***************************************************************************)
EXTENDS AutoCircPlay, Sequences, FiniteSets

RangeSize == EndFrame - StartFrame + 1

\* The i-th frame ahead of frame f on the ring, 0 being f itself.
Nth(f, i) == IF f + i > EndFrame THEN f + i - RangeSize ELSE f + i

\* The queued frames in the order the ISR will reach them.
Backlog ==
  LET first == IF state = "INIT" THEN StartFrame ELSE NextFrame(outputFrame)
      most  == IF state = "INIT" THEN RangeSize ELSE RangeSize - 1
      n     == Cardinality({i \in 0 .. most - 1 :
                              \A j \in 0 .. i : validCount[Nth(first, j)] # 0})
  IN  [i \in 1 .. n |-> Nth(first, i - 1)]

Shot(f) ==
  [pic     |-> IF ~pending[f] /\ content[f] \in Pictures THEN content[f] ELSE Stale,
   left    |-> validCount[f],
   arrived |-> ~pending[f]]

NoShot == [pic |-> Stale, left |-> 0, arrived |-> TRUE]

Mode ==
  CASE state \in {"DISABLED", "STOPPING"} -> "closed"
    [] state = "INIT" -> "loading"
    [] state \in {"STARTING", "RUNNING"} -> "playing"
    [] state = "PAUSED" -> "held"

\* The shot the output register names, and the shots behind it.
Committed == IF Started THEN Shot(outputFrame) ELSE NoShot

Queued ==
  IF Started \/ state = "INIT" THEN [i \in DOMAIN Backlog |-> Shot(Backlog[i])]
  ELSE << >>

Queue == INSTANCE PlayoutQueue WITH
  NoPicture  <- Stale,
  Extensions <- PrerollCounts,
  mode <- Mode, head <- Committed, queue <- Queued

\* The channel is a first-in first-out queue of shots: register, ring, ISR and
\* transfer thread together lose, repeat and reorder nothing.
QueueSpec == Queue!Spec

\* The VBIs the frames of S are still to be shown: as many pairs as the sum of
\* their validCounts.
VbisLeft(S) == UNION {{f} \X (1 .. validCount[f]) : f \in S}

\* Mutant: no case for INIT, where there is no active frame yet.
BufferLevelFromActive ==
  LET run == {i \in 1 .. RangeSize - 1 :
                \A j \in 1 .. i : validCount[Nth(activeFrame, j)] # 0}
  IN  IF activeFrame \notin Frames THEN 0
      ELSE Cardinality(VbisLeft({Nth(activeFrame, i) : i \in run \cup {0}}))

\* OemAutoCirculateGetBufferLevel, playback: the repeats of the active frame
\* (startFrame in INIT) and of the frames after it up to the first empty one.
BufferLevel ==
  LET first == IF state = "INIT" THEN StartFrame ELSE activeFrame
      run   == {i \in 1 .. RangeSize - 1 :
                  \A j \in 1 .. i : validCount[Nth(first, j)] # 0}
  IN  IF first \notin Frames THEN 0
      ELSE Cardinality(VbisLeft({Nth(first, i) : i \in run \cup {0}}))

\* The level a client polls (CanAcceptMoreOutputFrames) is the number of VBIs
\* all queued frames will take: nothing queued is invisible to it.
BufferLevelExact ==
  Started \/ state = "INIT" => BufferLevel = Cardinality(VbisLeft(Frames))
=============================================================================
