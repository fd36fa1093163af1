-------------------------- MODULE AutoCircCaptureMC --------------------------
(***************************************************************************)
(* AutoCircCapture on small rings, shown to implement CaptureQueue.        *)
(***************************************************************************)
EXTENDS AutoCircCapture, Sequences

\* The members of a set of frames that come before frame f ahead of frame a.
Before(S, a, f) == {g \in S : Ahead(a, g) < Ahead(a, f)}

\* The members of S in the order in which they lie ahead of frame a.
InOrder(S, a) ==
  [i \in 1 .. Cardinality(S) |-> CHOOSE f \in S : Cardinality(Before(S, a, f)) = i - 1]

\* Between a VBI and its ISR the frame that was active is complete but not
\* marked; after a drop the active frame is marked but holds the picture coming
\* in: neither counts as recorded.
Ready == {f \in Frames : validCount[f] # 0 /\ f # activeFrame}

Mode ==
  CASE state \in {"DISABLED", "STOPPING"} -> "closed"
    [] state \in {"INIT", "STARTING"} -> "open"
    [] state = "RUNNING" -> "running"
    [] state = "PAUSED" -> "held"

\* The pictures recorded, oldest first.
Recording ==
  IF Started
  THEN LET frames == InOrder(Ready, activeFrame)
       IN  [i \in DOMAIN frames |-> content[frames[i]]]
  ELSE << >>

Queue == INSTANCE CaptureQueue WITH
  NoPicture <- Stale,
  mode <- Mode, recorded <- Recording

\* Pictures are fetched once, in the order they came in, and only deliveries,
\* flushes and the end of the session take them out of the queue.
QueueSpec == Queue!Spec
=============================================================================
