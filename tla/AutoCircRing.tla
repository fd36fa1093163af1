---------------------------- MODULE AutoCircRing ----------------------------
(***************************************************************************)
(* The ring of device frame buffers an AutoCirculate channel walks         *)
(* (src/driver/linux/ntv2driverautocirculate.c): the KAUTO_ helpers and    *)
(* the scans of OemAutoCirculateFindNextAvailFrame.  Positions on the ring *)
(* are compared by their distance ahead of a reference frame, so that a    *)
(* scan is "the nearest member of a set" and needs no recursion.           *)
(***************************************************************************)
EXTENDS Integers

CONSTANTS StartFrame,   \* pAuto->startFrame
          EndFrame      \* pAuto->endFrame

ASSUME RangeAssumption ==
  /\ StartFrame \in Nat
  /\ EndFrame \in Nat
  /\ StartFrame <= EndFrame

Frames == StartFrame .. EndFrame

\* NTV2_INVALID_FRAME: no frame, and the activeFrame of a channel not started.
InvalidFrame == -1

NextFrame(f) == IF f < EndFrame THEN f + 1 ELSE StartFrame

PrevFrame(f) == IF f > StartFrame THEN f - 1 ELSE EndFrame

\* How many steps of NextFrame lead from frame a to frame b.
Ahead(a, b) == IF a <= b THEN b - a ELSE b - a + (EndFrame - StartFrame) + 1

\* The member of S that a forward scan starting at (and including) frame
\* "from" meets first; InvalidFrame when there is none.
FirstFrom(from, S) ==
  IF S = {} THEN InvalidFrame
  ELSE CHOOSE f \in S : \A g \in S : Ahead(from, f) <= Ahead(from, g)

\* The member of S a backward scan starting at "from" meets first.
FirstBack(from, S) ==
  IF S = {} THEN InvalidFrame
  ELSE CHOOSE f \in S : \A g \in S : Ahead(f, from) <= Ahead(g, from)

\* A frame number read from a frame register, forced into the ring.
IntoRange(f) == IF f \in Frames THEN f ELSE StartFrame
=============================================================================
