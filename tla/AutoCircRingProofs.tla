------------------------- MODULE AutoCircRingProofs -------------------------
(***************************************************************************)
(* Facts about the ring of frame buffers, for every frame range: stepping  *)
(* and scanning stay in the ring, and a scan returns the nearest member.   *)
(***************************************************************************)
EXTENDS AutoCircRing, WellFoundedInduction, TLAPS

\* Frame numbers are natural numbers, and InvalidFrame is none of them.
LEMMA FramesAreNats == Frames \subseteq Nat /\ InvalidFrame \notin Frames
  BY RangeAssumption DEF Frames, InvalidFrame

\* KAUTO_NEXTFRAME and KAUTO_PREVFRAME stay in the ring and undo each other.
LEMMA StepsInRing ==
  ASSUME NEW f \in Frames
  PROVE  /\ NextFrame(f) \in Frames
         /\ PrevFrame(f) \in Frames
         /\ NextFrame(PrevFrame(f)) = f
         /\ PrevFrame(NextFrame(f)) = f
  BY RangeAssumption DEF Frames, NextFrame, PrevFrame

\* A frame number read from a register is forced into the ring.
LEMMA IntoRangeInRing ==
  ASSUME NEW f
  PROVE  /\ IntoRange(f) \in Frames
         /\ f \in Frames => IntoRange(f) = f
  BY RangeAssumption DEF Frames, IntoRange

\* The distance is a position on the ring, 0 only from a frame to itself.
LEMMA AheadIsDistance ==
  ASSUME NEW a \in Frames, NEW b \in Frames
  PROVE  /\ Ahead(a, b) \in 0 .. EndFrame - StartFrame
         /\ Ahead(a, b) = 0 <=> a = b
  BY RangeAssumption DEF Frames, Ahead

\* Two frames as far behind a third are the same.
LEMMA SameDistance ==
  ASSUME NEW a \in Frames, NEW f \in Frames, NEW g \in Frames
  PROVE  /\ Ahead(f, a) = Ahead(g, a) => f = g
         /\ Ahead(a, f) = Ahead(a, g) => f = g
  BY RangeAssumption DEF Frames, Ahead

\* Away from the point of reference, a step ahead adds one to the distance.
LEMMA AheadOfNext ==
  ASSUME NEW a \in Frames, NEW f \in Frames, f # a
  PROVE  Ahead(NextFrame(a), NextFrame(f)) = Ahead(NextFrame(a), f) + 1
  BY RangeAssumption DEF Frames, Ahead, NextFrame

LessThan == {p \in Nat \X Nat : p[1] < p[2]}

\* The order of the naturals, as a set of pairs, is well-founded.
LEMMA LessThanWellFounded == IsWellFoundedOn(LessThan, Nat)
  BY NatLessThanWellFounded, Zenon DEF LessThan, OpToRel

\* A non-empty set of frames has a member nearest ahead of any frame.
LEMMA NearestExists ==
  ASSUME NEW from \in Frames, NEW S \in SUBSET Frames, S # {}
  PROVE  \E f \in S : \A g \in S : Ahead(from, f) <= Ahead(from, g)
<1> DEFINE T == {Ahead(from, g) : g \in S}
<1>1. \A g \in S : Ahead(from, g) \in Nat
  BY AheadIsDistance, RangeAssumption DEF Frames
<1>2. T \subseteq Nat /\ T # {}
  BY <1>1
<1>3. PICK x \in T : \A y \in T : ~ (<<y, x>> \in LessThan)
  <2> HIDE DEF T
  <2> QED BY <1>2, LessThanWellFounded, WFMin
<1>4. PICK f \in S : x = Ahead(from, f)
  OBVIOUS
<1>5. ASSUME NEW g \in S PROVE Ahead(from, f) <= Ahead(from, g)
  <2>1. ~ (<<Ahead(from, g), x>> \in LessThan)
    BY <1>3
  <2>2. ~ (Ahead(from, g) < x)
    BY <2>1, <1>1, <1>4 DEF LessThan
  <2> QED BY <2>2, <1>1, <1>4
<1> QED BY <1>5

\* A forward scan finds the nearest member of a set, and fails only when the
\* set is empty.
LEMMA FirstFromNearest ==
  ASSUME NEW from \in Frames, NEW S \in SUBSET Frames
  PROVE  /\ FirstFrom(from, S) = InvalidFrame <=> S = {}
         /\ S # {} => /\ FirstFrom(from, S) \in S
                      /\ \A g \in S : Ahead(from, FirstFrom(from, S)) <= Ahead(from, g)
<1>1. InvalidFrame \notin Frames
  BY RangeAssumption DEF InvalidFrame, Frames
<1>2. CASE S = {}
  BY <1>2 DEF FirstFrom
<1>3. CASE S # {}
  BY <1>1, <1>3, NearestExists DEF FirstFrom
<1> QED BY <1>2, <1>3

\* What a forward scan passed over is no member.
LEMMA PassedOver ==
  ASSUME NEW from \in Frames, NEW S \in SUBSET Frames, S # {},
         NEW f \in Frames, Ahead(from, f) < Ahead(from, FirstFrom(from, S))
  PROVE  f \notin S
<1> DEFINE n == FirstFrom(from, S)
<1>1. n \in S /\ \A g \in S : Ahead(from, n) <= Ahead(from, g)
  BY FirstFromNearest
<1>2. Ahead(from, n) \in Int /\ Ahead(from, f) \in Int
  BY <1>1, AheadIsDistance
<1> QED BY <1>1, <1>2

\* The frame before the one a scan found is no member, unless the scan began
\* on the frame found.
LEMMA BeforeFirstFrom ==
  ASSUME NEW a \in Frames, NEW S \in SUBSET Frames, a \notin S, S # {}
  PROVE  PrevFrame(FirstFrom(NextFrame(a), S)) \notin S
<1> DEFINE n == FirstFrom(NextFrame(a), S)
           p == PrevFrame(n)
<1>1. n \in S /\ (\A g \in S : Ahead(NextFrame(a), n) <= Ahead(NextFrame(a), g))
  BY FirstFromNearest, StepsInRing
<1>2. p \in Frames /\ NextFrame(p) = n
  BY <1>1, StepsInRing
<1>3. SUFFICES ASSUME p \in S PROVE FALSE
  OBVIOUS
<1>4. Ahead(NextFrame(a), n) = Ahead(NextFrame(a), p) + 1
  BY <1>2, <1>3, AheadOfNext
<1>5. Ahead(NextFrame(a), n) <= Ahead(NextFrame(a), p)
  BY <1>1, <1>3
<1>6. Ahead(NextFrame(a), p) \in Int
  BY <1>2, AheadIsDistance, StepsInRing
<1> QED BY <1>4, <1>5, <1>6

\* From the frame after a, frame a itself is the last one a scan meets.
LEMMA ActiveIsLast ==
  ASSUME NEW a \in Frames, NEW f \in Frames, f # a
  PROVE  Ahead(NextFrame(a), f) < Ahead(NextFrame(a), a)
  BY RangeAssumption DEF Frames, Ahead, NextFrame

\* Seen from the next frame every frame is one step nearer, but the first is
\* now the last.
LEMMA AheadFromNext ==
  ASSUME NEW a \in Frames, NEW f \in Frames
  PROVE  Ahead(NextFrame(a), f) = IF f = a THEN EndFrame - StartFrame ELSE Ahead(a, f) - 1
  BY RangeAssumption DEF Frames, Ahead, NextFrame

\* Seen from the next frame every frame behind is one step further, but that
\* frame itself is no step away; and it was the furthest.
LEMMA BehindNext ==
  ASSUME NEW a \in Frames, NEW f \in Frames
  PROVE  /\ Ahead(f, NextFrame(a)) = IF f = NextFrame(a) THEN 0 ELSE Ahead(f, a) + 1
         /\ Ahead(NextFrame(a), a) = EndFrame - StartFrame
         /\ Ahead(f, a) = EndFrame - StartFrame => f = NextFrame(a)
  BY RangeAssumption DEF Frames, Ahead, NextFrame

\* What is nearer ahead of the next frame is further behind a frame.
LEMMA AheadIsBehind ==
  ASSUME NEW a \in Frames, NEW f \in Frames
  PROVE  Ahead(f, a) = EndFrame - StartFrame - Ahead(NextFrame(a), f)
  BY RangeAssumption DEF Frames, Ahead, NextFrame

\* From the first frame of the range the distance is the difference.
LEMMA AheadFromStart ==
  ASSUME NEW f \in Frames
  PROVE  StartFrame \in Frames /\ Ahead(StartFrame, f) = f - StartFrame
  BY RangeAssumption DEF Frames, Ahead

\* The frame behind a is one step away, unless it is a.
LEMMA BehindIsOneAway ==
  ASSUME NEW a \in Frames
  PROVE  IF StartFrame = EndFrame THEN PrevFrame(a) = a
         ELSE PrevFrame(a) # a /\ Ahead(PrevFrame(a), a) = 1
  BY RangeAssumption DEF Frames, Ahead, PrevFrame

\* A non-empty set of frames has a member nearest behind any frame.
LEMMA NearestBehindExists ==
  ASSUME NEW from \in Frames, NEW S \in SUBSET Frames, S # {}
  PROVE  \E f \in S : \A g \in S : Ahead(f, from) <= Ahead(g, from)
<1> DEFINE T == {Ahead(g, from) : g \in S}
<1>1. \A g \in S : Ahead(g, from) \in Nat
  BY AheadIsDistance, RangeAssumption DEF Frames
<1>2. T \subseteq Nat /\ T # {}
  BY <1>1
<1>3. PICK x \in T : \A y \in T : ~ (<<y, x>> \in LessThan)
  <2> HIDE DEF T
  <2> QED BY <1>2, LessThanWellFounded, WFMin
<1>4. PICK f \in S : x = Ahead(f, from)
  OBVIOUS
<1>5. ASSUME NEW g \in S PROVE Ahead(f, from) <= Ahead(g, from)
  <2>1. ~ (<<Ahead(g, from), x>> \in LessThan)
    BY <1>3
  <2>2. ~ (Ahead(g, from) < x)
    BY <2>1, <1>1, <1>4 DEF LessThan
  <2> QED BY <2>2, <1>1, <1>4
<1> QED BY <1>5

\* A backward scan finds the nearest member behind, and fails only when the
\* set is empty.
LEMMA FirstBackNearest ==
  ASSUME NEW from \in Frames, NEW S \in SUBSET Frames
  PROVE  /\ FirstBack(from, S) = InvalidFrame <=> S = {}
         /\ S # {} => /\ FirstBack(from, S) \in S
                      /\ \A g \in S : Ahead(FirstBack(from, S), from) <= Ahead(g, from)
<1>1. InvalidFrame \notin Frames
  BY RangeAssumption DEF InvalidFrame, Frames
<1>2. CASE S = {}
  BY <1>2 DEF FirstBack
<1>3. CASE S # {}
  BY <1>1, <1>3, NearestBehindExists DEF FirstBack
<1> QED BY <1>2, <1>3

\* A backward scan that begins on a member stops there.
LEMMA FirstBackOfMember ==
  ASSUME NEW from \in Frames, NEW S \in SUBSET Frames, from \in S
  PROVE  FirstBack(from, S) = from
<1> DEFINE n == FirstBack(from, S)
<1>1. n \in S /\ Ahead(n, from) <= Ahead(from, from)
  BY FirstBackNearest
<1>2. Ahead(from, from) = 0 /\ Ahead(n, from) \in 0 .. EndFrame - StartFrame
  BY <1>1, AheadIsDistance
<1>3. Ahead(n, from) = 0
  <2> HIDE DEF n
  <2> QED BY <1>1, <1>2, RangeAssumption
<1> QED BY <1>1, <1>3, AheadIsDistance
=============================================================================
