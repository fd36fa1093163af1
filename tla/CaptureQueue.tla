---------------------------- MODULE CaptureQueue ----------------------------
(***************************************************************************)
(* What a capture channel promises: recorded pictures reach the client in  *)
(* the order they were recorded, each at most once, and none disappears    *)
(* from the queue except by a delivery, a flush or a close.                *)
(***************************************************************************)
EXTENDS Integers, Sequences

CONSTANTS Pictures, NoPicture

VARIABLES mode,      \* "closed", "open", "running", "held"
          recorded,  \* pictures recorded and not yet delivered, oldest first
          delivered  \* the picture the client was handed last

vars == <<mode, recorded, delivered>>

Init == mode = "closed" /\ recorded = << >> /\ delivered = NoPicture

Open ==
  /\ mode = "closed" /\ mode' = "open"
  /\ UNCHANGED <<recorded, delivered>>

Run == mode = "open" /\ mode' = "running" /\ UNCHANGED <<recorded, delivered>>

\* A picture is complete (also the one that was coming in at a pause).
Record ==
  /\ mode \in {"running", "held"}
  /\ \E p \in Pictures : recorded' = Append(recorded, p)
  /\ UNCHANGED <<mode, delivered>>

\* The client gets the oldest picture.
Deliver ==
  /\ mode \in {"running", "held"}
  /\ recorded # << >>
  /\ delivered' = Head(recorded)
  /\ recorded' = Tail(recorded)
  /\ UNCHANGED mode

\* A refused peer-to-peer request still uses up the oldest picture.
Forfeit ==
  /\ mode \in {"running", "held"}
  /\ recorded # << >>
  /\ recorded' = Tail(recorded)
  /\ UNCHANGED <<mode, delivered>>

\* A delivery that ends after the channel was closed carries no promise.
DeliverLate ==
  /\ mode = "closed"
  /\ delivered' \in Pictures \cup {NoPicture}
  /\ UNCHANGED <<mode, recorded>>

Hold == mode = "running" /\ mode' = "held" /\ UNCHANGED <<recorded, delivered>>

Release == mode = "held" /\ mode' = "running" /\ UNCHANGED <<recorded, delivered>>

\* A flush drops the newest pictures, up to some older one.
Discard ==
  /\ mode \in {"running", "held"}
  /\ \E n \in 0 .. Len(recorded) : recorded' = SubSeq(recorded, 1, n)
  /\ UNCHANGED <<mode, delivered>>

Close == mode # "closed" /\ mode' = "closed" /\ recorded' = << >> /\ UNCHANGED delivered

Next ==
  \/ Open \/ Run \/ Record \/ Deliver \/ DeliverLate \/ Forfeit \/ Hold \/ Release
  \/ Discard \/ Close

Spec == Init /\ [][Next]_vars
=============================================================================
