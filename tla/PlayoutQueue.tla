---------------------------- MODULE PlayoutQueue ----------------------------
(***************************************************************************)
(* What a playout channel promises its client, without the ring, the       *)
(* registers or the transfer thread: a first-in first-out queue of shots.  *)
(* A shot has a picture, the number of VBIs it is still to be shown and    *)
(* whether its picture has arrived.  The shot at the head is committed: it *)
(* is the one the output register names.                                   *)
(***************************************************************************)
EXTENDS Integers, Sequences

CONSTANTS Pictures, NoPicture,
          Repeats,      \* how often a client asks for a shot to be shown
          Extensions    \* by how much it may lengthen a shot

VARIABLES mode,    \* "closed", "loading", "playing", "held"
          head,    \* the committed shot
          queue    \* the shots behind it

vars == <<mode, head, queue>>

Shot == [pic : Pictures \cup {NoPicture}, left : Nat, arrived : BOOLEAN]
Blank(p) == [pic |-> p, left |-> 0, arrived |-> TRUE]
NoShot == Blank(NoPicture)

\* The shot s with n VBIs left.
Lasting(s, n) == [pic |-> s.pic, left |-> n, arrived |-> s.arrived]

Init == mode = "closed" /\ head = NoShot /\ queue = << >>

Open ==
  /\ mode = "closed" /\ mode' = "loading"
  /\ head' = NoShot /\ queue' = << >>

\* What a transfer can add: a client's picture, the place of one that a peer
\* owes, or that of a peer-to-peer transfer which failed, and owes nothing.
Transferred == [pic : Pictures, left : Repeats, arrived : {TRUE}]
Announced == [pic : {NoPicture}, left : Repeats, arrived : {FALSE}]
Failed == [pic : {NoPicture}, left : Repeats, arrived : {TRUE}]

\* A client's frame is complete, or a peer's is announced or has failed.
Enqueue ==
  /\ mode # "closed"
  /\ \E s \in Transferred \cup Announced \cup Failed : queue' = Append(queue, s)
  /\ UNCHANGED <<mode, head>>

Arrival(s, p) == [pic |-> p, left |-> s.left, arrived |-> TRUE]

\* A peer's picture arrives, in any order.
Arrive ==
  /\ UNCHANGED mode
  /\ \E p \in Pictures :
       \/ ~head.arrived /\ head' = Arrival(head, p) /\ UNCHANGED queue
       \/ \E i \in 1 .. Len(queue) :
            /\ ~queue[i].arrived
            /\ queue' = [queue EXCEPT ![i] = Arrival(queue[i], p)]
            /\ UNCHANGED head

Start ==
  /\ mode = "loading" /\ mode' = "playing"
  /\ IF queue = << >>
     THEN \E p \in Pictures \cup {NoPicture} :   \* whatever the frame held
            head' = Blank(p) /\ queue' = << >>
     ELSE head' = Head(queue) /\ queue' = Tail(queue)

\* One VBI: the committed shot uses up a repeat; when none is left the next
\* shot is committed if its picture has arrived, else the last one stays.
Tick ==
  /\ mode = "playing"
  /\ head.arrived
  /\ LET left == IF head.left > 0 THEN head.left - 1 ELSE 0
         stay == head' = Lasting(head, left)
     IN  IF left = 0 /\ queue # << >> /\ Head(queue).arrived
         THEN head' = Head(queue) /\ queue' = Tail(queue)
         ELSE stay /\ UNCHANGED queue
  /\ UNCHANGED mode

Hold == mode = "playing" /\ mode' = "held" /\ UNCHANGED <<head, queue>>

Release == mode = "held" /\ mode' = "playing" /\ UNCHANGED <<head, queue>>

\* Throw away everything behind the committed shot.
Discard == mode # "closed" /\ queue' = << >> /\ UNCHANGED <<mode, head>>

\* Show the last shot longer; lengthening the committed one ends a hold if it
\* is on the air already.
Extend ==
  /\ mode \in {"playing", "held"}
  /\ \E n \in Extensions :
       IF queue = << >>
       THEN /\ head' = Lasting(head, head.left + n)
            /\ mode' \in {mode, "playing"} /\ UNCHANGED queue
       ELSE /\ queue' = [queue EXCEPT ![Len(queue)] = Lasting(@, @.left + n)]
            /\ UNCHANGED <<mode, head>>

Close == mode # "closed" /\ mode' = "closed" /\ head' = NoShot /\ queue' = << >>

Next ==
  \/ Open \/ Enqueue \/ Arrive \/ Start \/ Tick \/ Hold \/ Release
  \/ Discard \/ Extend \/ Close

Spec == Init /\ [][Next]_vars
=============================================================================
