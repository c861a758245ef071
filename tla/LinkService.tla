----------------------------- MODULE LinkService -----------------------------
(***************************************************************************)
(* What the acknowledged data link promises layer 3 of two entities: the   *)
(* messages an entity hands over reach the other whole, in order and once, *)
(* and none is given up unless the layer 3 that sent it is told that the   *)
(* link is gone or in error (or has itself released it).                   *)
(***************************************************************************)
EXTENDS Integers, Sequences

CONSTANTS Entities, Messages

VARIABLES
  waiting,  \* messages of an entity that may still be delivered
  got,      \* messages delivered to the layer 3 of an entity
  view,     \* what its layer 3 knows of the link
  failed    \* its layer 3 was told of an error

svars == <<waiting, got, view, failed>>

Others(e) == Entities \ {e}
Sound(e) == view[e] = "up" /\ ~failed[e]
Pieces(s) == {SubSeq(s, n, k) : n \in 1..Len(s) + 1, k \in 0..Len(s)}

Init ==
  /\ waiting = [e \in Entities |-> <<>>]
  /\ got = [e \in Entities |-> <<>>]
  /\ view = [e \in Entities |-> "down"]
  /\ failed = [e \in Entities |-> FALSE]

Accept(e) == \E m \in Messages :
  /\ Sound(e)
  /\ waiting' = [waiting EXCEPT ![e] = Append(@, m)]
  /\ UNCHANGED <<got, view, failed>>

(* The receiver may find an error in the acknowledgement that comes along. *)
Deliver(e) == \E r \in Others(e) :
  /\ waiting[e] # <<>>
  /\ got' = [got EXCEPT ![r] = Append(@, Head(waiting[e]))]
  /\ waiting' = [waiting EXCEPT ![e] = Tail(@)]
  /\ view' = view
  /\ \E b \in BOOLEAN : failed' = [failed EXCEPT ![r] = b]

(* Layer 3 of e is told something of the link, or releases it; messages of
   an entity that then has no sound link may be given up. *)
Report(e) ==
  /\ \A x \in Others(e) : view'[x] = view[x] /\ failed'[x] = failed[x]
  /\ \A x \in Entities :
       \/ waiting'[x] = waiting[x]
       \/ waiting'[x] \in Pieces(waiting[x]) /\ ~(view'[x] = "up" /\ ~failed'[x])
  /\ got' = got

Next == \E e \in Entities : Accept(e) \/ Deliver(e) \/ Report(e)

Spec == Init /\ [][Next]_svars
=============================================================================
